--------------------------- MODULE MCBuildHistory ---------------------------
(* Two builds and pages of one: enough for a deletion between two pages to *)
(* move a build that was not read yet, with room for the scans after it.   *)
EXTENDS BuildHistory, TLC

CONSTANTS b1, b2

TwoBuilds == {b1, b2}
UpToOneBehind == {-1, 0}
BuildsAlike == Permutations(TwoBuilds)
=============================================================================
