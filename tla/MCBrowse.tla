------------------------------ MODULE MCBrowse ------------------------------
(***************************************************************************)
(* Two TeamCity projects, the first shared by the configurations of three  *)
(* repositories of two projects; one configuration has two builds, and one *)
(* mapping rule names a repository that does not exist.                    *)
(***************************************************************************)
EXTENDS Browse

MCHomeOf == [r1 |-> "p1", r2 |-> "p1", r3 |-> "p2", r4 |-> "p3", r5 |-> "none"]
MCProjectOf == [c1 |-> "t1", c2 |-> "t1", c3 |-> "t2"]
MCRunOf == [b1 |-> "c1", b2 |-> "c1", b3 |-> "c2"]
MCRecency == <<"b3", "b2", "b1">>
MCRules == [c1 |-> [mode |-> "none", repos |-> {}],
            c2 |-> [mode |-> "add", repos |-> {"r3"}],
            c3 |-> [mode |-> "replace", repos |-> {"r5", "gone"}]]
MCOrder == <<"p2", "p1", "p3", "b1", "b2", "b3", "c1", "c2", "c3", "r3", "r1", "r4", "r2", "r5", "t1", "t2">>
MCMatches == [q1 |-> {"r1", "r2", "r3", "p1"}, q2 |-> {"p1", "c1", "b3", "c2"}]

Roots(readable, repos) == [readable |-> readable, repos |-> repos]
MCWorlds ==
  {[repos |-> rs, roots |-> [c1 |-> x1, c2 |-> x2, c3 |-> Roots(TRUE, {})], outputs |-> os, failed |-> {"b1"}] :
     rs \in {{"r1", "r2", "r3", "r4", "r5"}, {"r1", "r3"}},
     x1 \in {Roots(FALSE, {}), Roots(TRUE, {}), Roots(TRUE, {"r1"}), Roots(TRUE, {"r1", "r2", "gone"})},
     x2 \in {Roots(FALSE, {}), Roots(TRUE, {"r2"}), Roots(TRUE, {"r2", "r3"})},
     os \in {{"b1"}, {"b3"}}}

MCFilters ==
  {NoFilter, [NoFilter EXCEPT !.failed = TRUE], [NoFilter EXCEPT !.recent = TRUE],
   [NoFilter EXCEPT !.image = "yes"], [NoFilter EXCEPT !.image = "no", !.project = "p1"],
   [NoFilter EXCEPT !.targetOnly = TRUE], [NoFilter EXCEPT !.project = "p1", !.tcProject = "t1"], [NoFilter EXCEPT !.issues = TRUE]}
=============================================================================
