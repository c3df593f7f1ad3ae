--------------------------- MODULE MCScanRefresh ---------------------------
(* Small instances of ScanRefresh for TLC.                                 *)
EXTENDS ScanRefinement, HistoryReaders

NoFaults == {}
Restarts == {"restart"}
AllFaults == {"restart", "crash", "db"}

NoBuilds == [b \in {} |-> {}]
Image == [b \in {"b1"} |-> {"image"}]
OtherImage == [b \in {"b2"} |-> {"image"}]
OneMoreBuild == [b \in {"b1", "b2"} |-> IF b = "b1" THEN {"image"} ELSE {}]

TwoContents == {Image, OtherImage}
ThreeContents == {Image, OtherImage, OneMoreBuild}
=============================================================================
