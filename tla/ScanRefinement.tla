--------------------------- MODULE ScanRefinement ---------------------------
(***************************************************************************)
(* ScanRefresh implements AtomicScan as long as the process only stops in  *)
(* an orderly way: once the graph of a scan is committed the event loop    *)
(* reaches the end of refresh() without awaiting, so the remaining         *)
(* transactions are as good as done.                                       *)
(***************************************************************************)
EXTENDS ScanRefresh

(* The tasks whose outcome is decided: the graph is saved, or is kept. *)
Settling == {t \in Tasks : pc[t] \in {"snapshotting", "staleSnapshotting", "closing"}}

SettledSnapshots(t) ==
  IF pc[t] = "closing" THEN snapshots ELSE WithSnapshot(snapshots, work[t].id, work[t].nodes)

SettledStatus(t) ==
  IF pc[t] = "closing" THEN work[t].status ELSE StatusOf(work[t].nodes)

settledScans ==
  IF Settling = {} THEN scans
  ELSE LET t == CHOOSE u \in Settling : TRUE
       IN  WithStatus(scans, work[t].id, SettledStatus(t))

settledSnapshots ==
  IF Settling = {} THEN snapshots
  ELSE LET t == CHOOSE u \in Settling : TRUE
       IN  Cascade(SettledSnapshots(t), scans)

Atomic == INSTANCE AtomicScan WITH scans <- settledScans, snapshots <- settledSnapshots

(* Under orderly restarts the three transactions of a scan take effect as  *)
(* one: graph, snapshot and final status change together.                  *)
ScansAreAtomic == Atomic!Spec
=============================================================================
