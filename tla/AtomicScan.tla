----------------------------- MODULE AtomicScan -----------------------------
(***************************************************************************)
(* What a scan promises about the database: it opens a row, and one step   *)
(* later either publishes a graph together with its snapshot and its final *)
(* status, or fails leaving everything else alone, or is never heard of    *)
(* again.  A scan that could not collect publishes the graph it found,     *)
(* marked stale; it may only fail when there was none.                     *)
(***************************************************************************)
EXTENDS ScanHistory

VARIABLES scans, graph, snapshots
store == <<scans, graph, snapshots>>

Init ==
  /\ scans = [i \in ScanIds |-> "absent"]
  /\ graph = EmptyGraph
  /\ snapshots = [i \in ScanIds |-> NoGraph]

Open(id) ==
  /\ \A j \in ScanIds : j >= id => scans[j] = "absent"
  /\ scans' = [scans EXCEPT ![id] = "running"]
  /\ UNCHANGED <<graph, snapshots>>

Current(id) ==
  /\ scans[id] = "running"
  /\ \A j \in ScanIds : j > id => scans[j] = "absent"

Publishable ==
  Collected \cup (IF graph.content # Empty THEN {MarkStale(graph)} ELSE {})

Publish(id) ==
  /\ Current(id)
  /\ graph' \in Publishable
  /\ scans' = WithStatus(scans, id, StatusOf(graph'))
  /\ snapshots' = Cascade(WithSnapshot(snapshots, id, graph'), scans)

Fail(id) ==
  /\ Current(id)
  /\ graph.content = Empty
  /\ scans' = WithStatus(scans, id, "failed")
  /\ snapshots' = Cascade(snapshots, scans)
  /\ UNCHANGED graph

Next == \E id \in ScanIds : Open(id) \/ Publish(id) \/ Fail(id)

Spec == Init /\ [][Next]_store
=============================================================================
