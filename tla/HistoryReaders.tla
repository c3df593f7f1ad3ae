--------------------------- MODULE HistoryReaders ---------------------------
(***************************************************************************)
(* What readers are told about scans and graphs: /health/ready,            *)
(* /api/snapshots and /api/timeline of app/main.py.  Each is one SELECT,   *)
(* in a thread of its own, so it can run at any moment, also between the   *)
(* transactions of a refresh that keep the event loop.                     *)
(***************************************************************************)
EXTENDS ScanRefresh

CONSTANT TimelineLimit   \* `limit` of a reader, at least 2

ASSUME ReadersAssumption == TimelineLimit \in Nat /\ TimelineLimit >= 2

(* A graph is a finite function from builds to outputs, Empty without any. *)
ASSUME ContentsAssumption ==
  /\ DOMAIN Empty = {}
  /\ \A c \in Contents \cup {Empty} : IsFiniteSet(DOMAIN c) /\ c = [b \in DOMAIN c |-> c[b]]

UsableScans == {i \in ScanIds : scans[i] \in {"success", "degraded"}}

(* /health/ready: the newest usable scan, 0 without one.                   *)
LastUsable ==
  IF UsableScans = {} THEN 0 ELSE CHOOSE i \in UsableScans : \A j \in UsableScans : j <= i
Ready ==
  [graphReady |-> LastUsable # 0, degraded |-> LastUsable # 0 /\ scans[LastUsable] = "degraded"]

(* /api/snapshots: ids, newest first.                                      *)
SnapshotList == Newest(SnapshotRows(snapshots), TimelineLimit)

(* /api/timeline                                                           *)
TimelineReply == Timeline(SnapshotList, snapshots)

-----------------------------------------------------------------------------
(* A refresh writes the graph, then its snapshot, then its final status.   *)
BeforeSnapshot == {"snapshotting", "staleSnapshotting"}
BeforeStatus == BeforeSnapshot \cup {"closing"}

(* The graph a table tells of that a refresh writes after these points:    *)
(* the one before the scan as long as the scan is at one of them.          *)
Told(points) ==
  IF \A t \in Tasks : pc[t] \notin points THEN graph
  ELSE work[CHOOSE t \in Tasks : pc[t] \in points].previous

SnapshotsTell(g) ==
  \/ g = EmptyGraph /\ \A i \in ScanIds : snapshots[i] = NoGraph
  \/ \E i \in ScanIds :
       /\ snapshots[i] = g
       /\ \A j \in ScanIds : j > i => snapshots[j] = NoGraph

(* Ready as soon as there are nodes, and degraded exactly when some of     *)
(* them are stale or incomplete, whatever scans failed or were interrupted *)
(* since.                                                                  *)
HealthTells(g) ==
  /\ g.content # Empty => Ready.graphReady
  /\ Ready.graphReady => (Ready.degraded <=> g.state # "fresh")

(* The timeline starts at the graph, and each of its entries leads back to *)
(* the one below: what was added and removed accounts for the nodes, and   *)
(* an entry without changes repeats the graph below it.                    *)
TimelineLeadsTo(g) ==
  LET reply == TimelineReply
  IN  /\ reply # <<>> => snapshots[reply[1].id] = g
      /\ \A n \in 1..(Len(reply) - 1) :
           LET entry == reply[n]
               d == entry.changes
           IN  /\ entry.previous = reply[n + 1].id
               /\ entry.nodeCount + Cardinality(d.removed)
                    = reply[n + 1].nodeCount + Cardinality(d.added)
               /\ d.added \cup d.removed \cup d.changed = {}
                    => snapshots[entry.id] = snapshots[entry.previous]
                         \/ Nodes(snapshots[entry.id]) = {}

(* The endpoints that read different tables tell one story at any moment:  *)
(* each speaks of the graph that is served or, while a refresh is between  *)
(* its transactions, of the one that scan replaced; snapshots and timeline *)
(* move to the new graph together, readiness last.  Never do they speak of *)
(* a third graph, whatever was interrupted or pruned before.               *)
ReadersAgree ==
  /\ SnapshotsTell(Told(BeforeSnapshot))
  /\ TimelineLeadsTo(Told(BeforeSnapshot))
  /\ HealthTells(Told(BeforeStatus))
=============================================================================
