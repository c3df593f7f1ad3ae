---------------------------- MODULE ScanHistory ----------------------------
(***************************************************************************)
(* What the database keeps about scans (app/models.py), and the bounded    *)
(* histories of app/service.py: a scan row per refresh, a snapshot per     *)
(* published graph, the oldest of each pruned.                             *)
(*                                                                         *)
(* A graph is abstracted to what was collected (`content`, Empty when it   *)
(* has no nodes) and to whether its nodes are all fresh, partly stale or   *)
(* incomplete ("partial"), or all marked stale.                            *)
(***************************************************************************)
EXTENDS Naturals, FiniteSets

CONSTANTS
  Contents,       \* non-empty graphs a collection can produce
  Empty,          \* the graph without nodes
  ScanLimit,      \* SCAN_HISTORY_LIMIT
  SnapshotLimit,  \* SNAPSHOT_HISTORY_LIMIT
  MaxScans        \* bound: scan rows ever inserted

ASSUME EmptyAssumption == Empty \notin Contents
ASSUME LimitsAssumption ==
  /\ ScanLimit \in Nat \ {0}
  /\ SnapshotLimit \in Nat \ {0}
  /\ MaxScans \in Nat \ {0}

ScanIds == 1..MaxScans
Final == {"success", "degraded", "failed"}
Statuses == Final \cup {"running", "absent"}

Graphs == [content : Contents \cup {Empty}, state : {"fresh", "partial", "stale"}]
NoGraph == [content |-> Empty, state |-> "stale"]   \* no snapshot row
EmptyGraph == [content |-> Empty, state |-> "fresh"]
(* A stale, failed or unmapped entity is a node: an empty result is fresh. *)
Collected == {EmptyGraph} \cup [content : Contents, state : {"fresh", "partial"}]
MarkStale(g) == [g EXCEPT !.state = "stale"]
StatusOf(g) == IF g.state = "fresh" THEN "success" ELSE "degraded"

(* Mutants: OFFSET one too far; ORDER BY without DESC. *)
Newest_OneMore(S, n) == {i \in S : Cardinality({j \in S : j > i}) <= n}
Newest_Ascending(S, n) == {i \in S : Cardinality({j \in S : j < i}) < n}
Newest(S, n) == {i \in S : Cardinality({j \in S : j > i}) < n}

Rows(scans) == {i \in ScanIds : scans[i] # "absent"}
SnapshotRows(snapshots) == {i \in ScanIds : snapshots[i] # NoGraph}

WithSnapshot(snapshots, id, g) ==
  LET kept == Newest(SnapshotRows(snapshots) \cup {id}, SnapshotLimit)
  IN  [i \in ScanIds |-> IF i \notin kept THEN NoGraph
                         ELSE IF i = id THEN g ELSE snapshots[i]]

WithStatus(scans, id, status) ==
  LET kept == Newest(Rows(scans), ScanLimit)
  IN  [i \in ScanIds |-> IF i \notin kept THEN "absent"
                         ELSE IF i = id THEN status ELSE scans[i]]

(* ON DELETE CASCADE: a pruned scan row takes its snapshot with it. *)
Cascade(snapshots, scans) ==
  [i \in ScanIds |-> IF i \in Newest(Rows(scans), ScanLimit) THEN snapshots[i] ELSE NoGraph]
=============================================================================
