---------------------------- MODULE ScanRefresh ----------------------------
(***************************************************************************)
(* The refresh pipeline of the artifact graph: app/service.py `refresh`    *)
(* with the transactions it runs (`_save`, `_save_snapshot`, the closing   *)
(* one), the three tasks that run it (app/main.py, app/scheduling.py), the *)
(* alerts it enqueues (app/alerts.py) and the restarts that interrupt it.  *)
(***************************************************************************)
EXTENDS ScanHistory, SnapshotDiff

CONSTANT Faults   \* which of "restart", "crash" and "db" can happen

ASSUME FaultsAssumption == Faults \subseteq {"restart", "crash", "db"}

VARIABLES
  up,          \* the process serves requests
  manualJob,   \* "manual-refresh" sits in the scheduler's job store
  pc,          \* where each task is in refresh()
  lockQueue,   \* refresh_lock: the holder, then the waiters in FIFO order
  work,        \* the local variables of each task's refresh()
  progress,    \* scan_progress.data["running"]
  nextId,      \* database: next value of the scans.id sequence
  scans,       \* database: status of each scan row, "absent" without a row
  graph,       \* database: the nodes and edges tables
  snapshots,   \* database: graph_snapshots by scan id, NoGraph without a row
  outbox       \* database: <<event type, scan id>> of webhook_deliveries

process == <<up, manualJob, pc, lockQueue, work, progress>>
database == <<nextId, scans, graph, snapshots, outbox>>
vars == <<up, manualJob, pc, lockQueue, work, progress,
          nextId, scans, graph, snapshots, outbox>>

Tasks == {"startup", "daily", "manual"}
Blank == [id |-> 0, previous |-> NoGraph, nodes |-> NoGraph, status |-> "unset"]

(* Between two of these points refresh() runs without awaiting: no other   *)
(* coroutine runs, only threads do (and the end of the process).           *)
Blocking == {"loading", "saving", "snapshotting", "staleSaving", "staleSnapshotting", "closing"}
Active == Blocking \cup {"collecting"}
PCs == Active \cup {"idle", "waiting"}

(* Mutant: the lock is not taken. *)
Holds_NoLock(t) == TRUE

(* The event loop can run another task, job or coroutine endpoint. *)
LoopFree == \A t \in Tasks : pc[t] \notin Blocking
Holds(t) == lockQueue # <<>> /\ Head(lockQueue) = t
Waiting == {t \in Tasks : pc[t] = "waiting"}
Room == nextId + Cardinality(Waiting) <= MaxScans

-----------------------------------------------------------------------------
(* The closing transaction's view of history.                              *)

(* Mutant: the ORDER BY of the query is missing. *)
IsLatestBefore_Unordered(S, i, id) == i \in S /\ i < id
IsLatestBefore(S, i, id) == i \in S /\ i < id /\ \A j \in S : j < id => j <= i

(* Earlier scan a degraded or successful scan is compared with. *)
PreviousStatus(id) ==
  IF \E i \in Rows(scans) : i < id
  THEN scans[CHOOSE i \in Rows(scans) : IsLatestBefore(Rows(scans), i, id)]
  ELSE "absent"

Comparable == {i \in ScanIds : scans[i] = "success" /\ snapshots[i] # NoGraph}

OutputsChanged(id) ==
  /\ snapshots[id] # NoGraph
  /\ \E i \in Comparable :
        /\ IsLatestBefore(Comparable, i, id)
        /\ SafeOutputChanges(snapshots[i], snapshots[id]) # {}

Alerts(id, status) ==
  {e \in {"scan.degraded", "scan.recovered", "graph.outputs.changed"} \X {id} :
     \/ e[1] = "scan.degraded" /\ status = "degraded" /\ PreviousStatus(id) # "degraded"
     \/ e[1] = "scan.recovered" /\ status = "success" /\ PreviousStatus(id) = "degraded"
     \/ e[1] = "graph.outputs.changed" /\ status = "success" /\ OutputsChanged(id)}

-----------------------------------------------------------------------------
Init ==
  /\ up = FALSE
  /\ manualJob = FALSE
  /\ pc = [t \in Tasks |-> "idle"]
  /\ lockQueue = <<>>
  /\ work = [t \in Tasks |-> Blank]
  /\ progress = FALSE
  /\ nextId = 1
  /\ scans = [i \in ScanIds |-> "absent"]
  /\ graph = EmptyGraph
  /\ snapshots = [i \in ScanIds |-> NoGraph]
  /\ outbox = {}

(* A task reaches `async with refresh_lock`. *)
Enter(t) ==
  /\ pc' = [pc EXCEPT ![t] = "waiting"]
  /\ lockQueue' = Append(lockQueue, t)

(* lifespan: the scheduler starts and the initial refresh is a task. *)
Boot ==
  /\ ~up
  /\ Room
  /\ up' = TRUE
  /\ Enter("startup")
  /\ UNCHANGED <<manualJob, work, progress, database>>

(* 03:00 MSK; max_instances=1 skips the firing while one is unfinished. *)
DailyFires ==
  /\ up /\ LoopFree /\ Room
  /\ pc["daily"] = "idle"
  /\ Enter("daily")
  /\ UNCHANGED <<up, manualJob, work, progress, database>>

(* POST /api/refresh; a job still in the store answers 409. *)
ManualRequest ==
  /\ up /\ LoopFree /\ Room
  /\ ~manualJob
  /\ manualJob' = TRUE
  /\ UNCHANGED <<up, pc, lockQueue, work, progress, database>>

(* The scheduler takes the job out of its store and submits it; the        *)
(* executor drops it while an earlier manual refresh is unfinished.        *)
ManualSubmitted ==
  /\ up /\ LoopFree
  /\ manualJob
  /\ manualJob' = FALSE
  /\ IF pc["manual"] = "idle"
     THEN Room /\ Enter("manual")
     ELSE UNCHANGED <<pc, lockQueue>>
  /\ UNCHANGED <<up, work, progress, database>>

-----------------------------------------------------------------------------
(* refresh(), one action per transaction or await.                         *)

(* Mutant: the lock is not released. *)
Leave_KeepsLock(t) ==
  /\ pc' = [pc EXCEPT ![t] = "idle"]
  /\ work' = [work EXCEPT ![t] = Blank]
  /\ UNCHANGED lockQueue

Leave(t) ==
  /\ pc' = [pc EXCEPT ![t] = "idle"]
  /\ lockQueue' = Tail(lockQueue)
  /\ work' = [work EXCEPT ![t] = Blank]

Goto(t, from, to) == pc[t] = from /\ pc' = [pc EXCEPT ![t] = to]

Begin(t) ==
  /\ Holds(t)
  /\ Goto(t, "waiting", "loading")
  /\ scans' = [scans EXCEPT ![nextId] = "running"]
  /\ work' = [work EXCEPT ![t].id = nextId]
  /\ nextId' = nextId + 1
  /\ UNCHANGED <<up, manualJob, lockQueue, progress, graph, snapshots, outbox>>

(* Mutant: the graph of the last success is kept as the fallback. *)
Load_LastSuccess(t) ==
  /\ Goto(t, "loading", "collecting")
  /\ work' = [work EXCEPT ![t].previous =
                IF Comparable = {} THEN graph
                ELSE snapshots[CHOOSE i \in Comparable : \A j \in Comparable : j <= i]]
  /\ progress' = TRUE
  /\ UNCHANGED <<up, manualJob, lockQueue, database>>

Load(t) ==
  /\ Goto(t, "loading", "collecting")
  /\ work' = [work EXCEPT ![t].previous = graph]
  /\ progress' = TRUE
  /\ UNCHANGED <<up, manualJob, lockQueue, database>>

Collect(t) ==
  /\ LoopFree
  /\ Goto(t, "collecting", "saving")
  /\ \E g \in Collected : work' = [work EXCEPT ![t].nodes = g]
  /\ UNCHANGED <<up, manualJob, lockQueue, progress, database>>

(* Mutant: the fallback saves what was collected. *)
Except_SavesCollected(t) ==
  /\ UNCHANGED lockQueue
  /\ pc' = [pc EXCEPT ![t] = "staleSaving"]
  /\ work' = [work EXCEPT ![t].nodes = MarkStale(work[t].nodes)]
(* except Exception: serve the previous graph as stale if there is one. *)
Except(t) ==
  IF work[t].previous.content # Empty
  THEN /\ pc' = [pc EXCEPT ![t] = "staleSaving"]
       /\ work' = [work EXCEPT ![t].nodes = MarkStale(work[t].previous)]
       /\ UNCHANGED lockQueue
  ELSE /\ pc' = [pc EXCEPT ![t] = "closing"]
       /\ work' = [work EXCEPT ![t].status = "failed"]
       /\ UNCHANGED lockQueue

CollectFails(t) ==
  /\ LoopFree
  /\ pc[t] = "collecting"
  /\ Except(t)
  /\ UNCHANGED <<up, manualJob, progress, database>>

(* Mutant: the fallback graph gets no snapshot. *)
Save_NoSnapshot(t) ==
  /\ \/ Goto(t, "saving", "snapshotting")
     \/ Goto(t, "staleSaving", "closing")
  /\ graph' = work[t].nodes
  /\ UNCHANGED <<up, manualJob, lockQueue, work, progress, nextId, scans, snapshots, outbox>>

Save(t) ==
  /\ \/ Goto(t, "saving", "snapshotting")
     \/ Goto(t, "staleSaving", "staleSnapshotting")
  /\ graph' = work[t].nodes
  /\ UNCHANGED <<up, manualJob, lockQueue, work, progress, nextId, scans, snapshots, outbox>>

SaveSnapshot(t) ==
  /\ \/ Goto(t, "snapshotting", "closing")
     \/ Goto(t, "staleSnapshotting", "closing")
  /\ snapshots' = WithSnapshot(snapshots, work[t].id, work[t].nodes)
  /\ work' = [work EXCEPT ![t].status = StatusOf(work[t].nodes)]
  /\ UNCHANGED <<up, manualJob, lockQueue, progress, nextId, scans, graph, outbox>>

(* Mutant: the status is written although `message` was never bound. *)
Bound_Always(t) == TRUE
(* `status, message` was assigned by the try or the except block. *)
Bound(t) == work[t].status # "unset"

(* finally: final status, alerts and pruning in one transaction; deleting  *)
(* a scan row deletes its snapshot (ON DELETE CASCADE).                    *)
Finish(t) ==
  LET id == work[t].id
  IN  /\ pc[t] = "closing"
      /\ Bound(t)
      /\ scans[id] # "absent"
      /\ scans' = WithStatus(scans, id, work[t].status)
      /\ snapshots' = Cascade(snapshots, scans)
      /\ outbox' = outbox \cup Alerts(id, work[t].status)
      /\ progress' = FALSE
      /\ Leave(t)
      /\ UNCHANGED <<up, manualJob, nextId, graph>>

-----------------------------------------------------------------------------
(* A transaction that fails rolls back and raises.                         *)

(* Outside the try block: the scan row, if inserted, is left behind. *)
OpeningFails(t) ==
  /\ "db" \in Faults
  /\ \/ pc[t] = "waiting" /\ Holds(t)
     \/ pc[t] = "loading"
  /\ Leave(t)
  /\ UNCHANGED <<up, manualJob, progress, database>>

SavingFails(t) ==
  /\ "db" \in Faults
  /\ pc[t] \in {"saving", "snapshotting"}
  /\ Except(t)
  /\ UNCHANGED <<up, manualJob, progress, database>>

(* Inside the except block: `message` is never bound. *)
StaleSavingFails(t) ==
  /\ "db" \in Faults
  /\ pc[t] \in {"staleSaving", "staleSnapshotting"}
  /\ pc' = [pc EXCEPT ![t] = "closing"]
  /\ UNCHANGED <<up, manualJob, lockQueue, work, progress, database>>

(* Mutant: progress is finished after the transaction instead of before. *)
FinishFails_ProgressLast(t) ==
  /\ pc[t] = "closing"
  /\ ~Bound(t) \/ scans[work[t].id] = "absent" \/ "db" \in Faults
  /\ Leave(t)
  /\ UNCHANGED <<up, manualJob, progress, database>>

(* The closing transaction raises: on the unbound `message`, on a missing  *)
(* row, or in the database.                                                *)
FinishFails(t) ==
  /\ pc[t] = "closing"
  /\ ~Bound(t) \/ scans[work[t].id] = "absent" \/ "db" \in Faults
  /\ progress' = FALSE
  /\ Leave(t)
  /\ UNCHANGED <<up, manualJob, database>>

(* The process ends: what it kept in memory is gone. *)
ProcessEnds ==
  /\ up /\ up' = FALSE
  /\ manualJob' = FALSE
  /\ pc' = [t \in Tasks |-> "idle"]
  /\ lockQueue' = <<>>
  /\ work' = [t \in Tasks |-> Blank]
  /\ progress' = FALSE
  /\ UNCHANGED database

(* lifespan shutdown cancels every task at its await: the lock, or the     *)
(* collection, whose `finally` then raises on the unbound `message`.       *)
Shutdown == "restart" \in Faults /\ LoopFree /\ ProcessEnds

Crash == "crash" \in Faults /\ ProcessEnds

(* Nothing to do: no refresh is running and the bound allows no other. *)
Quiescent ==
  /\ \A t \in Tasks : pc[t] = "idle"
  /\ UNCHANGED vars

-----------------------------------------------------------------------------
Refresh(t) ==
  \/ Begin(t)
  \/ Load(t)
  \/ Collect(t)
  \/ CollectFails(t)
  \/ Save(t)
  \/ SaveSnapshot(t)
  \/ Finish(t)
  \/ OpeningFails(t)
  \/ SavingFails(t)
  \/ StaleSavingFails(t)
  \/ FinishFails(t)

Next ==
  \/ Boot
  \/ DailyFires
  \/ ManualRequest
  \/ ManualSubmitted
  \/ \E t \in Tasks : Refresh(t)
  \/ Shutdown
  \/ Crash
  \/ Quiescent

(* Every upstream call has a timeout, a transaction ends one way or the    *)
(* other and the event loop runs ready tasks; nobody has to ask for scans. *)
Fairness ==
  /\ WF_vars(ManualSubmitted)
  /\ \A t \in Tasks : WF_vars(Refresh(t))

Spec == Init /\ [][Next]_vars /\ Fairness

-----------------------------------------------------------------------------
(* Correctness.                                                            *)

(* Every variable has its type; in particular a scan row never gets a      *)
(* status that the closing transaction did not compute.                    *)
TypeOK ==
  /\ up \in BOOLEAN
  /\ manualJob \in BOOLEAN
  /\ pc \in [Tasks -> PCs]
  /\ lockQueue \in Seq(Tasks)
  /\ work \in [Tasks -> [id : 0..MaxScans, previous : Graphs, nodes : Graphs,
                         status : Final \cup {"unset"}]]
  /\ progress \in BOOLEAN
  /\ nextId \in 1..(MaxScans + 1)
  /\ scans \in [ScanIds -> Statuses]
  /\ graph \in Graphs
  /\ snapshots \in [ScanIds -> Graphs]
  /\ outbox \subseteq {"scan.degraded", "scan.recovered", "graph.outputs.changed"} \X ScanIds

(* A scan in progress works on the newest row, still "running": neither    *)
(* another task nor the pruning of a concurrent scan can take it away.     *)
RunningScanKept ==
  \A t \in Tasks : pc[t] \in Active =>
    /\ Holds(t)
    /\ work[t].id = nextId - 1
    /\ scans[nextId - 1] = "running"

(* Whatever was interrupted before, the newest scan row is there and tells *)
(* what readers are served: after "success" the fresh graph that its       *)
(* snapshot holds, after "degraded" a non-empty graph with stale or        *)
(* incomplete entities.                                                    *)
NewestScanDescribesGraph ==
  LET last == nextId - 1
  IN  last \in ScanIds =>
        /\ scans[last] # "absent"
        /\ scans[last] = "success" =>
             graph.state = "fresh" /\ snapshots[last] = graph
        /\ scans[last] = "degraded" =>
             /\ graph.content # Empty /\ graph.state # "fresh"
             /\ snapshots[last] = graph

(* /api/status reports a scan as running exactly while one is collecting   *)
(* or saving, also after failures.                                         *)
ProgressHonest ==
  progress <=> \E t \in Tasks : pc[t] \in Active \ {"loading"}

(* A failing or interrupted scan never empties a usable graph: only a      *)
(* collection that found nothing does.                                     *)
UsableGraphKept ==
  [][graph.content # Empty /\ graph'.content = Empty =>
       \E t \in Tasks : pc[t] = "saving" /\ work[t].nodes = EmptyGraph]_vars

(* When a scan has closed, the history is within its limits, also after    *)
(* scans that were interrupted before they could prune; every snapshot     *)
(* belongs to a scan.                                                      *)
HistoryBounded ==
  LET kept == SnapshotRows(snapshots)
  IN  /\ kept \subseteq Rows(scans)
      /\ Cardinality(kept) <= SnapshotLimit
      /\ \A i \in ScanIds : i = nextId - 1 /\ scans[i] \in Final =>
           Cardinality(Rows(scans)) <= ScanLimit

(* A successful scan after an announced degradation was announced as the   *)
(* recovery, by itself or by an earlier scan.                              *)
RecoveryAnnounced ==
  \A i, j \in ScanIds :
    i < j /\ <<"scan.degraded", i>> \in outbox /\ scans[j] = "success"
      => \E k \in i..j : <<"scan.recovered", k>> \in outbox

(* An episode is announced once and its end, too: between two announced    *)
(* degradations, or one and a success, a recovery was announced or a scan  *)
(* was interrupted (its row stays "running", or is pruned by now).         *)
AlertsAlternate ==
  \A i, j \in ScanIds :
    /\ i < j /\ <<"scan.degraded", i>> \in outbox
    /\ <<"scan.degraded", j>> \in outbox \/ scans[j] = "success"
    => \/ \E k \in i..j : <<"scan.recovered", k>> \in outbox
       \/ \E k \in (i + 1)..(j - 1) : scans[k] \in {"running", "absent"}

(* Two consecutive successful scans are announced as a change of outputs   *)
(* exactly when some build shows other outputs, came with outputs or went  *)
(* with them, whatever degraded scans lie between the two and whatever     *)
(* else changed.                                                           *)
OutputChangesAnnounced ==
  LET Outputs(g) == {<<b, g.content[b]>> : b \in {b \in Nodes(g) : g.content[b] # {}}}
  IN  \A i, j \in Comparable :
        i < j /\ (\A k \in Comparable : k <= i \/ k >= j)
          => (<<"graph.outputs.changed", j>> \in outbox
                <=> Outputs(snapshots[i]) # Outputs(snapshots[j]))

(* Every task that asks for the lock gets it and leaves refresh(): no      *)
(* failure of another scan leaves it locked.                               *)
WaitingScanEnds == \A t \in Tasks : pc[t] = "waiting" ~> pc[t] = "idle"

(* A manual refresh that was accepted (202) creates a new scan.            *)
AcceptedRefreshScans ==
  \A n \in ScanIds : manualJob /\ nextId = n ~> nextId > n
=============================================================================
