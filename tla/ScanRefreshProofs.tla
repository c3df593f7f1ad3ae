------------------------- MODULE ScanRefreshProofs -------------------------
(* Proofs about scans, for any set of contents, any history limits and any *)
(* number of scans: the refresh pipeline with every fault enabled or not,  *)
(* then what scans leave behind (the bounded histories, the alerts and,    *)
(* under orderly restarts, the atomicity of scans and the agreement of     *)
(* what readers are told).                                                 *)
EXTENDS HistoryReaders, ScanRefinement, FiniteSetTheorems, SequenceTheorems,
        WellFoundedInduction, TLAPS

(* What refresh() knows at each of its points, and what it relies on in    *)
(* the database.  A task outside the lock's block knows nothing.           *)
TaskInv(t) ==
  /\ pc[t] \notin Active => work[t] = Blank
  /\ pc[t] \in Active =>
       /\ Holds(t)
       /\ nextId > 1
       /\ work[t].id = nextId - 1
       /\ scans[nextId - 1] = "running"
  /\ pc[t] # "closing" => work[t].status = "unset"
  /\ pc[t] \in {"saving", "snapshotting"} => work[t].nodes \in Collected
  /\ pc[t] \in {"staleSaving", "staleSnapshotting"} =>
       work[t].nodes.content # Empty /\ work[t].nodes.state = "stale"
  /\ pc[t] \in {"snapshotting", "staleSnapshotting"} => graph = work[t].nodes
  /\ pc[t] = "closing" /\ work[t].status \in {"success", "degraded"} =>
       /\ snapshots[work[t].id] = graph
       /\ work[t].status = StatusOf(graph)
       /\ graph.state = "fresh" \/ graph.content # Empty

TasksInv == \A t \in Tasks : TaskInv(t)

WorkRecord == [id : 0..MaxScans, previous : Graphs, nodes : Graphs,
               status : Final \cup {"unset"}]

(* The bound on scans leaves a row for every task that waits. *)
RoomKept == nextId + Cardinality(Waiting) <= MaxScans + 1

(* No row and no snapshot belongs to a scan that has not begun. *)
NoFutureRows ==
  \A j \in ScanIds : j >= nextId => scans[j] = "absent" /\ snapshots[j] = NoGraph

DownIsIdle == ~up => \A t \in Tasks : pc[t] = "idle"

IInv ==
  /\ TypeOK
  /\ RoomKept
  /\ NoFutureRows
  /\ DownIsIdle
  /\ TasksInv
  /\ ProgressHonest
  /\ NewestScanDescribesGraph

-----------------------------------------------------------------------------
(* Facts about data.                                                       *)

LEMMA DataTypes ==
  /\ EmptyGraph \in Graphs /\ NoGraph \in Graphs
  /\ Blank \in WorkRecord /\ Blank.status = "unset"
  /\ Collected \subseteq Graphs
  /\ \A g \in Graphs : MarkStale(g) \in Graphs /\ StatusOf(g) \in Final
BY LimitsAssumption
   DEF EmptyGraph, NoGraph, Graphs, Blank, WorkRecord, Collected, MarkStale, StatusOf, Final

(* What a collection found is fresh, or it has nodes. *)
LEMMA CollectedUsable ==
  ASSUME NEW g \in Collected
  PROVE  /\ g.state = "fresh" \/ g.content # Empty
         /\ g.content = Empty => g = EmptyGraph
BY EmptyAssumption DEF Collected, EmptyGraph

LEMMA MarkedStale ==
  ASSUME NEW g \in Graphs
  PROVE  MarkStale(g).content = g.content /\ MarkStale(g).state = "stale"
BY DEF MarkStale, Graphs

(* The snapshot of the newest scan survives the pruning of its own insert. *)
LEMMA OwnSnapshotKept ==
  ASSUME NEW ss, NEW id \in ScanIds, NEW g,
         \A j \in ScanIds : j > id => ss[j] = NoGraph
  PROVE  WithSnapshot(ss, id, g)[id] = g
<1> DEFINE S == SnapshotRows(ss) \cup {id}
<1>1. {j \in S : j > id} = {}
  BY DEF SnapshotRows, ScanIds
<1>2. Cardinality({j \in S : j > id}) < SnapshotLimit
  BY <1>1, FS_EmptySet, LimitsAssumption
<1>3. id \in Newest(S, SnapshotLimit)
  BY <1>2 DEF Newest
<1> QED BY <1>3 DEF WithSnapshot

LEMMA WithSnapshotRows ==
  ASSUME NEW ss \in [ScanIds -> Graphs], NEW id \in ScanIds, NEW g \in Graphs
  PROVE  /\ WithSnapshot(ss, id, g) \in [ScanIds -> Graphs]
         /\ \A j \in ScanIds \ {id} : WithSnapshot(ss, id, g)[j] \in {NoGraph, ss[j]}
BY DataTypes DEF WithSnapshot

(* Closing the newest scan keeps its row and its snapshot, and only prunes *)
(* others.                                                                 *)
LEMMA ClosedRows ==
  ASSUME NEW sc \in [ScanIds -> Statuses], NEW ss \in [ScanIds -> Graphs],
         NEW id \in ScanIds, NEW status \in Final, sc[id] # "absent",
         \A j \in ScanIds : j > id => sc[j] = "absent"
  PROVE  /\ WithStatus(sc, id, status) \in [ScanIds -> Statuses]
         /\ Cascade(ss, sc) \in [ScanIds -> Graphs]
         /\ \A j \in ScanIds : Cascade(ss, sc)[j] \in {NoGraph, ss[j]}
         /\ \A j \in ScanIds \ {id} : WithStatus(sc, id, status)[j] \in {"absent", sc[j]}
         /\ WithStatus(sc, id, status)[id] = status
         /\ Cascade(ss, sc)[id] = ss[id]
<1>1. /\ WithStatus(sc, id, status) \in [ScanIds -> Statuses]
      /\ \A j \in ScanIds \ {id} : WithStatus(sc, id, status)[j] \in {"absent", sc[j]}
  BY DEF WithStatus, Statuses
<1>2. /\ Cascade(ss, sc) \in [ScanIds -> Graphs]
      /\ \A j \in ScanIds : Cascade(ss, sc)[j] \in {NoGraph, ss[j]}
  BY DataTypes DEF Cascade
<1>3. id \in Newest(Rows(sc), ScanLimit)
  <2>1. {j \in Rows(sc) : j > id} = {}
    BY DEF Rows
  <2>2. Cardinality({j \in Rows(sc) : j > id}) < ScanLimit
    BY <2>1, FS_EmptySet, LimitsAssumption
  <2> QED BY <2>2 DEF Newest, Rows
<1>4. WithStatus(sc, id, status)[id] = status /\ Cascade(ss, sc)[id] = ss[id]
  BY <1>3 DEF WithStatus, Cascade
<1> QED BY <1>1, <1>2, <1>4

LEMMA TasksFinite ==
  /\ IsFiniteSet(Tasks)
  /\ \A S \in SUBSET Tasks : IsFiniteSet(S) /\ Cardinality(S) \in Nat
<1>1. IsFiniteSet(Tasks)
  <2>1. IsFiniteSet({"startup"})
    BY FS_Singleton
  <2>2. IsFiniteSet({"startup"} \cup {"daily"})
    BY <2>1, FS_AddElement
  <2>3. IsFiniteSet(({"startup"} \cup {"daily"}) \cup {"manual"})
    BY <2>2, FS_AddElement
  <2>4. Tasks = ({"startup"} \cup {"daily"}) \cup {"manual"}
    BY DEF Tasks
  <2> QED BY <2>3, <2>4
<1>2. ASSUME NEW S \in SUBSET Tasks PROVE IsFiniteSet(S) /\ Cardinality(S) \in Nat
  BY <1>1, FS_Subset, FS_CardinalityType
<1> QED BY <1>1, <1>2

-----------------------------------------------------------------------------
(* The steps of the refresh lock.                                          *)

(* Only the head of the queue is in the block. *)
LEMMA OthersInactive ==
  ASSUME TasksInv, NEW t \in Tasks, Holds(t)
  PROVE  \A u \in Tasks \ {t} : pc[u] \notin Active /\ work[u] = Blank
BY DEF TasksInv, TaskInv, Holds

(* A task outside the block satisfies its invariant by knowing nothing. *)
LEMMA InactiveInv ==
  ASSUME NEW u \in Tasks, pc[u] \notin Active, work[u] = Blank
  PROVE  TaskInv(u)
<1>1. Blank.status = "unset"
  BY DEF Blank
<1> QED BY <1>1 DEF TaskInv, Active, Blocking

LEMMA InactiveInvNext ==
  ASSUME NEW u \in Tasks, pc'[u] \notin Active, work'[u] = Blank
  PROVE  TaskInv(u)'
<1>1. Blank.status = "unset"
  BY DEF Blank
<1> QED BY <1>1 DEF TaskInv, Active, Blocking

(* Entering the queue behind the holder disturbs no one. *)
LEMMA EnterInv ==
  ASSUME IInv, NEW t \in Tasks, Room, pc[t] = "idle", Enter(t), up' = TRUE,
         manualJob' \in BOOLEAN, UNCHANGED <<work, progress, database>>
  PROVE  IInv'
<1>1. pc' \in [Tasks -> PCs] /\ lockQueue' \in Seq(Tasks)
  BY DEF IInv, TypeOK, Enter, PCs
<1>2. TypeOK'
  BY <1>1 DEF IInv, TypeOK, database
<1>3. RoomKept'
  <2>1. Waiting' = Waiting \cup {t}
    BY DEF Waiting, Enter, IInv, TypeOK
  <2>2. t \notin Waiting /\ Waiting \in SUBSET Tasks
    BY DEF Waiting
  <2>3. Cardinality(Waiting') = Cardinality(Waiting) + 1 /\ Cardinality(Waiting) \in Nat
    BY <2>1, <2>2, TasksFinite, FS_AddElement
  <2>4. nextId \in Nat /\ MaxScans \in Nat /\ nextId' = nextId
    BY LimitsAssumption DEF IInv, TypeOK, database
  <2> QED BY <2>3, <2>4 DEF Room, RoomKept
<1>4. NoFutureRows' /\ NewestScanDescribesGraph'
  BY DEF IInv, NoFutureRows, NewestScanDescribesGraph, database
<1>5. ASSUME NEW u \in Tasks PROVE TaskInv(u)'
  <2>1. CASE u = t
    <3>1. pc'[u] = "waiting" /\ work'[u] = Blank
      BY <2>1 DEF Enter, IInv, TypeOK, TasksInv, TaskInv, Active, Blocking
    <3> QED BY <3>1, InactiveInvNext DEF Active, Blocking
  <2>2. CASE u # t
    <3>1. pc'[u] = pc[u] /\ work'[u] = work[u] /\ TaskInv(u)
      BY <2>2 DEF Enter, IInv, TypeOK, TasksInv
    <3>2. CASE pc[u] \notin Active
      BY <3>1, <3>2, InactiveInvNext DEF TaskInv
    <3>3. CASE pc[u] \in Active
      <4>1. Holds(u)
        BY <3>1, <3>3 DEF TaskInv
      <4>2. Holds(u)'
        <5>1. lockQueue \in Seq(Tasks) /\ lockQueue # <<>> /\ lockQueue[1] = u
          BY <4>1 DEF Holds, IInv, TypeOK
        <5>2. lockQueue' = Append(lockQueue, t) /\ lockQueue'[1] = u /\ lockQueue' # <<>>
          BY <5>1 DEF Enter
        <5> QED BY <1>1, <5>2 DEF Holds
      <4>3. /\ nextId' = nextId /\ scans' = scans
            /\ graph' = graph /\ snapshots' = snapshots
        BY DEF database
      <4>4. pc'[u] = pc[u] /\ work'[u] = work[u]
        BY <3>1
      <4> QED BY <3>1, <3>3, <4>2, <4>3, <4>4 DEF TaskInv
    <3> QED BY <3>2, <3>3
  <2> QED BY <2>1, <2>2
<1>6. DownIsIdle'
  BY DEF DownIsIdle
<1>7. ProgressHonest'
  <2>1. \A u \in Tasks : pc'[u] \in Active \ {"loading"} <=> pc[u] \in Active \ {"loading"}
    BY DEF Enter, IInv, TypeOK, Active, Blocking
  <2> QED BY <2>1 DEF IInv, ProgressHonest
<1> QED BY <1>2, <1>3, <1>4, <1>5, <1>6, <1>7 DEF IInv, TasksInv

(* A step of the holder from one point of the block to another: what it    *)
(* must show is what it knows next.                                        *)
LEMMA BlockStepInv ==
  ASSUME IInv, NEW t \in Tasks, pc[t] \in Active, NEW p \in Active, NEW w \in WorkRecord,
         pc' = [pc EXCEPT ![t] = p], work' = [work EXCEPT ![t] = w],
         UNCHANGED <<up, manualJob, lockQueue, nextId, scans, outbox>>,
         graph' \in Graphs, snapshots' \in [ScanIds -> Graphs], NoFutureRows',
         progress' \in BOOLEAN, progress' <=> p # "loading",
         TaskInv(t)'
  PROVE  IInv'
<1>1. Holds(t) /\ nextId > 1 /\ scans[nextId - 1] = "running"
  BY DEF IInv, TasksInv, TaskInv
<1>2. TypeOK'
  BY DEF IInv, TypeOK, WorkRecord, PCs
<1>3. RoomKept'
  <2>1. Waiting' = Waiting
    BY DEF Waiting, IInv, TypeOK, Active, Blocking
  <2> QED BY <2>1 DEF IInv, RoomKept
<1>4. DownIsIdle'
  BY DEF IInv, DownIsIdle, Active, Blocking
<1>5. \A u \in Tasks \ {t} : pc'[u] \notin Active /\ work'[u] = Blank
  BY <1>1, OthersInactive DEF IInv, TypeOK
<1>6. TasksInv'
  BY <1>5, InactiveInvNext DEF TasksInv
<1>7. ProgressHonest'
  BY <1>5 DEF ProgressHonest, IInv, TypeOK
<1>8. NewestScanDescribesGraph'
  BY <1>1 DEF NewestScanDescribesGraph
<1> QED BY <1>2, <1>3, <1>4, <1>6, <1>7, <1>8 DEF IInv

(* The holder leaves the block, or refresh() before its first row: nobody  *)
(* is in the block.                                                        *)
LEMMA LeaveInv ==
  ASSUME IInv, NEW t \in Tasks, pc[t] # "idle", Holds(t), Leave(t),
         UNCHANGED <<up, manualJob, nextId, graph>>, progress' = FALSE,
         scans' \in [ScanIds -> Statuses], snapshots' \in [ScanIds -> Graphs],
         outbox' \subseteq {"scan.degraded", "scan.recovered", "graph.outputs.changed"}
                             \X ScanIds,
         NoFutureRows', NewestScanDescribesGraph'
  PROVE  IInv'
<1>1. \A u \in Tasks : pc'[u] \notin Active /\ work'[u] = Blank
  BY OthersInactive DEF IInv, TypeOK, Leave, Active, Blocking
<1>2. TasksInv'
  BY <1>1, InactiveInvNext DEF TasksInv
<1>3. ProgressHonest'
  BY <1>1 DEF ProgressHonest
<1>4. TypeOK'
  <2>1. lockQueue' \in Seq(Tasks)
    BY DEF IInv, TypeOK, Leave, Holds
  <2>2. pc' \in [Tasks -> PCs] /\ work' \in [Tasks -> WorkRecord]
    BY DataTypes DEF IInv, TypeOK, Leave, PCs, WorkRecord
  <2> QED BY <2>1, <2>2 DEF IInv, TypeOK, WorkRecord
<1>5. RoomKept'
  <2>1. Waiting' \subseteq Waiting /\ Waiting \in SUBSET Tasks
    BY DEF Waiting, Leave, IInv, TypeOK
  <2>2. /\ Cardinality(Waiting') <= Cardinality(Waiting)
        /\ Cardinality(Waiting') \in Nat /\ Cardinality(Waiting) \in Nat
    BY <2>1, TasksFinite, FS_Subset
  <2>3. nextId \in Nat /\ MaxScans \in Nat /\ nextId' = nextId
    BY LimitsAssumption DEF IInv, TypeOK
  <2> QED BY <2>2, <2>3 DEF IInv, RoomKept
<1>6. DownIsIdle'
  BY DEF IInv, DownIsIdle
<1> QED BY <1>2, <1>3, <1>4, <1>5, <1>6 DEF IInv

-----------------------------------------------------------------------------
(* The actions.                                                            *)

LEMMA InitInv == Init => IInv
<1> SUFFICES ASSUME Init PROVE IInv
  OBVIOUS
<1>1. TypeOK
  <2>1. pc \in [Tasks -> PCs] /\ work \in [Tasks -> WorkRecord]
    BY DataTypes DEF Init, PCs
  <2>2. scans \in [ScanIds -> Statuses] /\ snapshots \in [ScanIds -> Graphs] /\ graph \in Graphs
    BY DataTypes DEF Init, Statuses
  <2>3. nextId \in 1..(MaxScans + 1) /\ lockQueue \in Seq(Tasks)
    BY LimitsAssumption DEF Init
  <2>4. up \in BOOLEAN /\ manualJob \in BOOLEAN /\ progress \in BOOLEAN /\ outbox = {}
    BY DEF Init
  <2> QED BY <2>1, <2>2, <2>3, <2>4 DEF TypeOK, WorkRecord
<1>2. RoomKept
  <2>1. Waiting = {}
    BY DEF Init, Waiting
  <2> QED BY <2>1, FS_EmptySet, LimitsAssumption DEF Init, RoomKept
<1>3. NoFutureRows /\ DownIsIdle
  BY DEF Init, NoFutureRows, DownIsIdle
<1>4. TasksInv
  BY InactiveInv DEF Init, TasksInv, Active, Blocking
<1>5. ProgressHonest
  BY DEF Init, ProgressHonest, Active, Blocking
<1>6. NewestScanDescribesGraph
  BY DEF Init, NewestScanDescribesGraph, ScanIds
<1> QED BY <1>1, <1>2, <1>3, <1>4, <1>5, <1>6 DEF IInv

LEMMA RequestsInv ==
  ASSUME IInv, Boot \/ DailyFires \/ ManualRequest \/ ManualSubmitted
  PROVE  IInv'
<1>1. CASE Boot
  <2>1. pc["startup"] = "idle" /\ "startup" \in Tasks /\ manualJob' \in BOOLEAN
    BY <1>1 DEF Boot, IInv, DownIsIdle, TypeOK, Tasks
  <2> QED BY <1>1, <2>1, EnterInv DEF Boot
<1>2. CASE DailyFires
  <2>1. "daily" \in Tasks /\ up' = TRUE /\ manualJob' \in BOOLEAN
    BY <1>2 DEF DailyFires, IInv, TypeOK, Tasks
  <2> QED BY <1>2, <2>1, EnterInv DEF DailyFires
<1>3. ASSUME UNCHANGED <<up, pc, lockQueue, work, progress, database>>,
             manualJob' \in BOOLEAN
      PROVE  IInv'
  BY <1>3 DEF IInv, TypeOK, RoomKept, Waiting, NoFutureRows, DownIsIdle, TasksInv,
              TaskInv, Holds, ProgressHonest, NewestScanDescribesGraph, database
<1>4. CASE ManualRequest
  BY <1>3, <1>4 DEF ManualRequest
<1>5. CASE ManualSubmitted
  <2>1. CASE pc["manual"] = "idle"
    <3>1. "manual" \in Tasks /\ up' = TRUE /\ manualJob' \in BOOLEAN
      BY <1>5 DEF ManualSubmitted, Tasks
    <3> QED BY <1>5, <2>1, <3>1, EnterInv DEF ManualSubmitted
  <2>2. CASE pc["manual"] # "idle"
    BY <1>3, <1>5, <2>2 DEF ManualSubmitted
  <2> QED BY <2>1, <2>2
<1> QED BY <1>1, <1>2, <1>4, <1>5

LEMMA BeginInv ==
  ASSUME IInv, NEW t \in Tasks, Begin(t)
  PROVE  IInv'
<1>1. /\ pc[t] = "waiting" /\ work[t] = Blank /\ Holds(t)
      /\ nextId \in Nat /\ nextId >= 1 /\ MaxScans \in Nat
  <2>1. pc[t] = "waiting" /\ Holds(t)
    BY DEF Begin, Goto
  <2>2. pc[t] \notin Active
    BY <2>1 DEF Active, Blocking
  <2>3. work[t] = Blank
    BY <2>2 DEF IInv, TasksInv, TaskInv
  <2>4. nextId \in Nat /\ nextId >= 1 /\ MaxScans \in Nat
    BY LimitsAssumption DEF IInv, TypeOK
  <2> QED BY <2>1, <2>3, <2>4
<1>2. t \in Waiting /\ Waiting \in SUBSET Tasks /\ Waiting' = Waiting \ {t}
  BY <1>1 DEF Waiting, Begin, Goto, IInv, TypeOK
<1>3. /\ Cardinality(Waiting) \in Nat /\ Cardinality(Waiting') \in Nat
      /\ Cardinality(Waiting') = Cardinality(Waiting) - 1
  BY <1>2, TasksFinite, FS_RemoveElement
<1>4. nextId' = nextId + 1 /\ nextId \in ScanIds /\ nextId' \in 1..(MaxScans + 1)
  BY <1>1, <1>3 DEF Begin, IInv, RoomKept, ScanIds
<1>5. RoomKept'
  BY <1>1, <1>3, <1>4 DEF IInv, RoomKept
<1>6. /\ pc' = [pc EXCEPT ![t] = "loading"]
      /\ scans' = [scans EXCEPT ![nextId] = "running"]
      /\ UNCHANGED <<up, manualJob, lockQueue, progress, graph, snapshots, outbox>>
  BY DEF Begin, Goto
<1>7. work' = [work EXCEPT ![t] = [Blank EXCEPT !.id = nextId]]
  BY <1>1 DEF Begin, IInv, TypeOK
<1>8. TypeOK'
  <2>1. [Blank EXCEPT !.id = nextId] \in WorkRecord
    BY <1>4, DataTypes DEF WorkRecord, ScanIds
  <2>2. work' \in [Tasks -> WorkRecord]
    BY <1>7, <2>1 DEF IInv, TypeOK, WorkRecord
  <2> QED BY <1>4, <1>6, <2>2
          DEF IInv, TypeOK, WorkRecord, PCs, Active, Blocking, Statuses
<1>9. NoFutureRows'
  BY <1>1, <1>4, <1>6 DEF IInv, NoFutureRows, ScanIds
<1>10. DownIsIdle'
  BY <1>1, <1>6 DEF IInv, DownIsIdle
<1>11. \A u \in Tasks \ {t} : pc'[u] \notin Active /\ work'[u] = Blank
  BY <1>1, <1>6, <1>7, OthersInactive DEF IInv, TypeOK
<1>12. TaskInv(t)'
  <2>1. pc'[t] = "loading" /\ Holds(t)'
    BY <1>1, <1>6 DEF IInv, TypeOK, Holds
  <2>2. work'[t].id = nextId /\ work'[t].status = "unset"
    BY <1>7, DataTypes DEF IInv, TypeOK, Blank
  <2>3. nextId' > 1 /\ nextId' - 1 = nextId /\ scans'[nextId] = "running"
    BY <1>1, <1>4, <1>6 DEF IInv, TypeOK
  <2> QED BY <2>1, <2>2, <2>3 DEF TaskInv, Active, Blocking
<1>13. ProgressHonest'
  <2>1. \A u \in Tasks : pc[u] \notin Active
    BY <1>1, OthersInactive DEF IInv, Active, Blocking
  <2>2. \A u \in Tasks : pc'[u] \notin Active \ {"loading"}
    BY <1>6, <1>11 DEF IInv, TypeOK
  <2> QED BY <1>6, <2>1, <2>2 DEF IInv, ProgressHonest
<1>14. NewestScanDescribesGraph'
  BY <1>1, <1>4, <1>6 DEF IInv, TypeOK, NewestScanDescribesGraph
<1> QED BY <1>5, <1>8, <1>9, <1>10, <1>11, <1>12, <1>13, <1>14, InactiveInvNext
        DEF IInv, TasksInv

LEMMA ProcessEndsInv ==
  ASSUME IInv, ProcessEnds
  PROVE  IInv'
<1>1. \A u \in Tasks : pc'[u] = "idle" /\ work'[u] = Blank
  BY DEF ProcessEnds
<1>2. TypeOK'
  <2>1. pc' \in [Tasks -> PCs] /\ work' \in [Tasks -> WorkRecord] /\ lockQueue' \in Seq(Tasks)
    BY DataTypes DEF ProcessEnds, PCs
  <2> QED BY <2>1 DEF ProcessEnds, IInv, TypeOK, WorkRecord, database
<1>3. RoomKept'
  <2>1. Waiting' = {} /\ Waiting \in SUBSET Tasks
    BY <1>1 DEF Waiting
  <2>2. Cardinality(Waiting') = 0 /\ Cardinality(Waiting) \in Nat
    BY <2>1, TasksFinite, FS_EmptySet
  <2>3. nextId \in Nat /\ MaxScans \in Nat /\ nextId' = nextId
    BY LimitsAssumption DEF IInv, TypeOK, ProcessEnds, database
  <2> QED BY <2>2, <2>3 DEF IInv, RoomKept
<1>4. NoFutureRows' /\ NewestScanDescribesGraph'
  BY DEF IInv, NoFutureRows, NewestScanDescribesGraph, ProcessEnds, database
<1>5. DownIsIdle'
  BY <1>1 DEF DownIsIdle
<1>6. TasksInv'
  BY <1>1, InactiveInvNext DEF TasksInv, Active, Blocking
<1>7. ProgressHonest'
  BY <1>1 DEF ProgressHonest, ProcessEnds, Active, Blocking
<1> QED BY <1>2, <1>3, <1>4, <1>5, <1>6, <1>7 DEF IInv

(* What every task in the block starts its step from. *)
LEMMA InBlock ==
  ASSUME IInv, NEW t \in Tasks, pc[t] \in Active
  PROVE  /\ TaskInv(t) /\ Holds(t)
         /\ work[t] \in WorkRecord /\ work[t].id \in ScanIds
         /\ work[t].id = nextId - 1 /\ nextId \in Nat
         /\ graph \in Graphs /\ snapshots \in [ScanIds -> Graphs]
<1>1. TaskInv(t) /\ work[t] \in WorkRecord /\ nextId \in 1..(MaxScans + 1)
  BY DEF IInv, TasksInv, TypeOK, WorkRecord
<1>2. nextId > 1 /\ work[t].id = nextId - 1 /\ Holds(t)
  BY <1>1 DEF TaskInv
<1> QED BY <1>1, <1>2, LimitsAssumption DEF IInv, TypeOK, ScanIds

LEMMA LoadInv ==
  ASSUME IInv, NEW t \in Tasks, Load(t)
  PROVE  IInv'
<1> DEFINE w == [work[t] EXCEPT !.previous = graph]
<1>1. pc[t] = "loading" /\ pc[t] \in Active
  BY DEF Load, Goto, Active, Blocking
<1>2. /\ w \in WorkRecord /\ w.id = work[t].id /\ w.status = work[t].status
  BY <1>1, InBlock DEF WorkRecord
<1>3. /\ pc' = [pc EXCEPT ![t] = "collecting"] /\ work' = [work EXCEPT ![t] = w]
      /\ progress' = TRUE
      /\ UNCHANGED <<up, manualJob, lockQueue, nextId, scans, graph, snapshots, outbox>>
  BY DEF Load, Goto, database
<1> HIDE DEF w
<1>4. TaskInv(t)'
  <2>1. pc'[t] = "collecting" /\ work'[t] = w /\ Holds(t)'
    BY <1>1, <1>3, InBlock DEF IInv, TypeOK, Holds
  <2>2. /\ nextId > 1 /\ work[t].id = nextId - 1 /\ scans[nextId - 1] = "running"
        /\ work[t].status = "unset"
    BY <1>1, InBlock DEF TaskInv
  <2> QED BY <1>2, <1>3, <2>1, <2>2 DEF TaskInv, Active, Blocking
<1>5. NoFutureRows' /\ graph' \in Graphs /\ snapshots' \in [ScanIds -> Graphs]
  BY <1>1, <1>3, InBlock DEF IInv, NoFutureRows
<1> QED BY <1>1, <1>2, <1>3, <1>4, <1>5, BlockStepInv DEF Active, Blocking

LEMMA CollectInv ==
  ASSUME IInv, NEW t \in Tasks, Collect(t)
  PROVE  IInv'
<1>1. pc[t] = "collecting" /\ pc[t] \in Active
  BY DEF Collect, Goto, Active, Blocking
<1>2. PICK g \in Collected : work' = [work EXCEPT ![t].nodes = g]
  BY DEF Collect
<1> DEFINE w == [work[t] EXCEPT !.nodes = g]
<1>3. /\ w \in WorkRecord /\ w.id = work[t].id /\ w.status = work[t].status
      /\ w.nodes = g /\ work' = [work EXCEPT ![t] = w]
  BY <1>1, <1>2, InBlock, DataTypes DEF WorkRecord, IInv, TypeOK
<1>4. /\ pc' = [pc EXCEPT ![t] = "saving"]
      /\ UNCHANGED <<up, manualJob, lockQueue, progress, nextId, scans, graph, snapshots, outbox>>
  BY DEF Collect, Goto, database
<1> HIDE DEF w
<1>5. TaskInv(t)'
  <2>1. pc'[t] = "saving" /\ work'[t] = w /\ Holds(t)'
    BY <1>1, <1>3, <1>4, InBlock DEF IInv, TypeOK, Holds
  <2>2. /\ nextId > 1 /\ work[t].id = nextId - 1 /\ scans[nextId - 1] = "running"
        /\ work[t].status = "unset"
    BY <1>1, InBlock DEF TaskInv
  <2> QED BY <1>3, <1>4, <2>1, <2>2 DEF TaskInv, Active, Blocking
<1>6. NoFutureRows' /\ graph' \in Graphs /\ snapshots' \in [ScanIds -> Graphs]
  BY <1>1, <1>4, InBlock DEF IInv, NoFutureRows
<1>7. progress' = TRUE
  BY <1>1, <1>4 DEF IInv, TypeOK, ProgressHonest
<1> QED BY <1>1, <1>3, <1>4, <1>5, <1>6, <1>7, BlockStepInv DEF Active, Blocking

(* The except block falls back to the previous graph, or gives up. *)
LEMMA ExceptInv ==
  ASSUME IInv, NEW t \in Tasks, pc[t] \in {"collecting", "saving", "snapshotting"}, Except(t),
         UNCHANGED <<up, manualJob, progress, database>>
  PROVE  IInv'
<1>1. pc[t] \in Active
  BY DEF Active, Blocking
<1>2. /\ nextId > 1 /\ work[t].id = nextId - 1 /\ scans[nextId - 1] = "running"
      /\ work[t].status = "unset" /\ work[t] \in WorkRecord /\ work[t].previous \in Graphs
  BY <1>1, InBlock DEF TaskInv, WorkRecord
<1>3. /\ UNCHANGED <<up, manualJob, lockQueue, progress, nextId, scans, graph, snapshots, outbox>>
      /\ NoFutureRows' /\ graph' \in Graphs /\ snapshots' \in [ScanIds -> Graphs]
  BY <1>1, InBlock DEF IInv, NoFutureRows, Except, database
<1>4. progress' = TRUE
  BY <1>1, <1>3 DEF IInv, TypeOK, ProgressHonest
<1>5. Holds(t)'
  BY <1>1, <1>3, InBlock DEF Holds
<1>6. CASE work[t].previous.content # Empty
  <2> DEFINE w == [work[t] EXCEPT !.nodes = MarkStale(work[t].previous)]
  <2>1. /\ w \in WorkRecord /\ w.id = work[t].id /\ w.status = work[t].status
        /\ w.nodes = MarkStale(work[t].previous)
    BY <1>2, DataTypes DEF WorkRecord
  <2>2. pc' = [pc EXCEPT ![t] = "staleSaving"] /\ work' = [work EXCEPT ![t] = w]
    BY <1>6 DEF Except, IInv, TypeOK
  <2> HIDE DEF w
  <2>3. pc'[t] = "staleSaving" /\ work'[t] = w
    BY <2>2 DEF IInv, TypeOK
  <2>4. w.nodes.content # Empty /\ w.nodes.state = "stale"
    BY <1>2, <1>6, <2>1, MarkedStale
  <2>5. TaskInv(t)'
    BY <1>2, <1>3, <1>5, <2>1, <2>3, <2>4 DEF TaskInv, Active, Blocking
  <2> QED BY <1>1, <1>3, <1>4, <2>1, <2>2, <2>5, BlockStepInv DEF Active, Blocking
<1>7. CASE work[t].previous.content = Empty
  <2> DEFINE w == [work[t] EXCEPT !.status = "failed"]
  <2>1. w \in WorkRecord /\ w.id = work[t].id /\ w.status = "failed"
    BY <1>2 DEF WorkRecord, Final
  <2>2. pc' = [pc EXCEPT ![t] = "closing"] /\ work' = [work EXCEPT ![t] = w]
    BY <1>7 DEF Except, IInv, TypeOK
  <2> HIDE DEF w
  <2>3. pc'[t] = "closing" /\ work'[t] = w
    BY <2>2 DEF IInv, TypeOK
  <2>4. TaskInv(t)'
    BY <1>2, <1>3, <1>5, <2>1, <2>3 DEF TaskInv, Active, Blocking
  <2> QED BY <1>1, <1>3, <1>4, <2>1, <2>2, <2>4, BlockStepInv DEF Active, Blocking
<1> QED BY <1>6, <1>7

LEMMA SaveInv ==
  ASSUME IInv, NEW t \in Tasks, Save(t)
  PROVE  IInv'
<1>1. PICK p \in {"snapshotting", "staleSnapshotting"} :
        /\ pc' = [pc EXCEPT ![t] = p]
        /\ p = "snapshotting" => pc[t] = "saving"
        /\ p = "staleSnapshotting" => pc[t] = "staleSaving"
  BY DEF Save, Goto
<1>2. pc[t] \in Active /\ p \in Active
  BY <1>1 DEF Active, Blocking
<1>3. /\ graph' = work[t].nodes /\ work' = [work EXCEPT ![t] = work[t]]
      /\ UNCHANGED <<up, manualJob, lockQueue, work, progress, nextId, scans, snapshots, outbox>>
  BY DEF Save, IInv, TypeOK
<1>4. /\ work[t] \in WorkRecord /\ graph' \in Graphs
      /\ snapshots' \in [ScanIds -> Graphs] /\ NoFutureRows'
  BY <1>2, <1>3, InBlock DEF WorkRecord, IInv, NoFutureRows
<1>5. progress' = TRUE
  BY <1>1, <1>2, <1>3 DEF IInv, TypeOK, ProgressHonest
<1>6. TaskInv(t)'
  <2>1. pc'[t] = p /\ work'[t] = work[t] /\ Holds(t)'
    BY <1>1, <1>2, <1>3, InBlock DEF IInv, TypeOK, Holds
  <2>2. TaskInv(t)
    BY <1>2, InBlock
  <2> QED BY <1>1, <1>2, <1>3, <2>1, <2>2 DEF TaskInv, Active, Blocking
<1> QED BY <1>1, <1>2, <1>3, <1>4, <1>5, <1>6, BlockStepInv

LEMMA SaveSnapshotInv ==
  ASSUME IInv, NEW t \in Tasks, SaveSnapshot(t)
  PROVE  IInv'
<1> DEFINE w == [work[t] EXCEPT !.status = StatusOf(work[t].nodes)]
<1>1. /\ pc[t] \in {"snapshotting", "staleSnapshotting"} /\ pc[t] \in Active
      /\ pc' = [pc EXCEPT ![t] = "closing"]
  BY DEF SaveSnapshot, Goto, Active, Blocking
<1>2. /\ work[t] \in WorkRecord /\ work[t].id \in ScanIds /\ work[t].nodes \in Graphs
      /\ nextId \in Nat /\ nextId > 1 /\ work[t].id = nextId - 1
      /\ scans[nextId - 1] = "running" /\ graph = work[t].nodes
  BY <1>1, InBlock DEF TaskInv, WorkRecord
<1>3. /\ w \in WorkRecord /\ w.id = work[t].id /\ w.status = StatusOf(work[t].nodes)
      /\ work' = [work EXCEPT ![t] = w]
  BY <1>2, DataTypes DEF SaveSnapshot, WorkRecord, IInv, TypeOK
<1>4. /\ UNCHANGED <<up, manualJob, lockQueue, progress, nextId, scans, graph, outbox>>
      /\ snapshots' = WithSnapshot(snapshots, work[t].id, work[t].nodes)
  BY DEF SaveSnapshot
<1> HIDE DEF w
<1>5. /\ snapshots' \in [ScanIds -> Graphs]
      /\ \A j \in ScanIds \ {work[t].id} : snapshots'[j] \in {NoGraph, snapshots[j]}
  BY <1>1, <1>2, <1>4, InBlock, WithSnapshotRows
<1>6. NoFutureRows'
  BY <1>2, <1>4, <1>5 DEF IInv, NoFutureRows, ScanIds
<1>7. snapshots'[work[t].id] = graph
  <2>1. \A j \in ScanIds : j > work[t].id => snapshots[j] = NoGraph
    BY <1>2 DEF IInv, NoFutureRows, ScanIds
  <2> QED BY <1>2, <1>4, <2>1, OwnSnapshotKept
<1>8. graph.state = "fresh" \/ graph.content # Empty
  BY <1>1, <1>2, InBlock, CollectedUsable DEF TaskInv
<1>9. TaskInv(t)'
  <2>1. pc'[t] = "closing" /\ work'[t] = w /\ Holds(t)'
    BY <1>1, <1>3, <1>4, InBlock DEF IInv, TypeOK, Holds
  <2> QED BY <1>2, <1>3, <1>4, <1>7, <1>8, <2>1 DEF TaskInv, Active, Blocking
<1>10. progress' = TRUE /\ graph' \in Graphs
  BY <1>1, <1>4, InBlock DEF IInv, TypeOK, ProgressHonest
<1> QED BY <1>1, <1>3, <1>4, <1>5, <1>6, <1>9, <1>10, BlockStepInv DEF Active, Blocking

LEMMA StaleSavingFailsInv ==
  ASSUME IInv, NEW t \in Tasks, StaleSavingFails(t)
  PROVE  IInv'
<1>1. /\ pc[t] \in {"staleSaving", "staleSnapshotting"} /\ pc[t] \in Active
      /\ pc' = [pc EXCEPT ![t] = "closing"]
      /\ UNCHANGED <<up, manualJob, lockQueue, work, progress, nextId, scans, graph, snapshots, outbox>>
  BY DEF StaleSavingFails, Active, Blocking, database
<1>2. /\ work' = [work EXCEPT ![t] = work[t]] /\ work[t] \in WorkRecord
      /\ NoFutureRows' /\ graph' \in Graphs /\ snapshots' \in [ScanIds -> Graphs]
  BY <1>1, InBlock DEF IInv, TypeOK, NoFutureRows
<1>3. progress' = TRUE
  BY <1>1 DEF IInv, TypeOK, ProgressHonest
<1>4. TaskInv(t)'
  <2>1. pc'[t] = "closing" /\ work'[t] = work[t] /\ Holds(t)'
    BY <1>1, InBlock DEF IInv, TypeOK, Holds
  <2>2. TaskInv(t)
    BY <1>1, InBlock
  <2> QED BY <1>1, <2>1, <2>2 DEF TaskInv, Active, Blocking
<1> QED BY <1>1, <1>2, <1>3, <1>4, BlockStepInv DEF Active, Blocking

(* The closing transaction: what the task knew becomes what the newest row *)
(* says.                                                                   *)
LEMMA FinishInv ==
  ASSUME IInv, NEW t \in Tasks, Finish(t)
  PROVE  IInv'
<1>1. /\ pc[t] = "closing" /\ pc[t] \in Active
      /\ work[t].status # "unset" /\ Leave(t) /\ progress' = FALSE
      /\ scans' = WithStatus(scans, work[t].id, work[t].status)
      /\ snapshots' = Cascade(snapshots, scans)
      /\ outbox' = outbox \cup Alerts(work[t].id, work[t].status)
      /\ UNCHANGED <<up, manualJob, nextId, graph>>
  BY DEF Finish, Bound, Active, Blocking
<1>2. /\ work[t].id \in ScanIds /\ work[t].id = nextId - 1 /\ nextId \in Nat
      /\ work[t].status \in Final /\ Holds(t) /\ graph \in Graphs
      /\ snapshots \in [ScanIds -> Graphs] /\ scans \in [ScanIds -> Statuses]
  BY <1>1, InBlock DEF WorkRecord, IInv, TypeOK
<1>3. /\ scans' \in [ScanIds -> Statuses] /\ snapshots' \in [ScanIds -> Graphs]
      /\ \A j \in ScanIds : snapshots'[j] \in {NoGraph, snapshots[j]}
      /\ \A j \in ScanIds \ {work[t].id} : scans'[j] \in {"absent", scans[j]}
      /\ scans'[work[t].id] = work[t].status
      /\ snapshots'[work[t].id] = snapshots[work[t].id]
  <2>1. scans[work[t].id] # "absent"
    BY <1>1, <1>2, InBlock DEF TaskInv
  <2>2. \A j \in ScanIds : j > work[t].id => scans[j] = "absent"
    BY <1>2 DEF IInv, NoFutureRows, ScanIds
  <2> QED BY <1>1, <1>2, <2>1, <2>2, ClosedRows
<1>4. NoFutureRows'
  BY <1>1, <1>2, <1>3 DEF IInv, NoFutureRows, ScanIds
<1>5. outbox' \subseteq {"scan.degraded", "scan.recovered", "graph.outputs.changed"} \X ScanIds
  BY <1>1, <1>2 DEF Alerts, IInv, TypeOK
<1>6. NewestScanDescribesGraph'
  <2>1. work[t].status \in {"success", "degraded"} =>
          /\ snapshots[work[t].id] = graph
          /\ work[t].status = StatusOf(graph)
          /\ graph.state = "fresh" \/ graph.content # Empty
    BY <1>1, InBlock DEF TaskInv
  <2>2. scans'[work[t].id] # "absent"
    BY <1>2, <1>3 DEF Final
  <2>3. scans'[work[t].id] = "success" =>
          graph.state = "fresh" /\ snapshots'[work[t].id] = graph
    BY <1>3, <2>1 DEF StatusOf
  <2>4. scans'[work[t].id] = "degraded" =>
          /\ graph.content # Empty /\ graph.state # "fresh"
          /\ snapshots'[work[t].id] = graph
    BY <1>3, <2>1 DEF StatusOf
  <2> QED BY <1>1, <1>2, <2>2, <2>3, <2>4 DEF NewestScanDescribesGraph
<1> QED BY <1>1, <1>2, <1>3, <1>4, <1>5, <1>6, LeaveInv

(* A refresh that leaves by an exception writes nothing. *)
LEMMA FailsInv ==
  ASSUME IInv, NEW t \in Tasks, OpeningFails(t) \/ FinishFails(t)
  PROVE  IInv'
<1>1. /\ Holds(t) /\ pc[t] # "idle" /\ Leave(t)
      /\ UNCHANGED <<up, manualJob, nextId, scans, graph, snapshots, outbox>>
  BY InBlock DEF OpeningFails, FinishFails, Active, Blocking, database
<1>2. progress' = FALSE
  <2>1. CASE FinishFails(t)
    BY <2>1 DEF FinishFails
  <2>2. CASE OpeningFails(t)
    <3>1. \A u \in Tasks : pc[u] \notin Active \ {"loading"}
      BY <1>1, <2>2, OthersInactive DEF OpeningFails, IInv, Active, Blocking
    <3>2. progress = FALSE
      BY <3>1 DEF IInv, TypeOK, ProgressHonest
    <3> QED BY <2>2, <3>2 DEF OpeningFails
  <2> QED BY <2>1, <2>2
<1>3. /\ scans' \in [ScanIds -> Statuses] /\ snapshots' \in [ScanIds -> Graphs]
      /\ outbox' \subseteq {"scan.degraded", "scan.recovered", "graph.outputs.changed"} \X ScanIds
      /\ NoFutureRows' /\ NewestScanDescribesGraph'
  BY <1>1 DEF IInv, TypeOK, NoFutureRows, NewestScanDescribesGraph
<1> QED BY <1>1, <1>2, <1>3, LeaveInv

LEMMA NextInv == IInv /\ [Next]_vars => IInv'
<1> SUFFICES ASSUME IInv, [Next]_vars PROVE IInv'
  OBVIOUS
<1>1. CASE UNCHANGED vars
  BY <1>1 DEF vars, IInv, TypeOK, RoomKept, Waiting, NoFutureRows, DownIsIdle, TasksInv,
              TaskInv, Holds, ProgressHonest, NewestScanDescribesGraph
<1>2. ASSUME NEW t \in Tasks, Refresh(t) PROVE IInv'
  <2>1. CASE CollectFails(t)
    BY <2>1, ExceptInv DEF CollectFails
  <2>2. CASE SavingFails(t)
    BY <2>2, ExceptInv DEF SavingFails
  <2> QED
    BY <1>2, <2>1, <2>2, BeginInv, LoadInv, CollectInv, SaveInv, SaveSnapshotInv,
       StaleSavingFailsInv, FinishInv, FailsInv
    DEF Refresh
<1>3. CASE Shutdown \/ Crash
  BY <1>3, ProcessEndsInv DEF Shutdown, Crash
<1> QED
  BY <1>1, <1>2, <1>3, RequestsInv DEF Next, Quiescent

-----------------------------------------------------------------------------
(* The theorems.                                                           *)

THEOREM ScanRefreshInvariant == Spec => []IInv
BY InitInv, NextInv, PTL DEF Spec

(* Every variable keeps its type; a scan row only ever gets a status that  *)
(* the code computes, and no scan starts beyond the bound.                 *)
THEOREM TypeCorrect == Spec => []TypeOK
BY ScanRefreshInvariant, PTL DEF IInv

LEMMA InvRunning == IInv => RunningScanKept
BY DEF IInv, TasksInv, TaskInv, RunningScanKept

(* The task between taking and releasing refresh_lock is alone there, and  *)
(* the row it will close is the newest and still "running".                *)
THEOREM ScansAreExclusive == Spec => []RunningScanKept
BY ScanRefreshInvariant, InvRunning, PTL

(* /api/status reports a running scan exactly while there is one, whatever *)
(* transaction fails.                                                      *)
THEOREM ProgressIsHonest == Spec => []ProgressHonest
BY ScanRefreshInvariant, PTL DEF IInv

(* The newest scan row describes the graph that is served, after any       *)
(* sequence of failures and crashes.                                       *)
THEOREM NewestScanIsTruthful == Spec => []NewestScanDescribesGraph
BY ScanRefreshInvariant, PTL DEF IInv

LEMMA GraphStep ==
  ASSUME IInv, [Next]_vars, graph.content # Empty, graph'.content = Empty
  PROVE  \E t \in Tasks : pc[t] = "saving" /\ work[t].nodes = EmptyGraph
<1>1. PICK t \in Tasks : Save(t)
  BY DEF Next, vars, process, database, Boot, DailyFires, ManualRequest, ManualSubmitted,
         Refresh, Begin, Load, Collect, CollectFails, SaveSnapshot, Finish, OpeningFails,
         SavingFails, StaleSavingFails, FinishFails, Shutdown, Crash, ProcessEnds, Quiescent
<1>2. graph' = work[t].nodes /\ pc[t] \in {"saving", "staleSaving"}
  BY <1>1 DEF Save, Goto
<1>3. TaskInv(t)
  BY DEF IInv, TasksInv
<1> QED BY <1>2, <1>3, CollectedUsable DEF TaskInv

(* No failure and no crash takes a usable graph away: only a collection    *)
(* that really found nothing empties it.                                   *)
THEOREM UsableGraphIsKept == Spec => UsableGraphKept
<1>1. IInv /\ [Next]_vars =>
        [graph.content # Empty /\ graph'.content = Empty =>
           \E t \in Tasks : pc[t] = "saving" /\ work[t].nodes = EmptyGraph]_vars
  BY GraphStep
<1> QED BY <1>1, ScanRefreshInvariant, PTL DEF Spec, UsableGraphKept

-----------------------------------------------------------------------------
(* What scans leave behind.                                                *)

(* Scan rows are pruned from the oldest on and never while they are the    *)
(* one before the scan in progress.                                        *)
RowsInv ==
  /\ HistoryBounded
  /\ \A i, j \in ScanIds : i < j /\ j < nextId /\ scans[i] # "absent" => scans[j] # "absent"
  /\ nextId - 2 \in ScanIds /\ scans[nextId - 1] = "running" => scans[nextId - 2] # "absent"

(* After a degraded scan there is a graph to fall back to. *)
FallbackInv ==
  \A t \in Tasks :
    pc[t] \in Active /\ nextId - 2 \in ScanIds /\ scans[nextId - 2] = "degraded" =>
      /\ pc[t] = "loading" => graph.content # Empty
      /\ pc[t] # "loading" => work[t].previous.content # Empty
      /\ work[t].status # "failed"

Degraded(i) == <<"scan.degraded", i>> \in outbox
Recovered(i) == <<"scan.recovered", i>> \in outbox

(* The scans from i to j closed without an announced recovery. *)
Unrecovered(i, j) ==
  /\ i <= j
  /\ Degraded(i)
  /\ \A k \in (i + 1)..j : scans[k] \in Final
  /\ \A k \in i..j : ~Recovered(k)

AlertsInv ==
  /\ \A e \in outbox : e[2] < nextId /\ scans[e[2]] # "running"
  /\ \A i \in ScanIds : Degraded(i) => scans[i] \in {"degraded", "absent"}
  /\ \A i \in ScanIds : i + 1 \in ScanIds => ~(Degraded(i) /\ Degraded(i + 1))
  /\ \A i, j \in ScanIds : Unrecovered(i, j) /\ i < j => scans[j] = "degraded" /\ ~Degraded(j)

(* Consecutive successes were announced as the code compares them. *)
OutputsInv ==
  \A i, j \in Comparable :
    i < j /\ (\A k \in Comparable : k <= i \/ k >= j)
      => (<<"graph.outputs.changed", j>> \in outbox
            <=> SafeOutputChanges(snapshots[i], snapshots[j]) # {})

HistoryInv == RowsInv /\ FallbackInv /\ AlertsInv /\ OutputsInv

-----------------------------------------------------------------------------
(* The newest elements of a set of scans.                                  *)

LEMMA ScanSetsFinite ==
  ASSUME NEW S \in SUBSET ScanIds
  PROVE  IsFiniteSet(S) /\ Cardinality(S) \in Nat
<1>1. IsFiniteSet(ScanIds)
  BY FS_Interval, LimitsAssumption DEF ScanIds
<1> QED BY <1>1, FS_Subset, FS_CardinalityType

LEMMA OldestScan ==
  ASSUME NEW S \in SUBSET ScanIds, S # {}
  PROVE  \E m \in S : \A k \in S : m <= k
<1>1. S \in SUBSET Nat
  BY DEF ScanIds
<1>2. PICK m \in S : \A k \in S : <<k, m>> \notin OpToRel(<, Nat)
  BY <1>1, WFMin, NatLessThanWellFounded
<1>3. \A k \in S : ~(k < m)
  BY <1>1, <1>2 DEF OpToRel
<1> QED BY <1>1, <1>3

LEMMA LatestScan ==
  ASSUME NEW S \in SUBSET ScanIds, S # {}
  PROVE  \E m \in S : \A k \in S : k <= m
<1> DEFINE T == {MaxScans + 1 - i : i \in S}
<1>1. T \in SUBSET ScanIds /\ T # {}
  <2>1. \A i \in S : MaxScans + 1 - i \in ScanIds
    BY LimitsAssumption DEF ScanIds
  <2>2. PICK i \in S : TRUE
    OBVIOUS
  <2>3. MaxScans + 1 - i \in T
    OBVIOUS
  <2> QED BY <2>1, <2>3
<1>2. PICK x \in T : \A y \in T : x <= y
  BY <1>1, OldestScan
<1>3. PICK m \in S : x = MaxScans + 1 - m
  BY <1>2
<1>4. \A i \in S : MaxScans + 1 - i \in T
  OBVIOUS
<1> HIDE DEF T
<1>5. \A k \in S : k <= m
  BY <1>2, <1>3, <1>4, LimitsAssumption DEF ScanIds
<1> QED BY <1>5

(* A set of which every element has fewer than n above it has at most n.   *)
LEMMA NewestBounded ==
  ASSUME NEW S \in SUBSET ScanIds, NEW n \in Nat
  PROVE  Cardinality(Newest(S, n)) <= n
<1> DEFINE T == Newest(S, n)
<1>1. T \in SUBSET S /\ T \in SUBSET ScanIds
  BY DEF Newest
<1>2. CASE T = {}
  BY <1>2, FS_EmptySet
<1>3. CASE T # {}
  <2>1. PICK m \in T : \A k \in T : m <= k
    BY <1>1, <1>3, OldestScan
  <2> DEFINE above == {j \in S : j > m}
  <2>2. Cardinality(above) < n
    BY <2>1 DEF Newest
  <2>3. T \ {m} \in SUBSET above
    BY <1>1, <2>1 DEF ScanIds
  <2>4. IsFiniteSet(above) /\ Cardinality(above) \in Nat
    BY ScanSetsFinite
  <2> HIDE DEF above, T
  <2>5. Cardinality(T \ {m}) <= Cardinality(above)
    BY <2>3, <2>4, FS_Subset
  <2>6. Cardinality(T \ {m}) = Cardinality(T) - 1 /\ Cardinality(T) \in Nat
    BY <1>1, <2>1, ScanSetsFinite, FS_RemoveElement
  <2>7. Cardinality(T) <= n
    BY <2>2, <2>4, <2>5, <2>6
  <2> QED BY <2>7 DEF T
<1> QED BY <1>2, <1>3

(* What is newer than a kept element is kept. *)
LEMMA NewestClosed ==
  ASSUME NEW S \in SUBSET ScanIds, NEW n \in Nat, NEW i \in Newest(S, n), NEW j \in S, i < j
  PROVE  j \in Newest(S, n)
<1> DEFINE abovei == {k \in S : k > i}
           abovej == {k \in S : k > j}
<1>1. i \in ScanIds /\ Cardinality(abovei) < n
  BY DEF Newest
<1>2. abovej \in SUBSET abovei
  <2>1. ASSUME NEW k \in S, k > j PROVE k > i
    BY <1>1, <2>1 DEF ScanIds
  <2> QED BY <2>1
<1>3. IsFiniteSet(abovei) /\ Cardinality(abovei) \in Nat /\ Cardinality(abovej) \in Nat
  BY ScanSetsFinite
<1> HIDE DEF abovei, abovej
<1>4. Cardinality(abovej) < n
  BY <1>1, <1>2, <1>3, FS_Subset
<1> QED BY <1>4 DEF abovej, Newest

(* The newest element is kept. *)
LEMMA NewestKept ==
  ASSUME NEW S \in SUBSET ScanIds, NEW n \in Nat \ {0}, NEW i \in S, \A j \in S : j <= i
  PROVE  i \in Newest(S, n)
<1>1. {j \in S : j > i} = {}
  <2>1. ASSUME NEW j \in S PROVE ~(j > i)
    BY <2>1 DEF ScanIds
  <2> QED BY <2>1
<1>2. Cardinality({j \in S : j > i}) < n
  BY <1>1, FS_EmptySet
<1> QED BY <1>2 DEF Newest

(* Inserting a snapshot prunes from the oldest on. *)
LEMMA SnapshotsPruned ==
  ASSUME NEW ss \in [ScanIds -> Graphs], NEW id \in ScanIds, NEW g \in Graphs
  PROVE  /\ SnapshotRows(WithSnapshot(ss, id, g)) \subseteq SnapshotRows(ss) \cup {id}
         /\ Cardinality(SnapshotRows(WithSnapshot(ss, id, g))) <= SnapshotLimit
         /\ \A i \in ScanIds \ {id}, j \in ScanIds \ {id} :
              i < j /\ WithSnapshot(ss, id, g)[i] # NoGraph => WithSnapshot(ss, id, g)[j] = ss[j]
<1> DEFINE S == SnapshotRows(ss) \cup {id}
           kept == Newest(S, SnapshotLimit)
           ws == WithSnapshot(ss, id, g)
<1>1. S \in SUBSET ScanIds /\ SnapshotLimit \in Nat
  BY LimitsAssumption DEF SnapshotRows
<1>2. kept \in SUBSET S /\ kept \in SUBSET ScanIds /\ Cardinality(kept) <= SnapshotLimit
  BY <1>1, NewestBounded DEF Newest
<1>3. \A i \in ScanIds : ws[i] = IF i \notin kept THEN NoGraph ELSE IF i = id THEN g ELSE ss[i]
  BY DEF WithSnapshot
<1>4. \A i \in kept, j \in S : i < j => j \in kept
  BY <1>1, NewestClosed
<1>5. \A j \in ScanIds \ {id} : j \notin S => ss[j] = NoGraph
  BY DEF SnapshotRows
<1> HIDE DEF S, kept, ws
<1>6. SnapshotRows(ws) \in SUBSET kept
  BY <1>3 DEF SnapshotRows
<1>7. Cardinality(SnapshotRows(ws)) <= SnapshotLimit
  <2>1. /\ IsFiniteSet(kept) /\ Cardinality(kept) \in Nat
        /\ Cardinality(SnapshotRows(ws)) \in Nat
    BY <1>2, <1>6, ScanSetsFinite
  <2>2. Cardinality(SnapshotRows(ws)) <= Cardinality(kept)
    BY <1>6, <2>1, FS_Subset
  <2> QED BY <1>1, <1>2, <2>1, <2>2
<1>8. \A i \in ScanIds \ {id}, j \in ScanIds \ {id} : i < j /\ ws[i] # NoGraph => ws[j] = ss[j]
  BY <1>3, <1>4, <1>5
<1> QED BY <1>2, <1>6, <1>7, <1>8 DEF S, ws

(* Closing a scan prunes from the oldest on; snapshots go with their rows. *)
LEMMA RowsPruned ==
  ASSUME NEW sc \in [ScanIds -> Statuses], NEW ss \in [ScanIds -> Graphs],
         NEW id \in ScanIds, NEW status \in Final
  PROVE  /\ Cardinality(Rows(WithStatus(sc, id, status))) <= ScanLimit
         /\ \A i, j \in ScanIds :
              i < j /\ WithStatus(sc, id, status)[i] # "absent" /\ sc[j] # "absent"
                => WithStatus(sc, id, status)[j] # "absent"
         /\ \A i \in ScanIds :
              Cascade(ss, sc)[i] =
                IF WithStatus(sc, id, status)[i] = "absent" THEN NoGraph ELSE ss[i]
         /\ \A i \in ScanIds :
              sc[i] = "absent" => WithStatus(sc, id, status)[i] = "absent"
<1> DEFINE S == Rows(sc)
           kept == Newest(S, ScanLimit)
           ws == WithStatus(sc, id, status)
<1>1. S \in SUBSET ScanIds /\ ScanLimit \in Nat
  BY LimitsAssumption DEF Rows
<1>2. kept \in SUBSET S /\ kept \in SUBSET ScanIds /\ Cardinality(kept) <= ScanLimit
  BY <1>1, NewestBounded DEF Newest
<1>3. \A i \in ScanIds :
        /\ ws[i] = IF i \notin kept THEN "absent" ELSE IF i = id THEN status ELSE sc[i]
        /\ Cascade(ss, sc)[i] = IF i \in kept THEN ss[i] ELSE NoGraph
        /\ i \in S <=> sc[i] # "absent"
  BY DEF WithStatus, Cascade, Rows
<1>4. \A i \in kept, j \in S : i < j => j \in kept
  BY <1>1, NewestClosed
<1>5. status # "absent"
  BY DEF Final
<1> HIDE DEF S, kept, ws
<1>6. \A i \in ScanIds : ws[i] # "absent" <=> i \in kept
  BY <1>2, <1>3, <1>5
<1>7. Rows(ws) = kept
  BY <1>2, <1>6 DEF Rows
<1> QED BY <1>2, <1>3, <1>4, <1>6, <1>7 DEF ws

(* `_safe_output_changes` finds something exactly when the outputs differ. *)
LEMMA SafeOutputsCompare ==
  ASSUME NEW g, NEW h
  PROVE  SafeOutputChanges(g, h) # {} <=>
           {<<b, g.content[b]>> : b \in {b \in Nodes(g) : g.content[b] # {}}}
             # {<<b, h.content[b]>> : b \in {b \in Nodes(h) : h.content[b] # {}}}
<1> DEFINE Out(x) == {<<b, x.content[b]>> : b \in {b \in Nodes(x) : x.content[b] # {}}}
<1>1. \A x, b : <<b, x.content[b]>> \in Out(x) => b \in Nodes(x) /\ x.content[b] # {}
  OBVIOUS
<1>2. \A x, b : b \in Nodes(x) /\ x.content[b] # {} => <<b, x.content[b]>> \in Out(x)
  OBVIOUS
<1>3. \A x, e : e \in Out(x) => e = <<e[1], x.content[e[1]]>> /\ e[1] \in Nodes(x) /\ x.content[e[1]] # {}
  OBVIOUS
<1>4. \A b : b \in SafeOutputChanges(g, h) <=>
        \/ b \in Nodes(g) /\ b \in Nodes(h) /\ g.content[b] # h.content[b]
        \/ b \in Nodes(h) /\ b \notin Nodes(g) /\ h.content[b] # {}
        \/ b \in Nodes(g) /\ b \notin Nodes(h) /\ g.content[b] # {}
  BY DEF SafeOutputChanges, Diff
<1> HIDE DEF Out
<1>5. ASSUME NEW b, b \in SafeOutputChanges(g, h) PROVE Out(g) # Out(h)
  <2>1. SUFFICES ASSUME Out(g) = Out(h) PROVE FALSE
    OBVIOUS
  <2>2. CASE b \in Nodes(g) /\ g.content[b] # {}
    <3>1. <<b, g.content[b]>> \in Out(h)
      BY <1>2, <2>1, <2>2
    <3>2. b \in Nodes(h) /\ h.content[b] = g.content[b]
      BY <1>3, <3>1
    <3> QED BY <1>4, <1>5, <2>2, <3>2
  <2>3. CASE b \in Nodes(h) /\ h.content[b] # {}
    <3>1. <<b, h.content[b]>> \in Out(g)
      BY <1>2, <2>1, <2>3
    <3>2. b \in Nodes(g) /\ h.content[b] = g.content[b]
      BY <1>3, <3>1
    <3> QED BY <1>4, <1>5, <2>3, <3>2
  <2> QED BY <1>4, <1>5, <2>2, <2>3
<1>6. ASSUME SafeOutputChanges(g, h) = {} PROVE Out(g) = Out(h)
  <2>1. \A e : e \in Out(g) <=> e \in Out(h)
    <3>1. ASSUME NEW e, e \in Out(g) PROVE e \in Out(h)
      <4>1. e = <<e[1], g.content[e[1]]>> /\ e[1] \in Nodes(g) /\ g.content[e[1]] # {}
        BY <1>3, <3>1
      <4>2. e[1] \in Nodes(h) /\ h.content[e[1]] = g.content[e[1]]
        BY <1>4, <1>6, <4>1
      <4> QED BY <1>2, <4>1, <4>2
    <3>2. ASSUME NEW e, e \in Out(h) PROVE e \in Out(g)
      <4>1. e = <<e[1], h.content[e[1]]>> /\ e[1] \in Nodes(h) /\ h.content[e[1]] # {}
        BY <1>3, <3>2
      <4>2. e[1] \in Nodes(g) /\ h.content[e[1]] = g.content[e[1]]
        BY <1>4, <1>6, <4>1
      <4> QED BY <1>2, <4>1, <4>2
    <3> QED BY <3>1, <3>2
  <2>2. \A e \in Out(g) : e \in Out(h)
    BY <2>1
  <2>3. \A e \in Out(h) : e \in Out(g)
    BY <2>1
  <2> QED BY <2>2, <2>3
<1> QED BY <1>5, <1>6 DEF Out

LEMMA OutputsAnnounced == OutputsInv <=> OutputChangesAnnounced
<1> DEFINE Out(x) == {<<b, x.content[b]>> : b \in {b \in Nodes(x) : x.content[b] # {}}}
<1>1. \A g, h : SafeOutputChanges(g, h) # {} <=> Out(g) # Out(h)
  BY SafeOutputsCompare
<1>2. OutputChangesAnnounced <=>
        \A i, j \in Comparable :
          i < j /\ (\A k \in Comparable : k <= i \/ k >= j)
            => (<<"graph.outputs.changed", j>> \in outbox
                  <=> Out(snapshots[i]) # Out(snapshots[j]))
  BY DEF OutputChangesAnnounced
<1> HIDE DEF Out
<1> QED BY <1>1, <1>2, Zenon DEF OutputsInv

-----------------------------------------------------------------------------
(* A degraded scan is followed by one that has a graph to fall back to.    *)

LEMMA RefreshFallback ==
  ASSUME IInv, FallbackInv, NEW t \in Tasks, Refresh(t)
  PROVE  FallbackInv'
<1> SUFFICES ASSUME NEW u \in Tasks, pc'[u] \in Active, nextId' - 2 \in ScanIds,
                    scans'[nextId' - 2] = "degraded"
             PROVE  /\ pc'[u] = "loading" => graph'.content # Empty
                    /\ pc'[u] # "loading" => work'[u].previous.content # Empty
                    /\ work'[u].status # "failed"
  BY DEF FallbackInv
<1> USE DEF Active, Blocking
<1>1. Holds(t) /\ pc \in [Tasks -> PCs] /\ work \in [Tasks -> WorkRecord] /\ work[t] \in WorkRecord
  <2>1. pc[t] \in Active => Holds(t)
    BY DEF IInv, TasksInv, TaskInv
  <2>2. pc[t] \in Active \/ Holds(t)
    BY DEF Refresh, Begin, Load, Collect, CollectFails, Save, SaveSnapshot, Finish,
           OpeningFails, SavingFails, StaleSavingFails, FinishFails, Goto
  <2> QED BY <2>1, <2>2 DEF IInv, TypeOK, WorkRecord
<1>2. u = t
  <2>1. u # t => pc[u] \notin Active
    BY <1>1, OthersInactive DEF IInv
  <2>2. u # t => pc'[u] = pc[u]
    BY <1>1 DEF Refresh, Begin, Load, Collect, CollectFails, Save, SaveSnapshot, Finish,
           OpeningFails, SavingFails, StaleSavingFails, FinishFails, Goto, Leave, Except
  <2> QED BY <2>1, <2>2
<1>3. CASE Begin(t)
  <2>1. /\ nextId' = nextId + 1 /\ nextId \in Nat /\ graph' = graph
        /\ pc' = [pc EXCEPT ![t] = "loading"]
        /\ scans' = [scans EXCEPT ![nextId] = "running"] /\ scans \in [ScanIds -> Statuses]
        /\ work' = [work EXCEPT ![t].id = nextId]
    BY <1>3 DEF Begin, Goto, IInv, TypeOK
  <2>2. work[t].status = "unset"
    BY <1>3 DEF Begin, Goto, IInv, TasksInv, TaskInv
  <2>3. nextId - 1 \in ScanIds /\ scans[nextId - 1] = "degraded"
    BY <2>1 DEF ScanIds
  <2>4. graph.content # Empty
    BY <2>3 DEF IInv, NewestScanDescribesGraph
  <2>5. work'[t].status = "unset"
    BY <1>1, <2>1, <2>2 DEF WorkRecord
  <2> QED BY <1>1, <1>2, <2>1, <2>4, <2>5
<1>4. ASSUME pc[t] \in Active, UNCHANGED <<nextId, scans>>
      PROVE  /\ pc[t] = "loading" => graph.content # Empty
             /\ pc[t] # "loading" => work[t].previous.content # Empty
             /\ work[t].status # "failed"
  BY <1>4 DEF FallbackInv
<1>5. CASE Load(t)
  <2>1. /\ pc[t] = "loading" /\ pc' = [pc EXCEPT ![t] = "collecting"]
        /\ work' = [work EXCEPT ![t].previous = graph] /\ UNCHANGED <<nextId, scans>>
    BY <1>5 DEF Load, Goto, database
  <2>2. work'[t].previous = graph /\ work'[t].status = work[t].status
    BY <1>1, <2>1 DEF WorkRecord
  <2> QED BY <1>1, <1>2, <1>4, <2>1, <2>2
<1>6. CASE Collect(t)
  <2>1. PICK g \in Collected : work' = [work EXCEPT ![t].nodes = g]
    BY <1>6 DEF Collect
  <2>2. /\ pc[t] = "collecting" /\ pc' = [pc EXCEPT ![t] = "saving"] /\ UNCHANGED <<nextId, scans>>
    BY <1>6 DEF Collect, Goto, database
  <2>3. work'[t].previous = work[t].previous /\ work'[t].status = work[t].status
    BY <1>1, <2>1 DEF WorkRecord
  <2> QED BY <1>1, <1>2, <1>4, <2>2, <2>3
<1>7. CASE CollectFails(t) \/ SavingFails(t)
  <2>1. /\ pc[t] \in {"collecting", "saving", "snapshotting"} /\ Except(t)
        /\ UNCHANGED <<nextId, scans>>
    BY <1>7 DEF CollectFails, SavingFails, database
  <2>2. work[t].previous.content # Empty /\ work[t].status # "failed"
    BY <1>4, <2>1
  <2>3. /\ pc' = [pc EXCEPT ![t] = "staleSaving"]
        /\ work' = [work EXCEPT ![t].nodes = MarkStale(work[t].previous)]
    BY <2>1, <2>2 DEF Except
  <2>4. work'[t].previous = work[t].previous /\ work'[t].status = work[t].status
    BY <1>1, <2>3 DEF WorkRecord
  <2> QED BY <1>1, <1>2, <2>2, <2>3, <2>4
<1>8. CASE Save(t) \/ StaleSavingFails(t)
  <2>1. /\ pc[t] \in Active \ {"loading"} /\ pc'[t] # "loading" /\ UNCHANGED <<work, nextId, scans>>
    BY <1>1, <1>8 DEF Save, StaleSavingFails, Goto, database
  <2> QED BY <1>2, <1>4, <2>1
<1>9. CASE SaveSnapshot(t)
  <2>1. /\ pc[t] \in Active \ {"loading"} /\ pc'[t] # "loading" /\ UNCHANGED <<nextId, scans>>
        /\ work' = [work EXCEPT ![t].status = StatusOf(work[t].nodes)]
    BY <1>1, <1>9 DEF SaveSnapshot, Goto
  <2>2. work'[t].previous = work[t].previous /\ work'[t].status = StatusOf(work[t].nodes)
    BY <1>1, <2>1 DEF WorkRecord
  <2> QED BY <1>2, <1>4, <2>1, <2>2 DEF StatusOf
<1>10. CASE Finish(t) \/ OpeningFails(t) \/ FinishFails(t)
  <2>1. pc'[t] = "idle"
    BY <1>1, <1>10 DEF Finish, OpeningFails, FinishFails, Leave
  <2> QED BY <1>2, <2>1
<1> QED
  BY <1>3, <1>5, <1>6, <1>7, <1>8, <1>9, <1>10 DEF Refresh

LEMMA FallbackNext ==
  ASSUME IInv, FallbackInv, [Next]_vars
  PROVE  FallbackInv'
<1> USE DEF Active, Blocking
<1>1. CASE \E t \in Tasks : Refresh(t)
  BY <1>1, RefreshFallback
<1>2. CASE Boot \/ DailyFires \/ ManualRequest \/ ManualSubmitted
  <2>1. UNCHANGED <<work, nextId, scans, graph>>
    BY <1>2 DEF Boot, DailyFires, ManualRequest, ManualSubmitted, database
  <2>2. \A u \in Tasks : pc'[u] \in Active => pc'[u] = pc[u]
    BY <1>2 DEF Boot, DailyFires, ManualRequest, ManualSubmitted, Enter, IInv, TypeOK, Tasks
  <2> QED BY <2>1, <2>2 DEF FallbackInv
<1>3. CASE Shutdown \/ Crash
  <2>1. \A u \in Tasks : pc'[u] = "idle"
    BY <1>3 DEF Shutdown, Crash, ProcessEnds
  <2> QED BY <2>1 DEF FallbackInv
<1>4. CASE UNCHANGED vars
  BY <1>4 DEF vars, FallbackInv
<1> QED
  BY <1>1, <1>2, <1>3, <1>4 DEF Next, Quiescent

-----------------------------------------------------------------------------
(* The three transactions that write scans and snapshots.                  *)

LEMMA HistoryTypes ==
  ASSUME IInv
  PROVE  /\ scans \in [ScanIds -> Statuses] /\ snapshots \in [ScanIds -> Graphs]
         /\ nextId \in Nat /\ nextId >= 1 /\ ScanIds \subseteq Nat
         /\ \A e \in outbox : e[2] \in ScanIds
BY LimitsAssumption DEF IInv, TypeOK, ScanIds

LEMMA BeginHistory ==
  ASSUME IInv, RowsInv, AlertsInv, OutputsInv, NEW t \in Tasks, Begin(t)
  PROVE  RowsInv' /\ AlertsInv' /\ OutputsInv'
<1>1. /\ nextId' = nextId + 1 /\ UNCHANGED <<snapshots, outbox>>
      /\ scans' = [scans EXCEPT ![nextId] = "running"]
  BY DEF Begin
<1>2. /\ \A k \in ScanIds \ {nextId} : scans'[k] = scans[k]
      /\ nextId \in ScanIds => scans'[nextId] = "running"
      /\ nextId' - 1 = nextId /\ nextId' - 2 = nextId - 1
  BY <1>1, HistoryTypes
<1>3. /\ nextId \in ScanIds => scans[nextId] = "absent" /\ snapshots[nextId] = NoGraph
      /\ nextId - 1 \in ScanIds => scans[nextId - 1] # "absent"
  BY HistoryTypes DEF IInv, NoFutureRows, NewestScanDescribesGraph
<1>4. RowsInv'
  <2>1. SnapshotRows(snapshots) \subseteq Rows(scans')
    BY <1>2, <1>3 DEF RowsInv, HistoryBounded, SnapshotRows, Rows
  <2>2. \A i \in ScanIds : ~(i = nextId' - 1 /\ scans'[i] \in Final)
    BY <1>2 DEF Final
  <2>3. HistoryBounded'
    BY <1>1, <2>1, <2>2 DEF RowsInv, HistoryBounded
  <2>4. \A i, j \in ScanIds : i < j /\ j < nextId' /\ scans'[i] # "absent" => scans'[j] # "absent"
    <3>1. SUFFICES ASSUME NEW i \in ScanIds, NEW j \in ScanIds, i < j, j < nextId + 1,
                          scans'[i] # "absent"
                   PROVE  scans'[j] # "absent"
      BY <1>1
    <3>2. CASE j = nextId
      BY <1>2, <3>2
    <3>3. CASE j # nextId
      <4>1. i # nextId /\ j < nextId
        BY <3>1, <3>3, HistoryTypes
      <4> QED BY <1>2, <3>1, <4>1 DEF RowsInv
    <3> QED BY <3>2, <3>3
  <2>5. nextId' - 2 \in ScanIds => scans'[nextId' - 2] # "absent"
    BY <1>2, <1>3, HistoryTypes
  <2> QED BY <2>3, <2>4, <2>5 DEF RowsInv
<1>5. AlertsInv'
  <2>1. \A e \in outbox : e[2] < nextId' /\ scans'[e[2]] # "running"
    BY <1>1, <1>2, HistoryTypes DEF AlertsInv
  <2>2. \A i \in ScanIds : Degraded(i) => i < nextId /\ scans'[i] = scans[i]
    BY <1>2, HistoryTypes DEF AlertsInv, Degraded
  <2>3. \A i \in ScanIds : Degraded(i)' => scans'[i] \in {"degraded", "absent"}
    BY <1>1, <2>2 DEF AlertsInv, Degraded
  <2>4. \A i \in ScanIds : i + 1 \in ScanIds => ~(Degraded(i)' /\ Degraded(i + 1)')
    BY <1>1 DEF AlertsInv, Degraded
  <2>5. ASSUME NEW i \in ScanIds, NEW j \in ScanIds, Unrecovered(i, j)', i < j
        PROVE  scans'[j] = "degraded" /\ ~Degraded(j)'
    <3>1. Degraded(i) /\ i < nextId /\ \A k \in i..j : ~Recovered(k)
      BY <1>1, <2>2, <2>5 DEF Unrecovered, Degraded, Recovered
    <3>2. j < nextId
      <4>1. nextId <= j => nextId \in (i + 1)..j /\ nextId \in ScanIds
        BY <3>1, HistoryTypes, LimitsAssumption DEF ScanIds
      <4>2. nextId <= j => scans'[nextId] \in Final
        BY <2>5, <4>1 DEF Unrecovered
      <4> QED BY <1>2, <4>1, <4>2, HistoryTypes DEF Final
    <3>3. \A k \in (i + 1)..j : k \in ScanIds \ {nextId}
      BY <3>2, HistoryTypes, LimitsAssumption DEF ScanIds
    <3>4. \A k \in (i + 1)..j : scans[k] \in Final
      BY <1>2, <2>5, <3>3 DEF Unrecovered
    <3>5. Unrecovered(i, j)
      BY <2>5, <3>1, <3>4, HistoryTypes DEF Unrecovered
    <3>6. scans'[j] = scans[j]
      BY <1>2, <3>2, HistoryTypes
    <3> QED BY <1>1, <2>5, <3>5, <3>6 DEF AlertsInv, Degraded
  <2> QED BY <1>1, <2>1, <2>3, <2>4, <2>5 DEF AlertsInv
<1>6. OutputsInv'
  <2>1. Comparable' = Comparable
    BY <1>1, <1>2, <1>3 DEF Comparable
  <2> QED BY <1>1, <2>1 DEF OutputsInv
<1> QED BY <1>4, <1>5, <1>6

LEMMA SaveSnapshotHistory ==
  ASSUME IInv, RowsInv, AlertsInv, OutputsInv, NEW t \in Tasks, SaveSnapshot(t)
  PROVE  RowsInv' /\ AlertsInv' /\ OutputsInv'
<1> DEFINE id == work[t].id
<1>1. /\ snapshots' = WithSnapshot(snapshots, id, work[t].nodes)
      /\ UNCHANGED <<nextId, scans, outbox>>
  BY DEF SaveSnapshot
<1>2. id \in ScanIds /\ scans[id] = "running" /\ work[t].nodes \in Graphs
  <2>1. pc[t] \in Active
    BY DEF SaveSnapshot, Goto, Active, Blocking
  <2> QED BY <2>1, InBlock DEF TaskInv, WorkRecord
<1> HIDE DEF id
<1>3. /\ SnapshotRows(snapshots') \subseteq SnapshotRows(snapshots) \cup {id}
      /\ Cardinality(SnapshotRows(snapshots')) <= SnapshotLimit
      /\ \A i \in ScanIds \ {id}, j \in ScanIds \ {id} :
           i < j /\ snapshots'[i] # NoGraph => snapshots'[j] = snapshots[j]
      /\ \A j \in ScanIds \ {id} : snapshots'[j] \in {NoGraph, snapshots[j]}
  <2> DEFINE g == work[t].nodes
  <2>1. snapshots \in [ScanIds -> Graphs] /\ g \in Graphs
    BY <1>2, HistoryTypes
  <2>2. snapshots' = WithSnapshot(snapshots, id, g)
    BY <1>1
  <2> HIDE DEF g
  <2>3. /\ SnapshotRows(WithSnapshot(snapshots, id, g)) \subseteq SnapshotRows(snapshots) \cup {id}
        /\ Cardinality(SnapshotRows(WithSnapshot(snapshots, id, g))) <= SnapshotLimit
        /\ \A i \in ScanIds \ {id}, j \in ScanIds \ {id} :
             i < j /\ WithSnapshot(snapshots, id, g)[i] # NoGraph
               => WithSnapshot(snapshots, id, g)[j] = snapshots[j]
    BY <1>2, <2>1, SnapshotsPruned
  <2>4. \A j \in ScanIds \ {id} : WithSnapshot(snapshots, id, g)[j] \in {NoGraph, snapshots[j]}
    BY <1>2, <2>1, WithSnapshotRows
  <2> QED BY <2>2, <2>3, <2>4
<1>4. RowsInv'
  <2>1. SnapshotRows(snapshots') \subseteq Rows(scans)
    BY <1>2, <1>3 DEF RowsInv, HistoryBounded, Rows
  <2> QED BY <1>1, <1>3, <2>1 DEF RowsInv, HistoryBounded
<1>5. AlertsInv'
  BY <1>1 DEF AlertsInv, Unrecovered, Degraded, Recovered
<1>6. OutputsInv'
  <2>1. \A i \in ScanIds : i \in Comparable' <=>
          i \in Comparable /\ i # id /\ snapshots'[i] = snapshots[i]
    BY <1>1, <1>2, <1>3 DEF Comparable
  <2>2. SUFFICES ASSUME NEW i \in Comparable', NEW j \in Comparable', i < j,
                        \A k \in Comparable' : k <= i \/ k >= j
                 PROVE  <<"graph.outputs.changed", j>> \in outbox
                          <=> SafeOutputChanges(snapshots'[i], snapshots'[j]) # {}
    BY <1>1 DEF OutputsInv
  <2>3. /\ i \in Comparable /\ j \in Comparable /\ i \in ScanIds /\ j \in ScanIds
        /\ snapshots'[i] = snapshots[i] /\ snapshots'[j] = snapshots[j]
        /\ snapshots'[i] # NoGraph /\ i # id
    BY <2>1, <2>2 DEF Comparable
  <2>4. ASSUME NEW k \in Comparable PROVE k <= i \/ k >= j
    <3>1. k \in ScanIds /\ k # id
      BY <1>2 DEF Comparable
    <3>2. i < k => snapshots'[k] = snapshots[k]
      BY <1>3, <2>3, <3>1
    <3>3. i < k => k \in Comparable'
      BY <2>1, <3>1, <3>2
    <3> QED BY <2>2, <2>3, <3>1, <3>3, HistoryTypes
  <2> QED BY <2>2, <2>3, <2>4 DEF OutputsInv
<1> QED BY <1>4, <1>5, <1>6

(* What the closing transaction of the newest scan writes. *)
LEMMA FinishWrites ==
  ASSUME IInv, RowsInv, FallbackInv, NEW t \in Tasks, Finish(t)
  PROVE  LET id == work[t].id
         IN  /\ id \in ScanIds /\ id = nextId - 1 /\ scans[id] = "running" /\ nextId' = nextId
             /\ \A j \in ScanIds \ {id} : scans'[j] \in {"absent", scans[j]}
             /\ scans'[id] = work[t].status /\ work[t].status \in Final
             /\ snapshots'[id] = snapshots[id]
             /\ work[t].status = "success" => snapshots[id] # NoGraph
             /\ Cardinality(Rows(scans')) <= ScanLimit
             /\ \A i, j \in ScanIds :
                  i < j /\ scans'[i] # "absent" /\ scans[j] # "absent" => scans'[j] # "absent"
             /\ \A j \in ScanIds :
                  snapshots'[j] = IF scans'[j] = "absent" THEN NoGraph ELSE snapshots[j]
             /\ outbox' = outbox \cup Alerts(id, work[t].status)
             /\ nextId - 2 \in ScanIds /\ scans[nextId - 2] = "degraded"
                  => work[t].status # "failed"
<1> DEFINE id == work[t].id
           status == work[t].status
<1>1. /\ pc[t] = "closing" /\ pc[t] \in Active /\ status # "unset"
      /\ scans' = WithStatus(scans, id, status) /\ snapshots' = Cascade(snapshots, scans)
      /\ outbox' = outbox \cup Alerts(id, status) /\ nextId' = nextId
  BY DEF Finish, Bound, Active, Blocking
<1>2. /\ id \in ScanIds /\ id = nextId - 1 /\ scans[id] = "running" /\ status \in Final
      /\ status = "success" => snapshots[id] = graph /\ StatusOf(graph) = "success"
  BY <1>1, InBlock DEF TaskInv, WorkRecord
<1>3. scans \in [ScanIds -> Statuses] /\ snapshots \in [ScanIds -> Graphs] /\ nextId \in Nat
  BY HistoryTypes
<1>4. \A j \in ScanIds : j > id => scans[j] = "absent"
  BY <1>2, <1>3 DEF IInv, NoFutureRows, ScanIds
<1>5. status = "success" => snapshots[id] # NoGraph
  BY <1>2 DEF StatusOf, NoGraph
<1>6. nextId - 2 \in ScanIds /\ scans[nextId - 2] = "degraded" => status # "failed"
  BY <1>1 DEF FallbackInv
<1> HIDE DEF id, status
<1>7. /\ \A j \in ScanIds \ {id} : scans'[j] \in {"absent", scans[j]}
      /\ scans'[id] = status /\ snapshots'[id] = snapshots[id]
  BY <1>1, <1>2, <1>3, <1>4, ClosedRows
<1>8. /\ Cardinality(Rows(scans')) <= ScanLimit
      /\ \A i, j \in ScanIds :
           i < j /\ scans'[i] # "absent" /\ scans[j] # "absent" => scans'[j] # "absent"
      /\ \A j \in ScanIds :
           snapshots'[j] = IF scans'[j] = "absent" THEN NoGraph ELSE snapshots[j]
  BY <1>1, <1>2, <1>3, RowsPruned
<1> QED
  BY <1>1, <1>2, <1>5, <1>6, <1>7, <1>8 DEF id, status

LEMMA FinishRows ==
  ASSUME IInv, RowsInv, FallbackInv, NEW t \in Tasks, Finish(t)
  PROVE  RowsInv'
<1> DEFINE id == work[t].id
<1>1. /\ id \in ScanIds /\ id = nextId - 1 /\ scans[id] = "running" /\ nextId' = nextId
      /\ \A j \in ScanIds \ {id} : scans'[j] \in {"absent", scans[j]}
      /\ scans'[id] \in Final
      /\ Cardinality(Rows(scans')) <= ScanLimit
      /\ \A i, j \in ScanIds :
           i < j /\ scans'[i] # "absent" /\ scans[j] # "absent" => scans'[j] # "absent"
      /\ \A j \in ScanIds :
           snapshots'[j] = IF scans'[j] = "absent" THEN NoGraph ELSE snapshots[j]
  BY FinishWrites
<1> HIDE DEF id
<1>2. SnapshotRows(snapshots') \subseteq Rows(scans')
  BY <1>1 DEF SnapshotRows, Rows
<1>3. Cardinality(SnapshotRows(snapshots')) <= SnapshotLimit
  <2> DEFINE S == SnapshotRows(snapshots)
             T == SnapshotRows(snapshots')
  <2>1. T \in SUBSET S /\ S \in SUBSET ScanIds /\ Cardinality(S) <= SnapshotLimit
    BY <1>1 DEF SnapshotRows, RowsInv, HistoryBounded
  <2> HIDE DEF S, T
  <2>2. IsFiniteSet(S) /\ Cardinality(S) \in Nat /\ Cardinality(T) \in Nat
    BY <2>1, ScanSetsFinite
  <2>3. Cardinality(T) <= Cardinality(S)
    BY <2>1, <2>2, FS_Subset
  <2>4. Cardinality(T) <= SnapshotLimit
    BY <2>1, <2>2, <2>3, LimitsAssumption
  <2> QED BY <2>4 DEF T
<1>4. HistoryBounded'
  BY <1>1, <1>2, <1>3 DEF HistoryBounded
<1>5. \A i, j \in ScanIds : i < j /\ j < nextId' /\ scans'[i] # "absent" => scans'[j] # "absent"
  <2>1. SUFFICES ASSUME NEW i \in ScanIds, NEW j \in ScanIds, i < j, j < nextId,
                        scans'[i] # "absent"
                 PROVE  scans'[j] # "absent"
    BY <1>1
  <2>2. scans[i] # "absent"
    BY <1>1, <2>1
  <2>3. scans[j] # "absent"
    BY <2>1, <2>2 DEF RowsInv
  <2> QED BY <1>1, <2>1, <2>3
<1>6. scans'[nextId' - 1] # "running"
  BY <1>1 DEF Final
<1> QED BY <1>4, <1>5, <1>6 DEF RowsInv

(* The alerts of the newest scan when the row before it is there. *)
LEMMA AlertsOf ==
  ASSUME IInv, NEW id \in ScanIds, NEW status \in Final
  PROVE  /\ \A e \in Alerts(id, status) : e[2] = id
         /\ <<"scan.degraded", id>> \in Alerts(id, status) <=>
              status = "degraded" /\ PreviousStatus(id) # "degraded"
         /\ <<"scan.recovered", id>> \in Alerts(id, status) <=>
              status = "success" /\ PreviousStatus(id) = "degraded"
         /\ <<"graph.outputs.changed", id>> \in Alerts(id, status) <=>
              status = "success" /\ OutputsChanged(id)
         /\ id - 1 \in ScanIds /\ scans[id - 1] # "absent" => PreviousStatus(id) = scans[id - 1]
<1>1. ASSUME id - 1 \in ScanIds, scans[id - 1] # "absent"
      PROVE  PreviousStatus(id) = scans[id - 1]
  <2> DEFINE S == Rows(scans)
  <2>1. id - 1 \in S /\ id - 1 < id
    BY <1>1, HistoryTypes DEF Rows
  <2>2. \A i \in ScanIds : i < id => i <= id - 1
    BY HistoryTypes
  <2>3. S \subseteq ScanIds
    BY DEF Rows
  <2> HIDE DEF S
  <2>4. IsLatestBefore(S, id - 1, id)
    BY <2>1, <2>2, <2>3 DEF IsLatestBefore
  <2>5. \A i \in S : IsLatestBefore(S, i, id) => i = id - 1
    BY <2>1, <2>2, <2>3, HistoryTypes DEF IsLatestBefore
  <2>6. (CHOOSE i \in S : IsLatestBefore(S, i, id)) = id - 1
    BY <2>1, <2>4, <2>5
  <2> QED BY <2>1, <2>6 DEF PreviousStatus, S
<1>2. \A e : e \in Alerts(id, status) <=>
        /\ e \in {"scan.degraded", "scan.recovered", "graph.outputs.changed"} \X {id}
        /\ \/ e[1] = "scan.degraded" /\ status = "degraded" /\ PreviousStatus(id) # "degraded"
           \/ e[1] = "scan.recovered" /\ status = "success" /\ PreviousStatus(id) = "degraded"
           \/ e[1] = "graph.outputs.changed" /\ status = "success" /\ OutputsChanged(id)
  BY DEF Alerts
<1> QED BY <1>1, <1>2

LEMMA FinishAlerts ==
  ASSUME IInv, RowsInv, FallbackInv, AlertsInv, NEW t \in Tasks, Finish(t)
  PROVE  AlertsInv'
<1>0. PICK id \in ScanIds, status \in Final : id = work[t].id /\ status = work[t].status
  BY FinishWrites
<1> DEFINE new == Alerts(id, status)
<1>1. /\ id \in ScanIds /\ id = nextId - 1 /\ scans[id] = "running" /\ nextId' = nextId
      /\ \A j \in ScanIds \ {id} : scans'[j] \in {"absent", scans[j]}
      /\ scans'[id] = status /\ status \in Final
      /\ outbox' = outbox \cup new
      /\ nextId - 2 \in ScanIds /\ scans[nextId - 2] = "degraded" => status # "failed"
  BY <1>0, FinishWrites
<1>2. /\ \A e \in new : e[2] = id
      /\ <<"scan.degraded", id>> \in new <=> status = "degraded" /\ PreviousStatus(id) # "degraded"
      /\ <<"scan.recovered", id>> \in new <=> status = "success" /\ PreviousStatus(id) = "degraded"
      /\ id - 1 \in ScanIds => PreviousStatus(id) = scans[id - 1] /\ scans[id - 1] # "absent"
  <2>1. id - 1 \in ScanIds => scans[id - 1] # "absent"
    BY <1>1, HistoryTypes DEF RowsInv
  <2> QED BY <1>1, <2>1, AlertsOf
<1> HIDE DEF new
<1>3. \A e \in outbox : e[2] < nextId /\ e[2] # id /\ e[2] \in ScanIds /\ scans[e[2]] # "running"
  BY <1>1, HistoryTypes DEF AlertsInv
<1>4. \A i \in ScanIds \ {id} : (Degraded(i)' <=> Degraded(i)) /\ (Recovered(i)' <=> Recovered(i))
  BY <1>1, <1>2 DEF Degraded, Recovered
<1>5. /\ Degraded(id)' <=> status = "degraded" /\ PreviousStatus(id) # "degraded"
      /\ Recovered(id)' <=> status = "success" /\ PreviousStatus(id) = "degraded"
  BY <1>1, <1>2, <1>3 DEF Degraded, Recovered
<1>6. \A e \in outbox' : e[2] < nextId' /\ scans'[e[2]] # "running"
  <2>1. id < nextId /\ scans'[id] # "running"
    BY <1>1, HistoryTypes DEF Final
  <2>2. \A e \in outbox : e[2] < nextId /\ scans'[e[2]] # "running"
    BY <1>1, <1>3
  <2> QED BY <1>1, <1>2, <2>1, <2>2
<1>7. \A i \in ScanIds : Degraded(i)' => scans'[i] \in {"degraded", "absent"}
  BY <1>1, <1>4, <1>5 DEF AlertsInv
<1>8. ASSUME NEW i \in ScanIds, i + 1 \in ScanIds, Degraded(i)', Degraded(i + 1)'
      PROVE  FALSE
  <2>1. CASE i + 1 = id
    <3>1. i = id - 1 /\ i # id
      BY <1>1, <2>1, HistoryTypes
    <3>2. scans[i] = "degraded"
      BY <1>2, <1>4, <1>8, <3>1 DEF AlertsInv
    <3> QED BY <1>2, <1>5, <1>8, <2>1, <3>1, <3>2
  <2>2. CASE i + 1 # id /\ i # id
    BY <1>4, <1>8, <2>2 DEF AlertsInv
  <2>3. CASE i = id
    <3>1. i + 1 # id /\ i + 1 = nextId
      BY <1>1, <2>3, HistoryTypes
    <3>2. Degraded(i + 1)
      BY <1>4, <1>8, <3>1
    <3>3. nextId < nextId
      BY <3>1, <3>2, <1>3 DEF Degraded
    <3> QED BY <3>3, HistoryTypes
  <2> QED BY <2>1, <2>2, <2>3
<1>9. ASSUME NEW i \in ScanIds, NEW j \in ScanIds, Unrecovered(i, j)', i < j
      PROVE  scans'[j] = "degraded" /\ ~Degraded(j)'
  <2>1. /\ Degraded(i)' /\ \A k \in (i + 1)..j : scans'[k] \in Final
        /\ \A k \in i..j : ~Recovered(k)'
    BY <1>9 DEF Unrecovered
  <2>2. scans'[j] \in Final /\ scans'[j] # "absent" /\ j <= id
    <3>1. j \in (i + 1)..j
      BY <1>9, HistoryTypes
    <3>2. scans'[j] \in Final
      BY <2>1, <3>1
    <3>3. scans'[j] # "absent"
      BY <3>2 DEF Final
    <3>4. j > id => scans[j] = "absent"
      BY <1>1, HistoryTypes DEF IInv, NoFutureRows
    <3>5. j > id => scans'[j] = "absent"
      BY <1>1, <3>4, HistoryTypes
    <3> QED BY <1>1, <3>2, <3>3, <3>5, HistoryTypes
  <2>3. i \in ScanIds \ {id} /\ Degraded(i)
    BY <1>1, <1>4, <1>9, <2>1, <2>2, HistoryTypes
  <2>4. \A k \in ScanIds : i < k /\ k <= j /\ k # id => scans[k] \in Final /\ scans'[k] = scans[k]
    <3>1. ASSUME NEW k \in ScanIds, i < k, k <= j, k # id
          PROVE  scans[k] \in Final /\ scans'[k] = scans[k]
      <4>1. k \in (i + 1)..j
        BY <3>1, HistoryTypes
      <4>2. scans'[k] \in Final
        BY <2>1, <4>1
      <4> QED BY <1>1, <3>1, <4>2 DEF Final
    <3> QED BY <3>1
  <2>5. \A k \in ScanIds : i <= k /\ k <= j /\ k # id => ~Recovered(k)
    <3>1. ASSUME NEW k \in ScanIds, i <= k, k <= j, k # id PROVE ~Recovered(k)
      <4>1. k \in i..j
        BY <3>1, HistoryTypes
      <4> QED BY <1>4, <2>1, <3>1, <4>1
    <3> QED BY <3>1
  <2>6. ASSUME NEW m \in ScanIds, i <= m, m <= j, m # id, m < id PROVE Unrecovered(i, m)
    <3>1. \A k \in (i + 1)..m : k \in ScanIds /\ i < k /\ k <= j /\ k # id
      BY <2>6, <1>1, HistoryTypes, LimitsAssumption DEF ScanIds
    <3>2. \A k \in i..m : k \in ScanIds /\ i <= k /\ k <= j /\ k # id
      BY <2>6, <1>1, HistoryTypes, LimitsAssumption DEF ScanIds
    <3> QED BY <2>3, <2>4, <2>5, <2>6, <3>1, <3>2 DEF Unrecovered
  <2>7. CASE j # id
    <3>1. j < id
      BY <1>1, <2>2, <2>7, HistoryTypes
    <3>2. Unrecovered(i, j)
      BY <1>9, <2>6, <2>7, <3>1, HistoryTypes
    <3>3. scans[j] = "degraded" /\ ~Degraded(j)
      BY <1>9, <3>2 DEF AlertsInv
    <3>4. scans'[j] = "degraded"
      BY <1>9, <2>4, <2>7, <3>3, HistoryTypes
    <3> QED BY <1>4, <2>7, <3>3, <3>4
  <2>8. CASE j = id
    <3>1. id - 1 \in ScanIds /\ i <= id - 1 /\ id - 1 < id
      BY <1>1, <1>9, <2>8, HistoryTypes, LimitsAssumption DEF ScanIds
    <3>2. Unrecovered(i, id - 1)
      BY <2>6, <2>8, <3>1, HistoryTypes
    <3>3. scans[id - 1] = "degraded"
      <4>1. CASE i = id - 1
        BY <1>2, <2>3, <3>1, <4>1 DEF AlertsInv
      <4>2. CASE i # id - 1
        <5>1. i < id - 1
          BY <3>1, <4>2, HistoryTypes
        <5> QED BY <3>1, <3>2, <5>1 DEF AlertsInv
      <4> QED BY <4>1, <4>2
    <3>4. PreviousStatus(id) = "degraded" /\ status # "failed"
      <4>1. nextId - 2 = id - 1
        BY <1>1, HistoryTypes
      <4> QED BY <1>1, <1>2, <3>1, <3>3, <4>1
    <3>5. id \in i..j
      BY <1>9, <2>8, HistoryTypes
    <3>6. ~Recovered(id)'
      BY <2>1, <3>5
    <3> QED BY <1>1, <1>5, <2>8, <3>4, <3>6 DEF Final
  <2> QED BY <2>7, <2>8
<1> QED BY <1>6, <1>7, <1>8, <1>9 DEF AlertsInv

LEMMA FinishOutputs ==
  ASSUME IInv, RowsInv, FallbackInv, AlertsInv, OutputsInv, NEW t \in Tasks, Finish(t)
  PROVE  OutputsInv'
<1> DEFINE id == work[t].id
           status == work[t].status
           new == Alerts(id, status)
<1>1. /\ id \in ScanIds /\ id = nextId - 1 /\ scans[id] = "running" /\ nextId' = nextId
      /\ \A j \in ScanIds \ {id} : scans'[j] \in {"absent", scans[j]}
      /\ scans'[id] = status /\ status \in Final
      /\ snapshots'[id] = snapshots[id]
      /\ status = "success" => snapshots[id] # NoGraph
      /\ \A i, j \in ScanIds :
           i < j /\ scans'[i] # "absent" /\ scans[j] # "absent" => scans'[j] # "absent"
      /\ \A j \in ScanIds : snapshots'[j] = IF scans'[j] = "absent" THEN NoGraph ELSE snapshots[j]
      /\ outbox' = outbox \cup new
  BY FinishWrites
<1>2. /\ \A e \in new : e[2] = id
      /\ <<"graph.outputs.changed", id>> \in new <=> status = "success" /\ OutputsChanged(id)
  BY <1>1, AlertsOf
<1> HIDE DEF id, status, new
<1>3. <<"graph.outputs.changed", id>> \notin outbox
  BY <1>1 DEF AlertsInv
<1>4. \A k \in ScanIds \ {id} : k \in Comparable' <=> k \in Comparable /\ scans'[k] # "absent"
  BY <1>1 DEF Comparable
<1>5. SUFFICES ASSUME NEW i \in Comparable', NEW j \in Comparable', i < j,
                      \A k \in Comparable' : k <= i \/ k >= j
               PROVE  <<"graph.outputs.changed", j>> \in outbox'
                        <=> SafeOutputChanges(snapshots'[i], snapshots'[j]) # {}
  BY DEF OutputsInv
<1>6. /\ i \in ScanIds /\ j \in ScanIds /\ scans'[i] = "success" /\ scans'[j] = "success"
      /\ snapshots'[i] = snapshots[i] /\ snapshots'[j] = snapshots[j]
  BY <1>1, <1>5 DEF Comparable
<1>7. j <= id
  <2>1. j > id => scans[j] = "absent" /\ j # id
    BY <1>1, <1>6, HistoryTypes DEF IInv, NoFutureRows
  <2>2. j > id => scans'[j] = "absent"
    BY <1>1, <1>6, <2>1
  <2> QED BY <1>1, <1>6, <2>2, HistoryTypes
<1>8. i # id /\ i \in Comparable
  <2>1. i # id
    BY <1>1, <1>5, <1>6, <1>7, HistoryTypes
  <2> QED BY <1>4, <1>5, <1>6, <2>1
<1>9. ASSUME NEW k \in Comparable PROVE k <= i \/ k >= j
  <2>1. k \in ScanIds /\ k # id /\ scans[k] # "absent"
    BY <1>1 DEF Comparable
  <2>2. i < k => scans'[k] # "absent"
    BY <1>1, <1>6, <2>1
  <2>3. i < k => k \in Comparable'
    BY <1>4, <2>1, <2>2
  <2> QED BY <1>5, <1>6, <2>1, <2>3, HistoryTypes
<1>10. CASE j # id
  <2>1. j \in Comparable
    BY <1>4, <1>5, <1>6, <1>10
  <2>2. <<"graph.outputs.changed", j>> \in outbox' <=> <<"graph.outputs.changed", j>> \in outbox
    BY <1>1, <1>2, <1>10
  <2>3. <<"graph.outputs.changed", j>> \in outbox
          <=> SafeOutputChanges(snapshots[i], snapshots[j]) # {}
    BY <1>5, <1>8, <1>9, <2>1 DEF OutputsInv
  <2> QED BY <1>6, <2>2, <2>3
<1>11. CASE j = id
  <2>1. <<"graph.outputs.changed", j>> \in outbox' <=> OutputsChanged(id)
    BY <1>1, <1>2, <1>3, <1>6, <1>11
  <2>2. \A k \in Comparable : IsLatestBefore(Comparable, k, id) <=> k = i
    <3>1. Comparable \subseteq ScanIds /\ id \in ScanIds /\ i < id
      BY <1>1, <1>5, <1>11 DEF Comparable
    <3>2. \A k \in Comparable : k < id => k <= i
      BY <1>9, <1>11, <3>1, HistoryTypes
    <3> QED BY <1>8, <3>1, <3>2, HistoryTypes DEF IsLatestBefore
  <2>3. OutputsChanged(id) <=> SafeOutputChanges(snapshots[i], snapshots[id]) # {}
    BY <1>1, <1>6, <1>8, <1>11, <2>2 DEF OutputsChanged
  <2> QED BY <1>6, <1>11, <2>1, <2>3
<1> QED BY <1>10, <1>11

-----------------------------------------------------------------------------
(* The invariant and its theorems, whatever faults happen.                 *)

LEMMA HistoryInit == Init => HistoryInv
<1> SUFFICES ASSUME Init PROVE HistoryInv
  OBVIOUS
<1>1. /\ outbox = {} /\ nextId = 1 /\ \A i \in ScanIds : scans[i] = "absent" /\ snapshots[i] = NoGraph
      /\ \A t \in Tasks : pc[t] = "idle"
  BY DEF Init
<1>2. RowsInv
  <2>1. SnapshotRows(snapshots) = {} /\ nextId - 2 \notin ScanIds
    BY <1>1, LimitsAssumption DEF SnapshotRows, ScanIds
  <2>2. Cardinality(SnapshotRows(snapshots)) <= SnapshotLimit
    BY <2>1, FS_EmptySet, LimitsAssumption
  <2> QED BY <1>1, <2>1, <2>2 DEF RowsInv, HistoryBounded, Final
<1>3. FallbackInv
  BY <1>1 DEF FallbackInv, Active, Blocking
<1>4. AlertsInv
  BY <1>1 DEF AlertsInv, Degraded, Unrecovered
<1>5. OutputsInv
  BY <1>1 DEF OutputsInv, Comparable
<1> QED BY <1>2, <1>3, <1>4, <1>5 DEF HistoryInv

LEMMA HistoryNext == IInv /\ HistoryInv /\ [Next]_vars => HistoryInv'
<1> SUFFICES ASSUME IInv, HistoryInv, [Next]_vars PROVE HistoryInv'
  OBVIOUS
<1>1. FallbackInv'
  BY FallbackNext DEF HistoryInv
<1>2. CASE \E t \in Tasks : Begin(t) \/ SaveSnapshot(t) \/ Finish(t)
  <2>1. PICK t \in Tasks : Begin(t) \/ SaveSnapshot(t) \/ Finish(t)
    BY <1>2
  <2>2. RowsInv' /\ AlertsInv' /\ OutputsInv'
    BY <2>1, BeginHistory, SaveSnapshotHistory, FinishRows, FinishAlerts, FinishOutputs
    DEF HistoryInv
  <2> QED BY <1>1, <2>2 DEF HistoryInv
<1>3. CASE ~ \E t \in Tasks : Begin(t) \/ SaveSnapshot(t) \/ Finish(t)
  <2>1. UNCHANGED <<nextId, scans, snapshots, outbox>>
    BY <1>3 DEF Next, vars, database, Boot, DailyFires, ManualRequest, ManualSubmitted, Refresh,
       Load, Collect, CollectFails, Save, OpeningFails, SavingFails, StaleSavingFails,
       FinishFails, Shutdown, Crash, ProcessEnds, Quiescent
  <2>2. RowsInv' /\ AlertsInv' /\ OutputsInv'
    BY <2>1 DEF HistoryInv, RowsInv, HistoryBounded, AlertsInv, Unrecovered, Degraded,
       Recovered, OutputsInv, Comparable
  <2> QED BY <1>1, <2>2 DEF HistoryInv
<1> QED BY <1>2, <1>3

THEOREM ScanHistoryInvariant == Spec => [](IInv /\ HistoryInv)
BY ScanRefreshInvariant, HistoryInit, HistoryNext, PTL DEF Spec

(* Neither crashes nor failing transactions let the tables of scans and    *)
(* snapshots grow beyond their limits, or leave a snapshot without a scan. *)
THEOREM HistoryIsBounded == Spec => []HistoryBounded
<1>1. HistoryInv => HistoryBounded
  BY DEF HistoryInv, RowsInv
<1> QED BY <1>1, ScanHistoryInvariant, PTL

LEMMA InvAlternate ==
  ASSUME IInv, HistoryInv
  PROVE  AlertsAlternate
<1> SUFFICES ASSUME NEW i \in ScanIds, NEW j \in ScanIds, i < j, Degraded(i),
                    Degraded(j) \/ scans[j] = "success",
                    \A k \in i..j : ~Recovered(k),
                    \A k \in (i + 1)..(j - 1) : scans[k] \notin {"running", "absent"}
             PROVE  FALSE
  BY DEF AlertsAlternate, Degraded, Recovered
<1>1. \A k \in (i + 1)..(j - 1) : scans[k] \in Final
  <2>1. ASSUME NEW k \in (i + 1)..(j - 1) PROVE scans[k] \in Final
    <3>1. k \in ScanIds
      BY LimitsAssumption DEF ScanIds
    <3> QED BY <3>1, HistoryTypes DEF Statuses
  <2> QED BY <2>1
<1>2. CASE scans[j] \in Final
  <2>1. \A k \in (i + 1)..j : k = j \/ k \in (i + 1)..(j - 1)
    BY HistoryTypes
  <2>2. Unrecovered(i, j)
    BY <1>1, <1>2, <2>1, HistoryTypes DEF Unrecovered
  <2> QED BY <2>2 DEF HistoryInv, AlertsInv
<1>3. CASE scans[j] \notin Final
  <2>1. Degraded(j) /\ scans[j] = "absent"
    BY <1>3 DEF HistoryInv, AlertsInv, Final
  <2>2. j # i + 1
    BY <2>1 DEF HistoryInv, AlertsInv
  <2>3. j - 1 \in (i + 1)..(j - 1) /\ j - 1 \in ScanIds /\ j - 1 < j
    BY <2>2, LimitsAssumption DEF ScanIds
  <2>4. scans[j - 1] # "absent"
    BY <1>1, <2>3 DEF Final
  <2>5. j < nextId
    BY <2>1 DEF HistoryInv, AlertsInv, Degraded
  <2> QED BY <2>1, <2>3, <2>4, <2>5 DEF HistoryInv, RowsInv
<1> QED BY <1>2, <1>3

(* An episode of degraded scans is announced once: a second announcement   *)
(* or a success follows only a recovery or a scan that was interrupted.    *)
THEOREM AlertsDoAlternate == Spec => []AlertsAlternate
BY InvAlternate, ScanHistoryInvariant, PTL

(* A change of outputs between two consecutive successes is announced by   *)
(* the later one exactly when the outputs differ, over any degraded scans  *)
(* in between and any pruning.                                             *)
THEOREM OutputChangesAreAnnounced == Spec => []OutputChangesAnnounced
<1>1. HistoryInv => OutputChangesAnnounced
  BY OutputsAnnounced DEF HistoryInv
<1> QED BY <1>1, ScanHistoryInvariant, PTL

-----------------------------------------------------------------------------
(* Orderly restarts: the three transactions of a scan take effect as one.  *)

(* Without failing transactions the fallback is the graph that is served,  *)
(* and a scan that closes knows its outcome.                               *)
OrderlyInv ==
  \A t \in Tasks :
    /\ pc[t] \in {"collecting", "saving", "staleSaving"} => work[t].previous = graph
    /\ pc[t] = "staleSaving" => graph.content # Empty /\ work[t].nodes = MarkStale(graph)
    /\ pc[t] = "closing" => work[t].status # "unset"

(* The operators of the abstract specification are those of the model. *)
LEMMA AtomicOperators ==
  /\ \A sc, id, st : Atomic!WithStatus(sc, id, st) = WithStatus(sc, id, st)
  /\ \A ss, id, g : Atomic!WithSnapshot(ss, id, g) = WithSnapshot(ss, id, g)
  /\ \A ss, sc : Atomic!Cascade(ss, sc) = Cascade(ss, sc)
  /\ \A g : Atomic!StatusOf(g) = StatusOf(g) /\ Atomic!MarkStale(g) = MarkStale(g)
  /\ Atomic!ScanIds = ScanIds /\ Atomic!NoGraph = NoGraph /\ Atomic!EmptyGraph = EmptyGraph
  /\ Atomic!Collected = Collected
<1>1. /\ Atomic!ScanIds = ScanIds /\ Atomic!NoGraph = NoGraph /\ Atomic!EmptyGraph = EmptyGraph
      /\ Atomic!Collected = Collected
  BY DEF Atomic!ScanIds, ScanIds, Atomic!NoGraph, NoGraph, Atomic!EmptyGraph, EmptyGraph,
         Atomic!Collected, Collected
<1>2. \A g : Atomic!StatusOf(g) = StatusOf(g) /\ Atomic!MarkStale(g) = MarkStale(g)
  BY DEF Atomic!StatusOf, StatusOf, Atomic!MarkStale, MarkStale
<1>3. \A S, n : Atomic!Newest(S, n) = Newest(S, n)
  <2>1. \A S : Atomic!Cardinality(S) = Cardinality(S)
    BY Zenon DEF Atomic!Cardinality, Cardinality
  <2> QED BY <2>1 DEF Atomic!Newest, Newest
<1>4. \A sc : Atomic!Rows(sc) = Rows(sc)
  BY <1>1 DEF Atomic!Rows, Rows
<1>5. \A ss : Atomic!SnapshotRows(ss) = SnapshotRows(ss)
  BY <1>1 DEF Atomic!SnapshotRows, SnapshotRows
<1>6. \A sc, id, st : Atomic!WithStatus(sc, id, st) = WithStatus(sc, id, st)
  BY <1>1, <1>3, <1>4 DEF Atomic!WithStatus, WithStatus
<1>7. \A ss, id, g : Atomic!WithSnapshot(ss, id, g) = WithSnapshot(ss, id, g)
  BY <1>1, <1>3, <1>5 DEF Atomic!WithSnapshot, WithSnapshot
<1>8. \A ss, sc : Atomic!Cascade(ss, sc) = Cascade(ss, sc)
  BY <1>1, <1>3, <1>4 DEF Atomic!Cascade, Cascade
<1> QED BY <1>1, <1>2, <1>6, <1>7, <1>8

(* The tables as readers between scans will find them. *)
LEMMA NothingSettles ==
  ASSUME \A u \in Tasks : pc[u] \notin {"snapshotting", "staleSnapshotting", "closing"}
  PROVE  settledScans = scans /\ settledSnapshots = snapshots
BY DEF Settling, settledScans, settledSnapshots

LEMMA OneSettles ==
  ASSUME NEW t \in Tasks, pc[t] \in {"snapshotting", "staleSnapshotting", "closing"},
         \A u \in Tasks \ {t} : pc[u] \notin Active
  PROVE  /\ settledScans = WithStatus(scans, work[t].id, SettledStatus(t))
         /\ settledSnapshots = Cascade(SettledSnapshots(t), scans)
<1>1. \A u \in Tasks : u \in Settling <=> u = t
  BY DEF Settling, Active, Blocking
<1>2. Settling = {t}
  BY <1>1 DEF Settling
<1>3. (CHOOSE u \in Settling : TRUE) = t
  BY <1>2
<1> QED BY <1>2, <1>3 DEF settledScans, settledSnapshots

Orderly == Faults \subseteq {"restart"}

LEMMA OrderlySteps ==
  ASSUME Orderly, IInv, OrderlyInv, NEW t \in Tasks, Refresh(t)
  PROVE  /\ Begin(t) \/ Load(t) \/ Collect(t) \/ CollectFails(t) \/ Save(t) \/ SaveSnapshot(t)
              \/ Finish(t)
         /\ pc \in [Tasks -> PCs] /\ work \in [Tasks -> WorkRecord]
         /\ graph \in Graphs
         /\ \A u \in Tasks \ {t} :
              pc[u] \notin Active /\ pc'[u] = pc[u] /\ work'[u] = work[u]
<1>1. /\ ~OpeningFails(t) /\ ~SavingFails(t) /\ ~StaleSavingFails(t)
  BY DEF Orderly, OpeningFails, SavingFails, StaleSavingFails
<1>2. ~FinishFails(t)
  <2>1. SUFFICES ASSUME FinishFails(t) PROVE FALSE
    OBVIOUS
  <2>2. ~Bound(t) \/ scans[work[t].id] = "absent"
    BY <2>1 DEF Orderly, FinishFails
  <2>3. pc[t] = "closing" /\ pc[t] \in Active
    BY <2>1 DEF FinishFails, Active, Blocking
  <2>4. Bound(t)
    BY <2>3 DEF OrderlyInv, Bound
  <2>5. scans[work[t].id] = "running"
    BY <2>3 DEF IInv, TasksInv, TaskInv
  <2> QED BY <2>2, <2>4, <2>5
<1>3. Holds(t)
  <2>1. pc[t] \in Active => Holds(t)
    BY DEF IInv, TasksInv, TaskInv
  <2>2. pc[t] \in Active \/ Holds(t)
    BY DEF Refresh, Begin, Load, Collect, CollectFails, Save, SaveSnapshot, Finish,
           OpeningFails, SavingFails, StaleSavingFails, FinishFails, Goto, Active, Blocking
  <2> QED BY <2>1, <2>2
<1>4. pc \in [Tasks -> PCs] /\ work \in [Tasks -> WorkRecord] /\ graph \in Graphs
  BY DEF IInv, TypeOK, WorkRecord
<1>5. \A u \in Tasks \ {t} : pc'[u] = pc[u] /\ work'[u] = work[u]
  BY <1>4 DEF Refresh, Begin, Load, Collect, CollectFails, Save, SaveSnapshot, Finish,
       OpeningFails, SavingFails, StaleSavingFails, FinishFails, Goto, Leave, Except
<1> QED BY <1>1, <1>2, <1>3, <1>4, <1>5, OthersInactive DEF Refresh, IInv

LEMMA OrderlyNext ==
  ASSUME Orderly, IInv, OrderlyInv, [Next]_vars
  PROVE  OrderlyInv'
<1>1. ASSUME NEW t \in Tasks, Refresh(t) PROVE OrderlyInv'
  <2>1. /\ Begin(t) \/ Load(t) \/ Collect(t) \/ CollectFails(t) \/ Save(t) \/ SaveSnapshot(t)
             \/ Finish(t)
        /\ pc \in [Tasks -> PCs] /\ work \in [Tasks -> WorkRecord]
        /\ \A u \in Tasks \ {t} :
             pc[u] \notin Active /\ pc'[u] = pc[u] /\ work'[u] = work[u]
    BY <1>1, OrderlySteps
  <2>2. SUFFICES /\ pc'[t] \in {"collecting", "saving", "staleSaving"}
                      => work'[t].previous = graph'
                 /\ pc'[t] = "staleSaving" =>
                      graph'.content # Empty /\ work'[t].nodes = MarkStale(graph')
                 /\ pc'[t] = "closing" => work'[t].status # "unset"
    BY <2>1 DEF OrderlyInv, Active, Blocking
  <2>3. CASE Begin(t) \/ Collect(t) \/ Save(t) \/ Finish(t)
    BY <2>1, <2>3 DEF Begin, Collect, Save, Finish, Leave, Goto, database, WorkRecord, OrderlyInv
  <2>4. CASE Load(t)
    BY <2>1, <2>4 DEF Load, Goto, database, WorkRecord
  <2>5. CASE SaveSnapshot(t)
    <3>1. pc'[t] = "closing" /\ work'[t].status = StatusOf(work[t].nodes)
      BY <2>1, <2>5 DEF SaveSnapshot, Goto, WorkRecord
    <3> QED BY <3>1 DEF StatusOf
  <2>6. CASE CollectFails(t)
    <3>1. /\ pc[t] = "collecting" /\ Except(t) /\ graph' = graph /\ work[t].previous = graph
      BY <2>6 DEF CollectFails, database, OrderlyInv
    <3>2. CASE graph.content # Empty
      <4>1. /\ pc' = [pc EXCEPT ![t] = "staleSaving"]
            /\ work' = [work EXCEPT ![t].nodes = MarkStale(work[t].previous)]
        BY <3>1, <3>2 DEF Except
      <4>2. /\ pc'[t] = "staleSaving" /\ work'[t].nodes = MarkStale(work[t].previous)
            /\ work'[t].previous = work[t].previous
        BY <2>1, <4>1 DEF WorkRecord
      <4> QED BY <3>1, <3>2, <4>2
    <3>3. CASE graph.content = Empty
      <4>1. pc' = [pc EXCEPT ![t] = "closing"] /\ work' = [work EXCEPT ![t].status = "failed"]
        BY <3>1, <3>3 DEF Except
      <4>2. pc'[t] = "closing" /\ work'[t].status = "failed"
        BY <2>1, <4>1 DEF WorkRecord
      <4> QED BY <4>2
    <3> QED BY <3>2, <3>3
  <2> QED BY <2>1, <2>3, <2>4, <2>5, <2>6
<1>2. CASE Boot \/ DailyFires \/ ManualRequest \/ ManualSubmitted
  <2>1. UNCHANGED <<work, graph>>
    BY <1>2 DEF Boot, DailyFires, ManualRequest, ManualSubmitted, database
  <2>2. \A u \in Tasks : pc'[u] = pc[u] \/ pc'[u] = "waiting"
    BY <1>2 DEF Boot, DailyFires, ManualRequest, ManualSubmitted, Enter, IInv, TypeOK, Tasks
  <2> QED BY <2>1, <2>2 DEF OrderlyInv
<1>3. CASE Shutdown \/ Crash
  <2>1. \A u \in Tasks : pc'[u] = "idle"
    BY <1>3 DEF Shutdown, Crash, ProcessEnds
  <2> QED BY <2>1 DEF OrderlyInv
<1>4. CASE UNCHANGED vars
  BY <1>4 DEF vars, OrderlyInv
<1> QED BY <1>1, <1>2, <1>3, <1>4 DEF Next, Quiescent

(* Every step of the pipeline is a step of the abstract scan, or none. *)
AtomicStep == Atomic!Next \/ UNCHANGED <<settledScans, graph, settledSnapshots>>

LEMMA SettledOutcome ==
  ASSUME Orderly, IInv, OrderlyInv, NEW t \in Tasks, Refresh(t)
  PROVE  /\ pc[t] \notin {"snapshotting", "staleSnapshotting", "closing"} =>
              settledScans = scans /\ settledSnapshots = snapshots
         /\ pc[t] \in {"snapshotting", "staleSnapshotting", "closing"} =>
              /\ settledScans = WithStatus(scans, work[t].id, SettledStatus(t))
              /\ settledSnapshots = Cascade(SettledSnapshots(t), scans)
         /\ pc'[t] \notin {"snapshotting", "staleSnapshotting", "closing"} =>
              settledScans' = scans' /\ settledSnapshots' = snapshots'
         /\ pc'[t] \in {"snapshotting", "staleSnapshotting", "closing"} =>
              /\ settledScans' = WithStatus(scans', work'[t].id, SettledStatus(t)')
              /\ settledSnapshots' = Cascade(SettledSnapshots(t)', scans')
<1>1. \A u \in Tasks \ {t} : pc[u] \notin Active /\ pc'[u] \notin Active
  BY OrderlySteps
<1>2. {"snapshotting", "staleSnapshotting", "closing"} \subseteq Active
  BY DEF Active, Blocking
<1>3. pc[t] \notin {"snapshotting", "staleSnapshotting", "closing"} =>
        settledScans = scans /\ settledSnapshots = snapshots
  BY <1>1, <1>2, NothingSettles
<1>4. pc[t] \in {"snapshotting", "staleSnapshotting", "closing"} =>
        /\ settledScans = WithStatus(scans, work[t].id, SettledStatus(t))
        /\ settledSnapshots = Cascade(SettledSnapshots(t), scans)
  BY <1>1, OneSettles
<1>5. pc'[t] \notin {"snapshotting", "staleSnapshotting", "closing"} =>
        settledScans' = scans' /\ settledSnapshots' = snapshots'
  <2>1. ASSUME \A u \in Tasks : pc'[u] \notin {"snapshotting", "staleSnapshotting", "closing"}
        PROVE  settledScans' = scans' /\ settledSnapshots' = snapshots'
    <3>1. Settling' = {}
      BY <2>1 DEF Settling
    <3> QED BY <3>1 DEF settledScans, settledSnapshots
  <2> QED BY <1>1, <1>2, <2>1
<1>6. pc'[t] \in {"snapshotting", "staleSnapshotting", "closing"} =>
        /\ settledScans' = WithStatus(scans', work'[t].id, SettledStatus(t)')
        /\ settledSnapshots' = Cascade(SettledSnapshots(t)', scans')
  <2>1. SUFFICES ASSUME pc'[t] \in {"snapshotting", "staleSnapshotting", "closing"}
                 PROVE  /\ settledScans' = WithStatus(scans', work'[t].id, SettledStatus(t)')
                        /\ settledSnapshots' = Cascade(SettledSnapshots(t)', scans')
    OBVIOUS
  <2>2. \A u \in Tasks : u \in Settling' <=> u = t
    BY <1>1, <1>2, <2>1 DEF Settling
  <2>3. Settling' = {t}
    BY <2>2 DEF Settling
  <2>4. (CHOOSE u \in Settling' : TRUE) = t
    BY <2>3
  <2> QED BY <2>3, <2>4 DEF settledScans, settledSnapshots
<1> QED BY <1>3, <1>4, <1>5, <1>6

LEMMA CurrentScan ==
  ASSUME IInv, NEW t \in Tasks, pc[t] \in Active, settledScans = scans
  PROVE  work[t].id \in ScanIds /\ Atomic!Current(work[t].id)
<1>1. /\ work[t].id \in ScanIds /\ work[t].id = nextId - 1 /\ nextId \in Nat
      /\ scans[work[t].id] = "running"
  BY InBlock DEF TaskInv
<1>2. \A j \in ScanIds : j > work[t].id => scans[j] = "absent"
  BY <1>1 DEF IInv, NoFutureRows, ScanIds
<1> QED BY <1>1, <1>2, AtomicOperators DEF Atomic!Current

LEMMA RefreshIsAtomic ==
  ASSUME Orderly, IInv, OrderlyInv, NEW t \in Tasks, Refresh(t)
  PROVE  AtomicStep
<1> USE DEF Goto
<1>1. /\ Begin(t) \/ Load(t) \/ Collect(t) \/ CollectFails(t) \/ Save(t) \/ SaveSnapshot(t)
           \/ Finish(t)
      /\ pc \in [Tasks -> PCs] /\ work \in [Tasks -> WorkRecord] /\ graph \in Graphs
  BY OrderlySteps
<1>2. CASE Begin(t)
  <2>1. /\ pc[t] = "waiting" /\ pc'[t] = "loading"
        /\ scans' = [scans EXCEPT ![nextId] = "running"] /\ UNCHANGED <<graph, snapshots>>
    BY <1>1, <1>2 DEF Begin
  <2>2. /\ settledScans = scans /\ settledSnapshots = snapshots
        /\ settledScans' = scans' /\ settledSnapshots' = snapshots'
    BY <2>1, SettledOutcome
  <2>3. nextId \in ScanIds
    <3>1. t \in Waiting /\ IsFiniteSet(Waiting) /\ Cardinality(Waiting) \in Nat
      BY <2>1, TasksFinite DEF Waiting
    <3>2. Cardinality(Waiting) # 0
      BY <3>1, FS_EmptySet
    <3> QED BY <3>1, <3>2, LimitsAssumption DEF IInv, RoomKept, TypeOK, ScanIds
  <2>4. \A j \in ScanIds : j >= nextId => scans[j] = "absent"
    BY DEF IInv, NoFutureRows
  <2>5. Atomic!Open(nextId)
    BY <2>1, <2>2, <2>4, AtomicOperators DEF Atomic!Open
  <2> QED BY <2>3, <2>5, AtomicOperators DEF AtomicStep, Atomic!Next
<1>3. CASE Load(t) \/ Collect(t)
  <2>1. /\ pc[t] \in {"loading", "collecting"} /\ pc'[t] \in {"collecting", "saving"}
        /\ UNCHANGED <<scans, graph, snapshots>>
    BY <1>1, <1>3 DEF Load, Collect, database
  <2> QED BY <2>1, SettledOutcome DEF AtomicStep
<1>4. CASE CollectFails(t)
  <2>1. /\ pc[t] = "collecting" /\ Except(t) /\ UNCHANGED <<scans, graph, snapshots>>
        /\ work[t].previous = graph
    BY <1>4 DEF CollectFails, database, OrderlyInv
  <2>2. settledScans = scans /\ settledSnapshots = snapshots
    BY <2>1, SettledOutcome
  <2>3. CASE graph.content # Empty
    <3>1. pc'[t] = "staleSaving"
      BY <1>1, <2>1, <2>3 DEF Except
    <3> QED BY <2>1, <2>2, <3>1, SettledOutcome DEF AtomicStep
  <2>4. CASE graph.content = Empty
    <3>1. pc' = [pc EXCEPT ![t] = "closing"] /\ work' = [work EXCEPT ![t].status = "failed"]
      BY <2>1, <2>4 DEF Except
    <3>2. pc'[t] = "closing" /\ work'[t].id = work[t].id /\ work'[t].status = "failed"
      BY <1>1, <3>1 DEF WorkRecord
    <3>3. /\ settledScans' = WithStatus(scans, work[t].id, "failed")
          /\ settledSnapshots' = Cascade(snapshots, scans)
      BY <2>1, <3>2, SettledOutcome DEF SettledStatus, SettledSnapshots
    <3>4. work[t].id \in ScanIds /\ Atomic!Current(work[t].id)
      BY <2>1, <2>2, CurrentScan DEF Active
    <3>5. Atomic!Fail(work[t].id)
      BY <2>1, <2>2, <2>4, <3>3, <3>4, AtomicOperators DEF Atomic!Fail
    <3> QED BY <3>4, <3>5, AtomicOperators DEF AtomicStep, Atomic!Next
  <2> QED BY <2>3, <2>4
<1>5. CASE Save(t)
  <2>1. /\ pc[t] \in {"saving", "staleSaving"} /\ pc'[t] \in {"snapshotting", "staleSnapshotting"}
        /\ graph' = work[t].nodes /\ UNCHANGED <<work, scans, snapshots>>
    BY <1>1, <1>5 DEF Save
  <2>2. settledScans = scans /\ settledSnapshots = snapshots
    BY <2>1, SettledOutcome
  <2>3. /\ settledScans' = WithStatus(scans, work[t].id, StatusOf(graph'))
        /\ settledSnapshots' = Cascade(WithSnapshot(snapshots, work[t].id, graph'), scans)
    BY <2>1, SettledOutcome DEF SettledStatus, SettledSnapshots
  <2>4. graph' \in Atomic!Publishable
    <3>1. pc[t] = "saving" => work[t].nodes \in Collected
      BY DEF IInv, TasksInv, TaskInv
    <3>2. pc[t] = "staleSaving" => graph.content # Empty /\ work[t].nodes = MarkStale(graph)
      BY DEF OrderlyInv
    <3> QED BY <2>1, <3>1, <3>2, AtomicOperators DEF Atomic!Publishable
  <2>5. work[t].id \in ScanIds /\ Atomic!Current(work[t].id)
    BY <2>1, <2>2, CurrentScan DEF Active, Blocking
  <2>6. Atomic!Publish(work[t].id)
    BY <2>2, <2>3, <2>4, <2>5, AtomicOperators DEF Atomic!Publish
  <2> QED BY <2>5, <2>6, AtomicOperators DEF AtomicStep, Atomic!Next
<1>6. CASE SaveSnapshot(t)
  <2>1. /\ pc[t] \in {"snapshotting", "staleSnapshotting"} /\ pc'[t] = "closing"
        /\ snapshots' = WithSnapshot(snapshots, work[t].id, work[t].nodes)
        /\ work'[t].id = work[t].id /\ work'[t].status = StatusOf(work[t].nodes)
        /\ UNCHANGED <<scans, graph>>
    BY <1>1, <1>6 DEF SaveSnapshot, WorkRecord
  <2>2. /\ settledScans = WithStatus(scans, work[t].id, StatusOf(work[t].nodes))
        /\ settledSnapshots = Cascade(WithSnapshot(snapshots, work[t].id, work[t].nodes), scans)
    BY <2>1, SettledOutcome DEF SettledStatus, SettledSnapshots
  <2>3. /\ settledScans' = WithStatus(scans, work[t].id, StatusOf(work[t].nodes))
        /\ settledSnapshots' = Cascade(snapshots', scans)
    BY <2>1, SettledOutcome DEF SettledStatus, SettledSnapshots
  <2> QED BY <2>1, <2>2, <2>3 DEF AtomicStep
<1>7. CASE Finish(t)
  <2>1. /\ pc[t] = "closing" /\ pc'[t] = "idle" /\ UNCHANGED graph
        /\ scans' = WithStatus(scans, work[t].id, work[t].status)
        /\ snapshots' = Cascade(snapshots, scans)
    BY <1>1, <1>7 DEF Finish, Leave
  <2>2. /\ settledScans = WithStatus(scans, work[t].id, work[t].status)
        /\ settledSnapshots = Cascade(snapshots, scans)
    BY <2>1, SettledOutcome DEF SettledStatus, SettledSnapshots
  <2> QED BY <2>1, <2>2, SettledOutcome DEF AtomicStep
<1> QED BY <1>1, <1>2, <1>3, <1>4, <1>5, <1>6, <1>7

LEMMA QuietIsStutter ==
  ASSUME UNCHANGED <<work, scans, graph, snapshots>>,
         \A u \in Tasks : pc'[u] = pc[u] \/ (pc[u] = "idle" /\ pc'[u] = "waiting")
  PROVE  UNCHANGED <<settledScans, graph, settledSnapshots>>
<1>1. Settling' = Settling
  BY DEF Settling
<1>2. CASE Settling = {}
  BY <1>1, <1>2 DEF settledScans, settledSnapshots
<1>3. CASE Settling # {}
  <2> DEFINE t == CHOOSE u \in Settling : TRUE
  <2>1. t \in Settling
    BY <1>3
  <2>2. t' = t
    BY <1>1
  <2>3. PICK s \in Tasks : s = t /\ s = t'
    BY <2>1, <2>2 DEF Settling
  <2>4. pc'[s] = pc[s]
    BY <2>1, <2>3 DEF Settling
  <2>5. SettledStatus(s)' = SettledStatus(s) /\ SettledSnapshots(s)' = SettledSnapshots(s)
    BY <2>4 DEF SettledStatus, SettledSnapshots
  <2>6. /\ settledScans = WithStatus(scans, work[s].id, SettledStatus(s))
        /\ settledSnapshots = Cascade(SettledSnapshots(s), scans)
    BY <1>3, <2>3 DEF settledScans, settledSnapshots
  <2>7. /\ settledScans' = WithStatus(scans', work'[s].id, SettledStatus(s)')
        /\ settledSnapshots' = Cascade(SettledSnapshots(s)', scans')
    BY <1>1, <1>3, <2>3 DEF settledScans, settledSnapshots
  <2> QED BY <2>5, <2>6, <2>7
<1> QED BY <1>2, <1>3

LEMMA NextIsAtomic ==
  ASSUME Orderly, IInv, OrderlyInv, [Next]_vars
  PROVE  AtomicStep
<1>1. CASE \E t \in Tasks : Refresh(t)
  BY <1>1, RefreshIsAtomic
<1>2. CASE Boot \/ DailyFires \/ ManualRequest \/ ManualSubmitted
  <2>1. UNCHANGED <<work, scans, graph, snapshots>>
    BY <1>2 DEF Boot, DailyFires, ManualRequest, ManualSubmitted, database
  <2>2. ~up => \A u \in Tasks : pc[u] = "idle"
    BY DEF IInv, DownIsIdle
  <2>3. \A u \in Tasks : pc'[u] = pc[u] \/ (pc[u] = "idle" /\ pc'[u] = "waiting")
    BY <1>2, <2>2 DEF Boot, DailyFires, ManualRequest, ManualSubmitted, Enter, IInv, TypeOK, Tasks
  <2> QED BY <2>1, <2>3, QuietIsStutter DEF AtomicStep
<1>3. CASE Shutdown
  <2>1. /\ \A u \in Tasks : pc[u] \notin {"snapshotting", "staleSnapshotting", "closing"}
        /\ \A u \in Tasks : pc'[u] = "idle"
        /\ UNCHANGED <<scans, graph, snapshots>>
    BY <1>3 DEF Shutdown, LoopFree, Blocking, ProcessEnds, database
  <2>2. settledScans = scans /\ settledSnapshots = snapshots
    BY <2>1, NothingSettles
  <2>3. Settling' = {}
    BY <2>1 DEF Settling
  <2>4. settledScans' = scans' /\ settledSnapshots' = snapshots'
    BY <2>3 DEF settledScans, settledSnapshots
  <2> QED BY <2>1, <2>2, <2>4 DEF AtomicStep
<1>4. CASE Crash
  BY <1>4 DEF Orderly, Crash
<1>5. CASE UNCHANGED vars
  <2>1. \A u \in Tasks : pc'[u] = pc[u]
    BY <1>5 DEF vars
  <2> QED BY <1>5, <2>1, QuietIsStutter DEF vars, AtomicStep
<1> QED BY <1>1, <1>2, <1>3, <1>4, <1>5 DEF Next, Quiescent

LEMMA OrderlyInit == Init => OrderlyInv /\ Atomic!Init
<1> SUFFICES ASSUME Init PROVE OrderlyInv /\ Atomic!Init
  OBVIOUS
<1>1. \A t \in Tasks : pc[t] = "idle"
  BY DEF Init
<1>2. settledScans = scans /\ settledSnapshots = snapshots
  BY <1>1, NothingSettles
<1> QED BY <1>1, <1>2, AtomicOperators DEF Init, OrderlyInv, Atomic!Init

(* As long as the process only stops in an orderly way, and no transaction *)
(* fails, the graph, its snapshot and the final status of its scan are     *)
(* published together: refresh() implements the abstract scan.             *)
THEOREM ScansTakeEffectAtOnce ==
  ASSUME Orderly
  PROVE  Spec => ScansAreAtomic
<1>1. Init => IInv /\ OrderlyInv /\ Atomic!Init
  BY InitInv, OrderlyInit
<1>2. IInv /\ OrderlyInv /\ [Next]_vars =>
        IInv' /\ OrderlyInv' /\ [Atomic!Next]_(Atomic!store)
  BY NextInv, OrderlyNext, NextIsAtomic DEF AtomicStep, Atomic!store
<1> QED BY <1>1, <1>2, PTL DEF Spec, ScansAreAtomic, Atomic!Spec

-----------------------------------------------------------------------------
(* What readers are told between scans, from the abstract scan.            *)

(* Every scan leaves the newest snapshot equal to the graph, and the last  *)
(* usable scan with the status of the graph.                               *)
PublishedInv ==
  LET usable == {i \in ScanIds : settledScans[i] \in {"success", "degraded"}}
  IN  /\ settledScans \in [ScanIds -> Statuses]
      /\ settledSnapshots \in [ScanIds -> Graphs]
      /\ \A i \in ScanIds : settledScans[i] = "absent" => settledSnapshots[i] = NoGraph
      /\ graph.content = Empty => graph = EmptyGraph
      /\ \/ graph = EmptyGraph /\ \A i \in ScanIds : settledSnapshots[i] = NoGraph
         \/ \E i \in ScanIds :
              /\ settledSnapshots[i] = graph
              /\ \A j \in ScanIds : j > i => settledSnapshots[j] = NoGraph
      /\ usable = {} => graph.content = Empty
      /\ \A i \in usable :
           (\A j \in usable : j <= i)
             => (settledScans[i] = "degraded" <=> graph.state # "fresh")

LEMMA PublishedInit == Init => PublishedInv
<1> SUFFICES ASSUME Init PROVE PublishedInv
  OBVIOUS
<1>1. /\ settledScans = [i \in ScanIds |-> "absent"] /\ graph = EmptyGraph
      /\ settledSnapshots = [i \in ScanIds |-> NoGraph]
  BY OrderlyInit, AtomicOperators DEF Atomic!Init
<1> QED BY <1>1, DataTypes DEF PublishedInv, Statuses, EmptyGraph

LEMMA OpenPublished ==
  ASSUME PublishedInv, NEW id \in ScanIds, Atomic!Open(id)
  PROVE  PublishedInv'
<1>1. /\ settledScans \in [ScanIds -> Statuses] /\ settledScans[id] = "absent"
      /\ settledScans' = [settledScans EXCEPT ![id] = "running"]
      /\ UNCHANGED <<graph, settledSnapshots>>
  BY AtomicOperators DEF Atomic!Open, PublishedInv, ScanIds
<1>2. \A i \in ScanIds : settledScans'[i] \in {"success", "degraded"}
                           <=> settledScans[i] \in {"success", "degraded"}
  BY <1>1
<1>3. \A i \in ScanIds : settledScans'[i] = "degraded" <=> settledScans[i] = "degraded"
  BY <1>1
<1>4. settledScans' \in [ScanIds -> Statuses]
  BY <1>1 DEF Statuses
<1>5. \A i \in ScanIds : settledScans'[i] = "absent" => settledSnapshots[i] = NoGraph
  BY <1>1 DEF PublishedInv
<1> QED BY <1>1, <1>2, <1>3, <1>4, <1>5 DEF PublishedInv

LEMMA PublishPublished ==
  ASSUME PublishedInv, graph \in Graphs, NEW id \in ScanIds, Atomic!Publish(id)
  PROVE  PublishedInv'
<1>1. PICK g \in Graphs : g = graph'
  BY AtomicOperators, DataTypes DEF Atomic!Publish, Atomic!Publishable
<1> DEFINE ws == WithSnapshot(settledSnapshots, id, g)
<1>2. /\ settledScans' = WithStatus(settledScans, id, StatusOf(g))
      /\ settledSnapshots' = Cascade(ws, settledScans)
  BY <1>1, AtomicOperators DEF Atomic!Publish
<1>3. /\ settledScans[id] = "running" /\ \A j \in ScanIds : j > id => settledScans[j] = "absent"
      /\ settledScans \in [ScanIds -> Statuses] /\ settledSnapshots \in [ScanIds -> Graphs]
      /\ StatusOf(g) \in Final
  BY AtomicOperators, DataTypes DEF Atomic!Publish, Atomic!Current, PublishedInv
<1>4. \A j \in ScanIds : j > id => settledSnapshots[j] = NoGraph
  BY <1>3 DEF PublishedInv
<1>5. /\ ws \in [ScanIds -> Graphs] /\ ws[id] = g
      /\ \A j \in ScanIds : j > id => ws[j] = NoGraph
  <2>1. ws[id] = g
    BY <1>4, OwnSnapshotKept
  <2>2. ws \in [ScanIds -> Graphs] /\ \A j \in ScanIds \ {id} : ws[j] \in {NoGraph, settledSnapshots[j]}
    BY <1>3, WithSnapshotRows
  <2> HIDE DEF ws
  <2> QED BY <1>4, <2>1, <2>2 DEF ScanIds
<1> HIDE DEF ws
<1>6. /\ settledScans' \in [ScanIds -> Statuses] /\ settledSnapshots' \in [ScanIds -> Graphs]
      /\ \A j \in ScanIds : settledSnapshots'[j] \in {NoGraph, ws[j]}
      /\ \A j \in ScanIds \ {id} : settledScans'[j] \in {"absent", settledScans[j]}
      /\ settledScans'[id] = StatusOf(g) /\ settledSnapshots'[id] = ws[id]
  BY <1>2, <1>3, <1>5, ClosedRows
<1>7. \A i \in ScanIds : settledScans'[i] = "absent" => settledSnapshots'[i] = NoGraph
  BY <1>2, <1>3, <1>5, RowsPruned
<1>8. settledSnapshots'[id] = g /\ \A j \in ScanIds : j > id => settledSnapshots'[j] = NoGraph
  BY <1>5, <1>6
<1>9. \A j \in ScanIds : settledScans'[j] \in {"success", "degraded"} => j <= id
  <2>1. ASSUME NEW j \in ScanIds, j > id PROVE settledScans'[j] = "absent"
    BY <1>3, <1>6, <2>1 DEF ScanIds
  <2> QED BY <2>1 DEF ScanIds
<1>10. StatusOf(g) \in {"success", "degraded"} /\ (StatusOf(g) = "degraded" <=> g.state # "fresh")
  BY DEF StatusOf
<1>11. \A i \in ScanIds :
         /\ settledScans'[i] \in {"success", "degraded"}
         /\ \A j \in ScanIds : settledScans'[j] \in {"success", "degraded"} => j <= i
         => i = id
  BY <1>6, <1>9, <1>10 DEF ScanIds
<1>12. g.content = Empty => g = EmptyGraph
  <2>1. CASE g \in Collected
    BY <2>1, CollectedUsable
  <2>2. CASE graph.content # Empty /\ g = MarkStale(graph)
    BY <2>2, MarkedStale
  <2> QED BY <1>1, <2>1, <2>2, AtomicOperators DEF Atomic!Publish, Atomic!Publishable
<1> QED BY <1>1, <1>6, <1>7, <1>8, <1>10, <1>11, <1>12 DEF PublishedInv

LEMMA FailPublished ==
  ASSUME PublishedInv, NEW id \in ScanIds, Atomic!Fail(id)
  PROVE  PublishedInv'
<1>1. /\ settledScans' = WithStatus(settledScans, id, "failed")
      /\ settledSnapshots' = Cascade(settledSnapshots, settledScans)
      /\ settledScans[id] = "running" /\ \A j \in ScanIds : j > id => settledScans[j] = "absent"
      /\ settledScans \in [ScanIds -> Statuses] /\ settledSnapshots \in [ScanIds -> Graphs]
      /\ graph' = graph /\ graph = EmptyGraph /\ "failed" \in Final
  BY AtomicOperators DEF Atomic!Fail, Atomic!Current, PublishedInv, Final
<1>2. /\ settledScans' \in [ScanIds -> Statuses] /\ settledSnapshots' \in [ScanIds -> Graphs]
      /\ \A j \in ScanIds : settledSnapshots'[j] \in {NoGraph, settledSnapshots[j]}
      /\ \A j \in ScanIds \ {id} : settledScans'[j] \in {"absent", settledScans[j]}
      /\ settledScans'[id] = "failed"
  BY <1>1, ClosedRows
<1>3. /\ \A i, j \in ScanIds :
           i < j /\ settledScans'[i] # "absent" /\ settledScans[j] # "absent"
             => settledScans'[j] # "absent"
      /\ \A i \in ScanIds :
           settledSnapshots'[i] = IF settledScans'[i] = "absent" THEN NoGraph ELSE settledSnapshots[i]
  BY <1>1, RowsPruned
<1>4. \/ graph' = EmptyGraph /\ \A i \in ScanIds : settledSnapshots'[i] = NoGraph
      \/ \E i \in ScanIds :
           /\ settledSnapshots'[i] = graph'
           /\ \A j \in ScanIds : j > i => settledSnapshots'[j] = NoGraph
  <2>1. CASE \A i \in ScanIds : settledSnapshots[i] = NoGraph
    BY <1>1, <1>2, <2>1
  <2>2. ASSUME NEW i \in ScanIds, settledSnapshots[i] = graph,
               \A j \in ScanIds : j > i => settledSnapshots[j] = NoGraph
        PROVE  <1>4!1 \/ <1>4!2
    <3>1. settledScans[i] # "absent"
      BY <1>1, <2>2 DEF PublishedInv, EmptyGraph, NoGraph
    <3>2. CASE settledScans'[i] # "absent"
      BY <1>1, <1>2, <1>3, <2>2, <3>2
    <3>3. CASE settledScans'[i] = "absent"
      <4>1. ASSUME NEW j \in ScanIds PROVE settledSnapshots'[j] = NoGraph
        <5>1. CASE j < i
          BY <1>3, <3>1, <3>3, <5>1
        <5>2. CASE j = i
          BY <1>3, <3>3, <5>2
        <5>3. CASE j > i
          BY <1>2, <2>2, <5>3
        <5> QED BY <5>1, <5>2, <5>3 DEF ScanIds
      <4> QED BY <1>1, <4>1
    <3> QED BY <3>2, <3>3
  <2> QED BY <1>1, <2>1, <2>2 DEF PublishedInv
<1>5. ASSUME NEW i \in ScanIds, settledScans'[i] \in {"success", "degraded"},
             \A j \in ScanIds : settledScans'[j] \in {"success", "degraded"} => j <= i
      PROVE  settledScans'[i] = "degraded" <=> graph'.state # "fresh"
  <2>1. i # id /\ settledScans'[i] = settledScans[i]
    BY <1>2, <1>5
  <2>2. ASSUME NEW j \in ScanIds, settledScans[j] \in {"success", "degraded"} PROVE j <= i
    <3>1. i < j => settledScans'[j] # "absent"
      BY <1>3, <1>5, <2>2
    <3>2. j # id
      BY <1>1, <2>2
    <3>3. i < j => settledScans'[j] = settledScans[j]
      BY <1>2, <3>1, <3>2
    <3> QED BY <1>5, <2>2, <3>3 DEF ScanIds
  <2> QED BY <1>1, <1>5, <2>1, <2>2 DEF PublishedInv
<1>6. \A i \in ScanIds : settledScans'[i] = "absent" => settledSnapshots'[i] = NoGraph
  BY <1>3
<1>7. graph'.content = Empty
  BY <1>1 DEF EmptyGraph
<1> QED BY <1>1, <1>2, <1>4, <1>5, <1>6, <1>7 DEF PublishedInv

LEMMA PublishedNext ==
  ASSUME Orderly, IInv, OrderlyInv, PublishedInv, [Next]_vars
  PROVE  PublishedInv'
<1>1. CASE UNCHANGED <<settledScans, graph, settledSnapshots>>
  BY <1>1 DEF PublishedInv
<1>2. CASE Atomic!Next
  <2>1. PICK id \in ScanIds : Atomic!Open(id) \/ Atomic!Publish(id) \/ Atomic!Fail(id)
    BY <1>2, AtomicOperators DEF Atomic!Next
  <2>2. graph \in Graphs
    BY DEF IInv, TypeOK
  <2> QED BY <2>1, <2>2, OpenPublished, PublishPublished, FailPublished
<1> QED BY <1>1, <1>2, NextIsAtomic DEF AtomicStep

(* Between scans the tables are what PublishedInv speaks of. *)
LEMMA ReadersFind ==
  ASSUME PublishedInv, \A u \in Tasks : pc[u] \notin BeforeStatus
  PROVE  SnapshotsTell(graph) /\ HealthTells(graph)
<1>1. settledScans = scans /\ settledSnapshots = snapshots
  BY NothingSettles DEF BeforeStatus, BeforeSnapshot
<1>2. SnapshotsTell(graph)
  BY <1>1 DEF PublishedInv, SnapshotsTell
<1>3. UsableScans = {i \in ScanIds : settledScans[i] \in {"success", "degraded"}}
  BY <1>1 DEF UsableScans
<1>4. CASE UsableScans = {}
  BY <1>2, <1>3, <1>4 DEF PublishedInv, HealthTells, Ready, LastUsable
<1>5. CASE UsableScans # {}
  <2>1. \E i \in UsableScans : \A j \in UsableScans : j <= i
    BY <1>3, <1>5, LatestScan
  <2>2. /\ LastUsable \in UsableScans /\ \A j \in UsableScans : j <= LastUsable
    BY <1>5, <2>1 DEF LastUsable
  <2>3. LastUsable # 0
    BY <2>2 DEF UsableScans, ScanIds
  <2>4. scans[LastUsable] = "degraded" <=> graph.state # "fresh"
    BY <1>1, <1>3, <2>2 DEF PublishedInv
  <2> QED BY <1>2, <2>3, <2>4 DEF HealthTells, Ready
<1> QED BY <1>2, <1>4, <1>5

(* While a scan is between its transactions, what it has not written yet   *)
(* tells of the graph it replaced.                                         *)
StoryInv ==
  \A t \in Tasks :
    /\ pc[t] \in BeforeStatus =>
         /\ HealthTells(work[t].previous)
         /\ work[t].previous.content = Empty => work[t].previous = EmptyGraph
    /\ pc[t] \in BeforeSnapshot => SnapshotsTell(work[t].previous)
    /\ pc[t] = "closing" => SnapshotsTell(graph)

LEMMA SameReadiness ==
  ASSUME UNCHANGED scans
  PROVE  Ready' = Ready
<1>1. UsableScans' = UsableScans
  BY DEF UsableScans
<1>2. LastUsable' = LastUsable
  BY <1>1 DEF LastUsable
<1> QED BY <1>2 DEF Ready

LEMMA SnapshotStory ==
  ASSUME Orderly, IInv, OrderlyInv, PublishedInv, StoryInv, NEW t \in Tasks, SaveSnapshot(t)
  PROVE  SnapshotsTell(graph)'
<1>1. /\ IInv' /\ pc' = [pc EXCEPT ![t] = "closing"] /\ graph' = graph
      /\ work' = [work EXCEPT ![t].status = StatusOf(work[t].nodes)]
      /\ pc \in [Tasks -> PCs] /\ work \in [Tasks -> WorkRecord] /\ graph \in Graphs
  BY NextInv DEF Next, Refresh, SaveSnapshot, Goto, IInv, TypeOK, WorkRecord
<1>2. pc'[t] = "closing" /\ work'[t].status \in {"success", "degraded"}
  BY <1>1 DEF StatusOf, WorkRecord
<1>3. /\ snapshots'[work'[t].id] = graph'
      /\ work'[t].id = nextId' - 1 /\ nextId' > 1 /\ nextId' \in 1..(MaxScans + 1)
  BY <1>1, <1>2 DEF IInv, TypeOK, TasksInv, TaskInv, Active, Blocking
<1>4. work'[t].id \in ScanIds /\ \A j \in ScanIds : j > work'[t].id => snapshots'[j] = NoGraph
  BY <1>1, <1>3, LimitsAssumption DEF IInv, NoFutureRows, ScanIds
<1> QED BY <1>3, <1>4 DEF SnapshotsTell

LEMMA StoryNext ==
  ASSUME Orderly, IInv, OrderlyInv, PublishedInv, StoryInv, [Next]_vars
  PROVE  StoryInv'
<1> USE DEF BeforeStatus, BeforeSnapshot
<1>1. ASSUME NEW t \in Tasks, Refresh(t) PROVE StoryInv'
  <2>1. /\ Begin(t) \/ Load(t) \/ Collect(t) \/ CollectFails(t) \/ Save(t) \/ SaveSnapshot(t)
             \/ Finish(t)
        /\ pc \in [Tasks -> PCs] /\ work \in [Tasks -> WorkRecord]
        /\ \A u \in Tasks \ {t} :
             pc[u] \notin Active /\ pc'[u] = pc[u] /\ work'[u] = work[u]
    BY <1>1, OrderlySteps
  <2>2. SUFFICES /\ pc'[t] \in BeforeStatus =>
                      /\ HealthTells(work[t].previous)'
                      /\ work'[t].previous.content = Empty => work'[t].previous = EmptyGraph
                 /\ pc'[t] \in BeforeSnapshot => SnapshotsTell(work[t].previous)'
                 /\ pc'[t] = "closing" => SnapshotsTell(graph)'
    BY <2>1 DEF StoryInv, Active, Blocking
  <2>3. CASE Begin(t) \/ Load(t) \/ Collect(t) \/ Finish(t)
    <3>1. pc'[t] \notin BeforeStatus
      BY <2>1, <2>3 DEF Begin, Load, Collect, Finish, Leave, Goto
    <3> QED BY <3>1
  <2>4. ASSUME pc[t] \notin BeforeStatus
        PROVE  /\ SnapshotsTell(graph) /\ HealthTells(graph)
               /\ graph.content = Empty => graph = EmptyGraph
    <3>1. \A u \in Tasks : pc[u] \notin BeforeStatus
      BY <2>1, <2>4 DEF Active, Blocking
    <3> QED BY <3>1, ReadersFind DEF PublishedInv
  <2>5. CASE Save(t) \/ CollectFails(t)
    <3>1. /\ pc[t] \in {"collecting", "saving", "staleSaving"} /\ work[t].previous = graph
          /\ UNCHANGED <<scans, snapshots>> /\ (pc'[t] = "closing" => graph' = graph)
      BY <2>1, <2>5 DEF Save, CollectFails, Goto, database, OrderlyInv
    <3>2. work'[t].previous = graph
      BY <2>1, <2>5, <3>1 DEF Save, CollectFails, Except, WorkRecord
    <3>3. Ready' = Ready
      BY <3>1, SameReadiness
    <3> QED BY <2>4, <3>1, <3>2, <3>3 DEF SnapshotsTell, HealthTells
  <2>6. CASE SaveSnapshot(t)
    <3>1. /\ pc[t] \in BeforeSnapshot /\ UNCHANGED scans /\ pc'[t] = "closing"
          /\ work' = [work EXCEPT ![t].status = StatusOf(work[t].nodes)]
      BY <2>1, <2>6 DEF SaveSnapshot, Goto
    <3>2. work'[t].previous = work[t].previous
      BY <2>1, <3>1 DEF WorkRecord
    <3>3. Ready' = Ready
      BY <3>1, SameReadiness
    <3>4. SnapshotsTell(graph)'
      BY <2>6, SnapshotStory
    <3> QED BY <3>1, <3>2, <3>3, <3>4 DEF StoryInv, HealthTells
  <2> QED BY <2>1, <2>3, <2>5, <2>6
<1>2. CASE Boot \/ DailyFires \/ ManualRequest \/ ManualSubmitted
  <2>1. \A u \in Tasks : pc[u] \notin BeforeStatus
    BY <1>2 DEF Boot, DailyFires, ManualRequest, ManualSubmitted, LoopFree, Blocking, IInv, DownIsIdle
  <2>2. \A u \in Tasks : pc'[u] = pc[u] \/ pc'[u] = "waiting"
    BY <1>2 DEF Boot, DailyFires, ManualRequest, ManualSubmitted, Enter, IInv, TypeOK, Tasks
  <2> QED BY <2>1, <2>2 DEF StoryInv
<1>3. CASE Shutdown \/ Crash
  <2>1. \A u \in Tasks : pc'[u] = "idle"
    BY <1>3 DEF Shutdown, Crash, ProcessEnds
  <2> QED BY <2>1 DEF StoryInv
<1>4. CASE UNCHANGED vars
  <2>1. Ready' = Ready
    BY <1>4, SameReadiness DEF vars
  <2> QED BY <1>4, <2>1 DEF vars, StoryInv, HealthTells, SnapshotsTell
<1> QED BY <1>1, <1>2, <1>3, <1>4 DEF Next, Quiescent

-----------------------------------------------------------------------------
(* The timeline lists a set of scans from the newest to the oldest.        *)

Above(S, i) == {j \in S : j > i}

LEMMA AboveMember == \A S, i, k : k \in Above(S, i) <=> k \in S /\ k > i
BY DEF Above

LEMMA RankOfOlder ==
  ASSUME NEW S \in SUBSET ScanIds, NEW i \in S, NEW j \in S, i < j
  PROVE  Cardinality(Above(S, j)) < Cardinality(Above(S, i))
<1>1. Above(S, j) \subseteq Above(S, i) /\ j \in Above(S, i) /\ j \notin Above(S, j)
  <2>1. i \in Nat /\ j \in Nat /\ \A k \in S : k \in Nat
    BY DEF ScanIds
  <2>2. ASSUME NEW k \in Above(S, j) PROVE k \in Above(S, i)
    <3>1. k \in S /\ k > j
      BY AboveMember
    <3>2. k > i
      BY <2>1, <3>1
    <3> QED BY <3>1, <3>2, AboveMember
  <2> QED BY <2>1, <2>2, AboveMember
<1>2. IsFiniteSet(Above(S, i)) /\ Cardinality(Above(S, i)) \in Nat
  BY ScanSetsFinite DEF Above
<1> DEFINE A == Above(S, i)
           B == Above(S, j)
<1>3. /\ B \subseteq A /\ j \in A /\ j \notin B /\ IsFiniteSet(A)
      /\ Cardinality(A) \in Nat
  BY <1>1, <1>2
<1> HIDE DEF A, B
<1>4. IsFiniteSet(B) /\ Cardinality(B) \in Nat /\ Cardinality(B) <= Cardinality(A)
  BY <1>3, FS_Subset, FS_CardinalityType
<1>5. B # A => Cardinality(B) # Cardinality(A)
  BY <1>3, FS_Subset
<1> QED BY <1>3, <1>4, <1>5 DEF A, B

(* The next older element has the next rank. *)
LEMMA RankOfNext ==
  ASSUME NEW S \in SUBSET ScanIds, NEW i \in S, NEW p \in S, p < i,
         \A j \in S : j < i => j <= p
  PROVE  Cardinality(Above(S, p)) = Cardinality(Above(S, i)) + 1
<1>1. Above(S, p) = Above(S, i) \cup {i} /\ i \notin Above(S, i)
  <2>1. i \in Nat /\ p \in Nat /\ \A k \in S : k \in Nat
    BY DEF ScanIds
  <2>2. \A k \in S : k > p <=> k > i \/ k = i
    BY <2>1
  <2>3. \A k : k \in Above(S, p) <=> k \in Above(S, i) \cup {i}
    BY <2>1, <2>2, AboveMember
  <2> QED BY <2>1, <2>3, AboveMember
<1>2. IsFiniteSet(Above(S, i))
  BY ScanSetsFinite DEF Above
<1> QED BY <1>1, <1>2, FS_AddElement

LEMMA RankExists ==
  ASSUME NEW S \in SUBSET ScanIds, NEW n \in Nat, n < Cardinality(S)
  PROVE  \E i \in S : Cardinality(Above(S, i)) = n
<1> DEFINE T == {i \in S : Cardinality(Above(S, i)) <= n}
<1>1. /\ IsFiniteSet(S) /\ Cardinality(S) \in Nat
      /\ \A i \in S : IsFiniteSet(Above(S, i)) /\ Cardinality(Above(S, i)) \in Nat
  BY ScanSetsFinite DEF Above
<1>2. S # {}
  BY <1>1, FS_EmptySet
<1>3. T # {}
  <2>1. PICK m \in S : \A k \in S : k <= m
    BY <1>2, LatestScan
  <2>2. Above(S, m) = {}
    <3>1. \A k \in S : ~(k > m)
      BY <2>1 DEF ScanIds
    <3> QED BY <3>1, AboveMember
  <2>3. Cardinality(Above(S, m)) = 0
    BY <2>2, FS_EmptySet
  <2> QED BY <2>3
<1>4. PICK m \in T : \A k \in T : m <= k
  BY <1>3, OldestScan
<1>5. m \in S /\ Cardinality(Above(S, m)) \in Nat /\ Cardinality(Above(S, m)) <= n
  BY <1>1, <1>4
<1>6. SUFFICES ASSUME Cardinality(Above(S, m)) < n PROVE FALSE
  BY <1>5
<1> DEFINE earlier == {j \in S : j < m}
<1>7. CASE earlier = {}
  <2>1. S = Above(S, m) \cup {m} /\ m \notin Above(S, m)
    <3>1. \A k \in S : k > m \/ k = m
      BY <1>5, <1>7 DEF ScanIds
    <3>2. \A k : k \in S <=> k \in Above(S, m) \cup {m}
      BY <1>5, <3>1, AboveMember
    <3>3. ~(m > m)
      BY <1>5 DEF ScanIds
    <3> QED BY <3>2, <3>3, AboveMember
  <2>2. Cardinality(S) = Cardinality(Above(S, m)) + 1
    BY <1>1, <1>5, <2>1, FS_AddElement
  <2> QED BY <1>1, <1>5, <1>6, <2>2
<1>8. CASE earlier # {}
  <2>1. PICK p \in earlier : \A j \in earlier : j <= p
    BY <1>8, LatestScan
  <2>2. p \in S /\ p < m /\ \A j \in S : j < m => j <= p
    BY <2>1
  <2>3. Cardinality(Above(S, p)) = Cardinality(Above(S, m)) + 1
    BY <1>5, <2>2, RankOfNext
  <2>4. p \in T
    BY <1>5, <1>6, <2>2, <2>3
  <2>5. m <= p
    BY <1>4, <2>4
  <2> QED BY <1>5, <2>2, <2>5 DEF ScanIds
<1> QED BY <1>7, <1>8

LEMMA IndexedSeq ==
  ASSUME NEW K \in Nat, NEW f, f = [n \in 1..K |-> f[n]]
  PROVE  Len(f) = K /\ (f # <<>> => K # 0)
<1> DEFINE R == {f[n] : n \in 1..K}
<1>1. f \in [1..K -> R]
  OBVIOUS
<1> HIDE DEF R
<1>2. f \in Seq(R)
  BY <1>1, SeqDef
<1>3. Len(f) \in Nat /\ DOMAIN f = 1..Len(f)
  BY <1>2, LenProperties
<1>4. DOMAIN f = 1..K
  BY <1>1
<1>5. Len(f) = K
  BY <1>3, <1>4
<1> QED BY <1>2, <1>5, EmptySeq

(* The entries of a timeline are the elements by rank, and each names the  *)
(* one below it.                                                           *)
LEMMA TimelineEntries ==
  ASSUME NEW S \in SUBSET ScanIds, NEW at
  PROVE  LET reply == Timeline(S, at)
             K == Cardinality(S)
         IN  /\ K \in Nat /\ Len(reply) = K /\ (reply # <<>> => K # 0)
             /\ \A n \in 1..K :
                  /\ reply[n].id \in S
                  /\ Cardinality(Above(S, reply[n].id)) = n - 1
                  /\ reply[n].nodeCount = Cardinality(Nodes(at[reply[n].id]))
             /\ \A n \in 1..(K - 1) :
                  /\ reply[n].previous = reply[n + 1].id
                  /\ reply[n].changes = Diff(at[reply[n + 1].id], at[reply[n].id])
<1> DEFINE K == Cardinality(S)
           Id(n) == CHOOSE i \in S : Cardinality({j \in S : j > i}) = n - 1
           earlier(n) == {j \in S : j < Id(n)}
           Previous(n) ==
             IF earlier(n) = {} THEN 0 ELSE CHOOSE j \in earlier(n) : \A k \in earlier(n) : k <= j
           reply == Timeline(S, at)
<1>1. K \in Nat
  BY ScanSetsFinite
<1>2. reply = [n \in 1..K |->
         [id |-> Id(n), nodeCount |-> Cardinality(Nodes(at[Id(n)])), previous |-> Previous(n),
          changes |-> Diff(IF Previous(n) = 0 THEN at[Id(n)] ELSE at[Previous(n)], at[Id(n)])]]
  BY DEF Timeline
<1>3. \A n \in 1..K : Id(n) \in S /\ Cardinality(Above(S, Id(n))) = n - 1
  <2>1. ASSUME NEW n \in 1..K PROVE \E i \in S : Cardinality(Above(S, i)) = n - 1
    BY <1>1, RankExists
  <2> QED BY <2>1 DEF Above
<1>4. ASSUME NEW n \in 1..(K - 1) PROVE Previous(n) = Id(n + 1) /\ Previous(n) # 0
  <2>1. n \in 1..K /\ n + 1 \in 1..K /\ n \in Nat
    BY <1>1
  <2> DEFINE a == Id(n)
             b == Id(n + 1)
  <2>2. /\ a \in S /\ b \in S
        /\ Cardinality(Above(S, a)) = n - 1 /\ Cardinality(Above(S, b)) = n
    <3>1. a \in S /\ Cardinality(Above(S, a)) = n - 1
      BY <1>3, <2>1
    <3>2. b \in S /\ Cardinality(Above(S, b)) = (n + 1) - 1
      BY <1>3, <2>1
    <3> QED BY <2>1, <3>1, <3>2
  <2>3. Previous(n) = IF earlier(n) = {} THEN 0
                      ELSE CHOOSE j \in earlier(n) : \A k \in earlier(n) : k <= j
    OBVIOUS
  <2>4. earlier(n) = {j \in S : j < a}
    OBVIOUS
  <2> HIDE DEF Id, Previous, a, b, earlier
  <2>5. a \in Nat /\ b \in Nat
    BY <2>2 DEF ScanIds
  <2>6. b < a
    <3>1. a # b
      BY <2>1, <2>2
    <3>2. ~(a < b)
      BY <2>1, <2>2, RankOfOlder
    <3> QED BY <2>5, <3>1, <3>2
  <2>7. b \in earlier(n)
    BY <2>2, <2>4, <2>6
  <2>8. PICK p \in earlier(n) : \A k \in earlier(n) : k <= p
    BY <2>4, <2>7, LatestScan
  <2>9. p \in S /\ p < a /\ \A j \in S : j < a => j <= p
    BY <2>4, <2>8
  <2>10. Cardinality(Above(S, p)) = n
    <3>1. Cardinality(Above(S, p)) = Cardinality(Above(S, a)) + 1
      BY <2>2, <2>9, RankOfNext
    <3> QED BY <2>1, <2>2, <3>1
  <2>11. p = b
    <3>1. p \in Nat
      BY <2>9 DEF ScanIds
    <3>2. p < b => FALSE
      BY <2>1, <2>2, <2>9, <2>10, RankOfOlder
    <3>3. b < p => FALSE
      BY <2>1, <2>2, <2>9, <2>10, RankOfOlder
    <3> QED BY <2>5, <3>1, <3>2, <3>3
  <2>12. \A j \in earlier(n) : (\A k \in earlier(n) : k <= j) => j = p
    <3>1. \A j \in earlier(n) : j \in S
      BY <2>4
    <3>2. \A j \in S : j \in Nat
      BY DEF ScanIds
    <3> QED BY <2>8, <3>1, <3>2
  <2>13. (CHOOSE j \in earlier(n) : \A k \in earlier(n) : k <= j) = p
    BY <2>8, <2>12
  <2>14. b # 0
    BY <2>2 DEF ScanIds
  <2> QED BY <2>3, <2>7, <2>11, <2>13, <2>14 DEF b
<1> HIDE DEF Id, Previous, reply
<1>5. reply = [n \in 1..K |-> reply[n]]
  BY <1>2
<1>6. Len(reply) = K /\ (reply # <<>> => K # 0)
  BY <1>1, <1>5, IndexedSeq
<1>7. \A n \in 1..K :
        /\ reply[n].id = Id(n) /\ reply[n].previous = Previous(n)
        /\ reply[n].nodeCount = Cardinality(Nodes(at[Id(n)]))
        /\ reply[n].changes = Diff(IF Previous(n) = 0 THEN at[Id(n)] ELSE at[Previous(n)], at[Id(n)])
  BY <1>2
<1>8. \A n \in 1..K :
        /\ reply[n].id \in S
        /\ Cardinality(Above(S, reply[n].id)) = n - 1
        /\ reply[n].nodeCount = Cardinality(Nodes(at[reply[n].id]))
  BY <1>3, <1>7
<1>9. ASSUME NEW n \in 1..(K - 1)
      PROVE  /\ reply[n].previous = reply[n + 1].id
             /\ reply[n].changes = Diff(at[reply[n + 1].id], at[reply[n].id])
  <2>1. n \in 1..K /\ n + 1 \in 1..K
    BY <1>1
  <2> QED BY <1>4, <1>7, <2>1
<1> QED BY <1>1, <1>6, <1>8, <1>9 DEF reply

(* A comparison accounts for the nodes, and tells graphs apart. *)
LEMMA DiffAccounts ==
  ASSUME NEW g \in Graphs, NEW h \in Graphs
  PROVE  /\ Cardinality(Nodes(h)) + Cardinality(Diff(g, h).removed)
              = Cardinality(Nodes(g)) + Cardinality(Diff(g, h).added)
         /\ Diff(g, h).added \cup Diff(g, h).removed \cup Diff(g, h).changed = {}
              => g = h \/ Nodes(h) = {}
<1> DEFINE A == Nodes(g)
           B == Nodes(h)
<1>1. /\ IsFiniteSet(A) /\ IsFiniteSet(B)
      /\ g.content = [b \in A |-> g.content[b]] /\ h.content = [b \in B |-> h.content[b]]
  BY ContentsAssumption DEF Graphs, Nodes
<1>2. /\ Diff(g, h).added = B \ A /\ Diff(g, h).removed = A \ B
      /\ Diff(g, h).changed = {b \in A \cap B : Node(g, b) # Node(h, b)}
  BY DEF Diff
<1>3. g = [content |-> g.content, state |-> g.state] /\ h = [content |-> h.content, state |-> h.state]
  BY DEF Graphs
<1> HIDE DEF A, B
<1>4. Cardinality(B) + Cardinality(A \ B) = Cardinality(A) + Cardinality(B \ A)
  <2>1. Cardinality(A \ B) = Cardinality(A) - Cardinality(A \cap B)
    BY <1>1, FS_Difference
  <2>2. Cardinality(B \ A) = Cardinality(B) - Cardinality(B \cap A)
    BY <1>1, FS_Difference
  <2>3. A \cap B = B \cap A /\ IsFiniteSet(A \cap B)
    BY <1>1, FS_Intersection
  <2>4. Cardinality(A) \in Nat /\ Cardinality(B) \in Nat /\ Cardinality(A \cap B) \in Nat
    BY <1>1, <2>3, FS_CardinalityType
  <2> QED BY <2>1, <2>2, <2>3, <2>4
<1>5. ASSUME Diff(g, h).added \cup Diff(g, h).removed \cup Diff(g, h).changed = {}, B # {}
      PROVE  g = h
  <2>1. A = B
    BY <1>2, <1>5
  <2>2. \A b \in B : Node(g, b) = Node(h, b)
    BY <1>2, <1>5, <2>1
  <2>3. \A b \in B : g.content[b] = h.content[b] /\ g.state = h.state
    BY <2>2 DEF Node
  <2>4. g.state = h.state
    BY <1>5, <2>3
  <2>5. g.content = h.content
    BY <1>1, <2>1, <2>3
  <2> QED BY <1>3, <2>4, <2>5
<1> QED BY <1>2, <1>4, <1>5 DEF A, B

LEMMA TimelineTells ==
  ASSUME IInv, NEW told, SnapshotsTell(told), told.content = Empty => told = EmptyGraph
  PROVE  TimelineLeadsTo(told)
<1> DEFINE S == SnapshotList
           reply == TimelineReply
           K == Cardinality(S)
<1>1. /\ S \in SUBSET SnapshotRows(snapshots) /\ S \in SUBSET ScanIds
      /\ snapshots \in [ScanIds -> Graphs]
  BY HistoryTypes DEF SnapshotList, Newest, SnapshotRows
<1>2. /\ K \in Nat /\ Len(reply) = K /\ (reply # <<>> => K # 0)
      /\ \A n \in 1..K :
           /\ reply[n].id \in S
           /\ Cardinality(Above(S, reply[n].id)) = n - 1
           /\ reply[n].nodeCount = Cardinality(Nodes(snapshots[reply[n].id]))
      /\ \A n \in 1..(K - 1) :
           /\ reply[n].previous = reply[n + 1].id
           /\ reply[n].changes = Diff(snapshots[reply[n + 1].id], snapshots[reply[n].id])
  BY <1>1, TimelineEntries DEF TimelineReply
<1>3. ASSUME K # 0 PROVE snapshots[reply[1].id] = told
  <2>1. 1 \in 1..K
    BY <1>2, <1>3
  <2> DEFINE id == reply[1].id
  <2>2. id \in S /\ Cardinality(Above(S, id)) = 1 - 1 /\ id \in ScanIds /\ snapshots[id] # NoGraph
    BY <1>1, <1>2, <2>1 DEF SnapshotRows
  <2> HIDE DEF id, S, reply
  <2>3. Above(S, id) = {}
    <3>1. IsFiniteSet(Above(S, id))
      BY <1>1, ScanSetsFinite DEF Above
    <3> QED BY <2>2, <3>1, FS_EmptySet
  <2>4. \A j \in S : ~(j > id)
    BY <2>3, AboveMember
  <2>5. PICK i \in ScanIds : /\ snapshots[i] = told
                             /\ \A j \in ScanIds : j > i => snapshots[j] = NoGraph
    BY <2>2 DEF SnapshotsTell
  <2>6. told # NoGraph
    BY DEF EmptyGraph, NoGraph
  <2>7. id <= i
    BY <2>2, <2>5 DEF ScanIds
  <2>8. i \in S
    <3> DEFINE R == SnapshotRows(snapshots)
    <3>1. id \in R /\ i \in R /\ R \in SUBSET ScanIds
      BY <2>2, <2>5, <2>6 DEF SnapshotRows
    <3>2. S = Newest(R, TimelineLimit)
      BY DEF S, SnapshotList
    <3> HIDE DEF R
    <3>3. CASE id = i
      BY <2>2, <3>3
    <3>4. CASE id < i
      BY <2>2, <3>1, <3>2, <3>4, NewestClosed, ReadersAssumption
    <3> QED BY <2>2, <2>7, <3>3, <3>4 DEF ScanIds
  <2>9. id = i
    BY <2>2, <2>4, <2>7, <2>8 DEF ScanIds
  <2> QED BY <2>5, <2>9 DEF id
<1>4. ASSUME NEW n \in 1..(K - 1)
      PROVE  LET entry == reply[n]
                 d == entry.changes
             IN  /\ entry.previous = reply[n + 1].id
                 /\ entry.nodeCount + Cardinality(d.removed)
                      = reply[n + 1].nodeCount + Cardinality(d.added)
                 /\ d.added \cup d.removed \cup d.changed = {}
                      => snapshots[entry.id] = snapshots[entry.previous]
                           \/ Nodes(snapshots[entry.id]) = {}
  <2> DEFINE h == snapshots[reply[n].id]
             g == snapshots[reply[n + 1].id]
  <2>1. n \in 1..K /\ n + 1 \in 1..K
    BY <1>2
  <2>2. /\ reply[n].previous = reply[n + 1].id /\ reply[n].changes = Diff(g, h)
        /\ reply[n].nodeCount = Cardinality(Nodes(h))
        /\ reply[n + 1].nodeCount = Cardinality(Nodes(g))
        /\ reply[n].id \in ScanIds /\ reply[n + 1].id \in ScanIds
    BY <1>1, <1>2, <2>1
  <2>3. g \in Graphs /\ h \in Graphs
    BY <1>1, <2>2
  <2> HIDE DEF reply
  <2>4. /\ Cardinality(Nodes(h)) + Cardinality(Diff(g, h).removed)
             = Cardinality(Nodes(g)) + Cardinality(Diff(g, h).added)
        /\ Diff(g, h).added \cup Diff(g, h).removed \cup Diff(g, h).changed = {}
             => g = h \/ Nodes(h) = {}
    BY <2>3, DiffAccounts
  <2> QED BY <2>2, <2>4
<1> QED BY <1>2, <1>3, <1>4 DEF TimelineLeadsTo

(* What a table tells of, given whether a scan has yet to write it.        *)
LEMMA ToldGraph ==
  ASSUME IInv, NEW points, points \subseteq Active
  PROVE  /\ (\A t \in Tasks : pc[t] \notin points) => Told(points) = graph
         /\ \A t \in Tasks : pc[t] \in points => Told(points) = work[t].previous
<1>1. ASSUME NEW t \in Tasks, pc[t] \in points PROVE Told(points) = work[t].previous
  <2>1. Holds(t)
    BY <1>1 DEF IInv, TasksInv, TaskInv
  <2>2. \A u \in Tasks : pc[u] \in points => u = t
    BY <2>1, OthersInactive DEF IInv
  <2>3. (CHOOSE u \in Tasks : pc[u] \in points) = t
    BY <1>1, <2>2
  <2> QED BY <1>1, <2>3 DEF Told
<1> QED BY <1>1 DEF Told

LEMMA StoryTold ==
  ASSUME IInv, PublishedInv, StoryInv
  PROVE  ReadersAgree
<1> DEFINE shown == Told(BeforeSnapshot)
           known == Told(BeforeStatus)
<1> USE DEF BeforeStatus, BeforeSnapshot
<1>1. /\ SnapshotsTell(shown) /\ (shown.content = Empty => shown = EmptyGraph)
      /\ HealthTells(known)
  <2>1. BeforeSnapshot \subseteq Active /\ BeforeStatus \subseteq Active
    BY DEF Active, Blocking
  <2>2. CASE \A u \in Tasks : pc[u] \notin BeforeStatus
    <3>1. shown = graph /\ known = graph
      BY <2>1, <2>2, ToldGraph
    <3> QED BY <2>2, <3>1, ReadersFind DEF PublishedInv
  <2>3. ASSUME NEW t \in Tasks, pc[t] \in BeforeStatus PROVE <1>1
    <3>1. known = work[t].previous /\ HealthTells(work[t].previous)
      BY <2>1, <2>3, ToldGraph DEF StoryInv
    <3>2. CASE pc[t] \in BeforeSnapshot
      <4>1. shown = work[t].previous
        BY <2>1, <3>2, ToldGraph
      <4> QED BY <2>3, <3>1, <3>2, <4>1 DEF StoryInv
    <3>3. CASE pc[t] = "closing"
      <4>1. Holds(t)
        BY <3>3 DEF IInv, TasksInv, TaskInv, Active, Blocking
      <4>2. \A u \in Tasks : pc[u] \notin BeforeSnapshot
        BY <2>1, <3>3, <4>1, OthersInactive DEF IInv
      <4>3. shown = graph
        BY <2>1, <4>2, ToldGraph
      <4> QED BY <3>1, <3>3, <4>3 DEF StoryInv, PublishedInv
    <3> QED BY <2>3, <3>2, <3>3
  <2> QED BY <2>2, <2>3
<1>2. TimelineLeadsTo(shown)
  BY <1>1, TimelineTells
<1> QED BY <1>1, <1>2 DEF ReadersAgree

(* Whenever they are asked, also between the transactions of a scan,       *)
(* /health/ready, /api/snapshots and /api/timeline tell of the graph that  *)
(* is served or of the one the scan in progress has just replaced,         *)
(* whatever was interrupted or pruned before.                              *)
THEOREM ReadersDoAgree ==
  ASSUME Orderly
  PROVE  Spec => []ReadersAgree
<1>1. Init => IInv /\ OrderlyInv /\ PublishedInv /\ StoryInv
  <2>1. Init => StoryInv
    BY DEF Init, StoryInv, BeforeStatus, BeforeSnapshot
  <2> QED BY <2>1, InitInv, OrderlyInit, PublishedInit
<1>2. IInv /\ OrderlyInv /\ PublishedInv /\ StoryInv /\ [Next]_vars
        => IInv' /\ OrderlyInv' /\ PublishedInv' /\ StoryInv'
  BY NextInv, OrderlyNext, PublishedNext, StoryNext
<1>3. IInv /\ PublishedInv /\ StoryInv => ReadersAgree
  BY StoryTold
<1> QED BY <1>1, <1>2, <1>3, PTL DEF Spec
=============================================================================
