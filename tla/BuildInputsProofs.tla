-------------------------- MODULE BuildInputsProofs --------------------------
(* Proofs about the reading of builds, for any number of builds, any       *)
(* concurrency and any size of the memory cache.                           *)
EXTENDS BuildInputs, FiniteSetTheorems, WellFoundedInduction, TLAPS

(* Data that may pass as the inputs of build b. *)
Sound(b, data) == data \in Readings(b)

(* A node that shows finished b as fresh shows sound data. *)
SoundNode(b, node) == node.shown = "fresh" /\ node.finished => Sound(b, node.data)

Typed ==
  /\ tc \in [Builds -> {"absent", "running", "finished", "deleted"}]
  /\ memory \in Seq(Builds \X Data)
  /\ persistent \in [Builds -> Data]
  /\ graph \in [Builds -> Node]
  /\ scan \in Scan
  /\ task \in [Builds -> Task]

(* Both caches hold sound data only. *)
CachesSound ==
  /\ \A i \in DOMAIN memory : Sound(memory[i][1], memory[i][2])
  /\ \A b \in Builds : persistent[b] # "none" => Sound(b, persistent[b])

(* So does every node on its way from a task into the graph. *)
NodesSound ==
  \A b \in Builds :
    /\ SoundNode(b, graph[b])
    /\ SoundNode(b, scan.nodes[b])
    /\ SoundNode(b, task[b].node)

(* Tasks belong to the batch, which is no larger than allowed and empty    *)
(* between scans.                                                          *)
BatchBounded ==
  /\ scan.pc = "idle" => scan.batch = {}
  /\ \A b \in Builds : task[b].pc # "none" => b \in scan.batch
  /\ Cardinality(scan.batch) <= Concurrency

IInv == Typed /\ CachesSound /\ NodesSound /\ BatchBounded


-----------------------------------------------------------------------------
(* Data structures.                                                        *)

(* Dropping the entry of a build adds none. *)
LEMMA OthersAreEntries ==
  ASSUME memory \in Seq(Builds \X Data), NEW b \in Builds
  PROVE  /\ Others(b) \in Seq(Builds \X Data)
         /\ \A i \in DOMAIN Others(b) : \E j \in DOMAIN memory : Others(b)[i] = memory[j]
<1> DEFINE at == {i \in DOMAIN memory : memory[i][1] = b}
           n == CHOOSE i \in at : TRUE
           before == SubSeq(memory, 1, n - 1)
           after == SubSeq(memory, n + 1, Len(memory))
<1>1. CASE at = {}
  BY <1>1 DEF Others
<1>2. CASE at # {}
  <2>1. n \in 1..Len(memory)
    BY <1>2
  <2>2. Others(b) = before \o after
    BY <1>2 DEF Others
  <2> HIDE DEF n
  <2>3. /\ before \in Seq(Builds \X Data) /\ Len(before) = n - 1
        /\ \A i \in 1..(n - 1) : before[i] = memory[i]
    BY <2>1
  <2>4. /\ after \in Seq(Builds \X Data) /\ Len(after) = Len(memory) - n
        /\ \A i \in 1..(Len(memory) - n) : after[i] = memory[n + i]
    BY <2>1
  <2> HIDE DEF before, after
  <2>5. \A i \in 1..(Len(memory) - 1) :
          (before \o after)[i] = IF i < n THEN memory[i] ELSE memory[i + 1]
    BY <2>1, <2>3, <2>4
  <2>6. before \o after \in Seq(Builds \X Data) /\ Len(before \o after) = Len(memory) - 1
    BY <2>1, <2>3, <2>4
  <2>7. ASSUME NEW i \in 1..(Len(memory) - 1)
        PROVE  \E j \in DOMAIN memory : (before \o after)[i] = memory[j]
    <3>1. CASE i < n
      <4>1. (before \o after)[i] = memory[i]
        BY <2>5, <2>7, <3>1
      <4>2. i \in DOMAIN memory
        BY <2>7
      <4> QED
        BY <4>1, <4>2
    <3>2. CASE ~(i < n)
      <4>1. (before \o after)[i] = memory[i + 1]
        BY <2>5, <2>7, <3>2
      <4>2. i + 1 \in DOMAIN memory
        BY <2>7
      <4> QED
        BY <4>1, <4>2
    <3> QED
      BY <3>1, <3>2
  <2>8. DOMAIN (before \o after) = 1..(Len(memory) - 1)
    BY <2>6
  <2> QED
    BY <2>2, <2>6, <2>7, <2>8
<1> QED
  BY <1>1, <1>2

(* The cache after a write holds what it held before, and the new entry.   *)
LEMMA RememberKeepsEntries ==
  ASSUME memory \in Seq(Builds \X Data), NEW b \in Builds, NEW data \in Data
  PROVE  /\ Remember(b, data) \in Seq(Builds \X Data)
         /\ \A i \in DOMAIN Remember(b, data) :
              \/ Remember(b, data)[i] = <<b, data>>
              \/ \E j \in DOMAIN memory : Remember(b, data)[i] = memory[j]
<1> DEFINE all == Append(Others(b), <<b, data>>)
           first == IF Len(all) > CacheSize THEN Len(all) - CacheSize + 1 ELSE 1
<1>1. /\ all \in Seq(Builds \X Data)
      /\ \A i \in DOMAIN all :
           all[i] = <<b, data>> \/ \E j \in DOMAIN memory : all[i] = memory[j]
  BY OthersAreEntries
<1>2. Remember(b, data) = SubSeq(all, first, Len(all))
  BY DEF Remember
<1> HIDE DEF all
<1>3. first \in Nat /\ first >= 1
  BY <1>1, InputsAssumption
<1> HIDE DEF first
<1>4. SubSeq(all, first, Len(all)) \in Seq(Builds \X Data)
  BY <1>1, <1>3
<1>5. \A i \in DOMAIN SubSeq(all, first, Len(all)) :
        /\ first + i - 1 \in DOMAIN all
        /\ SubSeq(all, first, Len(all))[i] = all[first + i - 1]
  BY <1>1, <1>3
<1> QED
  BY <1>1, <1>2, <1>4, <1>5

(* A non-empty set of builds has a last one. *)
LEMMA LastBuild ==
  ASSUME NEW S \in SUBSET Builds, S # {}
  PROVE  \E m \in S : \A b \in S : b <= m
<1> DEFINE T == {MaxBuilds - b : b \in S}
<1>1. T \in SUBSET Nat /\ T # {}
  <2>1. \A b \in S : MaxBuilds - b \in Nat
    BY InputsAssumption DEF Builds
  <2>2. PICK b \in S : TRUE
    OBVIOUS
  <2>3. MaxBuilds - b \in T
    OBVIOUS
  <2> QED
    BY <2>1, <2>3
<1>2. PICK x \in T : \A y \in T : <<y, x>> \notin OpToRel(<, Nat)
  BY <1>1, WFMin, NatLessThanWellFounded
<1>3. \A y \in T : ~(y < x)
  BY <1>1, <1>2 DEF OpToRel
<1>4. PICK m \in S : x = MaxBuilds - m
  BY <1>2
<1>5. \A b \in S : MaxBuilds - b \in T
  OBVIOUS
<1> HIDE DEF T
<1>6. \A b \in S : b <= m
  BY <1>3, <1>4, <1>5, InputsAssumption DEF Builds
<1> QED
  BY <1>6

(* Builds that fewer than Concurrency others come before are no more than  *)
(* Concurrency.                                                            *)
LEMMA BatchSize ==
  ASSUME NEW todo \in SUBSET Builds, NEW batch \in SUBSET todo,
         \A b \in batch : Cardinality({c \in todo : c < b}) < Concurrency
  PROVE  Cardinality(batch) <= Concurrency
<1>0. IsFiniteSet(Builds)
  BY FS_Interval, InputsAssumption DEF Builds
<1>1. IsFiniteSet(todo) /\ IsFiniteSet(batch)
  BY <1>0, FS_Subset
<1>2. CASE batch = {}
  <2>1. Cardinality(batch) = 0
    BY <1>2, FS_EmptySet
  <2> QED
    BY <2>1, InputsAssumption
<1>3. CASE batch # {}
  <2>1. PICK m \in batch : \A b \in batch : b <= m
    BY <1>3, LastBuild
  <2> DEFINE before == {c \in todo : c < m}
  <2>2. batch \ {m} \in SUBSET before
    <3>1. ASSUME NEW b \in batch, b # m
          PROVE  b < m
      BY <2>1, <3>1, InputsAssumption DEF Builds
    <3> QED
      BY <3>1
  <2>3. Cardinality(before) < Concurrency
    OBVIOUS
  <2>4. IsFiniteSet(before)
    <3>1. before \in SUBSET todo
      OBVIOUS
    <3> QED
      BY <1>1, <3>1, FS_Subset
  <2> HIDE DEF before
  <2>5. Cardinality(batch \ {m}) <= Cardinality(before)
    BY <2>2, <2>4, FS_Subset
  <2>6. Cardinality(batch \ {m}) = Cardinality(batch) - 1
    BY <1>1, <2>1, FS_RemoveElement
  <2>7. /\ Cardinality(batch) \in Nat /\ Cardinality(before) \in Nat
        /\ Concurrency \in Nat
    BY <1>1, <2>4, FS_CardinalityType, InputsAssumption
  <2> QED
    BY <2>3, <2>5, <2>6, <2>7
<1> QED
  BY <1>2, <1>3

-----------------------------------------------------------------------------
(* The inductive invariant.                                                *)

LEMMA InitInv == Init => IInv
<1> SUFFICES ASSUME Init PROVE IInv
  OBVIOUS
<1> USE DEF Init
<1>1. Typed
  BY DEF Typed, NoNodes, NoNode, Node, Data, NoScan, Scan, NoTasks, NoTask, Task
<1>2. CachesSound
  BY DEF CachesSound
<1>3. NodesSound
  BY DEF NodesSound, SoundNode, NoNodes, NoNode, NoScan, NoTasks, NoTask
<1>4. BatchBounded
  BY FS_EmptySet, InputsAssumption DEF BatchBounded, NoScan, NoTasks, NoTask
<1> QED
  BY <1>1, <1>2, <1>3, <1>4 DEF IInv

(* A write of sound data keeps the caches sound, in memory ...             *)
LEMMA MemorySound ==
  ASSUME IInv, NEW b \in Builds, NEW data \in Data, Sound(b, data),
         memory' = Remember(b, data)
  PROVE  /\ memory' \in Seq(Builds \X Data)
         /\ \A i \in DOMAIN memory' : Sound(memory'[i][1], memory'[i][2])
<1>1. /\ memory' \in Seq(Builds \X Data)
      /\ \A i \in DOMAIN memory' :
           memory'[i] = <<b, data>> \/ \E j \in DOMAIN memory : memory'[i] = memory[j]
  BY RememberKeepsEntries DEF IInv, Typed
<1>2. ASSUME NEW i \in DOMAIN memory'
      PROVE  Sound(memory'[i][1], memory'[i][2])
  <2>1. CASE memory'[i] = <<b, data>>
    BY <2>1
  <2>2. CASE \E j \in DOMAIN memory : memory'[i] = memory[j]
    BY <2>2 DEF IInv, CachesSound
  <2> QED
    BY <1>1, <1>2, <2>1, <2>2
<1> QED
  BY <1>1, <1>2

(* ... and in the database. *)
LEMMA PersistentSound ==
  ASSUME IInv, NEW b \in Builds, NEW data \in Data, Sound(b, data),
         persistent' = [persistent EXCEPT ![b] = data]
  PROVE  /\ persistent' \in [Builds -> Data]
         /\ \A c \in Builds : persistent'[c] # "none" => Sound(c, persistent'[c])
BY DEF IInv, Typed, CachesSound

(* A task that ends with a sound node, leaving sound caches behind, keeps   *)
(* the invariant.                                                          *)
LEMMA DoneInv ==
  ASSUME IInv, NEW b \in Builds, NEW node \in Node, task[b].pc # "none", Done(b, node),
         SoundNode(b, node), UNCHANGED <<tc, graph, scan>>,
         memory' \in Seq(Builds \X Data), persistent' \in [Builds -> Data],
         \A i \in DOMAIN memory' : Sound(memory'[i][1], memory'[i][2]),
         \A c \in Builds : persistent'[c] # "none" => Sound(c, persistent'[c])
  PROVE  IInv'
<1>1. task' \in [Builds -> Task]
  BY DEF IInv, Typed, Task, Done
<1>2. Typed'
  BY <1>1 DEF IInv, Typed
<1>3. CachesSound'
  BY DEF CachesSound, Sound
<1>4. NodesSound'
  <2>1. ASSUME NEW c \in Builds PROVE SoundNode(c, task'[c].node)
    <3>1. CASE c = b
      BY <3>1 DEF IInv, Typed, Done
    <3>2. CASE c # b
      BY <3>2 DEF IInv, Typed, Done, NodesSound
    <3> QED
      BY <3>1, <3>2
  <2> QED
    BY <2>1 DEF IInv, NodesSound, SoundNode, Sound
<1>5. BatchBounded'
  BY DEF IInv, Typed, BatchBounded, Done
<1> QED
  BY <1>2, <1>3, <1>4, <1>5 DEF IInv

(* A task that moves on within prepare_build keeps it, too. *)
LEMMA AwaitInv ==
  ASSUME IInv, NEW b \in Builds, NEW from \in {"ready", "artifacts", "log"},
         NEW to \in {"artifacts", "log", "failed"}, Await(b, from, to),
         UNCHANGED <<tc, memory, graph, scan>>, persistent' \in [Builds -> Data],
         \A c \in Builds : persistent'[c] # "none" => Sound(c, persistent'[c])
  PROVE  IInv'
<1>1. task' \in [Builds -> Task] /\ \A c \in Builds : task'[c].node = task[c].node
  BY DEF IInv, Typed, Task, Await
<1>2. Typed'
  BY <1>1 DEF IInv, Typed
<1>3. CachesSound'
  BY DEF IInv, CachesSound, Sound
<1>4. NodesSound'
  BY <1>1 DEF IInv, NodesSound, SoundNode, Sound
<1>5. BatchBounded'
  BY DEF IInv, Typed, BatchBounded, Await
<1> QED
  BY <1>2, <1>3, <1>4, <1>5 DEF IInv

(* A scan that begins or ends has no tasks and no nodes. *)
LEMMA EdgeOfScan ==
  ASSUME IInv, UNCHANGED <<tc, persistent>>, memory' = memory \/ memory' = <<>>,
         scan' \in Scan, scan'.batch = {}, scan'.nodes = NoNodes,
         task' = NoTasks \/ (scan.batch = {} /\ task' = task),
         graph' \in [Builds -> Node], \A b \in Builds : SoundNode(b, graph'[b])
  PROVE  IInv'
<1>1. memory' \in Seq(Builds \X Data)
  <2>1. CASE memory' = memory
    BY <2>1 DEF IInv, Typed
  <2>2. CASE memory' = <<>>
    BY <2>2
  <2> QED
    BY <2>1, <2>2
<1>2. NoTasks \in [Builds -> Task]
  BY DEF NoTasks, NoTask, Task, NoNode, Node, Data
<1>3. Typed'
  BY <1>1, <1>2 DEF IInv, Typed
<1>4. CachesSound'
  BY DEF IInv, CachesSound, Sound
<1>5. NodesSound'
  BY DEF IInv, NodesSound, SoundNode, Sound, NoTasks, NoTask, NoNodes, NoNode
<1>6. BatchBounded'
  BY FS_EmptySet, InputsAssumption DEF IInv, BatchBounded, NoTasks, NoTask
<1> QED
  BY <1>3, <1>4, <1>5, <1>6 DEF IInv

(* One lemma for each kind of step. *)
LEMMA EvolveInv ==
  ASSUME IInv, NEW b \in Builds, Evolve(b)
  PROVE  IInv'
<1>1. tc' \in [Builds -> {"absent", "running", "finished", "deleted"}]
  BY DEF IInv, Typed, Evolve
<1>2. \A c \in Builds, data \in Data : Sound(c, data) => Sound(c, data)'
  BY DEF IInv, Typed, Evolve, Sound
<1>3. Typed'
  BY <1>1 DEF IInv, Typed, Evolve
<1>4. CachesSound'
  <2>1. \A i \in DOMAIN memory : memory[i][1] \in Builds /\ memory[i][2] \in Data
    BY DEF IInv, Typed
  <2> QED
    BY <1>2, <2>1 DEF IInv, Typed, CachesSound, Evolve
<1>5. NodesSound'
  BY <1>2 DEF IInv, Typed, NodesSound, SoundNode, Evolve, Node, Scan, Task
<1>6. BatchBounded'
  BY DEF IInv, BatchBounded, Evolve
<1> QED
  BY <1>3, <1>4, <1>5, <1>6 DEF IInv

LEMMA MarkedStaleSound ==
  ASSUME IInv
  PROVE  /\ MarkedStale \in [Builds -> Node]
         /\ \A b \in Builds : SoundNode(b, MarkedStale[b])
BY DEF IInv, Typed, MarkedStale, Node, NoNode, SoundNode, Data

LEMMA ScanEdgesInv ==
  ASSUME IInv, List \/ Abort \/ OtherPartFails \/ Restart \/ Publish
  PROVE  IInv'
<1> NoScan \in Scan /\ NoScan.batch = {} /\ NoScan.nodes = NoNodes
  BY DEF NoScan, Scan, NoNodes, NoNode, Node, Data
<1>1. CASE List
  <2>1. scan' \in Scan /\ scan'.batch = {} /\ scan'.nodes = NoNodes
    BY <1>1 DEF List, Scan, NoScan, NoNodes, NoNode, Node, Data
  <2>2. scan.batch = {}
    BY <1>1 DEF IInv, BatchBounded, List
  <2> QED
    BY <1>1, <2>1, <2>2, EdgeOfScan DEF List, IInv, Typed, NodesSound
<1>2. CASE Abort
  BY <1>2, EdgeOfScan, MarkedStaleSound DEF Abort
<1>3. CASE OtherPartFails
  BY <1>3, EdgeOfScan, MarkedStaleSound DEF OtherPartFails
<1>4. CASE Restart
  BY <1>4, EdgeOfScan DEF Restart, IInv, Typed, NodesSound
<1>5. CASE Publish
  BY <1>5, EdgeOfScan DEF Publish, IInv, Typed, NodesSound, Scan
<1> QED
  BY <1>1, <1>2, <1>3, <1>4, <1>5

LEMMA UnreadableInv ==
  ASSUME IInv, ConfigurationUnreadable
  PROVE  IInv'
<1>1. Typed'
  BY DEF IInv, Typed, ConfigurationUnreadable, NoNodes, NoNode, Node, Data
<1>2. NodesSound'
  BY DEF IInv, NodesSound, SoundNode, Sound, ConfigurationUnreadable, NoNodes, NoNode
<1> QED
  BY <1>1, <1>2 DEF IInv, CachesSound, Sound, BatchBounded, ConfigurationUnreadable

LEMMA StartBatchInv ==
  ASSUME IInv, StartBatch
  PROVE  IInv'
<1> DEFINE new == {b \in scan.todo : Cardinality({c \in scan.todo : c < b}) < Concurrency}
<1>1. scan.todo \in SUBSET Builds /\ new \in SUBSET scan.todo
  BY DEF IInv, Typed, Scan
<1>2. Cardinality(new) <= Concurrency
  BY <1>1, BatchSize
<1>3. /\ scan' = [scan EXCEPT !.batch = new, !.todo = @ \ new]
      /\ task' = [b \in Builds |-> IF b \in new THEN [NoTask EXCEPT !.pc = "ready"] ELSE task[b]]
      /\ scan.pc = "builds" /\ scan.batch = {}
      /\ UNCHANGED <<tc, memory, persistent, graph>>
  BY DEF StartBatch
<1> HIDE DEF new
<1>4. Typed'
  BY <1>1, <1>3 DEF IInv, Typed, Scan, Task, NoTask, NoNode, Node, Data
<1>5. scan'.nodes = scan.nodes /\ scan'.batch = new /\ scan'.pc = "builds"
  BY <1>3 DEF IInv, Typed, Scan
<1>6. NodesSound'
  BY <1>3, <1>5 DEF IInv, NodesSound, SoundNode, Sound, NoTask, NoNode
<1>7. BatchBounded'
  BY <1>2, <1>3, <1>5 DEF IInv, BatchBounded
<1>8. CachesSound'
  BY <1>3 DEF IInv, CachesSound, Sound
<1> QED
  BY <1>4, <1>6, <1>7, <1>8 DEF IInv

LEMMA EndBatchInv ==
  ASSUME IInv, EndBatch
  PROVE  IInv'
<1> DEFINE nodes == [b \in Builds |-> IF b \in scan.batch THEN task[b].node ELSE scan.nodes[b]]
<1>1. /\ scan' = [scan EXCEPT !.batch = {}, !.nodes = nodes]
      /\ task' = NoTasks
      /\ UNCHANGED <<tc, memory, persistent, graph>>
  BY DEF EndBatch
<1>2. /\ nodes \in [Builds -> Node]
      /\ \A b \in Builds : SoundNode(b, nodes[b])
  BY DEF IInv, Typed, Scan, Task, NodesSound
<1> HIDE DEF nodes
<1>3. Typed'
  BY <1>1, <1>2 DEF IInv, Typed, Scan, NoTasks, NoTask, Task, NoNode, Node, Data
<1>4. scan'.nodes = nodes /\ scan'.batch = {}
  BY <1>1 DEF IInv, Typed, Scan
<1>5. NodesSound'
  BY <1>1, <1>2, <1>4 DEF IInv, NodesSound, SoundNode, Sound, NoTasks, NoTask, NoNode
<1>6. BatchBounded'
  BY <1>1, <1>4, FS_EmptySet, InputsAssumption DEF BatchBounded, NoTasks, NoTask
<1>7. CachesSound'
  BY <1>1 DEF IInv, CachesSound, Sound
<1> QED
  BY <1>3, <1>5, <1>6, <1>7 DEF IInv

(* What the caches hold of a build may be shown as fresh. *)
LEMMA HitInv ==
  ASSUME IInv, NEW b \in Builds, MemoryHit(b) \/ PersistentHit(b)
  PROVE  IInv'
<1>1. PICK data \in Data :
        /\ Sound(b, data) /\ memory' = Remember(b, data)
        /\ Done(b, Fresh(TRUE, data))
  <2>1. CASE MemoryHit(b)
    <3>1. PICK data \in Remembered(b) : memory' = Remember(b, data) /\ Done(b, Fresh(TRUE, data))
      BY <2>1 DEF MemoryHit
    <3>2. PICK i \in DOMAIN memory : memory[i][1] = b /\ memory[i][2] = data
      BY <3>1 DEF Remembered
    <3>3. data \in Data /\ Sound(b, data)
      BY <3>2 DEF IInv, Typed, CachesSound
    <3> QED
      BY <3>1, <3>3
  <2>2. CASE PersistentHit(b)
    BY <2>2 DEF PersistentHit, IInv, Typed, CachesSound
  <2> QED
    BY <2>1, <2>2
<1>2. Fresh(TRUE, data) \in Node /\ SoundNode(b, Fresh(TRUE, data))
  BY <1>1 DEF Fresh, Node, SoundNode
<1>3. task[b].pc # "none" /\ UNCHANGED <<tc, persistent, graph, scan>>
  BY DEF MemoryHit, PersistentHit, Starts
<1>4. /\ persistent' \in [Builds -> Data]
      /\ \A c \in Builds : persistent'[c] # "none" => Sound(c, persistent'[c])
  BY <1>3 DEF IInv, Typed, CachesSound
<1>5. /\ memory' \in Seq(Builds \X Data)
      /\ \A i \in DOMAIN memory' : Sound(memory'[i][1], memory'[i][2])
  BY <1>1, MemorySound
<1> QED
  BY <1>1, <1>2, <1>3, <1>4, <1>5, DoneInv

(* So may what a reading got that TeamCity answered to its end. *)
LEMMA ReadLogInv ==
  ASSUME IInv, NEW b \in Builds, ReadLog(b) \/ LogMissing(b)
  PROVE  IInv'
<1>1. PICK data \in Data :
        /\ Sound(b, data) /\ memory' = Remember(b, data)
        /\ persistent' = [persistent EXCEPT ![b] = data]
        /\ Done(b, Fresh(TRUE, data))
  <2>1. PICK data \in Readings(b) : Reads(b, data)
    BY DEF ReadLog, LogMissing, Readings
  <2>2. data \in Data
    BY DEF Readings, Whole, Data
  <2> QED
    BY <2>1, <2>2 DEF Reads, Sound
<1>2. Fresh(TRUE, data) \in Node /\ SoundNode(b, Fresh(TRUE, data))
  BY <1>1 DEF Fresh, Node, SoundNode
<1>3. task[b].pc # "none" /\ UNCHANGED <<tc, graph, scan>>
  BY DEF ReadLog, LogMissing, Reads
<1>4. /\ persistent' \in [Builds -> Data]
      /\ \A c \in Builds : persistent'[c] # "none" => Sound(c, persistent'[c])
  BY <1>1, PersistentSound
<1>5. /\ memory' \in Seq(Builds \X Data)
      /\ \A i \in DOMAIN memory' : Sound(memory'[i][1], memory'[i][2])
  BY <1>1, MemorySound
<1> QED
  BY <1>1, <1>2, <1>3, <1>4, <1>5, DoneInv

(* A build that runs shows nothing, one that cannot be read what is stale.  *)
LEMMA UnreadInv ==
  ASSUME IInv, NEW b \in Builds, SkipUnfinished(b) \/ Unavailable(b)
  PROVE  IInv'
<1>1. PICK node \in Node : SoundNode(b, node) /\ Done(b, node)
  <2>1. Fresh(FALSE, "none") \in Node /\ SoundNode(b, Fresh(FALSE, "none"))
    BY DEF Fresh, Node, Data, SoundNode
  <2>2. Fallback(b) \in Node /\ SoundNode(b, Fallback(b))
    BY DEF IInv, Typed, Fallback, Node, Data, SoundNode
  <2> QED
    BY <2>1, <2>2 DEF SkipUnfinished, Unavailable
<1>2. task[b].pc # "none" /\ UNCHANGED <<tc, memory, persistent, graph, scan>>
  BY DEF SkipUnfinished, Unavailable, Starts
<1>3. /\ memory' \in Seq(Builds \X Data) /\ persistent' \in [Builds -> Data]
      /\ \A i \in DOMAIN memory' : Sound(memory'[i][1], memory'[i][2])
      /\ \A c \in Builds : persistent'[c] # "none" => Sound(c, persistent'[c])
  BY <1>2 DEF IInv, Typed, CachesSound
<1> QED
  BY <1>1, <1>2, <1>3, DoneInv

LEMMA RequestInv ==
  ASSUME IInv, NEW b \in Builds, Miss(b) \/ ReadArtifacts(b) \/ Raises(b)
  PROVE  IInv'
<1>1. /\ persistent' \in [Builds -> Data]
      /\ \A c \in Builds : persistent'[c] # "none" => Sound(c, persistent'[c])
  BY DEF IInv, Typed, CachesSound, Data, Miss, ReadArtifacts, Raises
<1>2. CASE Miss(b)
  BY <1>1, <1>2, AwaitInv DEF Miss
<1>3. CASE ReadArtifacts(b)
  BY <1>1, <1>3, AwaitInv DEF ReadArtifacts
<1>4. CASE Raises(b)
  BY <1>1, <1>4, AwaitInv DEF Raises
<1> QED
  BY <1>2, <1>3, <1>4

LEMMA StepInv == IInv /\ [Next]_vars => IInv'
<1> SUFFICES ASSUME IInv, [Next]_vars PROVE IInv'
  OBVIOUS
<1>1. CASE List \/ Abort \/ OtherPartFails \/ Restart \/ Publish
  BY <1>1, ScanEdgesInv
<1>2. CASE ConfigurationUnreadable
  BY <1>2, UnreadableInv
<1>3. CASE StartBatch
  BY <1>3, StartBatchInv
<1>4. CASE EndBatch
  BY <1>4, EndBatchInv
<1>5. ASSUME NEW b \in Builds, Evolve(b) PROVE IInv'
  BY <1>5, EvolveInv
<1>6. ASSUME NEW b \in Builds, MemoryHit(b) \/ PersistentHit(b) PROVE IInv'
  BY <1>6, HitInv
<1>7. ASSUME NEW b \in Builds, ReadLog(b) \/ LogMissing(b) PROVE IInv'
  BY <1>7, ReadLogInv
<1>8. ASSUME NEW b \in Builds, SkipUnfinished(b) \/ Unavailable(b) PROVE IInv'
  BY <1>8, UnreadInv
<1>9. ASSUME NEW b \in Builds, Miss(b) \/ ReadArtifacts(b) \/ Raises(b) PROVE IInv'
  BY <1>9, RequestInv
<1>10. CASE UNCHANGED vars
  BY <1>10 DEF vars, IInv, Typed, CachesSound, NodesSound, SoundNode, Sound, BatchBounded
<1> QED
  BY <1>1, <1>2, <1>3, <1>4, <1>5, <1>6, <1>7, <1>8, <1>9, <1>10 DEF Next

(* The inductive invariant of the reading of builds.                       *)
THEOREM BuildInputsInvariant == Spec => []IInv
BY InitInv, StepInv, PTL DEF Spec

(* A finished build shown as fresh shows what a reading got that TeamCity  *)
(* answered to its end, whatever was cached, failed or interrupted before. *)
THEOREM FreshBuildsWereRead == Spec => []FreshWasReadToTheEnd
<1>1. IInv => FreshWasReadToTheEnd
  BY DEF IInv, NodesSound, SoundNode, Sound, FreshWasReadToTheEnd
<1> QED
  BY <1>1, BuildInputsInvariant, PTL

(* Requests belong to the batch and stay within TEAMCITY_CONCURRENCY.      *)
THEOREM RequestsAreBounded == Spec => []RequestsBounded
<1>1. IInv => RequestsBounded
  <2> SUFFICES ASSUME IInv PROVE RequestsBounded
    OBVIOUS
  <2> DEFINE underWay == {b \in Builds : task[b].pc \in {"artifacts", "log"}}
  <2>1. underWay \in SUBSET scan.batch
    BY DEF IInv, BatchBounded
  <2>2. IsFiniteSet(scan.batch)
    <3>1. IsFiniteSet(Builds)
      BY FS_Interval, InputsAssumption DEF Builds
    <3>2. scan.batch \in SUBSET Builds
      BY DEF IInv, Typed, Scan
    <3> QED
      BY <3>1, <3>2, FS_Subset
  <2> HIDE DEF underWay
  <2>3. Cardinality(underWay) <= Cardinality(scan.batch)
    BY <2>1, <2>2, FS_Subset
  <2>4. /\ Cardinality(underWay) \in Nat /\ Cardinality(scan.batch) \in Nat
        /\ Concurrency \in Nat /\ Cardinality(scan.batch) <= Concurrency
    BY <2>1, <2>2, FS_Subset, FS_CardinalityType, InputsAssumption DEF IInv, BatchBounded
  <2>5. underWay \subseteq scan.batch /\ Cardinality(underWay) <= Concurrency
    BY <2>1, <2>3, <2>4
  <2> QED
    BY <2>5 DEF underWay, RequestsBounded
<1> QED
  BY <1>1, BuildInputsInvariant, PTL

-----------------------------------------------------------------------------
(* Outputs that the graph has shown.                                       *)

Ended(b) == tc[b] \in {"finished", "deleted"}

(* What would replace the node of b does not lose its outputs. *)
Keeps(b, node) ==
  Sound(b, graph[b].data) /\ node # NoNode =>
    node.data = graph[b].data \/ (node.shown = "fresh" /\ Sound(b, node.data))

(* Only builds that have ended have outputs, and are asked for them. *)
OutputsOfEnded ==
  /\ \A b \in scan.finished : Ended(b)
  /\ \A b \in Builds :
       /\ task[b].pc \in {"artifacts", "log"} => Ended(b)
       /\ Sound(b, graph[b].data) => Ended(b)
       /\ Sound(b, scan.nodes[b].data) => Ended(b)
       /\ Sound(b, task[b].node.data) => Ended(b)

(* Neither a task nor the nodes gathered so far lose any, and a build that *)
(* the scan takes for a running one has shown none.                        *)
ScanKeeps ==
  \A b \in Builds :
    /\ Keeps(b, scan.nodes[b])
    /\ task[b].pc = "done" => Keeps(b, task[b].node)
    /\ b \in (scan.todo \cup scan.batch) \ scan.finished => ~Sound(b, graph[b].data)

KInv == IInv /\ OutputsOfEnded /\ ScanKeeps

LEMMA NothingIsUnsound ==
  ASSUME NEW b \in Builds
  PROVE  ~Sound(b, "none") /\ ~Sound(b, NoNode.data) /\ NoNode.shown # "fresh"
BY DEF Sound, Readings, Whole, NoNode

LEMMA InitKInv == Init => KInv
BY InitInv, NothingIsUnsound
   DEF Init, KInv, OutputsOfEnded, ScanKeeps, Keeps, NoScan, NoTasks, NoTask, NoNodes

(* Steps that neither begin nor end a scan. *)
LEMMA TaskStepKeeps ==
  ASSUME KInv, NEW b \in Builds, NEW t \in Task, task' = [task EXCEPT ![b] = t],
         t.pc \in {"artifacts", "log"} \/ Sound(b, t.node.data) => Ended(b),
         t.pc = "done" => Keeps(b, t.node),
         UNCHANGED <<tc, graph, scan>>
  PROVE  OutputsOfEnded' /\ ScanKeeps'
<1>1. \A c \in Builds : task'[c] = IF c = b THEN t ELSE task[c]
  BY DEF KInv, IInv, Typed
<1>2. OutputsOfEnded'
  BY <1>1 DEF KInv, OutputsOfEnded, Ended
<1>3. ScanKeeps'
  BY <1>1 DEF KInv, ScanKeeps, Keeps
<1> QED
  BY <1>2, <1>3

LEMMA DoneKeeps ==
  ASSUME KInv, NEW b \in Builds, NEW node \in Node, Done(b, node),
         Sound(b, node.data) => Ended(b), Keeps(b, node), UNCHANGED <<tc, graph, scan>>
  PROVE  OutputsOfEnded' /\ ScanKeeps'
<1> DEFINE t == [pc |-> "done", node |-> node]
<1>1. t \in Task /\ t.node = node /\ t.pc = "done" /\ task' = [task EXCEPT ![b] = t]
  BY DEF Task, Done
<1> QED
  BY <1>1, TaskStepKeeps

LEMMA AwaitKeeps ==
  ASSUME KInv, NEW b \in Builds, NEW from, NEW to \in {"artifacts", "log", "failed"},
         Ended(b), Await(b, from, to), UNCHANGED <<tc, graph, scan>>
  PROVE  OutputsOfEnded' /\ ScanKeeps'
<1> DEFINE t == [task[b] EXCEPT !.pc = to]
<1>1. /\ t \in Task /\ t.node = task[b].node /\ t.pc = to
      /\ task' = [task EXCEPT ![b] = t]
  BY DEF KInv, IInv, Typed, Task, Await
<1> QED
  BY <1>1, TaskStepKeeps

LEMMA PrepareKeeps ==
  ASSUME KInv, NEW b \in Builds,
         \/ SkipUnfinished(b) \/ MemoryHit(b) \/ PersistentHit(b) \/ Miss(b)
         \/ ReadArtifacts(b) \/ ReadLog(b) \/ LogMissing(b) \/ Unavailable(b) \/ Raises(b)
  PROVE  OutputsOfEnded' /\ ScanKeeps'
<1>1. CASE SkipUnfinished(b)
  <2>1. Fresh(FALSE, "none") \in Node /\ ~Sound(b, Fresh(FALSE, "none").data)
    BY NothingIsUnsound DEF Fresh, Node, Data
  <2>2. ~Sound(b, graph[b].data)
    BY <1>1 DEF KInv, IInv, BatchBounded, ScanKeeps, SkipUnfinished, Starts
  <2> QED
    BY <1>1, <2>1, <2>2, DoneKeeps DEF SkipUnfinished, Keeps
<1>2. CASE MemoryHit(b)
  <2>1. PICK data \in Remembered(b) : Done(b, Fresh(TRUE, data))
    BY <1>2 DEF MemoryHit
  <2>2. PICK i \in DOMAIN memory : memory[i][1] = b /\ memory[i][2] = data
    BY <2>1 DEF Remembered
  <2>3. data \in Data /\ Sound(b, data)
    BY <2>2 DEF KInv, IInv, Typed, CachesSound
  <2>4. Ended(b)
    BY <1>2 DEF KInv, OutputsOfEnded, MemoryHit
  <2>5. Fresh(TRUE, data) \in Node /\ Keeps(b, Fresh(TRUE, data))
    BY <2>3 DEF Fresh, Node, Keeps, Sound
  <2> QED
    BY <1>2, <2>1, <2>4, <2>5, DoneKeeps DEF MemoryHit
<1>3. CASE PersistentHit(b)
  <2>1. persistent[b] \in Data /\ Sound(b, persistent[b])
    BY <1>3 DEF KInv, IInv, Typed, CachesSound, PersistentHit
  <2>2. Ended(b)
    BY <1>3 DEF KInv, OutputsOfEnded, PersistentHit
  <2>3. Fresh(TRUE, persistent[b]) \in Node /\ Keeps(b, Fresh(TRUE, persistent[b]))
    BY <2>1 DEF Fresh, Node, Keeps, Sound
  <2> QED
    BY <1>3, <2>2, <2>3, DoneKeeps DEF PersistentHit
<1>4. CASE ReadLog(b) \/ LogMissing(b)
  <2>1. PICK data \in Readings(b) : Reads(b, data)
    BY <1>4 DEF ReadLog, LogMissing, Readings
  <2>2. data \in Data /\ Sound(b, data)
    BY <2>1 DEF Readings, Whole, Data, Sound
  <2>3. Fresh(TRUE, data) \in Node /\ Keeps(b, Fresh(TRUE, data))
    BY <2>2 DEF Fresh, Node, Keeps
  <2>4. Ended(b)
    BY <2>1 DEF KInv, OutputsOfEnded, Reads
  <2> QED
    BY <2>1, <2>3, <2>4, DoneKeeps DEF Reads
<1>6. CASE Unavailable(b)
  <2>1. /\ Fallback(b) \in Node /\ Keeps(b, Fallback(b))
        /\ Sound(b, Fallback(b).data) => Ended(b)
    <3>1. CASE graph[b] # NoNode
      BY <3>1 DEF KInv, IInv, Typed, OutputsOfEnded, Fallback, Node, Data, Keeps
    <3>2. CASE graph[b] = NoNode
      <4>1. Fallback(b).data = "none" /\ Fallback(b) \in Node
        BY <3>2 DEF Fallback, Node, Data
      <4> QED
        BY <3>2, <4>1, NothingIsUnsound DEF Keeps
    <3> QED
      BY <3>1, <3>2
  <2> QED
    BY <1>6, <2>1, DoneKeeps DEF Unavailable
<1>7. CASE Miss(b)
  BY <1>7, AwaitKeeps DEF Miss, KInv, OutputsOfEnded
<1>8. CASE ReadArtifacts(b)
  BY <1>8, AwaitKeeps DEF ReadArtifacts, Await, KInv, OutputsOfEnded
<1>9. CASE Raises(b)
  BY <1>9, AwaitKeeps DEF Raises, Await, KInv, OutputsOfEnded
<1> QED
  BY <1>1, <1>2, <1>3, <1>4, <1>6, <1>7, <1>8, <1>9

(* A scan that ends, or is about to begin, has gathered nothing. *)
LEMMA EdgeKeeps ==
  ASSUME KInv, UNCHANGED tc, scan' = NoScan,
         task' = NoTasks \/ (scan.batch = {} /\ task' = task),
         \A b \in Builds : Sound(b, graph'[b].data) => Ended(b)
  PROVE  OutputsOfEnded' /\ ScanKeeps'
<1>1. OutputsOfEnded'
  BY NothingIsUnsound DEF KInv, OutputsOfEnded, Ended, NoScan, NoNodes, NoTasks, NoTask
<1>2. ScanKeeps'
  BY DEF KInv, IInv, BatchBounded, ScanKeeps, Keeps, NoScan, NoNodes, NoTasks, NoTask
<1> QED
  BY <1>1, <1>2

LEMMA ScanStepsKeep ==
  ASSUME KInv,
         \/ List \/ ConfigurationUnreadable \/ StartBatch \/ EndBatch \/ Publish
         \/ Abort \/ OtherPartFails \/ Restart
  PROVE  OutputsOfEnded' /\ ScanKeeps'
<1>1. \A b \in Builds : Sound(b, MarkedStale[b].data) => Ended(b)
  BY DEF KInv, IInv, Typed, OutputsOfEnded, MarkedStale, Node, NoNode
<1>2. CASE List
  <2>1. /\ scan'.todo = {b \in Builds : tc[b] \in {"running", "finished"}}
        /\ scan'.finished = {b \in Builds : tc[b] = "finished"}
        /\ scan'.batch = {} /\ scan'.nodes = NoNodes
        /\ UNCHANGED <<tc, graph, task>>
    BY <1>2 DEF List, NoScan
  <2>2. OutputsOfEnded'
    BY <2>1, NothingIsUnsound DEF KInv, OutputsOfEnded, Ended, NoNodes
  <2>3. ScanKeeps'
    BY <2>1 DEF KInv, OutputsOfEnded, Ended, ScanKeeps, Keeps, NoNodes
  <2> QED
    BY <2>2, <2>3
<1>3. CASE ConfigurationUnreadable
  <2>1. \A b \in Builds : ~Sound(b, graph'[b].data)
    BY <1>3, NothingIsUnsound DEF ConfigurationUnreadable, NoNodes
  <2> QED
    BY <1>3, <2>1 DEF KInv, OutputsOfEnded, Ended, ScanKeeps, Keeps, ConfigurationUnreadable
<1>4. CASE StartBatch
  <2>1. PICK new \in SUBSET scan.todo :
          /\ scan'.batch = new /\ scan'.todo = scan.todo \ new
          /\ scan'.finished = scan.finished /\ scan'.nodes = scan.nodes
          /\ task' = [b \in Builds |-> IF b \in new THEN [NoTask EXCEPT !.pc = "ready"]
                                       ELSE task[b]]
          /\ UNCHANGED <<tc, graph>>
    BY <1>4 DEF StartBatch, KInv, IInv, Typed, Scan
  <2>2. OutputsOfEnded'
    BY <2>1, NothingIsUnsound DEF KInv, OutputsOfEnded, Ended, NoTask
  <2>3. ScanKeeps'
    BY <2>1 DEF KInv, ScanKeeps, Keeps, NoTask
  <2> QED
    BY <2>2, <2>3
<1>5. CASE EndBatch
  <2>1. /\ scan'.batch = {} /\ scan'.todo = scan.todo /\ scan'.finished = scan.finished
        /\ \A b \in Builds :
             scan'.nodes[b] = IF b \in scan.batch THEN task[b].node ELSE scan.nodes[b]
        /\ \A b \in scan.batch : task[b].pc = "done"
        /\ task' = NoTasks /\ UNCHANGED <<tc, graph>>
    BY <1>5 DEF EndBatch, KInv, IInv, Typed, Scan
  <2>2. OutputsOfEnded'
    BY <2>1, NothingIsUnsound DEF KInv, OutputsOfEnded, Ended, NoTasks, NoTask
  <2>3. ScanKeeps'
    BY <2>1 DEF KInv, ScanKeeps, Keeps, NoTasks, NoTask
  <2> QED
    BY <2>2, <2>3
<1>6. CASE Publish
  BY <1>6, EdgeKeeps DEF Publish, KInv, OutputsOfEnded
<1>7. CASE Abort
  BY <1>1, <1>7, EdgeKeeps DEF Abort
<1>8. CASE OtherPartFails
  BY <1>1, <1>8, EdgeKeeps DEF OtherPartFails
<1>9. CASE Restart
  BY <1>9, EdgeKeeps DEF Restart, KInv, OutputsOfEnded
<1> QED
  BY <1>2, <1>3, <1>4, <1>5, <1>6, <1>7, <1>8, <1>9

LEMMA EvolveKeeps ==
  ASSUME KInv, NEW b \in Builds, Evolve(b)
  PROVE  OutputsOfEnded' /\ ScanKeeps'
<1>1. /\ UNCHANGED <<graph, scan, task>>
      /\ \A c \in Builds : Ended(c) => Ended(c)'
  BY DEF Evolve, Ended, KInv, IInv, Typed
<1>2. scan.finished \subseteq Builds
  BY DEF KInv, IInv, Typed, Scan
<1>3. OutputsOfEnded'
  BY <1>1, <1>2 DEF KInv, OutputsOfEnded
<1>4. ScanKeeps'
  BY <1>1 DEF KInv, ScanKeeps, Keeps
<1> QED
  BY <1>3, <1>4

LEMMA StepKInv == KInv /\ [Next]_vars => KInv'
<1> SUFFICES ASSUME KInv, [Next]_vars PROVE OutputsOfEnded' /\ ScanKeeps'
  BY StepInv DEF KInv
<1>1. CASE UNCHANGED vars
  BY <1>1 DEF vars, KInv, OutputsOfEnded, Ended, ScanKeeps, Keeps
<1>2. CASE Next
  BY <1>2, ScanStepsKeep, EvolveKeeps, PrepareKeeps DEF Next
<1> QED
  BY <1>1, <1>2

(* Outputs once shown stay with a build for as long as it is in the graph, *)
(* or give way to another complete reading: an action property.            *)
THEOREM OutputsAreKept == Spec => KnownOutputsKept
<1> DEFINE Step ==
      \A b \in Builds :
        graph[b].data \in Readings(b) /\ graph'[b] # NoNode =>
          \/ graph'[b].data = graph[b].data
          \/ graph'[b].shown = "fresh" /\ graph'[b].data \in Readings(b)
<1>1. KInv /\ [Next]_vars => [Step]_vars
  <2> SUFFICES ASSUME KInv, [Next]_vars, NEW b \in Builds,
                      Sound(b, graph[b].data), graph'[b] # NoNode
               PROVE  \/ graph'[b].data = graph[b].data
                      \/ graph'[b].shown = "fresh" /\ Sound(b, graph'[b].data)
    BY DEF Sound
  <2>1. CASE Publish
    BY <2>1 DEF Publish, KInv, ScanKeeps, Keeps
  <2>2. CASE ConfigurationUnreadable
    BY <2>2 DEF ConfigurationUnreadable, NoNodes
  <2>3. CASE graph' = MarkedStale
    BY <2>3 DEF MarkedStale, KInv, IInv, Typed, Node, NoNode
  <2>4. CASE UNCHANGED graph
    BY <2>4
  <2>5. Publish \/ ConfigurationUnreadable \/ graph' = MarkedStale \/ UNCHANGED graph
    BY DEF Next, vars, List, StartBatch, EndBatch, Abort, OtherPartFails, Restart, Evolve,
           SkipUnfinished, MemoryHit, PersistentHit, Miss, ReadArtifacts, ReadLog, LogMissing,
           Reads, Unavailable, Raises
  <2> QED
    BY <2>1, <2>2, <2>3, <2>4, <2>5
<1>2. Spec => []KInv
  BY InitKInv, StepKInv, PTL DEF Spec
<1> QED
  BY <1>1, <1>2, PTL DEF Spec, KnownOutputsKept

=============================================================================
