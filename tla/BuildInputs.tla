---------------------------- MODULE BuildInputs ----------------------------
(***************************************************************************)
(* The builds of one configuration on their way into the graph             *)
(* (`collect_live` in app/service.py): concurrent batches (app/            *)
(* concurrency.py) of `prepare_build`, which looks in two caches (app/     *)
(* incremental.py, app/persistent_cache.py), reads artifacts and log from  *)
(* TeamCity, and falls back to what the previous graph shows.              *)
(*                                                                         *)
(* What a build put out is abstracted to how much of it is known: nothing, *)
(* part (the artifacts without the log), or what a reading got that        *)
(* TeamCity answered to its end: all of it; the log only up to 5,000,000   *)
(* bytes, which the code cuts off without a mark; or less, where TeamCity  *)
(* answered that there is no log, or no content, to read.                  *)
(***************************************************************************)
EXTENDS Naturals, FiniteSets, Sequences

CONSTANTS
  MaxBuilds,    \* bound: builds of the configuration
  Concurrency,  \* TEAMCITY_CONCURRENCY
  CacheSize,    \* max_size of build_input_cache
  LongLogs      \* builds whose log is longer than max_bytes of build_log

ASSUME InputsAssumption ==
  MaxBuilds \in Nat /\ Concurrency \in Nat \ {0} /\ CacheSize \in Nat \ {0}

VARIABLES
  tc,          \* TeamCity: each build's state
  memory,      \* build_input_cache: <<build, data>>, least recently used first
  persistent,  \* the "build" namespace of persistent_cache
  graph,       \* database: each build's node
  scan,        \* local variables of collect_live
  task         \* the tasks of the batch

vars == <<tc, memory, persistent, graph, scan, task>>

Builds == 1..MaxBuilds
Data == {"none", "part", "less", "cut", "all"}
Node == [shown : {"absent", "fresh", "stale", "error"}, finished : BOOLEAN, data : Data]
NoNode == [shown |-> "absent", finished |-> FALSE, data |-> "none"]
NoNodes == [b \in Builds |-> NoNode]
Fresh(finished, data) == [shown |-> "fresh", finished |-> finished, data |-> data]

Scan == [pc : {"idle", "builds"}, todo : SUBSET Builds, finished : SUBSET Builds,
         batch : SUBSET Builds, nodes : [Builds -> Node]]
NoScan == [pc |-> "idle", todo |-> {}, finished |-> {}, batch |-> {}, nodes |-> NoNodes]
Task == [pc : {"none", "ready", "artifacts", "log", "done", "failed"}, node : Node]
NoTask == [pc |-> "none", node |-> NoNode]
NoTasks == [b \in Builds |-> NoTask]

Init ==
  /\ tc = [b \in Builds |-> "absent"]
  /\ memory = <<>>
  /\ persistent = [b \in Builds |-> "none"]
  /\ graph = NoNodes
  /\ scan = NoScan
  /\ task = NoTasks

-----------------------------------------------------------------------------
(* TeamCity: builds start, finish, and are cleaned up.  They are numbered  *)
(* as TeamCity lists them, the newest first.                               *)
Evolve(b) ==
  /\ \/ /\ tc[b] = "absent" /\ \A c \in Builds : c > b => tc[c] # "absent"
        /\ tc' = [tc EXCEPT ![b] = "running"]
     \/ tc[b] = "running" /\ tc' = [tc EXCEPT ![b] = "finished"]
     \/ tc[b] = "finished" /\ tc' = [tc EXCEPT ![b] = "deleted"]
  /\ UNCHANGED <<memory, persistent, graph, scan, task>>

-----------------------------------------------------------------------------
(* BoundedCache                                                            *)
Others(b) ==
  LET at == {i \in DOMAIN memory : memory[i][1] = b}
      n == CHOOSE i \in at : TRUE
  IN  IF at = {} THEN memory ELSE SubSeq(memory, 1, n - 1) \o SubSeq(memory, n + 1, Len(memory))
Remember(b, data) ==
  LET all == Append(Others(b), <<b, data>>)
  IN  SubSeq(all, IF Len(all) > CacheSize THEN Len(all) - CacheSize + 1 ELSE 1, Len(all))
Remembered(b) == {memory[i][2] : i \in {j \in DOMAIN memory : memory[j][1] = b}}

-----------------------------------------------------------------------------
(* collect_live and bounded_results                                        *)

(* The builds of the configuration are listed. *)
List ==
  /\ scan.pc = "idle"
  /\ scan' = [NoScan EXCEPT !.pc = "builds",
                !.todo = {b \in Builds : tc[b] \in {"running", "finished"}},
                !.finished = {b \in Builds : tc[b] = "finished"}]
  /\ UNCHANGED <<tc, memory, persistent, graph, task>>

(* Its detail cannot be read: the configuration appears without builds. *)
ConfigurationUnreadable ==
  /\ scan.pc = "idle"
  /\ graph' = NoNodes
  /\ UNCHANGED <<tc, memory, persistent, scan, task>>

StartBatch ==
  /\ scan.pc = "builds" /\ scan.batch = {} /\ scan.todo # {}
  /\ LET batch == {b \in scan.todo : Cardinality({c \in scan.todo : c < b}) < Concurrency}
     IN  /\ scan' = [scan EXCEPT !.batch = batch, !.todo = @ \ batch]
         /\ task' = [b \in Builds |-> IF b \in batch THEN [NoTask EXCEPT !.pc = "ready"]
                                      ELSE task[b]]
  /\ UNCHANGED <<tc, memory, persistent, graph>>

EndBatch ==
  /\ scan.batch # {}
  /\ \A b \in scan.batch : task[b].pc = "done"
  /\ scan' = [scan EXCEPT !.batch = {},
                !.nodes = [b \in Builds |-> IF b \in scan.batch THEN task[b].node ELSE @[b]]]
  /\ task' = NoTasks
  /\ UNCHANGED <<tc, memory, persistent, graph>>

Publish ==
  /\ scan.pc = "builds" /\ scan.batch = {} /\ scan.todo = {}
  /\ graph' = scan.nodes
  /\ scan' = NoScan
  /\ UNCHANGED <<tc, memory, persistent, task>>

MarkedStale ==
  [b \in Builds |-> IF graph[b] = NoNode THEN NoNode ELSE [graph[b] EXCEPT !.shown = "stale"]]

(* Mutant: the other tasks of the batch are not cancelled. *)
Abort_LeavesTasks ==
  /\ \E b \in scan.batch : task[b].pc = "failed"
  /\ graph' = MarkedStale
  /\ scan' = NoScan
  /\ UNCHANGED <<tc, memory, persistent, task>>

(* An exception prepare_build does not handle: the rest of the batch is    *)
(* cancelled and awaited, and refresh() keeps the previous graph.          *)
Abort ==
  /\ \E b \in scan.batch : task[b].pc = "failed"
  /\ graph' = MarkedStale
  /\ scan' = NoScan
  /\ task' = NoTasks
  /\ UNCHANGED <<tc, memory, persistent>>

(* The rest of the collection fails between two batches. *)
OtherPartFails ==
  /\ scan.pc = "builds" /\ scan.batch = {}
  /\ graph' = MarkedStale
  /\ scan' = NoScan
  /\ UNCHANGED <<tc, memory, persistent, task>>

-----------------------------------------------------------------------------
(* prepare_build                                                           *)

Done(b, node) == task' = [task EXCEPT ![b] = [pc |-> "done", node |-> node]]
Await(b, from, to) == task[b].pc = from /\ task' = [task EXCEPT ![b].pc = to]

(* asyncio starts the tasks of a batch in the order they were created. *)
Starts(b) == task[b].pc = "ready" /\ \A c \in scan.batch : c < b => task[c].pc # "ready"

(* A build that runs has no inputs yet. *)
SkipUnfinished(b) ==
  /\ Starts(b) /\ b \notin scan.finished
  /\ Done(b, Fresh(FALSE, "none"))
  /\ UNCHANGED <<tc, memory, persistent, graph, scan>>

MemoryHit(b) ==
  /\ Starts(b) /\ b \in scan.finished
  /\ \E data \in Remembered(b) :
       /\ memory' = Remember(b, data)
       /\ Done(b, Fresh(TRUE, data))
  /\ UNCHANGED <<tc, persistent, graph, scan>>

PersistentHit(b) ==
  /\ Starts(b) /\ b \in scan.finished
  /\ Remembered(b) = {} /\ persistent[b] # "none"
  /\ memory' = Remember(b, persistent[b])
  /\ Done(b, Fresh(TRUE, persistent[b]))
  /\ UNCHANGED <<tc, persistent, graph, scan>>

(* No entry, or one that outlived its TTL, that max_rows pushed out or     *)
(* that was never written: put() ignores a database that refuses it.       *)
Miss(b) ==
  /\ Starts(b) /\ b \in scan.finished
  /\ Remembered(b) = {}
  /\ persistent' = [persistent EXCEPT ![b] = "none"]
  /\ Await(b, "ready", "artifacts")
  /\ UNCHANGED <<tc, memory, graph, scan>>

(* Mutant: the artifacts are cached before the log is read. *)
ReadArtifacts_Caching(b) ==
  /\ tc[b] = "finished"
  /\ Await(b, "artifacts", "log")
  /\ memory' = Remember(b, "part")
  /\ UNCHANGED <<tc, persistent, graph, scan>>
(* The listing; a build that was deleted before answers 404, an error.     *)
ReadArtifacts(b) ==
  /\ tc[b] = "finished"
  /\ Await(b, "artifacts", "log")
  /\ UNCHANGED <<tc, memory, persistent, graph, scan>>

Whole(b) == IF b \in LongLogs THEN "cut" ELSE "all"

(* What was read counts as the inputs of the build and is cached.          *)
Reads(b, data) ==
  /\ task[b].pc = "log"
  /\ memory' = Remember(b, data)
  /\ persistent' = [persistent EXCEPT ![b] = data]
  /\ Done(b, Fresh(TRUE, data))
  /\ UNCHANGED <<tc, graph, scan>>

(* Contents of the artifacts and the log, or as much of it as is taken.    *)
ReadLog(b) == tc[b] = "finished" /\ Reads(b, Whole(b))

(* 404 for a content, 404 or 409 for the log is no error but an empty      *)
(* answer, of a build that was deleted or of any other.                    *)
LogMissing(b) == Reads(b, "less")

(* Mutant: the outputs of a build that is stale already are not kept.      *)
Fallback_FreshOnly(b) ==
  IF graph[b].shown = "fresh"
  THEN [shown |-> "stale", finished |-> TRUE, data |-> graph[b].data]
  ELSE [shown |-> "error", finished |-> TRUE, data |-> "none"]
Fallback(b) ==
  IF graph[b] # NoNode
  THEN [shown |-> "stale", finished |-> TRUE, data |-> graph[b].data]
  ELSE [shown |-> "error", finished |-> TRUE, data |-> "none"]

(* httpx.HTTPError: only this build is affected. *)
Unavailable(b) ==
  /\ task[b].pc \in {"artifacts", "log"}
  /\ Done(b, Fallback(b))
  /\ UNCHANGED <<tc, memory, persistent, graph, scan>>

(* Any other exception, a response that is not JSON for one. *)
Raises(b) ==
  /\ \/ Await(b, "artifacts", "failed")
     \/ Await(b, "log", "failed")
  /\ UNCHANGED <<tc, memory, persistent, graph, scan>>

(* The process restarts. *)
Restart ==
  /\ memory' = <<>>
  /\ scan' = NoScan
  /\ task' = NoTasks
  /\ UNCHANGED <<tc, persistent, graph>>

Next ==
  \/ List \/ ConfigurationUnreadable \/ StartBatch \/ EndBatch \/ Publish
  \/ Abort \/ OtherPartFails \/ Restart
  \/ \E b \in Builds :
       \/ Evolve(b)
       \/ SkipUnfinished(b) \/ MemoryHit(b) \/ PersistentHit(b) \/ Miss(b)
       \/ ReadArtifacts(b) \/ ReadLog(b) \/ LogMissing(b) \/ Unavailable(b) \/ Raises(b)

Spec == Init /\ [][Next]_vars

-----------------------------------------------------------------------------
(* Every variable has its type, and the memory cache its size.             *)
TypeOK ==
  /\ tc \in [Builds -> {"absent", "running", "finished", "deleted"}]
  /\ memory \in Seq(Builds \X Data) /\ Len(memory) <= CacheSize
  /\ persistent \in [Builds -> Data]
  /\ graph \in [Builds -> Node]
  /\ scan \in Scan
  /\ task \in [Builds -> Task]

(* What a reading gets that TeamCity answers to its end. *)
Readings(b) == {Whole(b), "less"}

(* A finished build shown as fresh shows what such a reading got: nothing  *)
(* that failed, was skipped or stopped before the log ever counts as its   *)
(* inputs, in this scan or, through a cache, in a later one.  That is not  *)
(* always all it put out: a long log is cut, a missing one counts as empty.*)
FreshWasReadToTheEnd ==
  \A b \in Builds : graph[b].shown = "fresh" /\ graph[b].finished =>
    graph[b].data \in Readings(b)

(* Outputs the graph once showed stay with the build for as long as it is  *)
(* in the graph, through any number of failed reads, failed scans, lost    *)
(* caches and restarts: they give way only to another reading that         *)
(* TeamCity answered to its end, shown as fresh.                           *)
KnownOutputsKept ==
  [][\A b \in Builds :
       graph[b].data \in Readings(b) /\ graph'[b] # NoNode =>
         \/ graph'[b].data = graph[b].data
         \/ graph'[b].shown = "fresh" /\ graph'[b].data \in Readings(b)]_vars

(* TeamCity never gets more than TEAMCITY_CONCURRENCY requests at a time,  *)
(* and a batch that failed leaves none behind to run into a later scan.    *)
RequestsBounded ==
  LET underWay == {b \in Builds : task[b].pc \in {"artifacts", "log"}}
  IN  underWay \subseteq scan.batch /\ Cardinality(underWay) <= Concurrency
=============================================================================
