------------------------------ MODULE LabTools ------------------------------
(***************************************************************************)
(* The scripts that keep the lab: expand_lab.py provisions it, run_lab.py   *)
(* fills build histories, check_lab_states.py and seed_live_states.py       *)
(* change it for a while.  A script is the sequence of HTTP calls it still  *)
(* has to make; any call can fail, take effect and lose its answer, or be   *)
(* the last one before the script is killed, and the script is run again.   *)
(***************************************************************************)
EXTENDS LabServer

CONSTANTS
  MaxSessions,    \* bound on runs of scripts
  MaxNewBuilds,   \* run_lab.py --max-new-builds
  MinBuilds,      \* run_lab.py --min-builds
  Window          \* finished builds that run_lab.py looks at (5 in the code)

ASSUME ToolBounds ==
  /\ MaxSessions \in Nat /\ MaxNewBuilds \in Nat
  /\ Window \in Nat \ {0} /\ MinBuilds \in 1..Window

VARIABLES
  tool,      \* the script that runs; since: builds there were when it began
  sessions   \* runs of scripts so far

vars == <<labVars, tool, sessions>>

Temporary == {"check_lab_states", "seed_live_states"}
Tools == {"expand_lab", "run_lab"} \cup Temporary

Idle == [name |-> "none", phase |-> "preflight", todo |-> <<>>, seen |-> {}, created |-> <<>>,
         active |-> FALSE, incomplete |-> FALSE, failed |-> FALSE, late |-> FALSE, since |-> 0]

Put(e, fields) == [i \in DOMAIN fields |-> <<"write", e, fields[i]>>]
Active(S) == <<<<"running", S>>, <<"queued", S>>>>
Mine == {tool.created[i] : i \in DOMAIN tool.created}

-----------------------------------------------------------------------------
(* expand_lab.py                                                           *)

(* Mutant: whether a configuration is paused is not compared.              *)
Matches_AnyPause(S, c) == PlannedFacts(c) \ {<<c, "active">>} \subseteq S
Matches(S, c) == PlannedFacts(c) \subseteq S

(* The entity is absent or carries the description of the plan.            *)
Acceptable(e, S) ==
  /\ e \notin foreign
  /\ <<e, "made">> \in S /\ e = "tcProject" => <<e, "description">> \in S

(* Mutant: the configuration is activated before its artifact rules.       *)
Reconcile_ActivateEarly(c) ==
  Put(c, <<"pause", "roots", "steps", "dependencies", "active", "artifactRules">>)
(* Paused first, then the Fields in their order, activated last.           *)
Reconcile(c) ==
  Put(c, <<"pause", "roots", "steps", "dependencies", "artifactRules", "active">>)

Make(x, S) == IF x \in S THEN <<>> ELSE Put(x[1], <<x[2]>>)

(* What the preflight saw decides which calls are made: only a new         *)
(* TeamCity project is described, a configuration that differs from the    *)
(* plan is written anew, and the role of the reader is always granted.     *)
ProvisionPlan(S) ==
  Make(<<"bbProject", "made">>, S) \o Make(<<"repo", "made">>, S)
    \o Make(<<"repo", "source">>, S) \o Make(<<"repo", "mainBranch">>, S)
    \o (IF <<"tcProject", "made">> \in S THEN <<>> ELSE Put("tcProject", <<"made", "description">>))
    \o Make(<<"root", "made">>, S) \o Make(<<Beta, "made">>, S) \o Make(<<Composite, "made">>, S)
    \o (IF Matches(S, Beta) THEN <<>> ELSE Reconcile(Beta))
    \o (IF Matches(S, Composite) THEN <<>> ELSE Reconcile(Composite))
    \o Put("reader", <<"role">>)

-----------------------------------------------------------------------------
(* The calls of each script.                                               *)

ReadAll(es) == [i \in DOMAIN es |-> <<"read", es[i]>>]

Preflight(name) ==
  CASE name = "expand_lab" ->
         ReadAll(<<"bbProject", "repo", "tcProject", "root", Beta, Composite>>)
    [] name = "check_lab_states" ->
         ReadAll(<<Composite, Beta>>) \o Active(Configs) \o <<<<"idle">>>>
    [] OTHER -> ReadAll(<<Beta, Composite>>)

(* One pass of run_lab.py over the configurations.                         *)
Pass ==
  <<<<"running", {Beta}>>, <<"queued", {Beta}>>, <<"judge", Beta>>,
    <<"running", {Composite}>>, <<"queued", {Composite}>>, <<"judge", Composite>>, <<"report">>>>

(* One build that runs, a second one behind it, then the graph is searched. *)
LongRunning ==
  Put(Composite, <<"temporary">>)
    \o <<<<"queue", Composite>>, <<"await", "running">>, <<"queue", Composite>>,
         <<"await", "queued">>, <<"observe">>>>

(* check_lab_states.py: pause Beta, two builds of Composite.               *)
CheckStates == Put(Beta, <<"pause">>) \o LongRunning

(* seed_live_states.py: a failed build first, here of the configuration    *)
(* that is paused afterwards.                                              *)
SeedStates ==
  Put(Beta, <<"temporary">>) \o <<<<"queue", Beta>>, <<"await", "failed">>>>
    \o Put(Beta, <<"pause">>) \o LongRunning

Main(name, seen) ==
  CASE name = "expand_lab" -> ProvisionPlan(seen)
    [] name = "run_lab" -> Pass
    [] name = "check_lab_states" -> CheckStates
    [] name = "seed_live_states" -> SeedStates

(* Write back what was read before the change.                             *)
RestoreSteps(c, S) ==
  Put(c, <<IF <<c, "temporary">> \in S THEN "temporary"
           ELSE IF <<c, "steps">> \in S THEN "steps" ELSE "clear">>)
RestorePaused(c, S) == Put(c, <<IF <<c, "active">> \in S THEN "active" ELSE "pause">>)

(* Mutant: whatever is active for the configuration is cancelled.          *)
ToCancel_Everything(t) ==
  SelectSeq([i \in DOMAIN builds |-> i],
            LAMBDA i : builds[i].state \in ActiveStates /\ OfConfig(i, {Composite}))
(* The builds that answered its requests, the newest first.                *)
ToCancel(t) == t.created

CheckCleanup(S) ==
  RestoreSteps(Composite, S) \o RestorePaused(Beta, S) \o <<<<"verify">>, <<"observe">>>>
SeedCleanup(S) ==
  RestoreSteps(Beta, S) \o RestoreSteps(Composite, S) \o RestorePaused(Beta, S) \o <<<<"observe">>>>

Cleanup(t) ==
  [i \in DOMAIN ToCancel(t) |-> <<"cancel", ToCancel(t)[i]>>]
    \o IF t.name = "check_lab_states" THEN CheckCleanup(t.seen) ELSE SeedCleanup(t.seen)

-----------------------------------------------------------------------------
(* Making the next call.                                                   *)

Call(op) == tool.todo # <<>> /\ Head(tool.todo)[1] = op
Arg == Head(tool.todo)[2]
Done == [tool EXCEPT !.todo = Tail(@)]
Then(calls) == [tool EXCEPT !.todo = calls \o Tail(@)]

(* The call raises: `finally` runs; check_lab_states.py attempts every     *)
(* cleanup, seed_live_states.py only survives what cancelling raises.      *)
Raised ==
  CASE tool.phase = "main" /\ tool.name \in Temporary ->
         [tool EXCEPT !.phase = "cleanup", !.todo = Cleanup(tool)]
    [] \/ tool.phase = "cleanup" /\ tool.name = "check_lab_states"
       \/ tool.phase = "cleanup" /\ Head(tool.todo)[1] \in {"cancel", "delete", "stop"} ->
         [tool EXCEPT !.todo = Tail(@), !.failed = TRUE]
    [] OTHER -> Idle

(* The answer arrives or is lost.                                          *)
Answered == tool' \in {Done, Raised}

(* What the preflight of a script demands of one entity.                   *)
Readable(e) ==
  CASE tool.name = "expand_lab" -> Acceptable(e, have)
    [] tool.name = "seed_live_states" -> <<e, "made">> \in have
    [] OTHER -> e \notin foreign /\ Matches(have, e)

(* expand_lab.py reconciles a configuration only without active builds.    *)
Read ==
  /\ Call("read")
  /\ LET found == {x \in have : x[1] = Arg}
         reconcile == tool.name = "expand_lab" /\ Arg \in Configs
                        /\ found # {} /\ ~Matches(have, Arg)
     IN  tool' = IF ~Readable(Arg) THEN Idle
                 ELSE [Then(IF reconcile THEN Active({Arg}) \o <<<<"idle">>>> ELSE <<>>)
                         EXCEPT !.seen = @ \cup found]
  /\ UNCHANGED <<labVars, sessions>>

(* The counts of active builds are two requests: running ones, then the    *)
(* queue.  run_lab.py looks at its deadline before it asks.                *)
CountRunning ==
  /\ Call("running")
  /\ tool' = IF tool.name = "run_lab" /\ tool.late THEN Idle
             ELSE [Done EXCEPT !.active = InState("running", Arg) # {}]
  /\ UNCHANGED <<labVars, sessions>>

(* Mutant: the queue is not looked at. *)
CountQueued_Not ==
  /\ Call("queued")
  /\ tool' = Done
  /\ UNCHANGED <<labVars, sessions>>

CountQueued ==
  /\ Call("queued")
  /\ tool' = [Done EXCEPT !.active = @ \/ InState("queued", Arg) # {}]
  /\ UNCHANGED <<labVars, sessions>>

RequireIdle ==
  /\ Call("idle")
  /\ tool' = IF tool.active THEN Idle ELSE Done
  /\ UNCHANGED <<labVars, sessions>>

Write ==
  /\ Call("write")
  /\ have' = After(have, Arg, Head(tool.todo)[3])
  /\ Answered
  /\ UNCHANGED <<foreign, builds, sessions>>

(* POST buildQueue makes a build, or TeamCity answers with an identical    *)
(* one that is queued already; beyond the bound it refuses.                *)
Queue ==
  /\ Call("queue")
  /\ \/ /\ Len(builds) < MaxBuilds
        /\ builds' = Append(builds, NewBuild(Arg, tool.name))
        /\ tool' \in {[Done EXCEPT !.created = <<Len(builds) + 1>> \o @], Raised}
     \/ \E i \in InState("queued", {Arg}) :
          /\ tool' = IF tool.name = "check_lab_states" /\ i \in Mine
                     THEN Raised
                     ELSE [Done EXCEPT !.created = <<i>> \o @]
          /\ UNCHANGED builds
     \/ Len(builds) = MaxBuilds /\ tool' = Raised /\ UNCHANGED builds
  /\ UNCHANGED <<have, foreign, sessions>>

(* Mutant: polling has no deadline. *)
Await_NoDeadline ==
  /\ Call("await")
  /\ builds[tool.created[1]].state = Arg /\ tool' = Done
  /\ UNCHANGED <<labVars, sessions>>

(* Polling until the newest own build is in the state or the time is over. *)
Await ==
  /\ Call("await")
  /\ \/ builds[tool.created[1]].state = Arg /\ tool' = Done
     \/ tool.late /\ tool' = Raised
  /\ UNCHANGED <<labVars, sessions>>

(* Refresh the graph and search it: the service is not part of this model. *)
Observe ==
  /\ Call("observe")
  /\ tool' = Done
  /\ UNCHANGED <<labVars, sessions>>

-----------------------------------------------------------------------------
(* run_lab.py                                                              *)

(* The last finished builds of c, at most Window of them.                  *)
Latest(c) ==
  LET ended == {i \in DOMAIN builds : builds[i].state \in Finished /\ OfConfig(i, {c})}
  IN  {i \in ended : Cardinality({j \in ended : j > i}) < Window}

Complete(c) ==
  /\ Cardinality(Latest(c)) >= MinBuilds
  /\ \A i \in Latest(c) : builds[i].state = "passed"
  /\ ~tool.active

Judge ==
  /\ Call("judge")
  /\ tool' = CASE Complete(Arg) -> Done
               [] ~Complete(Arg) /\ tool.active -> [Done EXCEPT !.incomplete = TRUE]
               [] ~Complete(Arg) /\ ~tool.active /\ Len(tool.created) < MaxNewBuilds ->
                    [Then(<<<<"queue", Arg>>>>) EXCEPT !.incomplete = TRUE]
               [] OTHER -> Idle
  /\ UNCHANGED <<labVars, sessions>>

Report ==
  /\ Call("report")
  /\ tool' = IF tool.incomplete /\ ~tool.late
             THEN [tool EXCEPT !.todo = Pass, !.incomplete = FALSE] ELSE Done
  /\ UNCHANGED <<labVars, sessions>>

-----------------------------------------------------------------------------
(* Cleaning up.                                                            *)

(* Read the state first: a queued build is deleted, a running one stopped. *)
Cancel ==
  /\ Call("cancel")
  /\ tool' = CASE builds[Arg].state = "queued" -> Then(<<<<"delete", Arg>>>>)
               [] builds[Arg].state = "running" -> Then(<<<<"stop", Arg>>>>)
               [] OTHER -> Done
  /\ UNCHANGED <<labVars, sessions>>

(* Mutant: a build that started before the DELETE is not looked at again.  *)
Gone_Ignored == Done

(* 404: it has started meanwhile.  check_lab_states.py reads it again, in   *)
(* seed_live_states.py the status raises.                                  *)
Gone ==
  IF tool.name = "check_lab_states" THEN Then(<<<<"cancel", Arg>>>>) ELSE Raised

Delete ==
  /\ Call("delete")
  /\ IF builds[Arg].state = "queued"
     THEN SetState(Arg, "removed") /\ Answered
     ELSE tool' = Gone /\ UNCHANGED builds
  /\ UNCHANGED <<have, foreign, sessions>>

Stop ==
  /\ Call("stop")
  /\ IF builds[Arg].state = "running" THEN SetState(Arg, "cancelled") ELSE UNCHANGED builds
  /\ Answered
  /\ UNCHANGED <<have, foreign, sessions>>

(* Steps and paused flag of both configurations.                           *)
Settings(S) ==
  {x \in S : x[1] \in Configs /\ x[2] \in {"steps", "temporary", "active"}}

Verify ==
  /\ Call("verify")
  /\ tool' = IF Settings(have) = Settings(tool.seen) THEN Done ELSE Raised
  /\ UNCHANGED <<labVars, sessions>>

-----------------------------------------------------------------------------
Begin(name) ==
  /\ tool = Idle
  /\ sessions < MaxSessions
  /\ sessions' = sessions + 1
  /\ tool' = [Idle EXCEPT !.name = name, !.todo = Preflight(name), !.since = Len(builds)]
  /\ UNCHANGED labVars

(* The calls of one phase are made: the next phase begins, or the script   *)
(* ends (with --plan after the preflight already).                         *)
Proceed ==
  /\ tool # Idle /\ tool.todo = <<>>
  /\ tool' = CASE tool.phase = "preflight" ->
                    [tool EXCEPT !.phase = "main", !.todo = Main(tool.name, tool.seen)]
               [] tool.phase = "main" /\ tool.name \in Temporary ->
                    [tool EXCEPT !.phase = "cleanup", !.todo = Cleanup(tool)]
               [] OTHER -> Idle
  /\ UNCHANGED <<labVars, sessions>>

(* A call fails without effect; a read that fails has been retried.        *)
CallFails ==
  /\ tool.todo # <<>>
  /\ tool' = Raised
  /\ UNCHANGED <<labVars, sessions>>

Deadline ==
  /\ tool.name # "expand_lab" /\ tool.phase = "main" /\ ~tool.late
  /\ tool' = [tool EXCEPT !.late = TRUE]
  /\ UNCHANGED <<labVars, sessions>>

(* SIGKILL, a second Ctrl-C, --plan.                                       *)
Killed ==
  /\ tool # Idle
  /\ tool' = Idle
  /\ UNCHANGED <<labVars, sessions>>

Quiet == tool = Idle /\ UNCHANGED vars

ToolStep ==
  \/ Read
  \/ CountRunning
  \/ CountQueued
  \/ RequireIdle
  \/ Write
  \/ Queue
  \/ Await
  \/ Observe
  \/ Judge
  \/ Report
  \/ Cancel
  \/ Delete
  \/ Stop
  \/ Verify
  \/ Proceed

Init ==
  /\ LabInit
  /\ tool = Idle
  /\ sessions = 0

Next ==
  \/ ToolStep
  \/ CallFails
  \/ Deadline
  \/ Killed
  \/ \E name \in Tools : Begin(name)
  \/ Environment /\ UNCHANGED <<tool, sessions>>
  \/ Quiet

(* Every request has a timeout and clocks advance.  Nobody has to finish a *)
(* build, to start a script or to let a call fail.                         *)
Spec == Init /\ [][Next]_vars /\ WF_vars(ToolStep) /\ WF_vars(Deadline)

-----------------------------------------------------------------------------
(* Correctness.                                                            *)

(* Variables have their types.                                             *)
TypeOK ==
  /\ have \subseteq Provisioned \cup {<<c, "temporary">> : c \in Configs}
  /\ foreign \subseteq {"repo", "tcProject", Beta}
  /\ builds \in Seq([config : Configs, by : Tools \cup {"user"},
                     state : ActiveStates \cup Finished \cup {"removed"}])
  /\ tool.name \in Tools \cup {"none"}
  /\ tool.phase \in {"preflight", "main", "cleanup"}
  /\ sessions \in 0..MaxSessions

(* Wherever a script stops and whichever runs next, no configuration that  *)
(* triggers or people can build is half written: it has its roots,         *)
(* dependencies and artifact rules, and steps.                             *)
HalfConfiguredIsPaused ==
  \A c \in Configs : <<c, "active">> \in have =>
    /\ {<<c, "roots">>, <<c, "dependencies">>, <<c, "artifactRules">>} \subseteq have
    /\ <<c, "steps">> \in have \/ <<c, "temporary">> \in have

(* Whatever interrupted earlier scripts and whatever they had changed, an   *)
(* expand_lab.py that gets to make its last call leaves exactly the plan:  *)
(* nothing missing, no configuration paused or with temporary steps.       *)
RerunCompletes ==
  tool.name = "expand_lab" /\ tool.phase = "main" /\ tool.todo = <<>> => have = Provisioned

(* A temporary change whose cleanup raised nothing has put back steps and  *)
(* paused flags; check_lab_states.py then left the plan's settings, and    *)
(* none of the builds it knows is queued or running, although builds start *)
(* while it cancels them.                                                  *)
SettingsRestored ==
  tool.phase = "cleanup" /\ tool.todo = <<>> /\ ~tool.failed =>
    /\ Settings(have) = Settings(tool.seen)
    /\ tool.name = "check_lab_states" =>
         /\ \A c \in Configs : Matches(have, c)
         /\ \A i \in Mine : builds[i].state \notin ActiveStates

(* check_lab_states.py stops no build that was in TeamCity when it began,  *)
(* queued or running, although its idle check is two requests and builds   *)
(* start between them, and TeamCity answers a request with a build that    *)
(* waits already.  A build that somebody queues after the check and that   *)
(* TeamCity merges with the script's request is cancelled with its own.    *)
EarlierBuildsStay ==
  [][\A i \in DOMAIN builds :
       /\ tool.name = "check_lab_states"
       /\ builds[i].state \in ActiveStates /\ builds'[i].state \in {"cancelled", "removed"}
       => i > tool.since]_vars

(* run_lab.py never has two requests for one configuration in the queue,   *)
(* also when answers are lost and it is run again; a second build can      *)
(* only wait for one that started between its two counts.                  *)
OneRequestQueued ==
  \A c \in Configs :
    Cardinality({i \in InState("queued", {c}) : builds[i].by = "run_lab"}) <= 1

(* Every script ends, also when builds never start or never finish.        *)
ToolEnds == tool # Idle ~> tool = Idle
=============================================================================
