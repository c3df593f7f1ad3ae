------------------------------ MODULE LabServer ------------------------------
(***************************************************************************)
(* The lab that the scripts of scripts/bootstrap provision and exercise: a *)
(* Bitbucket workspace and a local TeamCity with one agent, as far as the  *)
(* scripts read and write them, and the people who queue builds there.     *)
(***************************************************************************)
EXTENDS Naturals, Sequences, FiniteSets

CONSTANTS
  MaxBuilds,      \* bound on builds in TeamCity
  MaxUserBuilds   \* bound on builds that people queue

ASSUME LabBounds == MaxBuilds \in Nat /\ MaxUserBuilds \in Nat

VARIABLES
  have,     \* <<entity, field>> pairs that the servers hold
  foreign,  \* entities of these names that someone else created
  builds    \* builds of TeamCity, in order of creation

labVars == <<have, foreign, builds>>

Composite == "Composite"   \* gets the temporary long-running step
Beta == "Beta"             \* is paused for a while
Configs == {Composite, Beta}

(* Fields of a configuration in the order in which they are written.       *)
Fields == <<"roots", "steps", "dependencies", "artifactRules", "active">>

PlannedFacts(c) == {<<c, Fields[i]>> : i \in DOMAIN Fields} \cup {<<c, "made">>}

(* What the manifest wants of everything that is no configuration.         *)
PlannedEntities ==
  {<<"bbProject", "made">>, <<"repo", "made">>, <<"repo", "source">>,
   <<"repo", "mainBranch">>, <<"tcProject", "made">>, <<"tcProject", "description">>,
   <<"root", "made">>, <<"reader", "role">>}

Provisioned == PlannedEntities \cup PlannedFacts(Composite) \cup PlannedFacts(Beta)

(* What one write leaves behind. "pause" is PUT paused=true, "active" PUT   *)
(* paused=false; "steps", "temporary" and "clear" replace the build steps. *)
After(S, e, f) ==
  LET steps == {<<e, "steps">>, <<e, "temporary">>}
  IN  CASE f = "pause" -> S \ {<<e, "active">>}
        [] f = "clear" -> S \ steps
        [] f \in {"steps", "temporary"} -> (S \ steps) \cup {<<e, f>>}
        [] OTHER -> S \cup {<<e, f>>}

ActiveStates == {"queued", "running"}
Finished == {"passed", "failed", "cancelled"}   \* a "removed" one left the queue

OfConfig(i, S) == builds[i].config \in S
InState(s, S) == {i \in DOMAIN builds : builds[i].state = s /\ OfConfig(i, S)}

NewBuild(c, who) == [config |-> c, by |-> who, state |-> "queued"]
SetState(i, s) == builds' = [builds EXCEPT ![i].state = s]

LabInit ==
  /\ \/ have = Provisioned /\ foreign = {}
     \/ have = {} /\ foreign \in {{}, {"repo"}, {"tcProject"}, {Beta}}
  /\ builds = <<>>

(* Somebody or a trigger queues a build of a configuration not paused.     *)
UserQueues(c) ==
  /\ <<c, "active">> \in have
  /\ Len(builds) < MaxBuilds
  /\ Cardinality({i \in DOMAIN builds : builds[i].by = "user"}) < MaxUserBuilds
  /\ builds' = Append(builds, NewBuild(c, "user"))
  /\ UNCHANGED <<have, foreign>>

(* The only agent takes the oldest queued build.                           *)
AgentStarts ==
  /\ InState("running", Configs) = {}
  /\ \E i \in InState("queued", Configs) :
       /\ \A j \in InState("queued", Configs) : i <= j
       /\ SetState(i, "running")
  /\ UNCHANGED <<have, foreign>>

AgentFinishes ==
  /\ \E i \in InState("running", Configs), s \in {"passed", "failed"} : SetState(i, s)
  /\ UNCHANGED <<have, foreign>>

Environment ==
  \/ \E c \in Configs : UserQueues(c)
  \/ AgentStarts
  \/ AgentFinishes
=============================================================================
