---------------------------- MODULE LabToolsProofs ----------------------------
(* Proofs about the scripts that keep the lab, for any number of builds,   *)
(* sessions and people's builds, and any call that fails, loses its answer *)
(* or is the last one.                                                     *)
EXTENDS LabTools, FiniteSetTheorems, SequenceTheorems, TLAPS

(* s still has the call x; x comes before each y; after each x comes a y.   *)
Has(s, x) == \E j \in 1..Len(s) : s[j] = x
Before(s, x, y) == \A j \in 1..Len(s) : s[j] = y => \E i \in 1..Len(s) : i < j /\ s[i] = x
Followed(s, x, y) == \A j \in 1..Len(s) : s[j] = x => \E i \in 1..Len(s) : j < i /\ s[i] = y

-----------------------------------------------------------------------------
(* Sequences of calls.                                                     *)

LEMMA TailOf ==
  ASSUME NEW T, NEW s \in Seq(T), s # <<>>
  PROVE  /\ Head(s) \in T /\ Head(s) = s[1] /\ Tail(s) \in Seq(T)
         /\ Len(s) \in Nat /\ Len(s) >= 1 /\ Len(Tail(s)) = Len(s) - 1
         /\ \A i \in 1..Len(Tail(s)) : i + 1 \in 1..Len(s) /\ Tail(s)[i] = s[i + 1]
OBVIOUS

LEMMA ConcatOf ==
  ASSUME NEW T, NEW s \in Seq(T), NEW t \in Seq(T)
  PROVE  /\ s \o t \in Seq(T) /\ Len(s) \in Nat /\ Len(t) \in Nat /\ Len(s \o t) = Len(s) + Len(t)
         /\ \A i \in 1..Len(s) : i \in 1..Len(s \o t) /\ (s \o t)[i] = s[i]
         /\ \A i \in 1..Len(t) : Len(s) + i \in 1..Len(s \o t) /\ (s \o t)[Len(s) + i] = t[i]
         /\ \A i \in 1..Len(s \o t) : i \in 1..Len(s) \/ \E j \in 1..Len(t) : i = Len(s) + j
<1>1. Len(s) \in Nat /\ Len(t) \in Nat
  OBVIOUS
<1>2. /\ s \o t \in Seq(T) /\ Len(s \o t) = Len(s) + Len(t)
      /\ \A i \in 1..Len(s) + Len(t) : (s \o t)[i] = IF i <= Len(s) THEN s[i] ELSE t[i - Len(s)]
  BY ConcatProperties
<1>3. \A i \in 1..Len(s) : i \in 1..Len(s \o t) /\ (s \o t)[i] = s[i]
  BY <1>1, <1>2
<1>4. ASSUME NEW i \in 1..Len(t)
      PROVE  Len(s) + i \in 1..Len(s \o t) /\ (s \o t)[Len(s) + i] = t[i]
  <2>1. Len(s) + i \in 1..Len(s) + Len(t) /\ ~(Len(s) + i <= Len(s)) /\ (Len(s) + i) - Len(s) = i
    BY <1>1
  <2> QED BY <1>2, <2>1
<1>5. ASSUME NEW i \in 1..Len(s \o t), i \notin 1..Len(s)
      PROVE  \E j \in 1..Len(t) : i = Len(s) + j
  <2>1. i - Len(s) \in 1..Len(t) /\ i = Len(s) + (i - Len(s))
    BY <1>1, <1>2, <1>5
  <2> QED BY <2>1
<1> QED BY <1>1, <1>2, <1>3, <1>4, <1>5

LEMMA HasTail ==
  ASSUME NEW T, NEW s \in Seq(T), s # <<>>, NEW x
  PROVE  /\ Has(s, x) <=> Head(s) = x \/ Has(Tail(s), x)
         /\ Has(s, Head(s))
<1>1. ASSUME Has(s, x), Head(s) # x PROVE Has(Tail(s), x)
  <2>1. PICK j \in 1..Len(s) : s[j] = x
    BY <1>1 DEF Has
  <2>2. j # 1
    BY <1>1, <2>1, TailOf
  <2>3. j - 1 \in 1..Len(Tail(s)) /\ (j - 1) + 1 = j
    BY <2>2, TailOf
  <2>4. Tail(s)[j - 1] = x
    BY <2>1, <2>3, TailOf
  <2> QED BY <2>3, <2>4 DEF Has
<1>2. ASSUME Has(Tail(s), x) PROVE Has(s, x)
  BY <1>2, TailOf DEF Has
<1>3. 1 \in 1..Len(s)
  BY TailOf
<1>4. Has(s, Head(s))
  BY <1>3, TailOf DEF Has
<1> QED BY <1>1, <1>2, <1>4

LEMMA HasConcat ==
  ASSUME NEW T, NEW s \in Seq(T), NEW t \in Seq(T), NEW x
  PROVE  Has(s \o t, x) <=> Has(s, x) \/ Has(t, x)
<1>1. ASSUME Has(s \o t, x) PROVE Has(s, x) \/ Has(t, x)
  <2>1. PICK j \in 1..Len(s \o t) : (s \o t)[j] = x
    BY <1>1 DEF Has
  <2>2. CASE j \in 1..Len(s)
    BY <2>1, <2>2, ConcatOf DEF Has
  <2>3. CASE \E i \in 1..Len(t) : j = Len(s) + i
    BY <2>1, <2>3, ConcatOf DEF Has
  <2> QED BY <2>2, <2>3, ConcatOf
<1>2. ASSUME Has(s, x) PROVE Has(s \o t, x)
  BY <1>2, ConcatOf DEF Has
<1>3. ASSUME Has(t, x) PROVE Has(s \o t, x)
  <2>1. PICK j \in 1..Len(t) : t[j] = x
    BY <1>3 DEF Has
  <2>2. Len(s) + j \in 1..Len(s \o t) /\ (s \o t)[Len(s) + j] = t[j]
    BY ConcatOf
  <2> QED BY <2>1, <2>2 DEF Has
<1> QED BY <1>1, <1>2, <1>3

LEMMA BeforeTail ==
  ASSUME NEW T, NEW s \in Seq(T), s # <<>>, NEW x, NEW y, Before(s, x, y)
  PROVE  Head(s) # y /\ (Head(s) = x \/ Before(Tail(s), x, y))
<1>1. Head(s) # y
  <2>1. 1 \in 1..Len(s) /\ \A i \in 1..Len(s) : ~(i < 1)
    BY TailOf
  <2> QED BY <2>1, TailOf DEF Before
<1>2. ASSUME Head(s) # x, NEW j \in 1..Len(Tail(s)), Tail(s)[j] = y
      PROVE  \E i \in 1..Len(Tail(s)) : i < j /\ Tail(s)[i] = x
  <2>1. j + 1 \in 1..Len(s) /\ s[j + 1] = y
    BY <1>2, TailOf
  <2>2. PICK i \in 1..Len(s) : i < j + 1 /\ s[i] = x
    BY <2>1 DEF Before
  <2>3. i # 1
    BY <1>2, <2>2, TailOf
  <2>4. i - 1 \in 1..Len(Tail(s)) /\ i - 1 < j /\ (i - 1) + 1 = i
    BY <2>2, <2>3, TailOf
  <2>5. Tail(s)[i - 1] = x
    BY <2>2, <2>4, TailOf
  <2> QED BY <2>4, <2>5
<1> QED BY <1>1, <1>2 DEF Before

LEMMA BeforeConcat ==
  ASSUME NEW T, NEW s \in Seq(T), NEW t \in Seq(T), NEW x, NEW y,
         Before(s, x, y), Before(t, x, y)
  PROVE  Before(s \o t, x, y)
<1> SUFFICES ASSUME NEW j \in 1..Len(s \o t), (s \o t)[j] = y
             PROVE  \E i \in 1..Len(s \o t) : i < j /\ (s \o t)[i] = x
  BY DEF Before
<1>1. CASE j \in 1..Len(s)
  <2>1. PICK i \in 1..Len(s) : i < j /\ s[i] = x
    BY <1>1, ConcatOf DEF Before
  <2> QED BY <2>1, ConcatOf
<1>2. ASSUME NEW k \in 1..Len(t), j = Len(s) + k
      PROVE  \E i \in 1..Len(s \o t) : i < j /\ (s \o t)[i] = x
  <2>1. t[k] = y
    BY <1>2, ConcatOf
  <2>2. PICK i \in 1..Len(t) : i < k /\ t[i] = x
    BY <2>1 DEF Before
  <2>3. Len(s) + i < j
    BY <1>2, <2>2, ConcatOf
  <2>4. Len(s) + i \in 1..Len(s \o t) /\ (s \o t)[Len(s) + i] = t[i]
    BY ConcatOf
  <2> QED BY <2>2, <2>3, <2>4
<1>3. j \in 1..Len(s) \/ \E k \in 1..Len(t) : j = Len(s) + k
  BY ConcatOf
<1> QED BY <1>1, <1>2, <1>3

LEMMA FollowedTail ==
  ASSUME NEW T, NEW s \in Seq(T), s # <<>>, NEW x, NEW y, Followed(s, x, y)
  PROVE  Followed(Tail(s), x, y) /\ (Head(s) = x => Has(Tail(s), y))
<1>1. ASSUME NEW j \in 1..Len(s), NEW i \in 1..Len(s), j < i
      PROVE  i - 1 \in 1..Len(Tail(s)) /\ Tail(s)[i - 1] = s[i]
  <2>1. i - 1 \in 1..Len(Tail(s)) /\ (i - 1) + 1 = i
    BY <1>1, TailOf
  <2> QED BY <2>1, TailOf
<1>2. ASSUME Head(s) = x PROVE Has(Tail(s), y)
  <2>1. 1 \in 1..Len(s) /\ s[1] = x
    BY <1>2, TailOf
  <2>2. PICK i \in 1..Len(s) : 1 < i /\ s[i] = y
    BY <2>1 DEF Followed
  <2> QED BY <1>1, <2>1, <2>2 DEF Has
<1>3. ASSUME NEW j \in 1..Len(Tail(s)), Tail(s)[j] = x
      PROVE  \E i \in 1..Len(Tail(s)) : j < i /\ Tail(s)[i] = y
  <2>1. j + 1 \in 1..Len(s) /\ s[j + 1] = x
    BY <1>3, TailOf
  <2>2. PICK i \in 1..Len(s) : j + 1 < i /\ s[i] = y
    BY <2>1 DEF Followed
  <2>3. j < i - 1
    BY <2>2, TailOf
  <2> QED BY <1>1, <2>1, <2>2, <2>3
<1> QED BY <1>2, <1>3 DEF Followed

LEMMA FollowedConcat ==
  ASSUME NEW T, NEW s \in Seq(T), NEW t \in Seq(T), NEW x, NEW y,
         Followed(s, x, y), Followed(t, x, y)
  PROVE  Followed(s \o t, x, y)
<1> SUFFICES ASSUME NEW j \in 1..Len(s \o t), (s \o t)[j] = x
             PROVE  \E i \in 1..Len(s \o t) : j < i /\ (s \o t)[i] = y
  BY DEF Followed
<1>1. CASE j \in 1..Len(s)
  <2>1. PICK i \in 1..Len(s) : j < i /\ s[i] = y
    BY <1>1, ConcatOf DEF Followed
  <2> QED BY <2>1, ConcatOf
<1>2. ASSUME NEW k \in 1..Len(t), j = Len(s) + k
      PROVE  \E i \in 1..Len(s \o t) : j < i /\ (s \o t)[i] = y
  <2>1. t[k] = x
    BY <1>2, ConcatOf
  <2>2. PICK i \in 1..Len(t) : k < i /\ t[i] = y
    BY <2>1 DEF Followed
  <2>3. j < Len(s) + i
    BY <1>2, <2>2, ConcatOf
  <2>4. Len(s) + i \in 1..Len(s \o t) /\ (s \o t)[Len(s) + i] = t[i]
    BY ConcatOf
  <2> QED BY <2>2, <2>3, <2>4
<1>3. j \in 1..Len(s) \/ \E k \in 1..Len(t) : j = Len(s) + k
  BY ConcatOf
<1> QED BY <1>1, <1>2, <1>3

-----------------------------------------------------------------------------
(* What the scripts may still have to do.                                  *)

(* Facts the servers may hold; those that a temporary change touches.      *)
Facts == Provisioned \cup {<<c, "temporary">> : c \in Configs}
Changing == {"steps", "temporary", "active"}
Core == {"roots", "dependencies", "artifactRules"}

HasSteps(S, c) == <<c, "steps">> \in S \/ <<c, "temporary">> \in S
Buildable(S, c) == (\A f \in Core : <<c, f>> \in S) /\ HasSteps(S, c)
SoundFor(S, c) ==
  /\ <<c, "active">> \in S => Buildable(S, c)
  /\ ~(<<c, "steps">> \in S /\ <<c, "temporary">> \in S)
Sound(S) == \A c \in Configs : SoundFor(S, c)

W(e, f) == <<"write", e, f>>
Writes(F) == {W(x[1], x[2]) : x \in F}

(* The field that each restoring request writes.                           *)
StepsAgain(c, S) ==
  IF <<c, "temporary">> \in S THEN "temporary" ELSE IF <<c, "steps">> \in S THEN "steps" ELSE "clear"
PausedAgain(c, S) == IF <<c, "active">> \in S THEN "active" ELSE "pause"

Known(t) == {t.created[i] : i \in DOMAIN t.created}

Entities == {"bbProject", "repo", "tcProject", "root", Beta, Composite}
PreflightCalls ==
  ({"read"} \X Entities) \cup ({"running", "queued"} \X SUBSET Configs) \cup {<<"idle">>}
ExpandCalls == Writes(Provisioned \cup {<<c, "pause">> : c \in Configs})
RunCalls ==
  ({"running", "queued"} \X {{Beta}, {Composite}}) \cup ({"judge", "queue"} \X Configs)
    \cup {<<"report">>}
TemporaryWrites(name) ==
  {<<Composite, "temporary">>, <<Beta, "pause">>}
    \cup IF name = "seed_live_states" THEN {<<Beta, "temporary">>} ELSE {}
TemporaryCalls(name) ==
  Writes(TemporaryWrites(name)) \cup ({"queue"} \X Configs)
    \cup ({"await"} \X {"running", "queued", "failed"}) \cup {<<"observe">>}
Restoring(name, S) ==
  {<<Composite, StepsAgain(Composite, S)>>, <<Beta, PausedAgain(Beta, S)>>}
    \cup IF name = "seed_live_states" THEN {<<Beta, StepsAgain(Beta, S)>>} ELSE {}
CleanupCalls(t) ==
  ({"cancel", "delete", "stop"} \X Known(t)) \cup Writes(Restoring(t.name, t.seen))
    \cup {<<"verify">>, <<"observe">>}

CallsOf(t) ==
  IF t.phase = "preflight" THEN PreflightCalls
  ELSE IF t.phase = "cleanup" THEN CleanupCalls(t)
  ELSE IF t.name = "expand_lab" THEN ExpandCalls
  ELSE IF t.name = "run_lab" THEN RunCalls
  ELSE TemporaryCalls(t.name)

Build == [config : Configs, by : Tools \cup {"user"},
          state : ActiveStates \cup Finished \cup {"removed"}]

(* The record of a script.                                                 *)
Record(t) ==
  t = [name |-> t.name, phase |-> t.phase, todo |-> t.todo, seen |-> t.seen,
       created |-> t.created, active |-> t.active, incomplete |-> t.incomplete,
       failed |-> t.failed, late |-> t.late, since |-> t.since]
ToolOK(t, n) ==
  /\ Record(t)
  /\ t.name \in Tools \cup {"none"}
  /\ t.phase \in {"preflight", "main", "cleanup"}
  /\ t.todo \in Seq(CallsOf(t))
  /\ t.seen \in SUBSET Facts
  /\ t.created \in Seq(1..n)
  /\ t.active \in BOOLEAN /\ t.incomplete \in BOOLEAN /\ t.failed \in BOOLEAN /\ t.late \in BOOLEAN
  /\ t.name = "none" => t = Idle
  /\ t.phase = "cleanup" => t.name \in Temporary

(* Each variable is of its type, and the calls are those of the phase.     *)
TypeInv ==
  /\ have \subseteq Facts
  /\ foreign \subseteq {"repo", "tcProject", Beta}
  /\ builds \in Seq(Build)
  /\ sessions \in 0..MaxSessions
  /\ ToolOK(tool, Len(builds))

-----------------------------------------------------------------------------
(* Which calls each phase makes.                                           *)

LEMMA HeadOf ==
  ASSUME TypeInv, tool.todo # <<>>
  PROVE  /\ Head(tool.todo) \in CallsOf(tool) /\ Tail(tool.todo) \in Seq(CallsOf(tool))
         /\ tool.name \in Tools /\ tool # Idle /\ tool.name # "none"
<1>1. tool.todo \in Seq(CallsOf(tool)) /\ (tool.name = "none" => tool = Idle)
      /\ tool.name \in Tools \cup {"none"}
  BY DEF TypeInv, ToolOK
<1>2. Idle.todo = <<>>
  BY DEF Idle
<1>3. tool # Idle /\ tool.name # "none"
  BY <1>1, <1>2
<1> QED BY <1>1, <1>3, TailOf

LEMMA PreflightHead ==
  ASSUME NEW x, x \in PreflightCalls
  PROVE  \/ x[1] = "read" /\ x[2] \in Entities /\ x = <<"read", x[2]>>
         \/ x[1] \in {"running", "queued"} /\ x[2] \in SUBSET Configs
         \/ x = <<"idle">> /\ x[1] = "idle"
BY DEF PreflightCalls

LEMMA RunHead ==
  ASSUME NEW x, x \in RunCalls
  PROVE  \/ x[1] \in {"running", "queued"} /\ x[2] \in {{Beta}, {Composite}} /\ x = <<x[1], x[2]>>
         \/ x[1] \in {"judge", "queue"} /\ x[2] \in Configs /\ x = <<x[1], x[2]>>
         \/ x = <<"report">> /\ x[1] = "report"
BY DEF RunCalls

LEMMA WriteHead ==
  ASSUME NEW F, NEW x, x \in Writes(F)
  PROVE  \E y \in F : x = W(y[1], y[2])
BY DEF Writes

LEMMA PairsOfFacts ==
  ASSUME NEW x, x \in Facts \/ x \in {<<c, "pause">> : c \in Configs}
                \/ (\E name : x \in TemporaryWrites(name)) \/ (\E name, S : x \in Restoring(name, S))
  PROVE  x = <<x[1], x[2]>>
BY DEF Facts, Provisioned, PlannedEntities, PlannedFacts, Fields, TemporaryWrites, Restoring

LEMMA ExpandHead ==
  ASSUME NEW x, x \in ExpandCalls
  PROVE  x[1] = "write" /\ x = W(x[2], x[3]) /\ <<x[2], x[3]>> \in Provisioned \cup {<<c, "pause">> : c \in Configs}
<1>1. PICK y \in Provisioned \cup {<<c, "pause">> : c \in Configs} : x = W(y[1], y[2])
  BY WriteHead DEF ExpandCalls
<1>2. y = <<y[1], y[2]>>
  BY PairsOfFacts DEF Facts
<1> QED BY <1>1, <1>2 DEF W

LEMMA TemporaryHead ==
  ASSUME NEW name, NEW x, x \in TemporaryCalls(name)
  PROVE  \/ x[1] = "write" /\ x = W(x[2], x[3]) /\ <<x[2], x[3]>> \in TemporaryWrites(name)
         \/ x[1] = "queue" /\ x[2] \in Configs
         \/ x[1] = "await"
         \/ x[1] = "observe"
<1>1. CASE x \in Writes(TemporaryWrites(name))
  <2>1. PICK y \in TemporaryWrites(name) : x = W(y[1], y[2])
    BY <1>1, WriteHead
  <2>2. y = <<y[1], y[2]>>
    BY PairsOfFacts
  <2> QED BY <2>1, <2>2 DEF W
<1>2. CASE x \notin Writes(TemporaryWrites(name))
  BY <1>2 DEF TemporaryCalls
<1> QED BY <1>1, <1>2

LEMMA CleanupHead ==
  ASSUME NEW t, NEW x, x \in CleanupCalls(t)
  PROVE  \/ x[1] = "write" /\ x = W(x[2], x[3]) /\ <<x[2], x[3]>> \in Restoring(t.name, t.seen)
         \/ x[1] \in {"cancel", "delete", "stop"} /\ x[2] \in Known(t) /\ x = <<x[1], x[2]>>
         \/ x[1] = "verify"
         \/ x[1] = "observe"
<1>1. CASE x \in Writes(Restoring(t.name, t.seen))
  <2>1. PICK y \in Restoring(t.name, t.seen) : x = W(y[1], y[2])
    BY <1>1, WriteHead
  <2>2. y = <<y[1], y[2]>>
    BY PairsOfFacts
  <2> QED BY <2>1, <2>2 DEF W
<1>2. CASE x \notin Writes(Restoring(t.name, t.seen))
  BY <1>2 DEF CleanupCalls
<1> QED BY <1>1, <1>2

(* The phase in which each call is made, and its arguments.                *)
LEMMA PhaseOf ==
  ASSUME TypeInv, tool.todo # <<>>, NEW x, x = Head(tool.todo)
  PROVE  /\ x[1] \in {"read", "idle"} => tool.phase = "preflight"
         /\ x[1] = "read" => x = <<"read", x[2]>> /\ x[2] \in Entities
         /\ x[1] \in {"running", "queued"} /\ tool.phase # "preflight" =>
              /\ tool.phase = "main" /\ tool.name = "run_lab"
              /\ x[2] \in {{Beta}, {Composite}} /\ x = <<x[1], x[2]>>
         /\ x[1] \in {"judge", "report"} => tool.phase = "main" /\ tool.name = "run_lab"
         /\ x[1] = "judge" => x[2] \in Configs /\ x = <<"judge", x[2]>>
         /\ x[1] = "queue" =>
              tool.phase = "main" /\ tool.name \in {"run_lab"} \cup Temporary /\ x[2] \in Configs
         /\ x[1] = "queue" /\ tool.name = "run_lab" => x = <<"queue", x[2]>>
         /\ x[1] = "await" => tool.phase = "main" /\ tool.name \in Temporary
         /\ x[1] \in {"cancel", "delete", "stop"} =>
              tool.phase = "cleanup" /\ x[2] \in Known(tool) /\ x = <<x[1], x[2]>>
         /\ x[1] = "verify" => tool.phase = "cleanup"
         /\ x[1] = "observe" => tool.phase \in {"main", "cleanup"} /\ tool.name \in Temporary
         /\ x[1] = "write" => 
              /\ x = W(x[2], x[3])
              /\ \/ /\ tool.phase = "main" /\ tool.name = "expand_lab"
                    /\ <<x[2], x[3]>> \in Provisioned \cup {<<c, "pause">> : c \in Configs}
                 \/ /\ tool.phase = "main" /\ tool.name \in Temporary
                    /\ <<x[2], x[3]>> \in TemporaryWrites(tool.name)
                 \/ tool.phase = "cleanup" /\ <<x[2], x[3]>> \in Restoring(tool.name, tool.seen)
<1>1. /\ x \in CallsOf(tool) /\ tool.name \in Tools
      /\ tool.phase \in {"preflight", "main", "cleanup"}
      /\ tool.phase = "cleanup" => tool.name \in Temporary
  BY HeadOf DEF TypeInv, ToolOK
<1>2. CASE tool.phase = "preflight"
  <2>1. x \in PreflightCalls
    BY <1>1, <1>2 DEF CallsOf
  <2> QED BY <1>2, <2>1, PreflightHead
<1>3. CASE tool.phase = "cleanup"
  <2>1. x \in CleanupCalls(tool)
    BY <1>1, <1>3 DEF CallsOf
  <2> QED BY <1>1, <1>3, <2>1, CleanupHead
<1>4. CASE tool.phase = "main" /\ tool.name = "expand_lab"
  <2>1. x \in ExpandCalls
    BY <1>1, <1>4 DEF CallsOf
  <2> QED BY <1>4, <2>1, ExpandHead
<1>5. CASE tool.phase = "main" /\ tool.name = "run_lab"
  <2>1. x \in RunCalls
    BY <1>1, <1>5 DEF CallsOf
  <2> QED BY <1>5, <2>1, RunHead
<1>6. CASE tool.phase = "main" /\ tool.name \in Temporary
  <2>1. x \in TemporaryCalls(tool.name)
    BY <1>1, <1>6 DEF CallsOf, Temporary
  <2> QED BY <1>6, <2>1, TemporaryHead DEF Temporary
<1> QED BY <1>1, <1>2, <1>3, <1>4, <1>5, <1>6 DEF Tools
-----------------------------------------------------------------------------
(* The calls of each script, written out.                                  *)

LEMMA PutOne ==
  ASSUME NEW e, NEW f
  PROVE  Put(e, <<f>>) = <<W(e, f)>>
BY DEF Put, W

LEMMA PutTwo ==
  ASSUME NEW e, NEW f, NEW g
  PROVE  Put(e, <<f, g>>) = <<W(e, f), W(e, g)>>
BY DEF Put, W

LEMMA ReconcileIs ==
  ASSUME NEW c
  PROVE  Reconcile(c) = <<W(c, "pause"), W(c, "roots"), W(c, "steps"), W(c, "dependencies"),
                          W(c, "artifactRules"), W(c, "active")>>
BY DEF Reconcile, Put, W

LEMMA ReadAllTypes ==
  ASSUME NEW E, NEW T, NEW es \in Seq(E), \A e \in E : <<"read", e>> \in T
  PROVE  ReadAll(es) \in Seq(T) /\ Len(ReadAll(es)) = Len(es)
         /\ \A i \in 1..Len(es) : ReadAll(es)[i] = <<"read", es[i]>>
BY DEF ReadAll

LEMMA RestoreIs ==
  ASSUME NEW c, NEW S
  PROVE  /\ RestoreSteps(c, S) = <<W(c, StepsAgain(c, S))>>
         /\ RestorePaused(c, S) = <<W(c, PausedAgain(c, S))>>
BY PutOne DEF RestoreSteps, RestorePaused, StepsAgain, PausedAgain

LEMMA TupleTypes ==
  ASSUME NEW T
  PROVE  /\ <<>> \in Seq(T)
         /\ \A a \in T : <<a>> \in Seq(T)
         /\ \A a, b \in T : <<a, b>> \in Seq(T)
         /\ \A a, b, c \in T : <<a, b, c>> \in Seq(T)
         /\ \A a, b, c, d, e, f \in T : <<a, b, c, d, e, f>> \in Seq(T)
OBVIOUS

LEMMA TupleHas ==
  ASSUME NEW x
  PROVE  /\ ~Has(<<>>, x)
         /\ \A a : Has(<<a>>, x) <=> x = a
         /\ \A a, b : Has(<<a, b>>, x) <=> x = a \/ x = b
         /\ \A a, b, c : Has(<<a, b, c>>, x) <=> x = a \/ x = b \/ x = c
<1>1. ~Has(<<>>, x)
  BY DEF Has
<1>2. ASSUME NEW a PROVE Has(<<a>>, x) <=> x = a
  <2>1. Len(<<a>>) = 1 /\ <<a>>[1] = a
    OBVIOUS
  <2> QED BY <2>1 DEF Has
<1>3. ASSUME NEW a, NEW b PROVE Has(<<a, b>>, x) <=> x = a \/ x = b
  <2>1. Len(<<a, b>>) = 2 /\ <<a, b>>[1] = a /\ <<a, b>>[2] = b
    OBVIOUS
  <2>2. 1 \in 1..2 /\ 2 \in 1..2 /\ \A j \in 1..2 : j = 1 \/ j = 2
    OBVIOUS
  <2> QED BY <2>1, <2>2 DEF Has
<1>4. ASSUME NEW a, NEW b, NEW c PROVE Has(<<a, b, c>>, x) <=> x = a \/ x = b \/ x = c
  <2>1. Len(<<a, b, c>>) = 3 /\ <<a, b, c>>[1] = a /\ <<a, b, c>>[2] = b /\ <<a, b, c>>[3] = c
    OBVIOUS
  <2>2. 1 \in 1..3 /\ 2 \in 1..3 /\ 3 \in 1..3 /\ \A j \in 1..3 : j = 1 \/ j = 2 \/ j = 3
    OBVIOUS
  <2> QED BY <2>1, <2>2 DEF Has
<1> QED BY <1>1, <1>2, <1>3, <1>4

LEMMA WriteIn ==
  ASSUME NEW F, NEW e, NEW f, <<e, f>> \in F
  PROVE  W(e, f) \in Writes(F)
<1>1. W(<<e, f>>[1], <<e, f>>[2]) = W(e, f)
  OBVIOUS
<1> QED BY <1>1 DEF Writes

LEMMA PreflightTypes ==
  ASSUME NEW name \in Tools
  PROVE  Preflight(name) \in Seq(PreflightCalls)
<1>1. \A e \in Entities : <<"read", e>> \in PreflightCalls
  BY DEF PreflightCalls
<1>2. \A S \in SUBSET Configs : <<"running", S>> \in PreflightCalls /\ <<"queued", S>> \in PreflightCalls
  BY DEF PreflightCalls
<1>3. <<"idle">> \in PreflightCalls
  BY DEF PreflightCalls
<1>4. /\ <<"bbProject", "repo", "tcProject", "root", Beta, Composite>> \in Seq(Entities)
      /\ <<Composite, Beta>> \in Seq(Entities) /\ <<Beta, Composite>> \in Seq(Entities)
  BY DEF Entities
<1>5. CASE name = "expand_lab"
  <2>1. Preflight(name) = ReadAll(<<"bbProject", "repo", "tcProject", "root", Beta, Composite>>)
    BY <1>5 DEF Preflight
  <2> QED BY <2>1, <1>1, <1>4, ReadAllTypes
<1>6. CASE name = "check_lab_states"
  <2>1. Preflight(name) = ReadAll(<<Composite, Beta>>) \o Active(Configs) \o <<<<"idle">>>>
    BY <1>6 DEF Preflight
  <2>2. ReadAll(<<Composite, Beta>>) \in Seq(PreflightCalls)
    BY <1>1, <1>4, ReadAllTypes
  <2>3. Active(Configs) \in Seq(PreflightCalls)
    BY <1>2, TupleTypes DEF Active
  <2>4. <<<<"idle">>>> \in Seq(PreflightCalls)
    BY <1>3, TupleTypes
  <2> QED BY <2>1, <2>2, <2>3, <2>4
<1>7. CASE name \notin {"expand_lab", "check_lab_states"}
  <2>1. Preflight(name) = ReadAll(<<Beta, Composite>>)
    BY <1>7 DEF Preflight
  <2> QED BY <2>1, <1>1, <1>4, ReadAllTypes
<1> QED BY <1>5, <1>6, <1>7

LEMMA PassTypes == Pass \in Seq(RunCalls)
<1>1. \A S \in {{Beta}, {Composite}} : <<"running", S>> \in RunCalls /\ <<"queued", S>> \in RunCalls
  BY DEF RunCalls
<1>2. <<"judge", Beta>> \in RunCalls /\ <<"judge", Composite>> \in RunCalls /\ <<"report">> \in RunCalls
  BY DEF RunCalls, Configs
<1> QED BY <1>1, <1>2 DEF Pass

LEMMA MakeIs ==
  ASSUME NEW S, NEW e, NEW f, <<e, f>> \in Provisioned
  PROVE  /\ Make(<<e, f>>, S) = IF <<e, f>> \in S THEN <<>> ELSE <<W(e, f)>>
         /\ Make(<<e, f>>, S) \in Seq(ExpandCalls)
<1>1. Make(<<e, f>>, S) = IF <<e, f>> \in S THEN <<>> ELSE <<W(e, f)>>
  BY PutOne DEF Make
<1>2. W(e, f) \in ExpandCalls
  BY WriteIn DEF ExpandCalls
<1> QED BY <1>1, <1>2, TupleTypes

LEMMA ReconcileTypes ==
  ASSUME NEW c \in Configs
  PROVE  Reconcile(c) \in Seq(ExpandCalls)
<1> DEFINE planned == Provisioned \cup {<<d, "pause">> : d \in Configs}
<1>1. ASSUME NEW f \in {"pause", "roots", "steps", "dependencies", "artifactRules", "active"}
      PROVE  W(c, f) \in ExpandCalls
  <2>1. <<c, "pause">> \in planned
    OBVIOUS
  <2>2. f # "pause" => <<c, f>> \in planned
    BY DEF Provisioned, PlannedFacts, Fields, Configs
  <2> HIDE DEF planned
  <2>3. W(c, f) \in Writes(planned)
    BY <2>1, <2>2, WriteIn
  <2> QED BY <2>3 DEF ExpandCalls, planned
<1> QED BY <1>1, ReconcileIs, TupleTypes

(* In the calls s, configuration c is activated only after its fields are  *)
(* written, and activated again whenever it is paused.                     *)
ActivatesLast(s, c) ==
  /\ \A f \in Core \cup {"steps"} : Before(s, W(c, f), W(c, "active"))
  /\ Followed(s, W(c, "pause"), W(c, "active"))

LEMMA OtherCalls ==
  ASSUME NEW s, NEW c,
         \A j \in 1..Len(s) : s[j] # W(c, "active") /\ s[j] # W(c, "pause")
  PROVE  ActivatesLast(s, c)
BY DEF ActivatesLast, Before, Followed

LEMMA ActivatesConcat ==
  ASSUME NEW c, NEW T, NEW s \in Seq(T), NEW t \in Seq(T), ActivatesLast(s, c), ActivatesLast(t, c)
  PROVE  ActivatesLast(s \o t, c)
<1>1. ASSUME NEW f \in Core \cup {"steps"} PROVE Before(s \o t, W(c, f), W(c, "active"))
  <2>1. Before(s, W(c, f), W(c, "active")) /\ Before(t, W(c, f), W(c, "active"))
    BY DEF ActivatesLast
  <2> QED BY <2>1, BeforeConcat
<1>2. Followed(s \o t, W(c, "pause"), W(c, "active"))
  <2>1. Followed(s, W(c, "pause"), W(c, "active")) /\ Followed(t, W(c, "pause"), W(c, "active"))
    BY DEF ActivatesLast
  <2> QED BY <2>1, FollowedConcat
<1> QED BY <1>1, <1>2 DEF ActivatesLast

LEMMA MakeActivates ==
  ASSUME NEW S, NEW e, NEW f, NEW c, <<e, f>> \in Provisioned, f \notin {"active", "pause"}
  PROVE  ActivatesLast(Make(<<e, f>>, S), c)
<1>1. W(e, f) # W(c, "active") /\ W(e, f) # W(c, "pause")
  BY DEF W
<1>2. Make(<<e, f>>, S) = IF <<e, f>> \in S THEN <<>> ELSE <<W(e, f)>>
  BY MakeIs
<1>3. \A j \in 1..Len(<<W(e, f)>>) : <<W(e, f)>>[j] = W(e, f)
  OBVIOUS
<1>4. \A j \in 1..Len(<<>>) : FALSE
  OBVIOUS
<1> QED BY <1>1, <1>2, <1>3, <1>4, OtherCalls

LEMMA ReconcileActivates ==
  ASSUME NEW d \in Configs, NEW c \in Configs
  PROVE  ActivatesLast(Reconcile(d), c)
<1> DEFINE s == <<W(d, "pause"), W(d, "roots"), W(d, "steps"), W(d, "dependencies"),
                  W(d, "artifactRules"), W(d, "active")>>
<1>1. /\ Len(s) = 6 /\ s[1] = W(d, "pause") /\ s[2] = W(d, "roots") /\ s[3] = W(d, "steps")
      /\ s[4] = W(d, "dependencies") /\ s[5] = W(d, "artifactRules") /\ s[6] = W(d, "active")
  OBVIOUS
<1>2. \A j \in 1..6 : j = 1 \/ j = 2 \/ j = 3 \/ j = 4 \/ j = 5 \/ j = 6
  OBVIOUS
<1>3. Reconcile(d) = s
  BY ReconcileIs
<1> HIDE DEF s
<1>4. CASE c # d
  <2>1. \A f, g : W(d, f) # W(c, g)
    BY <1>4 DEF W
  <2> QED BY <2>1, <1>1, <1>2, <1>3, OtherCalls
<1>5. CASE c = d
  <2>1. /\ W(d, "pause") # W(d, "active") /\ W(d, "roots") # W(d, "active") /\ W(d, "steps") # W(d, "active")
        /\ W(d, "dependencies") # W(d, "active") /\ W(d, "artifactRules") # W(d, "active")
        /\ W(d, "pause") # W(d, "roots") /\ W(d, "pause") # W(d, "steps") /\ W(d, "pause") # W(d, "dependencies")
        /\ W(d, "pause") # W(d, "artifactRules")
    BY DEF W
  <2>2. \A f \in Core \cup {"steps"} : \E i \in 1..6 : i < 6 /\ s[i] = W(d, f)
    <3>1. 2 \in 1..6 /\ 3 \in 1..6 /\ 4 \in 1..6 /\ 5 \in 1..6 /\ 2 < 6 /\ 3 < 6 /\ 4 < 6 /\ 5 < 6
      OBVIOUS
    <3> QED BY <3>1, <1>1 DEF Core
  <2>3. \A j \in 1..6 : s[j] = W(d, "active") => j = 6
    BY <1>1, <1>2, <2>1
  <2>4. \A j \in 1..6 : s[j] = W(d, "pause") => j = 1
    BY <1>1, <1>2, <2>1
  <2>5. 6 \in 1..6 /\ 1 < 6
    OBVIOUS
  <2>6. ASSUME NEW f \in Core \cup {"steps"} PROVE Before(s, W(d, f), W(d, "active"))
    BY <1>1, <2>2, <2>3 DEF Before
  <2>7. Followed(s, W(d, "pause"), W(d, "active"))
    BY <1>1, <2>4, <2>5 DEF Followed
  <2> QED BY <2>6, <2>7, <1>3, <1>5 DEF ActivatesLast
<1> QED BY <1>4, <1>5

LEMMA PlannedFactsAre ==
  /\ \A c \in Configs : PlannedFacts(c) = {<<c, "roots">>, <<c, "steps">>, <<c, "dependencies">>,
                                           <<c, "artifactRules">>, <<c, "active">>, <<c, "made">>}
  /\ \A x \in Provisioned : x \in PlannedEntities \/ x \in PlannedFacts(Composite) \/ x \in PlannedFacts(Beta)
  /\ PlannedEntities \subseteq Provisioned
  /\ \A c \in Configs : PlannedFacts(c) \subseteq Provisioned
  /\ Composite \in Configs /\ Beta \in Configs /\ Composite # Beta
  /\ \A c \in Configs : c = Composite \/ c = Beta
BY DEF PlannedFacts, Provisioned, Configs, Fields, Composite, Beta

(* The plan brings what is missing, and activates last.                    *)
LEMMA PlanIs ==
  ASSUME NEW S
  PROVE  /\ ProvisionPlan(S) \in Seq(ExpandCalls)
         /\ \A c \in Configs : ActivatesLast(ProvisionPlan(S), c)
         /\ \A x \in PlannedEntities : x # <<"tcProject", "description">>
              => x \in S \/ Has(ProvisionPlan(S), W(x[1], x[2]))
         /\ <<"tcProject", "made">> \in S \/ Has(ProvisionPlan(S), W("tcProject", "description"))
         /\ \A c \in Configs : /\ <<c, "made">> \in S \/ Has(ProvisionPlan(S), W(c, "made"))
                               /\ \/ Matches(S, c)
                                  \/ \A f \in Core \cup {"steps", "active"} :
                                       Has(ProvisionPlan(S), W(c, f))
<1> DEFINE p1 == Make(<<"bbProject", "made">>, S)
           p2 == Make(<<"repo", "made">>, S)
           p3 == Make(<<"repo", "source">>, S)
           p4 == Make(<<"repo", "mainBranch">>, S)
           p5 == IF <<"tcProject", "made">> \in S THEN <<>> ELSE Put("tcProject", <<"made", "description">>)
           p6 == Make(<<"root", "made">>, S)
           p7 == Make(<<Beta, "made">>, S)
           p8 == Make(<<Composite, "made">>, S)
           p9 == IF Matches(S, Beta) THEN <<>> ELSE Reconcile(Beta)
           p10 == IF Matches(S, Composite) THEN <<>> ELSE Reconcile(Composite)
           p11 == Put("reader", <<"role">>)
           Fine(s) == s \in Seq(ExpandCalls) /\ \A c \in Configs : ActivatesLast(s, c)
           Brings(s, e, f) == <<e, f>> \in S \/ Has(s, W(e, f))
<1>1. ProvisionPlan(S) = p1 \o p2 \o p3 \o p4 \o p5 \o p6 \o p7 \o p8 \o p9 \o p10 \o p11
  BY DEF ProvisionPlan
<1>2. \A s, t : Fine(s) /\ Fine(t) => Fine(s \o t)
  BY ActivatesConcat, ConcatOf
<1>3. \A s, t, e, f : Fine(s) /\ Fine(t) /\ (Brings(s, e, f) \/ Brings(t, e, f)) => Brings(s \o t, e, f)
  BY HasConcat
<1>4. Fine(<<>>)
  <2>1. \A j \in 1..Len(<<>>) : FALSE
    OBVIOUS
  <2> QED BY <2>1, OtherCalls
<1>5. ASSUME NEW e, NEW f, <<e, f>> \in Provisioned, f \notin {"active", "pause"}
      PROVE  Fine(Make(<<e, f>>, S)) /\ Brings(Make(<<e, f>>, S), e, f)
  <2>1. Fine(Make(<<e, f>>, S))
    BY <1>5, MakeIs, MakeActivates
  <2>2. Make(<<e, f>>, S) = IF <<e, f>> \in S THEN <<>> ELSE <<W(e, f)>>
    BY <1>5, MakeIs
  <2>3. Has(<<W(e, f)>>, W(e, f))
    BY TupleHas
  <2> QED BY <2>1, <2>2, <2>3
<1>6. /\ <<"bbProject", "made">> \in Provisioned /\ <<"repo", "made">> \in Provisioned
      /\ <<"repo", "source">> \in Provisioned /\ <<"repo", "mainBranch">> \in Provisioned
      /\ <<"root", "made">> \in Provisioned
      /\ <<Beta, "made">> \in Provisioned /\ <<Composite, "made">> \in Provisioned
      /\ <<"tcProject", "made">> \in Provisioned /\ <<"tcProject", "description">> \in Provisioned
      /\ <<"reader", "role">> \in Provisioned
  BY DEF Provisioned, PlannedEntities, PlannedFacts
<1>7. /\ Fine(p1) /\ Fine(p2) /\ Fine(p3) /\ Fine(p4) /\ Fine(p6) /\ Fine(p7) /\ Fine(p8)
      /\ Brings(p1, "bbProject", "made") /\ Brings(p2, "repo", "made") /\ Brings(p3, "repo", "source")
      /\ Brings(p4, "repo", "mainBranch") /\ Brings(p6, "root", "made")
      /\ Brings(p7, Beta, "made") /\ Brings(p8, Composite, "made")
  BY <1>5, <1>6
<1>8. /\ Fine(p5) /\ Brings(p5, "tcProject", "made")
      /\ <<"tcProject", "made">> \in S \/ Has(p5, W("tcProject", "description"))
  <2> DEFINE two == <<W("tcProject", "made"), W("tcProject", "description")>>
  <2>1. Put("tcProject", <<"made", "description">>) = two
    BY PutTwo
  <2>2. Has(two, W("tcProject", "made")) /\ Has(two, W("tcProject", "description"))
    BY TupleHas
  <2>3. Fine(two)
    <3>1. two \in Seq(ExpandCalls)
      <4>1. W("tcProject", "made") \in ExpandCalls /\ W("tcProject", "description") \in ExpandCalls
        BY <1>6, WriteIn DEF ExpandCalls
      <4> QED BY <4>1, TupleTypes
    <3>2. \A j \in 1..Len(two) : two[j] = W("tcProject", "made") \/ two[j] = W("tcProject", "description")
      OBVIOUS
    <3>3. \A c \in Configs, j \in 1..Len(two) : two[j] # W(c, "active") /\ two[j] # W(c, "pause")
      BY <3>2 DEF W
    <3> QED BY <3>1, <3>3, OtherCalls
  <2> HIDE DEF two
  <2> QED BY <2>1, <2>2, <2>3, <1>4
<1>9. Fine(p11) /\ Has(p11, W("reader", "role"))
  <2> DEFINE one == <<W("reader", "role")>>
  <2>1. p11 = one
    BY PutOne
  <2>2. Has(one, W("reader", "role"))
    BY TupleHas
  <2>3. one \in Seq(ExpandCalls)
    <3>1. W("reader", "role") \in ExpandCalls
      BY <1>6, WriteIn DEF ExpandCalls
    <3> QED BY <3>1, TupleTypes
  <2>4. \A c \in Configs, j \in 1..Len(one) : one[j] # W(c, "active") /\ one[j] # W(c, "pause")
    BY DEF W
  <2> QED BY <2>1, <2>2, <2>3, <2>4, OtherCalls
<1>10. ASSUME NEW c \in Configs
       PROVE  /\ Fine(Reconcile(c))
              /\ \A f \in Core \cup {"steps", "active"} : Has(Reconcile(c), W(c, f))
  <2>1. Fine(Reconcile(c))
    BY ReconcileTypes, ReconcileActivates
  <2>2. ASSUME NEW f \in Core \cup {"steps", "active"} PROVE Has(Reconcile(c), W(c, f))
    <3> DEFINE s == <<W(c, "pause"), W(c, "roots"), W(c, "steps"), W(c, "dependencies"),
                      W(c, "artifactRules"), W(c, "active")>>
    <3>1. /\ Len(s) = 6 /\ s[2] = W(c, "roots") /\ s[3] = W(c, "steps")
          /\ s[4] = W(c, "dependencies") /\ s[5] = W(c, "artifactRules") /\ s[6] = W(c, "active")
      OBVIOUS
    <3>2. 2 \in 1..6 /\ 3 \in 1..6 /\ 4 \in 1..6 /\ 5 \in 1..6 /\ 6 \in 1..6
      OBVIOUS
    <3>3. Reconcile(c) = s
      BY ReconcileIs
    <3> HIDE DEF s
    <3> QED BY <3>1, <3>2, <3>3 DEF Has, Core
  <2> QED BY <2>1, <2>2
<1>11. /\ Fine(p9) /\ Fine(p10)
       /\ Matches(S, Beta) \/ \A f \in Core \cup {"steps", "active"} : Has(p9, W(Beta, f))
       /\ Matches(S, Composite) \/ \A f \in Core \cup {"steps", "active"} : Has(p10, W(Composite, f))
  <2>1. Beta \in Configs /\ Composite \in Configs
    BY DEF Configs
  <2> QED BY <2>1, <1>4, <1>10
<1> HIDE DEF p1, p2, p3, p4, p5, p6, p7, p8, p9, p10, p11
<1> DEFINE q2 == p1 \o p2  q3 == q2 \o p3  q4 == q3 \o p4  q5 == q4 \o p5  q6 == q5 \o p6
           q7 == q6 \o p7  q8 == q7 \o p8  q9 == q8 \o p9  q10 == q9 \o p10  q11 == q10 \o p11
<1>12. ProvisionPlan(S) = q11
  BY <1>1
<1>13. Fine(q2) /\ Fine(q3) /\ Fine(q4) /\ Fine(q5) /\ Fine(q6) /\ Fine(q7) /\ Fine(q8) /\ Fine(q9)
       /\ Fine(q10) /\ Fine(q11)
  <2> HIDE DEF Fine
  <2>1. Fine(q2) BY <1>2, <1>7
  <2>2. Fine(q3) BY <1>2, <1>7, <2>1
  <2>3. Fine(q4) BY <1>2, <1>7, <2>2
  <2>4. Fine(q5) BY <1>2, <1>8, <2>3
  <2>5. Fine(q6) BY <1>2, <1>7, <2>4
  <2>6. Fine(q7) BY <1>2, <1>7, <2>5
  <2>7. Fine(q8) BY <1>2, <1>7, <2>6
  <2>8. Fine(q9) BY <1>2, <1>11, <2>7
  <2>9. Fine(q10) BY <1>2, <1>11, <2>8
  <2>10. Fine(q11) BY <1>2, <1>9, <2>9
  <2> QED BY <2>1, <2>2, <2>3, <2>4, <2>5, <2>6, <2>7, <2>8, <2>9, <2>10
<1>14. ASSUME NEW x,
              \/ Has(p1, x) \/ Has(p2, x) \/ Has(p3, x) \/ Has(p4, x) \/ Has(p5, x) \/ Has(p6, x)
              \/ Has(p7, x) \/ Has(p8, x) \/ Has(p9, x) \/ Has(p10, x) \/ Has(p11, x)
       PROVE  Has(q11, x)
  <2>1. \A s, t : Fine(s) /\ Fine(t) /\ (Has(s, x) \/ Has(t, x)) => Has(s \o t, x)
    BY HasConcat
  <2> HIDE DEF Fine
  <2>2. Has(p1, x) \/ Has(p2, x) => Has(q2, x)
    BY <2>1, <1>7
  <2>3. Has(q2, x) \/ Has(p3, x) => Has(q3, x)
    BY <2>1, <1>7, <1>13
  <2>4. Has(q3, x) \/ Has(p4, x) => Has(q4, x)
    BY <2>1, <1>7, <1>13
  <2>5. Has(q4, x) \/ Has(p5, x) => Has(q5, x)
    BY <2>1, <1>8, <1>13
  <2>6. Has(q5, x) \/ Has(p6, x) => Has(q6, x)
    BY <2>1, <1>7, <1>13
  <2>7. Has(q6, x) \/ Has(p7, x) => Has(q7, x)
    BY <2>1, <1>7, <1>13
  <2>8. Has(q7, x) \/ Has(p8, x) => Has(q8, x)
    BY <2>1, <1>7, <1>13
  <2>9. Has(q8, x) \/ Has(p9, x) => Has(q9, x)
    BY <2>1, <1>11, <1>13
  <2>10. Has(q9, x) \/ Has(p10, x) => Has(q10, x)
    BY <2>1, <1>11, <1>13
  <2>11. Has(q10, x) \/ Has(p11, x) => Has(q11, x)
    BY <2>1, <1>9, <1>13
  <2> QED BY <1>14, <2>2, <2>3, <2>4, <2>5, <2>6, <2>7, <2>8, <2>9, <2>10, <2>11
<1> HIDE DEF q11
<1>15. ASSUME NEW x \in PlannedEntities, x # <<"tcProject", "description">>
       PROVE  x \in S \/ Has(ProvisionPlan(S), W(x[1], x[2]))
  <2>1. \/ x = <<"bbProject", "made">> \/ x = <<"repo", "made">> \/ x = <<"repo", "source">>
        \/ x = <<"repo", "mainBranch">> \/ x = <<"tcProject", "made">> \/ x = <<"root", "made">>
        \/ x = <<"reader", "role">>
    BY <1>15 DEF PlannedEntities
  <2>2. <<x[1], x[2]>> = x
    BY <2>1
  <2>3. \E p \in {p1, p2, p3, p4, p5, p6, p11} : x \in S \/ Has(p, W(x[1], x[2]))
    <3>1. CASE x = <<"bbProject", "made">>
      BY <3>1, <1>7
    <3>2. CASE x = <<"repo", "made">>
      BY <3>2, <1>7
    <3>3. CASE x = <<"repo", "source">>
      BY <3>3, <1>7
    <3>4. CASE x = <<"repo", "mainBranch">>
      BY <3>4, <1>7
    <3>5. CASE x = <<"tcProject", "made">>
      BY <3>5, <1>8
    <3>6. CASE x = <<"root", "made">>
      BY <3>6, <1>7
    <3>7. CASE x = <<"reader", "role">>
      BY <3>7, <1>9
    <3> QED BY <2>1, <3>1, <3>2, <3>3, <3>4, <3>5, <3>6, <3>7
  <2> QED BY <2>3, <1>12, <1>14
<1>16. <<"tcProject", "made">> \in S \/ Has(ProvisionPlan(S), W("tcProject", "description"))
  BY <1>8, <1>12, <1>14
<1>17. ASSUME NEW c \in Configs
       PROVE  /\ <<c, "made">> \in S \/ Has(ProvisionPlan(S), W(c, "made"))
              /\ \/ Matches(S, c)
                 \/ \A f \in Core \cup {"steps", "active"} : Has(ProvisionPlan(S), W(c, f))
  <2>1. c = Beta \/ c = Composite
    BY DEF Configs
  <2> QED BY <2>1, <1>7, <1>11, <1>12, <1>14
<1> QED BY <1>12, <1>13, <1>15, <1>16, <1>17

LEMMA SeqOfMore ==
  ASSUME NEW S, NEW T, S \subseteq T, NEW s \in Seq(S)
  PROVE  s \in Seq(T)
OBVIOUS

LEMMA TemporaryTypes ==
  /\ CheckStates \in Seq(TemporaryCalls("check_lab_states"))
  /\ SeedStates \in Seq(TemporaryCalls("seed_live_states"))
<1> DEFINE behind == <<<<"queue", Composite>>, <<"await", "running">>, <<"queue", Composite>>,
                       <<"await", "queued">>, <<"observe">>>>
           failing == <<<<"queue", Beta>>, <<"await", "failed">>>>
<1>1. ASSUME NEW name
      PROVE  /\ Put(Composite, <<"temporary">>) \in Seq(TemporaryCalls(name))
             /\ Put(Beta, <<"pause">>) \in Seq(TemporaryCalls(name))
             /\ behind \in Seq(TemporaryCalls(name)) /\ failing \in Seq(TemporaryCalls(name))
  <2>1. <<Composite, "temporary">> \in TemporaryWrites(name) /\ <<Beta, "pause">> \in TemporaryWrites(name)
    BY DEF TemporaryWrites
  <2>2. W(Composite, "temporary") \in TemporaryCalls(name) /\ W(Beta, "pause") \in TemporaryCalls(name)
    BY <2>1, WriteIn DEF TemporaryCalls
  <2>3. /\ <<"queue", Composite>> \in TemporaryCalls(name) /\ <<"queue", Beta>> \in TemporaryCalls(name)
        /\ <<"await", "running">> \in TemporaryCalls(name) /\ <<"await", "queued">> \in TemporaryCalls(name)
        /\ <<"await", "failed">> \in TemporaryCalls(name) /\ <<"observe">> \in TemporaryCalls(name)
    BY DEF TemporaryCalls, Configs
  <2>4. Put(Composite, <<"temporary">>) \in Seq(TemporaryCalls(name))
        /\ Put(Beta, <<"pause">>) \in Seq(TemporaryCalls(name))
    BY <2>2, PutOne, TupleTypes
  <2> DEFINE calls == TemporaryCalls(name)
  <2> HIDE DEF calls
  <2>5. /\ <<"queue", Composite>> \in calls /\ <<"queue", Beta>> \in calls
        /\ <<"await", "running">> \in calls /\ <<"await", "queued">> \in calls
        /\ <<"await", "failed">> \in calls /\ <<"observe">> \in calls
    BY <2>3 DEF calls
  <2>6. behind \in Seq(calls) /\ failing \in Seq(calls)
    BY <2>5
  <2> QED BY <2>4, <2>6 DEF calls
<1>2. Put(Beta, <<"temporary">>) \in Seq(TemporaryCalls("seed_live_states"))
  <2>1. <<Beta, "temporary">> \in TemporaryWrites("seed_live_states")
    BY DEF TemporaryWrites
  <2>2. W(Beta, "temporary") \in TemporaryCalls("seed_live_states")
    BY <2>1, WriteIn DEF TemporaryCalls
  <2> QED BY <2>2, PutOne, TupleTypes
<1> HIDE DEF failing
<1>3. SeedStates = Put(Beta, <<"temporary">>) \o failing \o Put(Beta, <<"pause">>) \o LongRunning
  BY DEF SeedStates, failing
<1> HIDE DEF behind
<1>4. LongRunning = Put(Composite, <<"temporary">>) \o behind
  BY DEF LongRunning, behind
<1>5. \A name : LongRunning \in Seq(TemporaryCalls(name))
  BY <1>1, <1>4
<1>6. CheckStates \in Seq(TemporaryCalls("check_lab_states"))
  BY <1>1, <1>5 DEF CheckStates
<1>7. SeedStates \in Seq(TemporaryCalls("seed_live_states"))
  BY <1>1, <1>2, <1>3, <1>5
<1> QED BY <1>6, <1>7

(* The cleanup cancels every build the script knows and writes back every  *)
(* setting the script changes.                                             *)
LEMMA CleanupIs ==
  ASSUME NEW t, NEW n, ToolOK(t, n), t.name \in Temporary
  PROVE  /\ Cleanup(t) \in Seq(CleanupCalls(t))
         /\ \A i \in Known(t) : Has(Cleanup(t), <<"cancel", i>>)
         /\ \A i : ~Has(Cleanup(t), <<"stop", i>>)
         /\ \A x \in Restoring(t.name, t.seen) : Has(Cleanup(t), W(x[1], x[2]))
<1> DEFINE first == ({"cancel"} \X Known(t)) \cup Writes(Restoring(t.name, t.seen))
                       \cup {<<"verify">>, <<"observe">>}
           cancels == [i \in DOMAIN t.created |-> <<"cancel", t.created[i]>>]
           rest == IF t.name = "check_lab_states" THEN CheckCleanup(t.seen) ELSE SeedCleanup(t.seen)
           steps == W(Composite, StepsAgain(Composite, t.seen))
           paused == W(Beta, PausedAgain(Beta, t.seen))
           betas == W(Beta, StepsAgain(Beta, t.seen))
           checked == <<<<"verify">>, <<"observe">>>>
           observed == <<<<"observe">>>>
<1>1. Cleanup(t) = cancels \o rest
  BY DEF Cleanup, ToCancel
<1>2. /\ DOMAIN t.created = 1..Len(t.created) /\ Len(t.created) \in Nat
      /\ \A i \in 1..Len(t.created) : t.created[i] \in Known(t)
  BY DEF ToolOK, Known
<1>3. /\ cancels \in Seq(first) /\ Len(cancels) = Len(t.created)
      /\ \A i \in 1..Len(t.created) : cancels[i] = <<"cancel", t.created[i]>>
  <2>1. \A i \in 1..Len(t.created) : <<"cancel", t.created[i]>> \in first
    BY <1>2
  <2> HIDE DEF first
  <2> QED BY <1>2, <2>1
<1>4. \A i \in Known(t) : Has(cancels, <<"cancel", i>>)
  <2> SUFFICES ASSUME NEW i \in Known(t) PROVE Has(cancels, <<"cancel", i>>)
    OBVIOUS
  <2>1. PICK k \in 1..Len(t.created) : i = t.created[k]
    BY <1>2 DEF Known
  <2> QED BY <2>1, <1>3 DEF Has
<1>5. steps \in first /\ paused \in first /\ <<"verify">> \in first /\ <<"observe">> \in first
      /\ (t.name = "seed_live_states" => betas \in first)
  <2>1. /\ <<Composite, StepsAgain(Composite, t.seen)>> \in Restoring(t.name, t.seen)
        /\ <<Beta, PausedAgain(Beta, t.seen)>> \in Restoring(t.name, t.seen)
        /\ t.name = "seed_live_states" => <<Beta, StepsAgain(Beta, t.seen)>> \in Restoring(t.name, t.seen)
    BY DEF Restoring
  <2>2. /\ steps \in Writes(Restoring(t.name, t.seen)) /\ paused \in Writes(Restoring(t.name, t.seen))
        /\ (t.name = "seed_live_states" => betas \in Writes(Restoring(t.name, t.seen)))
    BY <2>1, WriteIn
  <2> QED BY <2>2
<1> HIDE DEF first, cancels
<1>6. /\ rest \in Seq(first) /\ Has(rest, steps) /\ Has(rest, paused)
      /\ t.name = "seed_live_states" => Has(rest, betas)
  <2>1. /\ <<steps>> \in Seq(first) /\ <<paused>> \in Seq(first) /\ checked \in Seq(first)
        /\ observed \in Seq(first)
        /\ t.name = "seed_live_states" => <<betas>> \in Seq(first)
    BY <1>5, TupleTypes
  <2>2. Has(<<steps>>, steps) /\ Has(<<paused>>, paused) /\ Has(<<betas>>, betas)
    BY TupleHas
  <2>3. CheckCleanup(t.seen) = <<steps>> \o <<paused>> \o checked
    BY RestoreIs DEF CheckCleanup
  <2>4. SeedCleanup(t.seen) = <<betas>> \o <<steps>> \o <<paused>> \o observed
    BY RestoreIs DEF SeedCleanup
  <2> DEFINE s1 == <<steps>>  p1 == <<paused>>  b1 == <<betas>>
  <2>5. /\ s1 \in Seq(first) /\ p1 \in Seq(first) /\ checked \in Seq(first) /\ observed \in Seq(first)
        /\ t.name = "seed_live_states" => b1 \in Seq(first)
        /\ Has(s1, steps) /\ Has(p1, paused) /\ Has(b1, betas)
        /\ CheckCleanup(t.seen) = s1 \o p1 \o checked
        /\ SeedCleanup(t.seen) = b1 \o s1 \o p1 \o observed
    BY <2>1, <2>2, <2>3, <2>4
  <2>6. \A r, s \in Seq(first) :
          r \o s \in Seq(first) /\ \A x : Has(r, x) \/ Has(s, x) => Has(r \o s, x)
    BY HasConcat
  <2> HIDE DEF steps, paused, betas, checked, observed, s1, p1, b1
  <2>7. CASE t.name = "check_lab_states"
    <3>1. s1 \o p1 \in Seq(first) /\ Has(s1 \o p1, steps) /\ Has(s1 \o p1, paused)
      BY <2>5, <2>6
    <3>2. rest = (s1 \o p1) \o checked
      BY <2>5, <2>7
    <3> DEFINE r == s1 \o p1
    <3>3. r \in Seq(first) /\ Has(r, steps) /\ Has(r, paused) /\ rest = r \o checked
      BY <3>1, <3>2
    <3> HIDE DEF rest, r
    <3> QED BY <2>5, <2>6, <2>7, <3>3
  <2>8. CASE t.name = "seed_live_states"
    <3>1. b1 \o s1 \in Seq(first) /\ Has(b1 \o s1, steps) /\ Has(b1 \o s1, betas)
      BY <2>5, <2>6, <2>8
    <3>2. /\ (b1 \o s1) \o p1 \in Seq(first) /\ Has((b1 \o s1) \o p1, steps)
          /\ Has((b1 \o s1) \o p1, betas) /\ Has((b1 \o s1) \o p1, paused)
      BY <2>5, <2>6, <3>1
    <3>3. rest = ((b1 \o s1) \o p1) \o observed
      BY <2>5, <2>8
    <3> DEFINE r == (b1 \o s1) \o p1
    <3>4. /\ r \in Seq(first) /\ Has(r, steps) /\ Has(r, betas) /\ Has(r, paused)
          /\ rest = r \o observed
      BY <3>2, <3>3
    <3> HIDE DEF rest, r
    <3> QED BY <2>5, <2>6, <3>4
  <2> QED BY <2>7, <2>8 DEF Temporary
<1> HIDE DEF rest
<1>7. Cleanup(t) \in Seq(first)
  BY <1>1, <1>3, <1>6
<1>8. first \subseteq CleanupCalls(t)
  BY DEF first, CleanupCalls
<1>9. ASSUME NEW i PROVE ~Has(Cleanup(t), <<"stop", i>>)
  <2>1. <<"stop", i>> \notin first
    BY DEF first, Writes, W
  <2> QED BY <1>7, <2>1 DEF Has
<1>10. ASSUME NEW i \in Known(t) PROVE Has(Cleanup(t), <<"cancel", i>>)
  BY <1>1, <1>3, <1>4, <1>6, HasConcat
<1>11. Has(Cleanup(t), steps) /\ Has(Cleanup(t), paused) /\ (t.name = "seed_live_states" => Has(Cleanup(t), betas))
  BY <1>1, <1>3, <1>6, HasConcat
<1>12. ASSUME NEW x \in Restoring(t.name, t.seen) PROVE Has(Cleanup(t), W(x[1], x[2]))
  BY <1>11 DEF Restoring
<1> QED BY <1>7, <1>8, <1>9, <1>10, <1>12, SeqOfMore

-----------------------------------------------------------------------------
(* Types.                                                                  *)

LEMMA IdleOK ==
  ASSUME NEW n \in Nat
  PROVE  ToolOK(Idle, n)
<1>1. Record(Idle)
  BY DEF Record, Idle
<1> QED BY <1>1 DEF ToolOK, Idle, Tools, Temporary

LEMMA MoreBuilds ==
  ASSUME NEW t, NEW n \in Nat, NEW m \in Nat, n <= m, ToolOK(t, n)
  PROVE  ToolOK(t, m)
<1>1. 1..n \subseteq 1..m
  OBVIOUS
<1>2. t.created \in Seq(1..n)
  BY DEF ToolOK
<1>3. t.created \in Seq(1..m)
  BY <1>1, <1>2, SeqOfMore
<1> QED BY <1>3 DEF ToolOK

(* A script that goes on in its phase.                                     *)
LEMMA GoesOn ==
  ASSUME NEW t, NEW u, NEW n, ToolOK(t, n), t.name # "none", Record(u),
         u.name = t.name, u.phase = t.phase, u.todo \in Seq(CallsOf(t)),
         u.seen \in SUBSET Facts, u.created \in Seq(1..n),
         t.phase = "cleanup" => u.seen = t.seen /\ u.created = t.created,
         u.active \in BOOLEAN, u.incomplete \in BOOLEAN, u.failed \in BOOLEAN, u.late \in BOOLEAN
  PROVE  ToolOK(u, n)
<1>1. CallsOf(u) = CallsOf(t)
  <2>1. t.phase = "cleanup" => CleanupCalls(u) = CleanupCalls(t)
    BY DEF CleanupCalls, Known
  <2> QED BY <2>1 DEF CallsOf
<1> QED BY <1>1 DEF ToolOK

(* The fields of a record after an update.                                 *)
LEMMA UpdateTodo ==
  ASSUME NEW t, Record(t), NEW s, NEW u, u = [t EXCEPT !.todo = s]
  PROVE  /\ Record(u) /\ u.name = t.name /\ u.phase = t.phase /\ u.todo = s
         /\ u.seen = t.seen /\ u.created = t.created /\ u.active = t.active
         /\ u.incomplete = t.incomplete /\ u.failed = t.failed /\ u.late = t.late /\ u.since = t.since
BY DEF Record

LEMMA UpdateActive ==
  ASSUME NEW t, Record(t), NEW a, NEW u, u = [t EXCEPT !.active = a]
  PROVE  /\ Record(u) /\ u.name = t.name /\ u.phase = t.phase /\ u.todo = t.todo
         /\ u.seen = t.seen /\ u.created = t.created /\ u.active = a
         /\ u.incomplete = t.incomplete /\ u.failed = t.failed /\ u.late = t.late /\ u.since = t.since
BY DEF Record

LEMMA UpdateIncomplete ==
  ASSUME NEW t, Record(t), NEW a, NEW u, u = [t EXCEPT !.incomplete = a]
  PROVE  /\ Record(u) /\ u.name = t.name /\ u.phase = t.phase /\ u.todo = t.todo
         /\ u.seen = t.seen /\ u.created = t.created /\ u.active = t.active
         /\ u.incomplete = a /\ u.failed = t.failed /\ u.late = t.late /\ u.since = t.since
BY DEF Record

LEMMA UpdateSeen ==
  ASSUME NEW t, Record(t), NEW a, NEW u, u = [t EXCEPT !.seen = a]
  PROVE  /\ Record(u) /\ u.name = t.name /\ u.phase = t.phase /\ u.todo = t.todo
         /\ u.seen = a /\ u.created = t.created /\ u.active = t.active
         /\ u.incomplete = t.incomplete /\ u.failed = t.failed /\ u.late = t.late /\ u.since = t.since
BY DEF Record

LEMMA UpdateCreated ==
  ASSUME NEW t, Record(t), NEW a, NEW u, u = [t EXCEPT !.created = a]
  PROVE  /\ Record(u) /\ u.name = t.name /\ u.phase = t.phase /\ u.todo = t.todo
         /\ u.seen = t.seen /\ u.created = a /\ u.active = t.active
         /\ u.incomplete = t.incomplete /\ u.failed = t.failed /\ u.late = t.late /\ u.since = t.since
BY DEF Record

LEMMA UpdateLate ==
  ASSUME NEW t, Record(t), NEW a, NEW u, u = [t EXCEPT !.late = a]
  PROVE  /\ Record(u) /\ u.name = t.name /\ u.phase = t.phase /\ u.todo = t.todo
         /\ u.seen = t.seen /\ u.created = t.created /\ u.active = t.active
         /\ u.incomplete = t.incomplete /\ u.failed = t.failed /\ u.late = a /\ u.since = t.since
BY DEF Record

LEMMA RaisedOK ==
  ASSUME TypeInv, tool.todo # <<>>
  PROVE  /\ ToolOK(Raised, Len(builds))
         /\ \/ Raised = Idle
            \/ /\ tool.phase = "main" /\ tool.name \in Temporary
               /\ Record(Raised) /\ Raised.name = tool.name /\ Raised.phase = "cleanup"
               /\ Raised.todo = Cleanup(tool) /\ Raised.seen = tool.seen
               /\ Raised.created = tool.created /\ Raised.failed = tool.failed
               /\ Raised.since = tool.since
            \/ /\ tool.phase = "cleanup"
               /\ Record(Raised) /\ Raised.name = tool.name /\ Raised.phase = "cleanup"
               /\ Raised.todo = Tail(tool.todo) /\ Raised.seen = tool.seen
               /\ Raised.created = tool.created /\ Raised.failed = TRUE
               /\ Raised.since = tool.since
<1>1. ToolOK(tool, Len(builds)) /\ Record(tool) /\ Len(builds) \in Nat
  BY DEF TypeInv, ToolOK
<1>2. tool.name # "none" /\ Tail(tool.todo) \in Seq(CallsOf(tool))
  BY HeadOf
<1>3. CASE tool.phase = "main" /\ tool.name \in Temporary
  <2> DEFINE u == [tool EXCEPT !.phase = "cleanup", !.todo = Cleanup(tool)]
  <2>1. Raised = u
    BY <1>3 DEF Raised
  <2>2. /\ Record(u) /\ u.name = tool.name /\ u.phase = "cleanup" /\ u.todo = Cleanup(tool)
        /\ u.seen = tool.seen /\ u.created = tool.created /\ u.failed = tool.failed
        /\ u.active = tool.active /\ u.incomplete = tool.incomplete /\ u.late = tool.late /\ u.since = tool.since
    <3> DEFINE t == tool  a == "cleanup"  s == Cleanup(tool)
    <3>1. Record(t) /\ u = [t EXCEPT !.phase = a, !.todo = s]
      BY <1>1
    <3> HIDE DEF t, u, a, s
    <3>2. /\ Record(u) /\ u.name = t.name /\ u.phase = a /\ u.todo = s
          /\ u.seen = t.seen /\ u.created = t.created /\ u.active = t.active
          /\ u.incomplete = t.incomplete /\ u.failed = t.failed /\ u.late = t.late /\ u.since = t.since
      BY <3>1 DEF Record
    <3> QED BY <3>2 DEF t, a, s
  <2> HIDE DEF u
  <2>3. Cleanup(tool) \in Seq(CleanupCalls(tool))
    BY <1>1, <1>3, CleanupIs
  <2>4. CallsOf(u) = CleanupCalls(tool)
    BY <2>2 DEF CallsOf, CleanupCalls, Known
  <2>5. ToolOK(u, Len(builds))
    BY <1>1, <1>2, <1>3, <2>2, <2>3, <2>4 DEF ToolOK
  <2> QED BY <1>3, <2>1, <2>2, <2>5
<1>4. CASE ~(tool.phase = "main" /\ tool.name \in Temporary)
  <2> DEFINE u == [tool EXCEPT !.todo = Tail(@), !.failed = TRUE]
  <2>1. Raised = Idle \/ (Raised = u /\ tool.phase = "cleanup")
    BY <1>4 DEF Raised
  <2>2. /\ Record(u) /\ u.name = tool.name /\ u.phase = tool.phase /\ u.todo = Tail(tool.todo)
        /\ u.seen = tool.seen /\ u.created = tool.created /\ u.failed = TRUE
        /\ u.active = tool.active /\ u.incomplete = tool.incomplete /\ u.late = tool.late /\ u.since = tool.since
    <3> DEFINE t == tool  a == TRUE  s == Tail(tool.todo)
    <3>1. Record(t) /\ u = [t EXCEPT !.todo = s, !.failed = a]
      BY <1>1
    <3> HIDE DEF t, u, a, s
    <3>2. /\ Record(u) /\ u.name = t.name /\ u.phase = t.phase /\ u.todo = s
          /\ u.seen = t.seen /\ u.created = t.created /\ u.active = t.active
          /\ u.incomplete = t.incomplete /\ u.failed = a /\ u.late = t.late /\ u.since = t.since
      BY <3>1 DEF Record
    <3> QED BY <3>2 DEF t, a, s
  <2> HIDE DEF u
  <2>3. ToolOK(u, Len(builds))
    BY <1>1, <1>2, <2>2, GoesOn DEF ToolOK
  <2> QED BY <1>1, <2>1, <2>2, <2>3, IdleOK
<1> QED BY <1>3, <1>4

(* The fields after a call that is over, with others before the rest.      *)
LEMMA ThenIs ==
  ASSUME TypeInv, NEW calls
  PROVE  /\ Record(Then(calls)) /\ Then(calls).name = tool.name /\ Then(calls).phase = tool.phase
         /\ Then(calls).todo = calls \o Tail(tool.todo) /\ Then(calls).seen = tool.seen
         /\ Then(calls).created = tool.created /\ Then(calls).active = tool.active
         /\ Then(calls).incomplete = tool.incomplete /\ Then(calls).failed = tool.failed
         /\ Then(calls).late = tool.late /\ Then(calls).since = tool.since
<1> DEFINE t == tool  u == Then(calls)  s == calls \o Tail(tool.todo)
<1>1. Record(t) /\ u = [t EXCEPT !.todo = s]
  BY DEF TypeInv, ToolOK, Then
<1> HIDE DEF t, u, s
<1>2. /\ Record(u) /\ u.name = t.name /\ u.phase = t.phase /\ u.todo = s
      /\ u.seen = t.seen /\ u.created = t.created /\ u.active = t.active
      /\ u.incomplete = t.incomplete /\ u.failed = t.failed /\ u.late = t.late /\ u.since = t.since
  BY <1>1, UpdateTodo
<1> QED BY <1>2 DEF t, u, s

LEMMA DoneIs ==
  ASSUME TypeInv
  PROVE  /\ Record(Done) /\ Done.name = tool.name /\ Done.phase = tool.phase
         /\ Done.todo = Tail(tool.todo) /\ Done.seen = tool.seen
         /\ Done.created = tool.created /\ Done.active = tool.active
         /\ Done.incomplete = tool.incomplete /\ Done.failed = tool.failed
         /\ Done.late = tool.late /\ Done.since = tool.since
<1> DEFINE t == tool  u == Done  s == Tail(tool.todo)
<1>1. Record(t) /\ u = [t EXCEPT !.todo = s]
  BY DEF TypeInv, ToolOK, Done
<1> HIDE DEF t, u, s
<1>2. /\ Record(u) /\ u.name = t.name /\ u.phase = t.phase /\ u.todo = s
      /\ u.seen = t.seen /\ u.created = t.created /\ u.active = t.active
      /\ u.incomplete = t.incomplete /\ u.failed = t.failed /\ u.late = t.late /\ u.since = t.since
  BY <1>1, UpdateTodo
<1> QED BY <1>2 DEF t, u, s

LEMMA DoneOK ==
  ASSUME TypeInv, tool.todo # <<>>
  PROVE  ToolOK(Done, Len(builds))
BY HeadOf, DoneIs, GoesOn DEF TypeInv, ToolOK

LEMMA ThenOK ==
  ASSUME TypeInv, tool.todo # <<>>, NEW calls \in Seq(CallsOf(tool))
  PROVE  ToolOK(Then(calls), Len(builds))
<1>1. calls \o Tail(tool.todo) \in Seq(CallsOf(tool))
  BY HeadOf
<1> QED BY <1>1, HeadOf, ThenIs, GoesOn DEF TypeInv, ToolOK

LEMMA AfterFacts ==
  ASSUME NEW S, S \subseteq Facts, NEW e, NEW f, <<e, f>> \in Facts \/ f \in {"pause", "clear"}
  PROVE  After(S, e, f) \subseteq Facts
<1>1. After(S, e, f) \subseteq S \cup {<<e, f>>}
  BY DEF After
<1>2. f \in {"pause", "clear"} => After(S, e, f) \subseteq S
  BY DEF After
<1> QED BY <1>1, <1>2

LEMMA WrittenFacts ==
  ASSUME NEW e, NEW f,
         \/ <<e, f>> \in Provisioned \cup {<<c, "pause">> : c \in Configs}
         \/ (\E name : <<e, f>> \in TemporaryWrites(name))
         \/ (\E name, S : <<e, f>> \in Restoring(name, S))
  PROVE  <<e, f>> \in Facts \/ f \in {"pause", "clear"}
<1> DEFINE temporary == {<<c, "temporary">> : c \in Configs}
<1>1. <<Composite, "temporary">> \in temporary /\ <<Beta, "temporary">> \in temporary
  BY DEF Configs
<1>2. \A c \in Configs : <<c, "steps">> \in Provisioned /\ <<c, "active">> \in Provisioned
  BY DEF Provisioned, PlannedFacts, Fields, Configs
<1>3. \A c \in Configs : \A S : <<c, StepsAgain(c, S)>> \in Facts \/ StepsAgain(c, S) = "clear"
  BY <1>1, <1>2 DEF StepsAgain, Facts, Configs
<1>4. \A c \in Configs : \A S : <<c, PausedAgain(c, S)>> \in Facts \/ PausedAgain(c, S) = "pause"
  BY <1>2 DEF PausedAgain, Facts
<1>5. Composite \in Configs /\ Beta \in Configs
  BY DEF Configs
<1>6. CASE <<e, f>> \in Provisioned \cup {<<c, "pause">> : c \in Configs}
  BY <1>6 DEF Facts
<1>7. CASE \E name : <<e, f>> \in TemporaryWrites(name)
  BY <1>7, <1>1 DEF TemporaryWrites, Facts
<1>8. ASSUME NEW name, NEW S, <<e, f>> \in Restoring(name, S)
      PROVE  <<e, f>> \in Facts \/ f \in {"pause", "clear"}
  <2>1. \/ <<e, f>> = <<Composite, StepsAgain(Composite, S)>>
        \/ <<e, f>> = <<Beta, PausedAgain(Beta, S)>>
        \/ <<e, f>> = <<Beta, StepsAgain(Beta, S)>>
    BY <1>8 DEF Restoring
  <2> QED BY <2>1, <1>3, <1>4, <1>5
<1> QED BY <1>6, <1>7, <1>8

(* Builds change their state or are appended.                              *)
LEMMA StateIsSet ==
  ASSUME builds \in Seq(Build), NEW i \in 1..Len(builds),
         NEW s \in ActiveStates \cup Finished \cup {"removed"}, SetState(i, s)
  PROVE  /\ builds' \in Seq(Build) /\ Len(builds') = Len(builds)
         /\ builds'[i].state = s /\ builds'[i].config = builds[i].config /\ builds'[i].by = builds[i].by
         /\ \A j \in 1..Len(builds) : j # i => builds'[j] = builds[j]
<1>1. builds[i] \in Build
  OBVIOUS
<1> DEFINE new == [builds[i] EXCEPT !.state = s]
<1>2. new \in Build /\ new.state = s /\ new.config = builds[i].config /\ new.by = builds[i].by
  BY <1>1 DEF Build
<1>3. builds' = [builds EXCEPT ![i] = new]
  BY DEF SetState
<1> HIDE DEF new
<1> QED BY <1>2, <1>3

LEMMA NewBuildIs ==
  ASSUME builds \in Seq(Build), NEW c \in Configs, NEW who \in Tools \cup {"user"},
         builds' = Append(builds, NewBuild(c, who))
  PROVE  /\ builds' \in Seq(Build) /\ Len(builds') = Len(builds) + 1
         /\ builds'[Len(builds) + 1] = NewBuild(c, who)
         /\ \A j \in 1..Len(builds) : builds'[j] = builds[j]
<1>1. NewBuild(c, who) \in Build
  BY DEF NewBuild, Build, ActiveStates
<1> DEFINE new == NewBuild(c, who)
<1> HIDE DEF new
<1>2. builds' = Append(builds, new) /\ new \in Build
  BY <1>1 DEF new
<1>3. builds' \in Seq(Build) /\ Len(builds') = Len(builds) + 1
      /\ builds'[Len(builds) + 1] = new /\ \A j \in 1..Len(builds) : builds'[j] = builds[j]
  BY <1>2
<1> QED BY <1>3 DEF new

LEMMA InStateIs ==
  ASSUME builds \in Seq(Build), NEW s, NEW S, NEW i \in InState(s, S)
  PROVE  i \in 1..Len(builds) /\ builds[i].state = s /\ builds[i].config \in S
BY DEF InState, OfConfig

LEMMA TypeRead ==
  ASSUME TypeInv, Read
  PROVE  TypeInv'
<1>1. tool.todo # <<>> /\ Head(tool.todo)[1] = "read"
  BY DEF Read, Call
<1>3. tool.phase = "preflight" /\ Arg \in Entities
  <2> DEFINE x == Head(tool.todo)
  <2>1. x = Head(tool.todo) /\ x[1] = "read" /\ Arg = x[2]
    BY <1>1 DEF Arg
  <2> HIDE DEF x
  <2> QED BY <1>1, <2>1, PhaseOf
<1> DEFINE found == {x \in have : x[1] = Arg}
           reconcile == tool.name = "expand_lab" /\ Arg \in Configs
                          /\ found # {} /\ ~Matches(have, Arg)
           calls == IF reconcile THEN Active({Arg}) \o <<<<"idle">>>> ELSE <<>>
           u == [Then(calls) EXCEPT !.seen = @ \cup found]
<1>2. UNCHANGED <<labVars, sessions>> /\ (tool' = Idle \/ tool' = u)
  BY DEF Read
<1>4. calls \in Seq(CallsOf(tool))
  <2>1. CallsOf(tool) = PreflightCalls
    BY <1>3 DEF CallsOf
  <2>2. <<>> \in Seq(PreflightCalls)
    OBVIOUS
  <2>3. ASSUME Arg \in Configs PROVE Active({Arg}) \o <<<<"idle">>>> \in Seq(PreflightCalls)
    <3>1. <<"running", {Arg}>> \in PreflightCalls /\ <<"queued", {Arg}>> \in PreflightCalls
          /\ <<"idle">> \in PreflightCalls
      BY <2>3 DEF PreflightCalls
    <3>2. Active({Arg}) \in Seq(PreflightCalls) /\ <<<<"idle">>>> \in Seq(PreflightCalls)
      BY <3>1, TupleTypes DEF Active
    <3> QED BY <3>2
  <2> QED BY <2>1, <2>2, <2>3
<1> HIDE DEF calls, reconcile
<1>5. ToolOK(Then(calls), Len(builds)) /\ Record(Then(calls)) /\ Then(calls).name # "none"
      /\ Then(calls).phase = "preflight"
  BY <1>1, <1>3, <1>4, ThenOK, ThenIs, HeadOf DEF ToolOK
<1>6. found \subseteq Facts
  BY DEF TypeInv
<1>7. ToolOK(u, Len(builds))
  <2> DEFINE t == Then(calls)  a == Then(calls).seen \cup found
  <2>1. Record(t) /\ u = [t EXCEPT !.seen = a]
    BY <1>5
  <2>2. a \in SUBSET Facts
    BY <1>5, <1>6 DEF ToolOK
  <2> HIDE DEF t, u, a
  <2>3. /\ Record(u) /\ u.name = t.name /\ u.phase = t.phase /\ u.todo = t.todo
        /\ u.seen = a /\ u.created = t.created /\ u.active = t.active
        /\ u.incomplete = t.incomplete /\ u.failed = t.failed /\ u.late = t.late /\ u.since = t.since
    BY <2>1, UpdateSeen
  <2>4. ToolOK(t, Len(builds)) /\ t.name # "none" /\ t.phase = "preflight"
    BY <1>5 DEF t
  <2> QED BY <2>2, <2>3, <2>4, GoesOn DEF ToolOK
<1> HIDE DEF u
<1>8. Len(builds) \in Nat
  BY DEF TypeInv
<1> QED BY <1>2, <1>7, <1>8, IdleOK DEF TypeInv, labVars

LEMMA TypeCount ==
  ASSUME TypeInv, CountRunning \/ CountQueued
  PROVE  TypeInv'
<1>1. tool.todo # <<>>
  BY DEF CountRunning, CountQueued, Call
<1> DEFINE n == Len(builds)
<1>2. ASSUME NEW a \in BOOLEAN PROVE ToolOK([Done EXCEPT !.active = a], Len(builds))
  <2> DEFINE t == Done  u == [Done EXCEPT !.active = a]
  <2>1. Record(t) /\ u = [t EXCEPT !.active = a] /\ ToolOK(t, Len(builds)) /\ t.name # "none"
    BY <1>1, DoneOK, DoneIs, HeadOf
  <2> HIDE DEF t, u
  <2>2. /\ Record(u) /\ u.name = t.name /\ u.phase = t.phase /\ u.todo = t.todo
        /\ u.seen = t.seen /\ u.created = t.created /\ u.active = a
        /\ u.incomplete = t.incomplete /\ u.failed = t.failed /\ u.late = t.late /\ u.since = t.since
    BY <2>1, UpdateActive
  <2>3. ToolOK(u, Len(builds))
    BY <2>1, <2>2, GoesOn DEF ToolOK
  <2> QED BY <2>3 DEF u
<1>3. UNCHANGED <<labVars, sessions>>
  BY DEF CountRunning, CountQueued
<1>4. tool' = Idle \/ \E a \in BOOLEAN : tool' = [Done EXCEPT !.active = a]
  <2>1. CASE CountRunning
    <3>1. (InState("running", Arg) # {}) \in BOOLEAN
      OBVIOUS
    <3> QED BY <2>1, <3>1 DEF CountRunning
  <2>2. CASE CountQueued
    <3>1. (Done.active \/ InState("queued", Arg) # {}) \in BOOLEAN
      OBVIOUS
    <3> QED BY <2>2, <3>1 DEF CountQueued
  <2> QED BY <2>1, <2>2
<1>5. Len(builds) \in Nat
  BY DEF TypeInv
<1>6. ToolOK(tool', Len(builds))
  BY <1>2, <1>4, <1>5, IdleOK
<1> QED BY <1>3, <1>6 DEF TypeInv, labVars

LEMMA TypeWrite ==
  ASSUME TypeInv, Write
  PROVE  TypeInv'
<1>1. tool.todo # <<>> /\ Head(tool.todo)[1] = "write"
  BY DEF Write, Call
<1>2. <<Arg, Head(tool.todo)[3]>> \in Facts \/ Head(tool.todo)[3] \in {"pause", "clear"}
  BY <1>1, PhaseOf, WrittenFacts DEF Arg
<1>3. have' \subseteq Facts
  BY <1>2, AfterFacts DEF Write, TypeInv
<1>4. ToolOK(tool', Len(builds))
  BY <1>1, DoneOK, RaisedOK DEF Write, Answered
<1> QED BY <1>3, <1>4 DEF Write, TypeInv

(* Steps after which the script is done with a call, has raised or ended.  *)
LEMMA TypeSimple ==
  ASSUME TypeInv, tool.todo # <<>>, UNCHANGED <<labVars, sessions>>,
         tool' \in {Done, Raised, Idle}
  PROVE  TypeInv'
<1>1. Len(builds) \in Nat
  BY DEF TypeInv
<1>2. ToolOK(tool', Len(builds))
  BY <1>1, DoneOK, RaisedOK, IdleOK
<1> QED BY <1>2 DEF TypeInv, labVars

LEMMA TypeQueue ==
  ASSUME TypeInv, Queue
  PROVE  TypeInv'
<1>1. tool.todo # <<>> /\ Head(tool.todo)[1] = "queue"
  BY DEF Queue, Call
<1>2. tool.phase = "main" /\ tool.name \in Tools /\ Arg \in Configs
  <2> DEFINE x == Head(tool.todo)
  <2>1. x = Head(tool.todo) /\ x[1] = "queue" /\ Arg = x[2]
    BY <1>1 DEF Arg
  <2> HIDE DEF x
  <2> QED BY <1>1, <2>1, PhaseOf, HeadOf
<1>3. builds \in Seq(Build) /\ Len(builds) \in Nat
  BY DEF TypeInv
<1>4. ASSUME NEW n \in Nat, Len(builds) <= n, NEW i \in 1..n
      PROVE  ToolOK([Done EXCEPT !.created = <<i>> \o @], n)
  <2> DEFINE t == Done  a == <<i>> \o Done.created  u == [Done EXCEPT !.created = <<i>> \o @]
  <2>1. ToolOK(Done, n)
    BY <1>1, <1>3, <1>4, DoneOK, MoreBuilds
  <2>2. Done.created \in Seq(1..n) /\ <<i>> \in Seq(1..n)
    BY <2>1, <1>4 DEF ToolOK
  <2>3. Record(t) /\ u = [t EXCEPT !.created = a] /\ ToolOK(t, n) /\ t.name # "none" /\ t.phase = "main"
    BY <1>1, <1>2, <2>1, DoneIs, HeadOf
  <2>4. a \in Seq(1..n)
    BY <2>2
  <2> HIDE DEF t, u, a
  <2>5. /\ Record(u) /\ u.name = t.name /\ u.phase = t.phase /\ u.todo = t.todo
        /\ u.seen = t.seen /\ u.created = a /\ u.active = t.active
        /\ u.incomplete = t.incomplete /\ u.failed = t.failed /\ u.late = t.late /\ u.since = t.since
    BY <2>3, UpdateCreated
  <2>6. ToolOK(u, n)
    BY <2>3, <2>4, <2>5, GoesOn DEF ToolOK
  <2> QED BY <2>6 DEF u
<1>5. CASE /\ builds' = Append(builds, NewBuild(Arg, tool.name))
           /\ tool' \in {[Done EXCEPT !.created = <<Len(builds) + 1>> \o @], Raised}
  <2>1. builds' \in Seq(Build) /\ Len(builds') = Len(builds) + 1
    BY <1>2, <1>3, <1>5, NewBuildIs
  <2>2. Len(builds) + 1 \in Nat /\ Len(builds) <= Len(builds) + 1 /\ Len(builds) + 1 \in 1..(Len(builds) + 1)
    BY <1>3
  <2>3. ToolOK(Raised, Len(builds) + 1)
    BY <1>1, <1>3, <2>2, RaisedOK, MoreBuilds
  <2>4. ToolOK([Done EXCEPT !.created = <<Len(builds) + 1>> \o @], Len(builds) + 1)
    BY <1>4, <2>2
  <2>5. ToolOK(tool', Len(builds) + 1)
    BY <1>5, <2>3, <2>4
  <2>6. UNCHANGED <<have, foreign, sessions>>
    BY DEF Queue
  <2> QED BY <2>1, <2>5, <2>6 DEF TypeInv
<1>6. ASSUME NEW i \in InState("queued", {Arg}), UNCHANGED builds,
             tool' \in {Raised, [Done EXCEPT !.created = <<i>> \o @]}
      PROVE  TypeInv'
  <2>1. i \in 1..Len(builds) /\ Len(builds) <= Len(builds)
    BY <1>3, <1>6, InStateIs
  <2>2. ToolOK([Done EXCEPT !.created = <<i>> \o @], Len(builds))
    BY <1>3, <1>4, <2>1
  <2>3. ToolOK(tool', Len(builds))
    BY <1>1, <1>6, <2>2, RaisedOK
  <2>4. UNCHANGED <<have, foreign, sessions>>
    BY DEF Queue
  <2> QED BY <1>6, <2>3, <2>4 DEF TypeInv
<1>7. ASSUME tool' = Raised, UNCHANGED builds PROVE TypeInv'
  <2>1. UNCHANGED <<labVars, sessions>>
    BY <1>7 DEF Queue, labVars
  <2> QED BY <1>1, <1>7, <2>1, TypeSimple
<1> QED BY <1>5, <1>6, <1>7 DEF Queue

LEMMA TypeJudge ==
  ASSUME TypeInv, Judge
  PROVE  TypeInv'
<1>1. tool.todo # <<>> /\ Head(tool.todo)[1] = "judge"
  BY DEF Judge, Call
<1>2. tool.phase = "main" /\ tool.name = "run_lab" /\ Arg \in Configs
  <2> DEFINE x == Head(tool.todo)
  <2>1. x = Head(tool.todo) /\ x[1] = "judge" /\ Arg = x[2]
    BY <1>1 DEF Arg
  <2> HIDE DEF x
  <2> QED BY <1>1, <2>1, PhaseOf
<1>3. <<<<"queue", Arg>>>> \in Seq(CallsOf(tool))
  <2>1. <<"queue", Arg>> \in RunCalls /\ CallsOf(tool) = RunCalls
    BY <1>2 DEF RunCalls, CallsOf
  <2> QED BY <2>1, TupleTypes
<1>4. ASSUME NEW t, ToolOK(t, Len(builds)), t.name # "none"
      PROVE  ToolOK([t EXCEPT !.incomplete = TRUE], Len(builds))
  <2> DEFINE u == [t EXCEPT !.incomplete = TRUE]  a == TRUE
  <2>1. Record(t) /\ u = [t EXCEPT !.incomplete = a] /\ a \in BOOLEAN
    BY <1>4 DEF ToolOK
  <2> HIDE DEF u, a
  <2>2. /\ Record(u) /\ u.name = t.name /\ u.phase = t.phase /\ u.todo = t.todo
        /\ u.seen = t.seen /\ u.created = t.created /\ u.active = t.active
        /\ u.incomplete = a /\ u.failed = t.failed /\ u.late = t.late /\ u.since = t.since
    BY <2>1, UpdateIncomplete
  <2>3. ToolOK(u, Len(builds))
    BY <1>4, <2>1, <2>2, GoesOn DEF ToolOK
  <2> QED BY <2>3 DEF u
<1>5. /\ ToolOK(Done, Len(builds)) /\ Done.name # "none"
      /\ ToolOK(Then(<<<<"queue", Arg>>>>), Len(builds)) /\ Then(<<<<"queue", Arg>>>>).name # "none"
  BY <1>1, <1>3, DoneOK, ThenOK, DoneIs, ThenIs, HeadOf
<1>6. ToolOK(Idle, Len(builds))
  BY IdleOK DEF TypeInv
<1>7. \/ tool' = Done \/ tool' = [Done EXCEPT !.incomplete = TRUE]
      \/ tool' = [Then(<<<<"queue", Arg>>>>) EXCEPT !.incomplete = TRUE] \/ tool' = Idle
  BY DEF Judge
<1>8. ToolOK(tool', Len(builds))
  BY <1>4, <1>5, <1>6, <1>7
<1> QED BY <1>8 DEF Judge, TypeInv, labVars

LEMMA TypeReport ==
  ASSUME TypeInv, Report
  PROVE  TypeInv'
<1>1. tool.todo # <<>> /\ Head(tool.todo)[1] = "report"
  BY DEF Report, Call
<1>2. tool.phase = "main" /\ tool.name = "run_lab"
  BY <1>1, PhaseOf
<1>3. Pass \in Seq(CallsOf(tool))
  BY <1>2, PassTypes DEF CallsOf
<1>4. ToolOK([tool EXCEPT !.todo = Pass, !.incomplete = FALSE], Len(builds))
  <2> DEFINE t == tool  u == [tool EXCEPT !.todo = Pass, !.incomplete = FALSE]  s == Pass  a == FALSE
  <2>1. Record(t) /\ u = [t EXCEPT !.todo = s, !.incomplete = a] /\ a \in BOOLEAN
        /\ ToolOK(t, Len(builds)) /\ s \in Seq(CallsOf(t)) /\ t.name # "none"
    BY <1>2, <1>3 DEF TypeInv, ToolOK
  <2> HIDE DEF t, u, s, a
  <2>2. /\ Record(u) /\ u.name = t.name /\ u.phase = t.phase /\ u.todo = s
        /\ u.seen = t.seen /\ u.created = t.created /\ u.active = t.active
        /\ u.incomplete = a /\ u.failed = t.failed /\ u.late = t.late /\ u.since = t.since
    BY <2>1 DEF Record
  <2>3. ToolOK(u, Len(builds))
    BY <2>1, <2>2, GoesOn DEF ToolOK
  <2> QED BY <2>3 DEF u
<1>5. ToolOK(tool', Len(builds))
  BY <1>1, <1>4, DoneOK DEF Report
<1> QED BY <1>5 DEF Report, TypeInv, labVars

LEMMA KnownBuilds ==
  ASSUME NEW t, NEW n, ToolOK(t, n)
  PROVE  Known(t) \subseteq 1..n
<1> DEFINE s == t.created  ids == 1..n
<1>1. s \in Seq(ids)
  BY DEF ToolOK
<1> HIDE DEF s, ids
<1>2. \A i \in DOMAIN s : s[i] \in ids
  BY <1>1
<1> QED BY <1>2 DEF s, ids, Known

(* The calls of cancelling are about builds the script knows.              *)
LEMMA CancelCall ==
  ASSUME TypeInv, tool.todo # <<>>, Head(tool.todo)[1] \in {"cancel", "delete", "stop"}
  PROVE  /\ tool.phase = "cleanup" /\ Arg \in Known(tool) /\ Arg \in 1..Len(builds)
         /\ Head(tool.todo) = <<Head(tool.todo)[1], Arg>>
         /\ \A op \in {"cancel", "delete", "stop"} : <<<<op, Arg>>>> \in Seq(CallsOf(tool))
<1>1. tool.phase = "cleanup" /\ Arg \in Known(tool) /\ Head(tool.todo) = <<Head(tool.todo)[1], Arg>>
  <2> DEFINE x == Head(tool.todo)
  <2>1. x = Head(tool.todo) /\ x[1] \in {"cancel", "delete", "stop"} /\ Arg = x[2]
    BY DEF Arg
  <2> HIDE DEF x
  <2>2. tool.phase = "cleanup" /\ Arg \in Known(tool) /\ x = <<x[1], x[2]>>
    BY <2>1, PhaseOf
  <2> QED BY <2>1, <2>2
<1>2. Arg \in 1..Len(builds)
  BY <1>1, KnownBuilds DEF TypeInv
<1>3. ASSUME NEW op \in {"cancel", "delete", "stop"} PROVE <<<<op, Arg>>>> \in Seq(CallsOf(tool))
  <2>1. <<op, Arg>> \in CallsOf(tool)
    BY <1>1 DEF CallsOf, CleanupCalls
  <2> QED BY <2>1, TupleTypes
<1> QED BY <1>1, <1>2, <1>3

LEMMA TypeCancel ==
  ASSUME TypeInv, Cancel \/ Delete \/ Stop
  PROVE  TypeInv'
<1>1. tool.todo # <<>> /\ Head(tool.todo)[1] \in {"cancel", "delete", "stop"}
  BY DEF Cancel, Delete, Stop, Call
<1>2. /\ ToolOK(Then(<<<<"cancel", Arg>>>>), Len(builds)) /\ ToolOK(Then(<<<<"delete", Arg>>>>), Len(builds))
      /\ ToolOK(Then(<<<<"stop", Arg>>>>), Len(builds))
      /\ ToolOK(Done, Len(builds)) /\ ToolOK(Raised, Len(builds))
  BY <1>1, CancelCall, ThenOK, DoneOK, RaisedOK
<1>3. UNCHANGED <<have, foreign, sessions>>
  BY DEF Cancel, Delete, Stop, labVars
<1>4. ToolOK(tool', Len(builds))
  <2>1. CASE Cancel
    BY <1>2, <2>1 DEF Cancel
  <2>2. CASE Delete
    BY <1>2, <2>2 DEF Delete, Answered, Gone
  <2>3. CASE Stop
    BY <1>2, <2>3 DEF Stop, Answered
  <2> QED BY <2>1, <2>2, <2>3
<1>5. builds' \in Seq(Build) /\ Len(builds') = Len(builds)
  <2>1. builds \in Seq(Build) /\ Arg \in 1..Len(builds)
    BY <1>1, CancelCall DEF TypeInv
  <2>2. "removed" \in ActiveStates \cup Finished \cup {"removed"}
        /\ "cancelled" \in ActiveStates \cup Finished \cup {"removed"}
    BY DEF Finished
  <2>3. UNCHANGED builds \/ SetState(Arg, "removed") \/ SetState(Arg, "cancelled")
    BY DEF Cancel, Delete, Stop, labVars
  <2> QED BY <2>1, <2>2, <2>3, StateIsSet
<1> QED BY <1>3, <1>4, <1>5 DEF TypeInv

LEMMA MainTypes ==
  ASSUME NEW name \in Tools, NEW S
  PROVE  /\ name = "expand_lab" => Main(name, S) \in Seq(ExpandCalls)
         /\ name = "run_lab" => Main(name, S) \in Seq(RunCalls)
         /\ name \in Temporary => Main(name, S) \in Seq(TemporaryCalls(name))
<1>1. CASE name = "expand_lab"
  BY <1>1, PlanIs DEF Main, Temporary
<1>2. CASE name = "run_lab"
  BY <1>2, PassTypes DEF Main, Temporary
<1>3. CASE name = "check_lab_states"
  <2>1. Main(name, S) = CheckStates
    BY <1>3 DEF Main
  <2> QED BY <1>3, <2>1, TemporaryTypes
<1>4. CASE name = "seed_live_states"
  <2>1. Main(name, S) = SeedStates
    BY <1>4 DEF Main
  <2> QED BY <1>4, <2>1, TemporaryTypes
<1> QED BY <1>1, <1>2, <1>3, <1>4 DEF Tools, Temporary

(* The next phase.                                                         *)
LEMMA ProceedIs ==
  ASSUME TypeInv, Proceed
  PROVE  /\ UNCHANGED <<labVars, sessions>> /\ tool # Idle /\ tool.todo = <<>> /\ tool.name \in Tools
         /\ ToolOK(tool', Len(builds))
         /\ \/ tool' = Idle
            \/ /\ tool.phase = "preflight" /\ tool'.phase = "main" /\ tool'.todo = Main(tool.name, tool.seen)
               /\ tool'.name = tool.name /\ tool'.seen = tool.seen /\ tool'.created = tool.created
               /\ tool'.active = tool.active /\ tool'.failed = tool.failed
               /\ tool'.since = tool.since
            \/ /\ tool.phase = "main" /\ tool'.phase = "cleanup" /\ tool'.todo = Cleanup(tool)
               /\ tool.name \in Temporary
               /\ tool'.name = tool.name /\ tool'.seen = tool.seen /\ tool'.created = tool.created
               /\ tool'.active = tool.active /\ tool'.failed = tool.failed
               /\ tool'.since = tool.since
<1>1. /\ UNCHANGED <<labVars, sessions>> /\ tool # Idle /\ tool.todo = <<>>
      /\ ToolOK(tool, Len(builds)) /\ Record(tool) /\ tool.name \in Tools /\ tool.name # "none"
  BY DEF Proceed, TypeInv, ToolOK, Tools, Temporary
<1>2. ToolOK(Idle, Len(builds))
  BY IdleOK DEF TypeInv
<1>3. ASSUME NEW a \in {"main", "cleanup"}, NEW s, tool' = [tool EXCEPT !.phase = a, !.todo = s]
      PROVE  /\ Record(tool') /\ tool'.name = tool.name /\ tool'.phase = a /\ tool'.todo = s
             /\ tool'.seen = tool.seen /\ tool'.created = tool.created /\ tool'.active = tool.active
             /\ tool'.incomplete = tool.incomplete /\ tool'.failed = tool.failed /\ tool'.late = tool.late /\ tool'.since = tool.since
  <2> DEFINE t == tool  u == tool'
  <2>1. Record(t) /\ u = [t EXCEPT !.phase = a, !.todo = s]
    BY <1>1, <1>3
  <2> HIDE DEF t, u
  <2>2. /\ Record(u) /\ u.name = t.name /\ u.phase = a /\ u.todo = s
        /\ u.seen = t.seen /\ u.created = t.created /\ u.active = t.active
        /\ u.incomplete = t.incomplete /\ u.failed = t.failed /\ u.late = t.late /\ u.since = t.since
    BY <2>1 DEF Record
  <2> QED BY <2>2 DEF t, u
<1>4. CASE tool.phase = "preflight"
  <2> DEFINE s == Main(tool.name, tool.seen)
  <2>1. tool' = [tool EXCEPT !.phase = "main", !.todo = s]
    BY <1>4 DEF Proceed
  <2> HIDE DEF s
  <2>2. /\ Record(tool') /\ tool'.name = tool.name /\ tool'.phase = "main" /\ tool'.todo = s
        /\ tool'.seen = tool.seen /\ tool'.created = tool.created /\ tool'.active = tool.active
        /\ tool'.incomplete = tool.incomplete /\ tool'.failed = tool.failed /\ tool'.late = tool.late /\ tool'.since = tool.since
    BY <1>3, <2>1
  <2>3. s \in Seq(CallsOf(tool'))
    BY <1>1, <2>2, MainTypes DEF s, CallsOf, Tools, Temporary
  <2>4. ToolOK(tool', Len(builds))
    BY <1>1, <2>2, <2>3 DEF ToolOK
  <2> QED BY <1>1, <1>4, <2>2, <2>4 DEF s
<1>5. CASE tool.phase = "main" /\ tool.name \in Temporary
  <2> DEFINE s == Cleanup(tool)
  <2>1. tool' = [tool EXCEPT !.phase = "cleanup", !.todo = s]
    BY <1>5 DEF Proceed
  <2> HIDE DEF s
  <2>2. /\ Record(tool') /\ tool'.name = tool.name /\ tool'.phase = "cleanup" /\ tool'.todo = s
        /\ tool'.seen = tool.seen /\ tool'.created = tool.created /\ tool'.active = tool.active
        /\ tool'.incomplete = tool.incomplete /\ tool'.failed = tool.failed /\ tool'.late = tool.late /\ tool'.since = tool.since
    BY <1>3, <2>1
  <2>3. s \in Seq(CleanupCalls(tool))
    BY <1>1, <1>5, CleanupIs DEF s
  <2>4. CallsOf(tool') = CleanupCalls(tool)
    BY <2>2 DEF CallsOf, CleanupCalls, Known
  <2>5. ToolOK(tool', Len(builds))
    BY <1>1, <1>5, <2>2, <2>3, <2>4 DEF ToolOK
  <2> QED BY <1>1, <1>5, <2>2, <2>5 DEF s
<1>6. CASE tool.phase # "preflight" /\ ~(tool.phase = "main" /\ tool.name \in Temporary)
  <2>1. tool' = Idle
    BY <1>6 DEF Proceed
  <2> QED BY <1>1, <1>2, <2>1
<1> QED BY <1>4, <1>5, <1>6

LEMMA BeginIs ==
  ASSUME TypeInv, NEW name \in Tools, Begin(name)
  PROVE  /\ UNCHANGED labVars /\ ToolOK(tool', Len(builds))
         /\ tool'.name = name /\ tool'.phase = "preflight" /\ tool'.todo = Preflight(name)
         /\ tool'.seen = {} /\ tool'.created = <<>> /\ tool'.active = FALSE /\ tool'.failed = FALSE
         /\ tool'.since = Len(builds)
<1> DEFINE t == Idle  u == tool'  s == Preflight(name)  n == Len(builds)
<1>1. Record(t) /\ u = [t EXCEPT !.name = name, !.todo = s, !.since = n] /\ ToolOK(t, Len(builds))
  BY IdleOK DEF Begin, TypeInv, Idle, Record
<1>2. /\ t.phase = "preflight" /\ t.seen = {} /\ t.created = <<>> /\ t.active = FALSE
      /\ t.incomplete = FALSE /\ t.failed = FALSE /\ t.late = FALSE
  BY DEF Idle
<1>3. s \in Seq(PreflightCalls)
  BY PreflightTypes
<1> HIDE DEF t, u, s, n
<1>4. /\ Record(u) /\ u.name = name /\ u.phase = t.phase /\ u.todo = s
      /\ u.seen = t.seen /\ u.created = t.created /\ u.active = t.active
      /\ u.incomplete = t.incomplete /\ u.failed = t.failed /\ u.late = t.late /\ u.since = n
  BY <1>1 DEF Record
<1>5. CallsOf(u) = PreflightCalls
  BY <1>2, <1>4 DEF CallsOf
<1>6. name # "none"
  BY DEF Tools, Temporary
<1>7. <<>> \in Seq(1..Len(builds))
  OBVIOUS
<1>8. ToolOK(u, Len(builds))
  BY <1>1, <1>2, <1>3, <1>4, <1>5, <1>6, <1>7 DEF ToolOK
<1> QED BY <1>2, <1>4, <1>8 DEF u, s, n, Begin

LEMMA DeadlineIs ==
  ASSUME TypeInv, Deadline
  PROVE  /\ UNCHANGED <<labVars, sessions>> /\ ToolOK(tool', Len(builds))
         /\ tool.phase = "main" /\ tool.name # "expand_lab"
         /\ tool'.name = tool.name /\ tool'.phase = tool.phase /\ tool'.todo = tool.todo
         /\ tool'.seen = tool.seen /\ tool'.created = tool.created /\ tool'.active = tool.active
         /\ tool'.failed = tool.failed /\ tool'.since = tool.since
<1> DEFINE t == tool  u == tool'  a == TRUE
<1>1. /\ Record(t) /\ u = [t EXCEPT !.late = a] /\ ToolOK(t, Len(builds)) /\ a \in BOOLEAN
      /\ t.phase = "main" /\ UNCHANGED <<labVars, sessions>> /\ t.name # "expand_lab"
  BY DEF Deadline, TypeInv, ToolOK
<1>2. t.name # "none"
  BY <1>1 DEF ToolOK, Idle
<1> HIDE DEF t, u, a
<1>3. /\ Record(u) /\ u.name = t.name /\ u.phase = t.phase /\ u.todo = t.todo
      /\ u.seen = t.seen /\ u.created = t.created /\ u.active = t.active
      /\ u.incomplete = t.incomplete /\ u.failed = t.failed /\ u.late = a /\ u.since = t.since
  <2>1. Record(t) /\ u = [t EXCEPT !.late = a]
    BY <1>1
  <2> QED BY <2>1, UpdateLate
<1>4. ToolOK(u, Len(builds))
  <2>1. /\ u.todo \in Seq(CallsOf(t)) /\ u.created \in Seq(1..Len(builds)) /\ u.active \in BOOLEAN
        /\ u.late \in BOOLEAN /\ u.incomplete \in BOOLEAN /\ u.failed \in BOOLEAN
    BY <1>1, <1>3 DEF ToolOK
  <2>2. ToolOK(t, Len(builds)) /\ t.name # "none" /\ Record(u)
    BY <1>1, <1>2, <1>3
  <2>3. u.name = t.name /\ u.phase = t.phase /\ t.phase # "cleanup" /\ u.seen \in SUBSET Facts
    BY <1>1, <1>3 DEF ToolOK
  <2> QED BY <2>1, <2>2, <2>3, GoesOn
<1> QED BY <1>1, <1>3, <1>4 DEF t, u

(* Builds only move on: those that were not queued or not active stay so.  *)
Onward ==
  /\ builds' \in Seq(Build) /\ Len(builds) <= Len(builds')
  /\ \A i \in 1..Len(builds) :
       /\ builds'[i].config = builds[i].config /\ builds'[i].by = builds[i].by
       /\ builds[i].state # "queued" => builds'[i].state # "queued"
       /\ builds[i].state \notin ActiveStates => builds'[i].state \notin ActiveStates

LEMMA EnvironmentIs ==
  ASSUME TypeInv, Environment
  PROVE  /\ UNCHANGED <<have, foreign>> /\ Onward
         /\ \A i \in 1..Len(builds) : builds[i].state \in ActiveStates =>
              builds'[i].state \notin {"cancelled", "removed"}
         /\ \A i \in 1..Len(builds') : i \notin 1..Len(builds) => builds'[i].by = "user"
<1>1. builds \in Seq(Build) /\ Len(builds) \in Nat
  BY DEF TypeInv
<1>2. ASSUME NEW c \in Configs, UserQueues(c)
      PROVE  /\ UNCHANGED <<have, foreign>> /\ Onward
             /\ \A i \in 1..Len(builds) : builds[i].state \in ActiveStates =>
                  builds'[i].state \notin {"cancelled", "removed"}
             /\ \A i \in 1..Len(builds') : i \notin 1..Len(builds) => builds'[i].by = "user"
  <2>1. UNCHANGED <<have, foreign>> /\ builds' = Append(builds, NewBuild(c, "user"))
    BY <1>2 DEF UserQueues
  <2>2. /\ builds' \in Seq(Build) /\ Len(builds') = Len(builds) + 1
        /\ builds'[Len(builds) + 1] = NewBuild(c, "user")
        /\ \A j \in 1..Len(builds) : builds'[j] = builds[j]
    BY <1>1, <2>1, NewBuildIs
  <2>3. \A i \in 1..Len(builds') : i \notin 1..Len(builds) => i = Len(builds) + 1
    BY <1>1, <2>2
  <2>4. NewBuild(c, "user").by = "user"
    BY DEF NewBuild
  <2>5. Len(builds) <= Len(builds')
    BY <1>1, <2>2
  <2> QED BY <2>1, <2>2, <2>3, <2>4, <2>5 DEF Onward, ActiveStates
<1>3. ASSUME NEW i \in 1..Len(builds), NEW s \in {"running", "passed", "failed"}, SetState(i, s),
             builds[i].state \in ActiveStates, UNCHANGED <<have, foreign>>
      PROVE  /\ UNCHANGED <<have, foreign>> /\ Onward
             /\ \A j \in 1..Len(builds) : builds[j].state \in ActiveStates =>
                  builds'[j].state \notin {"cancelled", "removed"}
             /\ \A j \in 1..Len(builds') : j \notin 1..Len(builds) => builds'[j].by = "user"
  <2>1. s \in ActiveStates \cup Finished \cup {"removed"}
    BY DEF ActiveStates, Finished
  <2>2. /\ builds' \in Seq(Build) /\ Len(builds') = Len(builds)
        /\ builds'[i].state = s /\ builds'[i].config = builds[i].config /\ builds'[i].by = builds[i].by
        /\ \A j \in 1..Len(builds) : j # i => builds'[j] = builds[j]
    BY <1>1, <1>3, <2>1, StateIsSet
  <2>3. ASSUME NEW j \in 1..Len(builds)
        PROVE  /\ builds'[j].config = builds[j].config /\ builds'[j].by = builds[j].by
               /\ builds[j].state # "queued" => builds'[j].state # "queued"
               /\ builds[j].state \notin ActiveStates => builds'[j].state \notin ActiveStates
               /\ builds[j].state \in ActiveStates => builds'[j].state \notin {"cancelled", "removed"}
    <3>1. CASE j = i
      BY <3>1, <1>3, <2>2 DEF ActiveStates
    <3>2. CASE j # i
      BY <3>2, <2>2 DEF ActiveStates
    <3> QED BY <3>1, <3>2
  <2>4. Len(builds) <= Len(builds')
    BY <1>1, <2>2
  <2> QED BY <1>3, <2>2, <2>3, <2>4 DEF Onward
<1>4. CASE AgentStarts
  <2>1. PICK i \in InState("queued", Configs) : SetState(i, "running")
    BY <1>4 DEF AgentStarts
  <2>2. i \in 1..Len(builds) /\ builds[i].state \in ActiveStates /\ UNCHANGED <<have, foreign>>
    BY <1>1, <1>4, InStateIs DEF AgentStarts, ActiveStates
  <2> QED BY <1>3, <2>1, <2>2
<1>5. CASE AgentFinishes
  <2>1. PICK i \in InState("running", Configs), s \in {"passed", "failed"} : SetState(i, s)
    BY <1>5 DEF AgentFinishes
  <2>2. i \in 1..Len(builds) /\ builds[i].state \in ActiveStates /\ UNCHANGED <<have, foreign>>
    BY <1>1, <1>5, InStateIs DEF AgentFinishes, ActiveStates
  <2> QED BY <1>3, <2>1, <2>2
<1> QED BY <1>2, <1>4, <1>5 DEF Environment

LEMMA TypeStep == TypeInv /\ [Next]_vars => TypeInv'
<1> SUFFICES ASSUME TypeInv, [Next]_vars PROVE TypeInv'
  OBVIOUS
<1>1. CASE Read
  BY <1>1, TypeRead
<1>2. CASE CountRunning \/ CountQueued
  BY <1>2, TypeCount
<1>3. CASE Write
  BY <1>3, TypeWrite
<1>4. CASE Queue
  BY <1>4, TypeQueue
<1>5. CASE RequireIdle \/ Await \/ Observe \/ Verify \/ CallFails
  <2>1. tool.todo # <<>> /\ UNCHANGED <<labVars, sessions>> /\ tool' \in {Done, Raised, Idle}
    BY <1>5 DEF RequireIdle, Await, Observe, Verify, CallFails, Call
  <2> QED BY <2>1, TypeSimple
<1>6. CASE Judge
  BY <1>6, TypeJudge
<1>7. CASE Report
  BY <1>7, TypeReport
<1>8. CASE Cancel \/ Delete \/ Stop
  BY <1>8, TypeCancel
<1>9. CASE Proceed
  BY <1>9, ProceedIs DEF TypeInv, labVars
<1>10. CASE Deadline
  BY <1>10, DeadlineIs DEF TypeInv, labVars
<1>11. CASE Killed
  <2>1. ToolOK(Idle, Len(builds))
    BY IdleOK DEF TypeInv
  <2> QED BY <1>11, <2>1 DEF Killed, TypeInv, labVars
<1>12. ASSUME NEW name \in Tools, Begin(name) PROVE TypeInv'
  <2>1. sessions' \in 0..MaxSessions
    BY <1>12, ToolBounds DEF Begin, TypeInv
  <2> QED BY <1>12, <2>1, BeginIs DEF TypeInv, labVars
<1>13. CASE Environment /\ UNCHANGED <<tool, sessions>>
  <2>1. UNCHANGED <<have, foreign>> /\ builds' \in Seq(Build) /\ Len(builds) <= Len(builds')
    BY <1>13, EnvironmentIs DEF Onward
  <2>2. Len(builds) \in Nat /\ Len(builds') \in Nat
    BY <2>1 DEF TypeInv
  <2>3. ToolOK(tool, Len(builds'))
    BY <2>1, <2>2, MoreBuilds DEF TypeInv
  <2> QED BY <1>13, <2>1, <2>3 DEF TypeInv
<1>14. CASE UNCHANGED vars
  BY <1>14 DEF vars, labVars, TypeInv
<1> QED BY <1>1, <1>2, <1>3, <1>4, <1>5, <1>6, <1>7, <1>8, <1>9, <1>10, <1>11, <1>12, <1>13, <1>14
        DEF Next, ToolStep, Quiet

LEMMA TypesStart == Init => TypeInv
<1> SUFFICES ASSUME Init PROVE TypeInv
  OBVIOUS
<1>1. builds = <<>> /\ tool = Idle /\ sessions = 0 /\ have \subseteq Facts
      /\ foreign \subseteq {"repo", "tcProject", Beta}
  BY DEF Init, LabInit, Facts
<1>2. builds \in Seq(Build) /\ Len(builds) = 0
  BY <1>1
<1>3. ToolOK(Idle, 0) /\ 0 \in 0..MaxSessions
  BY IdleOK, ToolBounds
<1> QED BY <1>1, <1>2, <1>3 DEF TypeInv

(* Each variable keeps its type, and the calls that are left are of those  *)
(* that the script's phase makes.                                          *)
THEOREM TypesAreKept == Spec => []TypeInv
<1>1. TypeInv /\ [Next]_vars => TypeInv'
  BY TypeStep
<1> QED BY <1>1, TypesStart, PTL DEF Spec

(* Every variable keeps its type, for any number of builds and sessions.   *)
THEOREM TypeCorrect == Spec => []TypeOK
<1>1. TypeInv => TypeOK
  BY DEF TypeInv, ToolOK, TypeOK, Facts, Build, Tools, Temporary
<1> QED BY <1>1, TypesAreKept, PTL

-----------------------------------------------------------------------------
(* Configurations.  What a step does to the settings that the servers hold *)
(* and to what the script has seen and still has to read and write.        *)

Same == /\ tool'.name = tool.name /\ tool'.phase = tool.phase
        /\ tool'.seen = tool.seen /\ tool'.failed = tool.failed

Written ==
  /\ tool.todo # <<>> /\ Head(tool.todo)[1] = "write"
  /\ have' = After(have, Head(tool.todo)[2], Head(tool.todo)[3])

Ended == tool' = Idle /\ (have' = have \/ Written)
Unmoved == have' = have /\ Same /\ tool'.todo = tool.todo
OtherCall ==
  /\ have' = have /\ Same
  /\ tool.phase = "main" => tool.name # "expand_lab"
  /\ tool.phase # "main" =>
       \A x : x[1] \in {"read", "write"} /\ Has(tool.todo, x) => Has(tool'.todo, x)
ReadOne(e) ==
  /\ tool.phase = "preflight" /\ tool.todo # <<>> /\ Head(tool.todo) = <<"read", e>>
  /\ Readable(e) /\ have' = have
  /\ tool'.name = tool.name /\ tool'.phase = tool.phase /\ tool'.failed = tool.failed
  /\ tool'.seen = tool.seen \cup {x \in have : x[1] = e}
  /\ \A x : Has(Tail(tool.todo), x) => Has(tool'.todo, x)
WroteOne == Written /\ Same /\ tool'.todo = Tail(tool.todo)
ToCleanup ==
  /\ tool.phase = "main" /\ tool.name \in Temporary /\ (have' = have \/ Written)
  /\ tool'.name = tool.name /\ tool'.phase = "cleanup" /\ tool'.seen = tool.seen
  /\ tool'.failed = tool.failed /\ tool'.todo = Cleanup(tool)
CleanupFailed ==
  /\ tool.phase = "cleanup" /\ (have' = have \/ Written)
  /\ tool'.name = tool.name /\ tool'.phase = tool.phase /\ tool'.seen = tool.seen
  /\ tool'.failed = TRUE
ToMain ==
  /\ tool.phase = "preflight" /\ tool.todo = <<>> /\ tool # Idle /\ have' = have
  /\ tool'.name = tool.name /\ tool'.phase = "main" /\ tool'.seen = tool.seen
  /\ tool'.failed = tool.failed /\ tool'.todo = Main(tool.name, tool.seen)
Began(name) ==
  /\ tool'.name = name /\ tool'.phase = "preflight" /\ tool'.todo = Preflight(name)
  /\ tool'.seen = {} /\ tool'.failed = FALSE /\ have' = have

LEMMA DoneActive ==
  ASSUME TypeInv, NEW a
  PROVE  LET u == [Done EXCEPT !.active = a]
         IN  /\ u.name = tool.name /\ u.phase = tool.phase /\ u.seen = tool.seen
             /\ u.failed = tool.failed /\ u.todo = Tail(tool.todo) /\ u.created = tool.created
             /\ u.active = a
<1> DEFINE t == Done  u == [Done EXCEPT !.active = a]
<1>1. Record(t) /\ u = [t EXCEPT !.active = a]
  BY DoneIs
<1> HIDE DEF t, u
<1>2. /\ u.name = t.name /\ u.phase = t.phase /\ u.todo = t.todo
      /\ u.seen = t.seen /\ u.failed = t.failed /\ u.created = t.created /\ u.active = a
  BY <1>1, UpdateActive
<1>3. /\ u.name = tool.name /\ u.phase = tool.phase /\ u.seen = tool.seen
      /\ u.failed = tool.failed /\ u.todo = Tail(tool.todo) /\ u.created = tool.created
      /\ u.active = a
  BY <1>2, DoneIs DEF t
<1> QED BY <1>3 DEF u

LEMMA DoneCreated ==
  ASSUME TypeInv, NEW i
  PROVE  LET u == [Done EXCEPT !.created = <<i>> \o @]
         IN  /\ u.name = tool.name /\ u.phase = tool.phase /\ u.seen = tool.seen
             /\ u.failed = tool.failed /\ u.todo = Tail(tool.todo) /\ u.active = tool.active
<1> DEFINE t == Done  u == [Done EXCEPT !.created = <<i>> \o @]  a == <<i>> \o Done.created
<1>1. Record(t) /\ u = [t EXCEPT !.created = a]
  BY DoneIs
<1> HIDE DEF t, u, a
<1>2. /\ u.name = t.name /\ u.phase = t.phase /\ u.todo = t.todo
      /\ u.seen = t.seen /\ u.failed = t.failed /\ u.active = t.active
  BY <1>1, UpdateCreated
<1>3. /\ u.name = tool.name /\ u.phase = tool.phase /\ u.seen = tool.seen
      /\ u.failed = tool.failed /\ u.todo = Tail(tool.todo) /\ u.active = tool.active
  BY <1>2, DoneIs DEF t
<1> QED BY <1>3 DEF u

LEMMA Incomplete ==
  ASSUME NEW t, Record(t)
  PROVE  LET u == [t EXCEPT !.incomplete = TRUE]
         IN  /\ u.name = t.name /\ u.phase = t.phase /\ u.seen = t.seen
             /\ u.failed = t.failed /\ u.todo = t.todo /\ u.created = t.created /\ u.active = t.active
<1> DEFINE u == [t EXCEPT !.incomplete = TRUE]  a == TRUE
<1>1. u = [t EXCEPT !.incomplete = a]
  OBVIOUS
<1> HIDE DEF u, a
<1>2. /\ u.name = t.name /\ u.phase = t.phase /\ u.todo = t.todo
      /\ u.seen = t.seen /\ u.failed = t.failed /\ u.created = t.created /\ u.active = t.active
  BY <1>1, UpdateIncomplete
<1> QED BY <1>2 DEF u

LEMMA JudgeIs ==
  ASSUME TypeInv, Judge
  PROVE  \/ tool' = Idle
         \/ /\ Same /\ tool'.created = tool.created /\ tool'.active = tool.active
            /\ \/ tool'.todo = Tail(tool.todo)
               \/ tool'.todo = <<<<"queue", Arg>>>> \o Tail(tool.todo) /\ ~tool.active
<1> DEFINE push == Then(<<<<"queue", Arg>>>>)
<1>1. \/ tool' = Done \/ tool' = [Done EXCEPT !.incomplete = TRUE] \/ tool' = Idle
      \/ tool' = [push EXCEPT !.incomplete = TRUE] /\ ~tool.active
  BY DEF Judge
<1>2. /\ Record(push) /\ push.name = tool.name /\ push.phase = tool.phase
      /\ push.todo = <<<<"queue", Arg>>>> \o Tail(tool.todo) /\ push.seen = tool.seen
      /\ push.created = tool.created /\ push.active = tool.active /\ push.failed = tool.failed
  BY ThenIs
<1> HIDE DEF push
<1>3. CASE tool' = Done
  BY <1>3, DoneIs DEF Same
<1>4. CASE tool' = [Done EXCEPT !.incomplete = TRUE]
  <2> DEFINE t == Done
  <2>1. Record(t) /\ tool' = [t EXCEPT !.incomplete = TRUE]
    BY <1>4, DoneIs
  <2> HIDE DEF t
  <2>2. /\ tool'.name = t.name /\ tool'.phase = t.phase /\ tool'.seen = t.seen
        /\ tool'.failed = t.failed /\ tool'.todo = t.todo /\ tool'.created = t.created
        /\ tool'.active = t.active
    BY <2>1, Incomplete
  <2> QED BY <2>2, DoneIs DEF Same, t
<1>5. CASE tool' = [push EXCEPT !.incomplete = TRUE] /\ ~tool.active
  <2>1. /\ tool'.name = push.name /\ tool'.phase = push.phase /\ tool'.seen = push.seen
        /\ tool'.failed = push.failed /\ tool'.todo = push.todo /\ tool'.created = push.created
        /\ tool'.active = push.active
    BY <1>2, <1>5, Incomplete
  <2> QED BY <1>2, <1>5, <2>1 DEF Same
<1> QED BY <1>1, <1>3, <1>4, <1>5

LEMMA ReportIs ==
  ASSUME TypeInv, Report
  PROVE  /\ Same /\ tool'.created = tool.created /\ tool'.active = tool.active
         /\ tool'.todo = Pass \/ tool'.todo = Tail(tool.todo)
<1>1. CASE tool' = Done
  BY <1>1, DoneIs DEF Same
<1>2. CASE tool' = [tool EXCEPT !.todo = Pass, !.incomplete = FALSE]
  <2> DEFINE t == tool  u == tool'  s == Pass  a == FALSE
  <2>1. Record(t) /\ u = [t EXCEPT !.todo = s, !.incomplete = a]
    BY <1>2 DEF TypeInv, ToolOK
  <2> HIDE DEF t, u, s, a
  <2>2. /\ u.name = t.name /\ u.phase = t.phase /\ u.todo = s
        /\ u.seen = t.seen /\ u.failed = t.failed /\ u.created = t.created /\ u.active = t.active
    BY <2>1 DEF Record
  <2> QED BY <2>2 DEF t, u, s, Same
<1> QED BY <1>1, <1>2 DEF Report

LEMMA PassedOn ==
  ASSUME TypeInv, tool.todo # <<>>, Head(tool.todo)[1] \notin {"read", "write"}, have' = have, Same,
         \/ tool'.todo = Tail(tool.todo)
         \/ \E calls \in Seq(CallsOf(tool)) : tool'.todo = calls \o Tail(tool.todo)
  PROVE  OtherCall
<1>1. tool.todo \in Seq(CallsOf(tool)) /\ Tail(tool.todo) \in Seq(CallsOf(tool))
      /\ Head(tool.todo) \in CallsOf(tool)
  BY HeadOf DEF TypeInv, ToolOK
<1>2. tool.phase = "main" => tool.name # "expand_lab"
  <2>1. \A x \in ExpandCalls : x[1] = "write"
    BY ExpandHead
  <2> QED BY <1>1, <2>1 DEF CallsOf
<1>3. ASSUME NEW x, x[1] \in {"read", "write"}, Has(tool.todo, x) PROVE Has(tool'.todo, x)
  <2> DEFINE s == tool.todo  T == CallsOf(tool)
  <2>1. s \in Seq(T) /\ s # <<>> /\ Head(s) # x /\ Has(s, x)
    BY <1>1, <1>3
  <2> HIDE DEF s, T
  <2>2. Has(Tail(s), x)
    BY <2>1, HasTail
  <2>3. Tail(s) \in Seq(T)
    BY <2>1
  <2>4. \A calls \in Seq(T) : Has(calls \o Tail(s), x)
    BY <2>2, <2>3, HasConcat
  <2> QED BY <2>2, <2>4 DEF s, T
<1> QED BY <1>2, <1>3 DEF OtherCall

LEMMA RaisedKind ==
  ASSUME TypeInv, tool.todo # <<>>, tool' = Raised, have' = have \/ Written
  PROVE  Ended \/ ToCleanup \/ CleanupFailed
BY RaisedOK DEF Ended, ToCleanup, CleanupFailed, TypeInv, ToolOK

LEMMA DoneSame ==
  ASSUME TypeInv, tool' = Done
  PROVE  Same /\ tool'.todo = Tail(tool.todo)
BY DoneIs DEF Same

LEMMA ThenSame ==
  ASSUME TypeInv, NEW calls, tool' = Then(calls)
  PROVE  Same /\ tool'.todo = calls \o Tail(tool.todo)
BY ThenIs DEF Same

LEMMA ReadKind ==
  ASSUME TypeInv, Read
  PROVE  Ended \/ \E e : ReadOne(e)
<1>1. tool.todo # <<>> /\ Head(tool.todo)[1] = "read" /\ have' = have
  BY DEF Read, Call, labVars
<1>2. /\ tool.phase = "preflight" /\ Head(tool.todo) = <<"read", Arg>> /\ Arg \in Entities
      /\ CallsOf(tool) = PreflightCalls
  <2> DEFINE x == Head(tool.todo)
  <2>1. x = Head(tool.todo) /\ x[1] = "read" /\ Arg = x[2]
    BY <1>1 DEF Arg
  <2> HIDE DEF x
  <2> QED BY <1>1, <2>1, PhaseOf DEF CallsOf
<1> DEFINE found == {x \in have : x[1] = Arg}
           more == Active({Arg}) \o <<<<"idle">>>>
           reconcile == tool.name = "expand_lab" /\ Arg \in Configs
                          /\ found # {} /\ ~Matches(have, Arg)
           calls == IF reconcile THEN more ELSE <<>>
           t == Then(calls)
           u == [Then(calls) EXCEPT !.seen = @ \cup found]
<1>3. tool' = Idle \/ (tool' = u /\ Readable(Arg))
  BY DEF Read
<1>4. calls \in Seq(PreflightCalls)
  <2>1. ASSUME Arg \in Configs PROVE more \in Seq(PreflightCalls)
    <3>1. <<"running", {Arg}>> \in PreflightCalls /\ <<"queued", {Arg}>> \in PreflightCalls
          /\ <<"idle">> \in PreflightCalls
      BY <2>1 DEF PreflightCalls
    <3>2. Active({Arg}) \in Seq(PreflightCalls) /\ <<<<"idle">>>> \in Seq(PreflightCalls)
      BY <3>1, TupleTypes DEF Active
    <3> QED BY <3>2
  <2>2. <<>> \in Seq(PreflightCalls)
    OBVIOUS
  <2> HIDE DEF more
  <2> QED BY <2>1, <2>2
<1> HIDE DEF calls
<1>5. ASSUME tool' = u, Readable(Arg) PROVE ReadOne(Arg)
  <2>1. /\ Record(t) /\ t.name = tool.name /\ t.phase = tool.phase
        /\ t.todo = calls \o Tail(tool.todo) /\ t.seen = tool.seen /\ t.failed = tool.failed
    BY ThenIs
  <2> DEFINE a == t.seen \cup found
  <2>2. u = [t EXCEPT !.seen = a]
    OBVIOUS
  <2> HIDE DEF t, u, a
  <2>3. u.name = t.name /\ u.phase = t.phase /\ u.todo = t.todo /\ u.seen = a /\ u.failed = t.failed
    BY <2>1, <2>2, UpdateSeen
  <2>4. ASSUME NEW x, Has(Tail(tool.todo), x) PROVE Has(calls \o Tail(tool.todo), x)
    <3> DEFINE s == Tail(tool.todo)
    <3>1. s \in Seq(PreflightCalls) /\ Has(s, x)
      BY <1>1, <1>2, <2>4, HeadOf
    <3> HIDE DEF s
    <3>2. Has(calls \o s, x)
      BY <1>4, <3>1, HasConcat
    <3> QED BY <3>2 DEF s
  <2>5. a = tool.seen \cup found
    BY <2>1 DEF a
  <2> QED BY <1>1, <1>2, <1>5, <2>1, <2>3, <2>4, <2>5 DEF ReadOne
<1> QED BY <1>1, <1>3, <1>5 DEF Ended

Kind ==
  \/ Ended \/ Unmoved \/ OtherCall \/ WroteOne \/ ToCleanup \/ CleanupFailed \/ ToMain
  \/ \E e : ReadOne(e)
  \/ \E name \in Tools : Began(name)

LEMMA Kinds ==
  ASSUME TypeInv, [Next]_vars
  PROVE  Kind
<1>1. CASE Read
  BY <1>1, ReadKind DEF Kind
<1>2. CASE Write
  <2>1. tool.todo # <<>> /\ Head(tool.todo)[1] = "write" /\ Written
    BY <1>2 DEF Write, Call, Written, Arg
  <2>2. tool' = Done \/ tool' = Raised
    BY <1>2 DEF Write, Answered
  <2> QED BY <2>1, <2>2, DoneSame, RaisedKind DEF Kind, WroteOne
<1>3. CASE CountRunning \/ CountQueued
  <2>1. tool.todo # <<>> /\ Head(tool.todo)[1] \notin {"read", "write"} /\ have' = have
    BY <1>3 DEF CountRunning, CountQueued, Call, labVars
  <2>2. tool' = Idle \/ \E a : tool' = [Done EXCEPT !.active = a]
    BY <1>3 DEF CountRunning, CountQueued
  <2>3. ASSUME NEW a, tool' = [Done EXCEPT !.active = a] PROVE Same /\ tool'.todo = Tail(tool.todo)
    BY <2>3, DoneActive DEF Same
  <2> QED BY <2>1, <2>2, <2>3, PassedOn DEF Kind, Ended
<1>4. CASE RequireIdle \/ Await \/ Observe \/ Verify
  <2>1. tool.todo # <<>> /\ Head(tool.todo)[1] \notin {"read", "write"} /\ have' = have
    BY <1>4 DEF RequireIdle, Await, Observe, Verify, Call, labVars
  <2>2. tool' = Idle \/ tool' = Done \/ tool' = Raised
    BY <1>4 DEF RequireIdle, Await, Observe, Verify
  <2> QED BY <2>1, <2>2, DoneSame, PassedOn, RaisedKind DEF Kind, Ended
<1>5. CASE CallFails
  <2>1. tool.todo # <<>> /\ have' = have /\ tool' = Raised
    BY <1>5 DEF CallFails, labVars
  <2> QED BY <2>1, RaisedKind DEF Kind
<1>6. CASE Queue
  <2>1. tool.todo # <<>> /\ Head(tool.todo)[1] \notin {"read", "write"} /\ have' = have
    BY <1>6 DEF Queue, Call
  <2>2. tool' = Raised \/ \E i : tool' = [Done EXCEPT !.created = <<i>> \o @]
    BY <1>6 DEF Queue
  <2>3. ASSUME NEW i, tool' = [Done EXCEPT !.created = <<i>> \o @]
        PROVE  Same /\ tool'.todo = Tail(tool.todo)
    BY <2>3, DoneCreated DEF Same
  <2> QED BY <2>1, <2>2, <2>3, PassedOn, RaisedKind DEF Kind
<1>7. CASE Judge
  <2>1. tool.todo # <<>> /\ Head(tool.todo)[1] = "judge" /\ have' = have
    BY <1>7 DEF Judge, Call, labVars
  <2>2. <<<<"queue", Arg>>>> \in Seq(CallsOf(tool))
    <3> DEFINE x == Head(tool.todo)
    <3>1. x = Head(tool.todo) /\ x[1] = "judge" /\ Arg = x[2]
      BY <2>1 DEF Arg
    <3> HIDE DEF x
    <3>2. Arg \in Configs /\ tool.phase = "main" /\ tool.name = "run_lab"
      BY <2>1, <3>1, PhaseOf
    <3>3. <<"queue", Arg>> \in CallsOf(tool)
      BY <3>2 DEF CallsOf, RunCalls
    <3> QED BY <3>3, TupleTypes
  <2> QED BY <1>7, <2>1, <2>2, JudgeIs, PassedOn DEF Kind, Ended
<1>8. CASE Report
  <2>1. tool.todo # <<>> /\ Head(tool.todo)[1] = "report" /\ have' = have
    BY <1>8 DEF Report, Call, labVars
  <2>2. tool.phase = "main" /\ tool.name = "run_lab"
    BY <2>1, PhaseOf
  <2> QED BY <1>8, <2>1, <2>2, ReportIs DEF Kind, OtherCall
<1>9. CASE Cancel \/ Delete \/ Stop
  <2>1. tool.todo # <<>> /\ Head(tool.todo)[1] \in {"cancel", "delete", "stop"} /\ have' = have
    BY <1>9 DEF Cancel, Delete, Stop, Call, labVars
  <2>2. \/ tool' = Raised \/ tool' = Done
        \/ \E op \in {"cancel", "delete", "stop"} : tool' = Then(<<<<op, Arg>>>>)
    BY <1>9 DEF Cancel, Delete, Stop, Answered, Gone
  <2>3. \A op \in {"cancel", "delete", "stop"} : <<<<op, Arg>>>> \in Seq(CallsOf(tool))
    BY <2>1, CancelCall
  <2>4. CASE tool' = Raised
    BY <2>1, <2>4, RaisedKind DEF Kind
  <2>5. CASE tool' = Done
    BY <2>1, <2>5, DoneSame, PassedOn DEF Kind
  <2>6. ASSUME NEW op \in {"cancel", "delete", "stop"}, tool' = Then(<<<<op, Arg>>>>) PROVE Kind
    <3> DEFINE calls == <<<<op, Arg>>>>
    <3>1. calls \in Seq(CallsOf(tool)) /\ tool' = Then(calls)
      BY <2>3, <2>6
    <3> HIDE DEF calls
    <3> QED BY <2>1, <3>1, ThenSame, PassedOn DEF Kind
  <2> QED BY <2>2, <2>4, <2>5, <2>6
<1>10. CASE Proceed
  BY <1>10, ProceedIs DEF Kind, Ended, ToMain, ToCleanup, labVars
<1>11. CASE Deadline
  BY <1>11, DeadlineIs DEF Kind, Unmoved, Same, labVars
<1>12. CASE Killed
  BY <1>12 DEF Killed, Kind, Ended, labVars
<1>13. ASSUME NEW name \in Tools, Begin(name) PROVE Kind
  BY <1>13, BeginIs DEF Kind, Began, labVars
<1>14. CASE Environment /\ UNCHANGED <<tool, sessions>>
  BY <1>14, EnvironmentIs DEF Kind, Unmoved, Same
<1>15. CASE UNCHANGED vars
  BY <1>15 DEF vars, labVars, Kind, Unmoved, Same
<1> QED BY <1>1, <1>2, <1>3, <1>4, <1>5, <1>6, <1>7, <1>8, <1>9, <1>10, <1>11, <1>12, <1>13, <1>14,
           <1>15 DEF Next, ToolStep, Quiet

(* What one write changes.                                                 *)
LEMMA AfterIs ==
  ASSUME NEW S, NEW e, NEW f, NEW c, NEW g
  PROVE  /\ c # e => (<<c, g>> \in After(S, e, f) <=> <<c, g>> \in S)
         /\ g \notin Changing =>
              (<<c, g>> \in After(S, e, f) <=>
                 <<c, g>> \in S \/ (c = e /\ g = f /\ f \notin {"pause", "clear"}))
         /\ <<e, "active">> \in After(S, e, f) <=> f = "active" \/ (<<e, "active">> \in S /\ f # "pause")
         /\ <<e, "steps">> \in After(S, e, f) <=>
              f = "steps" \/ (<<e, "steps">> \in S /\ f \notin {"clear", "temporary"})
         /\ <<e, "temporary">> \in After(S, e, f) <=>
              f = "temporary" \/ (<<e, "temporary">> \in S /\ f \notin {"clear", "steps"})
<1> DEFINE steps == {<<e, "steps">>, <<e, "temporary">>}
<1>1. CASE f = "pause"
  <2>1. After(S, e, f) = S \ {<<e, "active">>}
    BY <1>1 DEF After
  <2> QED BY <1>1, <2>1 DEF Changing
<1>2. CASE f = "clear"
  <2>1. After(S, e, f) = S \ steps
    BY <1>2 DEF After
  <2> QED BY <1>2, <2>1 DEF Changing
<1>3. CASE f \in {"steps", "temporary"}
  <2>1. After(S, e, f) = (S \ steps) \cup {<<e, f>>}
    BY <1>3 DEF After
  <2> QED BY <1>3, <2>1 DEF Changing
<1>4. CASE f \notin {"pause", "clear", "steps", "temporary"}
  <2>1. After(S, e, f) = S \cup {<<e, f>>}
    BY <1>4 DEF After
  <2> QED BY <1>4, <2>1 DEF Changing
<1> QED BY <1>1, <1>2, <1>3, <1>4

LEMMA CoreStays ==
  ASSUME NEW S, NEW e, NEW f, NEW c, NEW g \in Core \cup {"made"}, <<c, g>> \in S
  PROVE  <<c, g>> \in After(S, e, f)
BY AfterIs DEF Core, Changing

LEMMA AfterSound ==
  ASSUME NEW S, Sound(S), NEW e, NEW f,
         f = "active" /\ e \in Configs => Buildable(S, e),
         f = "clear" /\ e \in Configs => <<e, "active">> \notin S
  PROVE  Sound(After(S, e, f))
<1> SUFFICES ASSUME NEW c \in Configs PROVE SoundFor(After(S, e, f), c)
  BY DEF Sound
<1>1. SoundFor(S, c)
  BY DEF Sound
<1>2. CASE c # e
  <2>1. \A g : <<c, g>> \in After(S, e, f) <=> <<c, g>> \in S
    BY <1>2, AfterIs
  <2> QED BY <1>1, <2>1 DEF SoundFor, Buildable, HasSteps
<1>3. CASE c = e
  <2> DEFINE T == After(S, e, f)
  <2>1. /\ <<e, "active">> \in T <=> f = "active" \/ (<<e, "active">> \in S /\ f # "pause")
        /\ <<e, "steps">> \in T <=> f = "steps" \/ (<<e, "steps">> \in S /\ f \notin {"clear", "temporary"})
        /\ <<e, "temporary">> \in T <=>
             f = "temporary" \/ (<<e, "temporary">> \in S /\ f \notin {"clear", "steps"})
    BY AfterIs
  <2>2. \A g \in Core : <<e, g>> \in S => <<e, g>> \in T
    BY CoreStays
  <2> HIDE DEF T
  <2>3. ~(<<e, "steps">> \in T /\ <<e, "temporary">> \in T)
    BY <1>1, <1>3, <2>1 DEF SoundFor
  <2>4. ASSUME <<e, "active">> \in T PROVE Buildable(T, e)
    <3>1. f # "clear" /\ Buildable(S, e)
      BY <1>1, <1>3, <2>1, <2>4 DEF SoundFor
    <3> QED BY <2>1, <2>2, <3>1 DEF Buildable, HasSteps
  <2> QED BY <1>3, <2>3, <2>4 DEF SoundFor, T
<1> QED BY <1>2, <1>3

-----------------------------------------------------------------------------
(* The invariant of the configurations.                                    *)

(* What the preflight has read: all of an entity at once.                  *)
SeenInv ==
  /\ Sound(tool.seen)
  /\ \A x \in tool.seen : x[2] \notin Changing => x \in have
  /\ tool.phase = "preflight" => tool.seen \subseteq have
  /\ tool.phase = "preflight" /\ tool.name # "none" =>
       \A c \in Configs : (\A x \in have : x[1] = c => x \in tool.seen) \/ Has(tool.todo, <<"read", c>>)
  /\ tool.name = "check_lab_states" =>
       \A c \in Configs : \/ PlannedFacts(c) \subseteq tool.seen
                          \/ tool.phase = "preflight" /\ Has(tool.todo, <<"read", c>>)
  /\ tool.name = "expand_lab" /\ <<"tcProject", "made">> \in tool.seen =>
       <<"tcProject", "description">> \in tool.seen

(* expand_lab.py: what is missing is still to be written, a configuration  *)
(* is activated last, and one that is paused is activated again.           *)
ExpandInv ==
  tool.name = "expand_lab" /\ tool.phase = "main" =>
    /\ \A x \in Provisioned : x \in have \/ Has(tool.todo, W(x[1], x[2]))
    /\ \A c \in Configs :
         /\ \A f \in Core \cup {"steps"} :
              <<c, f>> \in have \/ Before(tool.todo, W(c, f), W(c, "active"))
         /\ Followed(tool.todo, W(c, "pause"), W(c, "active"))

(* What a temporary change of what was seen may have made of the settings. *)
Changed(S, name, seen) ==
  /\ <<Composite, "active">> \in S <=> <<Composite, "active">> \in seen
  /\ name = "check_lab_states" =>
       \A f \in {"steps", "temporary"} : <<Beta, f>> \in S <=> <<Beta, f>> \in seen
  /\ \A c \in Configs : /\ <<c, "active">> \in S => <<c, "active">> \in seen
                        /\ HasSteps(seen, c) => HasSteps(S, c)

(* Each setting is as it was or will be restored.                          *)
Restored(S, seen, todo) ==
  /\ \A c \in Configs :
       \/ \A f \in {"steps", "temporary"} : <<c, f>> \in S <=> <<c, f>> \in seen
       \/ Has(todo, W(c, StepsAgain(c, seen)))
  /\ \/ <<Beta, "active">> \in S <=> <<Beta, "active">> \in seen
     \/ Has(todo, W(Beta, PausedAgain(Beta, seen)))

(* A temporary change: what it has changed, and what is left to restore.   *)
ChangeInv ==
  tool.name \in Temporary /\ tool.phase # "preflight" =>
    /\ Changed(have, tool.name, tool.seen)
    /\ tool.phase = "cleanup" /\ ~tool.failed => Restored(have, tool.seen, tool.todo)

ConfigInv == TypeInv /\ Sound(have) /\ SeenInv /\ ExpandInv /\ ChangeInv

LEMMA RestoringIs ==
  ASSUME NEW name, NEW S, NEW e, NEW f, <<e, f>> \in Restoring(name, S)
  PROVE  /\ e \in Configs
         /\ f = StepsAgain(e, S) \/ (e = Beta /\ f = PausedAgain(Beta, S))
         /\ name = "check_lab_states" /\ e = Beta => f = PausedAgain(Beta, S)
BY DEF Restoring, Configs, Composite, Beta

(* The calls that write, by script and phase.                              *)
LEMMA WriteIs ==
  ASSUME TypeInv, Written, NEW e, NEW f, e = Head(tool.todo)[2], f = Head(tool.todo)[3]
  PROVE  /\ tool.todo # <<>> /\ have' = After(have, e, f) /\ Head(tool.todo) = W(e, f)
         /\ \/ /\ tool.phase = "main" /\ tool.name = "expand_lab"
               /\ <<e, f>> \in Provisioned \cup {<<c, "pause">> : c \in Configs}
            \/ /\ tool.phase = "main" /\ tool.name \in Temporary
               /\ <<e, f>> \in TemporaryWrites(tool.name)
            \/ tool.phase = "cleanup" /\ <<e, f>> \in Restoring(tool.name, tool.seen)
<1> DEFINE x == Head(tool.todo)
<1>1. x = Head(tool.todo) /\ x[1] = "write" /\ x[2] = e /\ x[3] = f /\ tool.todo # <<>>
      /\ have' = After(have, x[2], x[3])
  BY DEF Written
<1> HIDE DEF x
<1> QED BY <1>1, PhaseOf

LEMMA SoundStep ==
  ASSUME ConfigInv, [Next]_vars
  PROVE  Sound(have)'
<1>1. have' = have \/ Written
  BY Kinds DEF ConfigInv, Kind, Ended, Unmoved, OtherCall, WroteOne, ToCleanup, CleanupFailed, ToMain,
       ReadOne, Began
<1> SUFFICES ASSUME Written PROVE Sound(have')
  BY <1>1 DEF ConfigInv
<1> DEFINE e == Head(tool.todo)[2]  f == Head(tool.todo)[3]
<1>2. e = Head(tool.todo)[2] /\ f = Head(tool.todo)[3] /\ TypeInv
  BY DEF ConfigInv
<1> HIDE DEF e, f
<1>3. /\ tool.todo # <<>> /\ have' = After(have, e, f) /\ Head(tool.todo) = W(e, f)
      /\ \/ /\ tool.phase = "main" /\ tool.name = "expand_lab"
            /\ <<e, f>> \in Provisioned \cup {<<c, "pause">> : c \in Configs}
         \/ /\ tool.phase = "main" /\ tool.name \in Temporary
            /\ <<e, f>> \in TemporaryWrites(tool.name)
         \/ tool.phase = "cleanup" /\ <<e, f>> \in Restoring(tool.name, tool.seen)
  BY <1>2, WriteIs
<1>4. CASE /\ tool.phase = "main" /\ tool.name = "expand_lab"
           /\ <<e, f>> \in Provisioned \cup {<<c, "pause">> : c \in Configs}
  <2>1. f # "clear"
    BY <1>4 DEF Provisioned, PlannedEntities, PlannedFacts, Fields
  <2>2. ASSUME f = "active", e \in Configs PROVE Buildable(have, e)
    <3>1. ASSUME NEW g \in Core \cup {"steps"} PROVE <<e, g>> \in have
      <4>1. <<e, g>> \in have \/ Before(tool.todo, W(e, g), W(e, "active"))
        BY <1>4, <2>2 DEF ConfigInv, ExpandInv
      <4> DEFINE s == tool.todo  T == CallsOf(tool)
      <4>2. s \in Seq(T) /\ s # <<>> /\ Head(s) = W(e, "active")
        BY <1>2, <1>3, <2>2 DEF TypeInv, ToolOK
      <4> HIDE DEF s, T
      <4>3. ~Before(s, W(e, g), W(e, "active"))
        BY <4>2, BeforeTail
      <4> QED BY <4>1, <4>3 DEF s
    <3> QED BY <3>1 DEF Buildable, HasSteps
  <2> QED BY <1>3, <2>1, <2>2, AfterSound DEF ConfigInv
<1>5. CASE tool.phase = "main" /\ tool.name \in Temporary /\ <<e, f>> \in TemporaryWrites(tool.name)
  <2>1. f \in {"temporary", "pause"}
    BY <1>5 DEF TemporaryWrites
  <2> QED BY <1>3, <2>1, AfterSound DEF ConfigInv
<1>6. CASE tool.phase = "cleanup" /\ <<e, f>> \in Restoring(tool.name, tool.seen)
  <2>1. /\ e \in Configs
        /\ f = StepsAgain(e, tool.seen) \/ (e = Beta /\ f = PausedAgain(Beta, tool.seen))
    BY <1>6, RestoringIs
  <2>2. /\ SoundFor(tool.seen, e) /\ tool.name \in Temporary
        /\ <<e, "active">> \in have => <<e, "active">> \in tool.seen
        /\ HasSteps(tool.seen, e) => HasSteps(have, e)
    BY <1>6, <2>1 DEF ConfigInv, SeenInv, ChangeInv, Changed, Sound, TypeInv, ToolOK
  <2>3. ASSUME f = "clear" PROVE <<e, "active">> \notin have
    <3>1. f = StepsAgain(e, tool.seen)
      BY <2>1, <2>3 DEF PausedAgain
    <3>2. ~HasSteps(tool.seen, e)
      BY <2>3, <3>1 DEF StepsAgain, HasSteps
    <3> QED BY <2>2, <3>2 DEF SoundFor, Buildable
  <2>4. ASSUME f = "active" PROVE Buildable(have, e)
    <3>1. <<e, "active">> \in tool.seen
      BY <2>1, <2>4 DEF StepsAgain, PausedAgain
    <3>2. Buildable(tool.seen, e)
      BY <2>2, <3>1 DEF SoundFor
    <3>3. \A g \in Core : <<e, g>> \in have
      <4>1. \A g \in Core : <<e, g>> \in tool.seen /\ <<e, g>>[2] \notin Changing
        BY <3>2 DEF Buildable, Core, Changing
      <4> QED BY <4>1 DEF ConfigInv, SeenInv
    <3> QED BY <2>2, <3>2, <3>3 DEF Buildable
  <2> QED BY <1>3, <2>3, <2>4, AfterSound DEF ConfigInv
<1> QED BY <1>3, <1>4, <1>5, <1>6

LEMMA FactPairs == ASSUME NEW x \in Facts PROVE x = <<x[1], x[2]>>
BY PairsOfFacts

(* What a preflight read makes of one configuration.                       *)
LEMMA ReadFacts ==
  ASSUME TypeInv, NEW e, tool'.seen = tool.seen \cup {x \in have : x[1] = e},
         tool.seen \subseteq have, NEW c, NEW g
  PROVE  /\ c # e => (<<c, g>> \in tool'.seen <=> <<c, g>> \in tool.seen)
         /\ c = e => (<<c, g>> \in tool'.seen <=> <<c, g>> \in have)
OBVIOUS

LEMMA PreflightReads ==
  ASSUME NEW name \in Tools, NEW c \in Configs
  PROVE  Has(Preflight(name), <<"read", c>>)
<1> DEFINE six == <<"bbProject", "repo", "tcProject", "root", Beta, Composite>>
<1>1. /\ six \in Seq(Entities) /\ Len(six) = 6 /\ six[5] = Beta /\ six[6] = Composite
      /\ <<Composite, Beta>> \in Seq(Entities) /\ <<Beta, Composite>> \in Seq(Entities)
  BY DEF Entities
<1>2. c = Beta \/ c = Composite
  BY DEF Configs
<1>3. \A e \in Entities : <<"read", e>> \in PreflightCalls
  BY DEF PreflightCalls
<1>4. ASSUME NEW es \in Seq(Entities), NEW i \in 1..Len(es), es[i] = c
      PROVE  Has(ReadAll(es), <<"read", c>>) /\ ReadAll(es) \in Seq(PreflightCalls)
  BY <1>3, <1>4, ReadAllTypes DEF Has
<1>5. CASE name = "expand_lab"
  <2>1. Preflight(name) = ReadAll(six)
    BY <1>5 DEF Preflight
  <2> HIDE DEF six
  <2>2. 5 \in 1..6 /\ 6 \in 1..6
    OBVIOUS
  <2> QED BY <2>1, <2>2, <1>1, <1>2, <1>4
<1>6. CASE name = "check_lab_states"
  <2> DEFINE es == <<Composite, Beta>>  s == ReadAll(es)
  <2>1. Preflight(name) = s \o Active(Configs) \o <<<<"idle">>>>
    BY <1>6 DEF Preflight
  <2>2. es \in Seq(Entities) /\ Len(es) = 2 /\ es[1] = Composite /\ es[2] = Beta
    BY <1>1
  <2>3. Active(Configs) \in Seq(PreflightCalls) /\ <<<<"idle">>>> \in Seq(PreflightCalls)
    <3>1. <<"running", Configs>> \in PreflightCalls /\ <<"queued", Configs>> \in PreflightCalls
          /\ <<"idle">> \in PreflightCalls
      BY DEF PreflightCalls
    <3> QED BY <3>1, TupleTypes DEF Active
  <2> HIDE DEF es
  <2>4. 1 \in 1..2 /\ 2 \in 1..2
    OBVIOUS
  <2>5. Has(s, <<"read", c>>) /\ s \in Seq(PreflightCalls)
    BY <2>2, <2>4, <1>2, <1>4
  <2> DEFINE r == Active(Configs)  i == <<<<"idle">>>>
  <2>6. r \in Seq(PreflightCalls) /\ i \in Seq(PreflightCalls) /\ Preflight(name) = (s \o r) \o i
    BY <2>1, <2>3
  <2> HIDE DEF s, r, i
  <2>7. s \o r \in Seq(PreflightCalls) /\ Has(s \o r, <<"read", c>>)
    BY <2>5, <2>6, HasConcat
  <2> DEFINE q == s \o r  x == <<"read", c>>
  <2>8. q \in Seq(PreflightCalls) /\ Has(q, x) /\ Preflight(name) = q \o i
    BY <2>6, <2>7
  <2> HIDE DEF six, q, x
  <2>9. Has(q \o i, x)
    BY <2>6, <2>8, HasConcat
  <2> QED BY <2>8, <2>9 DEF x
<1>7. CASE name \notin {"expand_lab", "check_lab_states"}
  <2> DEFINE es == <<Beta, Composite>>
  <2>1. Preflight(name) = ReadAll(es)
    BY <1>7 DEF Preflight
  <2>2. es \in Seq(Entities) /\ Len(es) = 2 /\ es[1] = Beta /\ es[2] = Composite
    BY <1>1
  <2> HIDE DEF es
  <2>3. 1 \in 1..2 /\ 2 \in 1..2
    OBVIOUS
  <2> QED BY <2>1, <2>2, <2>3, <1>2, <1>4
<1> QED BY <1>5, <1>6, <1>7

(* The script has not read anything in the step.                           *)
SeenKept ==
  /\ tool'.name = tool.name /\ tool'.seen = tool.seen
  /\ have' = have \/ Written
  /\ tool'.phase = "preflight" =>
       /\ tool.phase = "preflight" /\ have' = have
       /\ \A c : Has(tool.todo, <<"read", c>>) => Has(tool'.todo, <<"read", c>>)
  /\ tool.phase = "preflight" /\ tool'.phase # "preflight" => tool.todo = <<>>

LEMMA SeenKinds ==
  ASSUME TypeInv, [Next]_vars
  PROVE  \/ tool' = Idle \/ SeenKept
         \/ \E e : ReadOne(e)
         \/ \E name \in Tools : Began(name)
<1>1. CASE Unmoved
  BY <1>1 DEF Unmoved, Same, SeenKept
<1>2. CASE OtherCall
  <2>1. \A c : <<"read", c>>[1] = "read"
    OBVIOUS
  <2> QED BY <1>2, <2>1 DEF OtherCall, Same, SeenKept
<1>3. CASE WroteOne
  <2>1. tool.phase # "preflight"
    BY <1>3, WriteIs DEF WroteOne
  <2> QED BY <1>3, <2>1 DEF WroteOne, Same, SeenKept
<1>4. CASE ToCleanup \/ CleanupFailed \/ ToMain
  BY <1>4 DEF ToCleanup, CleanupFailed, ToMain, SeenKept
<1> QED BY Kinds, <1>1, <1>2, <1>3, <1>4 DEF Kind, Ended

LEMMA SeenStep ==
  ASSUME ConfigInv, [Next]_vars
  PROVE  SeenInv'
<1>1. TypeInv /\ SeenInv /\ Sound(have) /\ tool.seen \subseteq Facts
  BY DEF ConfigInv, TypeInv, ToolOK
<1>2. Sound({})
  BY DEF Sound, SoundFor
<1>3. CASE tool' = Idle
  <2>1. tool'.name = "none" /\ tool'.phase = "preflight" /\ tool'.seen = {}
    BY <1>3 DEF Idle
  <2> QED BY <1>2, <2>1 DEF SeenInv
<1>4. ASSUME NEW name \in Tools, Began(name) PROVE SeenInv'
  <2>1. tool'.name = name /\ tool'.phase = "preflight" /\ tool'.seen = {} /\ tool'.todo = Preflight(name)
    BY <1>4 DEF Began
  <2>2. \A c \in Configs : Has(tool'.todo, <<"read", c>>)
    BY <2>1, PreflightReads
  <2> QED BY <1>2, <2>1, <2>2 DEF SeenInv
<1>5. CASE SeenKept
  <2>1. \A x \in tool.seen : x[2] \notin Changing => x \in have'
    <3> SUFFICES ASSUME NEW x \in tool.seen, x[2] \notin Changing, Written PROVE x \in have'
      BY <1>1, <1>5 DEF SeenInv, SeenKept
    <3> DEFINE e == Head(tool.todo)[2]  f == Head(tool.todo)[3]
    <3>1. have' = After(have, e, f)
      BY DEF Written
    <3> HIDE DEF e, f
    <3>2. x = <<x[1], x[2]>> /\ x \in have
      BY <1>1, FactPairs DEF SeenInv
    <3> DEFINE c == x[1]  g == x[2]
    <3>3. <<c, g>> \in have /\ g \notin Changing /\ x = <<c, g>>
      BY <3>2
    <3> HIDE DEF c, g
    <3> QED BY <3>1, <3>3, AfterIs
  <2>2. tool'.phase = "preflight" => tool.phase = "preflight" /\ have' = have
    BY <1>5 DEF SeenKept
  <2>3. tool.name = "check_lab_states" =>
          \A c \in Configs : \/ PlannedFacts(c) \subseteq tool.seen
                             \/ tool'.phase = "preflight" /\ Has(tool'.todo, <<"read", c>>)
    <3>1. tool.todo = <<>> => \A x : ~Has(tool.todo, x)
      BY TupleHas
    <3> QED BY <1>1, <1>5, <3>1 DEF SeenKept, SeenInv
  <2> QED BY <1>1, <1>5, <2>1, <2>2, <2>3 DEF SeenInv, SeenKept
<1>6. ASSUME NEW e, ReadOne(e) PROVE SeenInv'
  <2>1. /\ tool.phase = "preflight" /\ tool'.phase = "preflight" /\ tool'.name = tool.name
        /\ have' = have /\ tool.seen \subseteq have /\ Readable(e)
        /\ tool'.seen = tool.seen \cup {x \in have : x[1] = e}
    BY <1>1, <1>6 DEF ReadOne, SeenInv
  <2>2. tool'.seen \subseteq have
    BY <2>1
  <2>3. ASSUME NEW c, c # e, Has(tool.todo, <<"read", c>>) PROVE Has(tool'.todo, <<"read", c>>)
    <3> DEFINE s == tool.todo  T == CallsOf(tool)  x == <<"read", c>>
    <3>1. s \in Seq(T) /\ s # <<>> /\ Head(s) # x /\ Has(s, x)
      BY <1>1, <1>6, <2>3 DEF ReadOne, TypeInv, ToolOK
    <3> HIDE DEF s, T
    <3>2. Has(Tail(s), x)
      BY <3>1, HasTail
    <3> QED BY <1>6, <3>2 DEF ReadOne, s
  <2>4. Sound(tool'.seen)
    <3> SUFFICES ASSUME NEW c \in Configs PROVE SoundFor(tool'.seen, c)
      BY DEF Sound
    <3> DEFINE old == tool.seen  new == tool'.seen
    <3>1. SoundFor(old, c) /\ SoundFor(have, c)
      BY <1>1 DEF SeenInv, Sound
    <3>2. (\A g : <<c, g>> \in new <=> <<c, g>> \in old) \/ (\A g : <<c, g>> \in new <=> <<c, g>> \in have)
      BY <1>1, <2>1, ReadFacts
    <3> HIDE DEF old, new
    <3>3. SoundFor(new, c)
      BY <3>1, <3>2 DEF SoundFor, Buildable, HasSteps
    <3> QED BY <3>3 DEF new
  <2>5. ASSUME tool.name # "none", NEW c \in Configs
        PROVE  (\A x \in have : x[1] = c => x \in tool'.seen) \/ Has(tool'.todo, <<"read", c>>)
    <3>1. CASE c = e
      BY <2>1, <3>1
    <3>2. CASE c # e
      BY <1>1, <2>1, <2>3, <2>5, <3>2 DEF SeenInv
    <3> QED BY <3>1, <3>2
  <2>6. ASSUME tool.name = "check_lab_states", NEW c \in Configs
        PROVE  PlannedFacts(c) \subseteq tool'.seen \/ Has(tool'.todo, <<"read", c>>)
    <3>1. CASE c = e
      <4>1. PlannedFacts(e) \subseteq have
        BY <2>1, <2>6 DEF Readable, Matches
      <4>2. \A x \in PlannedFacts(e) : x[1] = e
        BY DEF PlannedFacts
      <4> QED BY <2>1, <3>1, <4>1, <4>2
    <3>2. CASE c # e
      BY <1>1, <2>1, <2>3, <2>6, <3>2 DEF SeenInv
    <3> QED BY <3>1, <3>2
  <2>7. ASSUME tool.name = "expand_lab", <<"tcProject", "made">> \in tool'.seen
        PROVE  <<"tcProject", "description">> \in tool'.seen
    <3>1. CASE e = "tcProject"
      <4>1. <<"tcProject", "made">> \in have => <<"tcProject", "description">> \in have
        BY <2>1, <2>7, <3>1 DEF Readable, Acceptable
      <4> QED BY <1>1, <2>1, <2>7, <3>1, <4>1, ReadFacts
    <3>2. CASE e # "tcProject"
      BY <1>1, <2>1, <2>7, <3>2, ReadFacts DEF SeenInv
    <3> QED BY <3>1, <3>2
  <2> QED BY <2>1, <2>2, <2>4, <2>5, <2>6, <2>7 DEF SeenInv
<1> QED BY <1>1, <1>3, <1>4, <1>5, <1>6, SeenKinds

(* The first call of expand_lab.py is ahead.                               *)
LEMMA ExpandStart ==
  ASSUME ConfigInv, ToMain, tool.name = "expand_lab"
  PROVE  ExpandInv'
<1> DEFINE plan == ProvisionPlan(tool.seen)
<1>1. /\ tool.phase = "preflight" /\ tool'.name = tool.name /\ tool'.phase = "main"
      /\ tool'.todo = plan /\ have' = have /\ tool.seen \subseteq have
      /\ <<"tcProject", "made">> \in tool.seen => <<"tcProject", "description">> \in tool.seen
  BY DEF ToMain, Main, ConfigInv, SeenInv
<1>2. /\ \A c \in Configs : ActivatesLast(plan, c)
      /\ \A x \in PlannedEntities : x # <<"tcProject", "description">>
           => x \in tool.seen \/ Has(plan, W(x[1], x[2]))
      /\ <<"tcProject", "made">> \in tool.seen \/ Has(plan, W("tcProject", "description"))
      /\ \A c \in Configs : /\ <<c, "made">> \in tool.seen \/ Has(plan, W(c, "made"))
                            /\ \/ Matches(tool.seen, c)
                               \/ \A f \in Core \cup {"steps", "active"} : Has(plan, W(c, f))
  BY PlanIs
<1> HIDE DEF plan
<1>3. ASSUME NEW x \in Provisioned PROVE x \in have \/ Has(plan, W(x[1], x[2]))
  <2>1. CASE x \in PlannedEntities
    <3>1. CASE x # <<"tcProject", "description">>
      BY <1>1, <1>2, <2>1, <3>1
    <3>2. CASE x = <<"tcProject", "description">>
      BY <1>1, <1>2, <3>2
    <3> QED BY <3>1, <3>2
  <2>2. ASSUME NEW c \in Configs, x \in PlannedFacts(c) PROVE x \in have \/ Has(plan, W(x[1], x[2]))
    <3>1. \/ x = <<c, "made">>
          \/ \E f \in Core \cup {"steps", "active"} : x = <<c, f>>
      BY <2>2, PlannedFactsAre DEF Core
    <3>2. Matches(tool.seen, c) => x \in have
      BY <1>1, <2>2 DEF Matches
    <3>3. CASE x = <<c, "made">>
      BY <1>1, <1>2, <3>3
    <3>4. ASSUME NEW f \in Core \cup {"steps", "active"}, x = <<c, f>>
          PROVE  x \in have \/ Has(plan, W(x[1], x[2]))
      BY <1>2, <3>2, <3>4
    <3> QED BY <3>1, <3>3, <3>4
  <2> QED BY <2>1, <2>2, PlannedFactsAre
<1>4. ASSUME NEW c \in Configs
      PROVE  /\ \A f \in Core \cup {"steps"} : Before(plan, W(c, f), W(c, "active"))
             /\ Followed(plan, W(c, "pause"), W(c, "active"))
  BY <1>2 DEF ActivatesLast
<1> QED BY <1>1, <1>3, <1>4 DEF ExpandInv

LEMMA ExpandStep ==
  ASSUME ConfigInv, [Next]_vars
  PROVE  ExpandInv'
<1> SUFFICES ASSUME tool'.name = "expand_lab", tool'.phase = "main" PROVE ExpandInv'
  BY DEF ExpandInv
<1>1. Idle.name # "expand_lab"
  BY DEF Idle
<1>2. \/ ToMain /\ tool.name = "expand_lab"
      \/ Unmoved \/ WroteOne
  BY <1>1, Kinds DEF ConfigInv, Kind, Ended, OtherCall, Same, ToCleanup, CleanupFailed, ToMain,
       ReadOne, Began
<1>3. CASE Unmoved
  BY <1>3 DEF Unmoved, Same, ConfigInv, ExpandInv
<1>4. CASE WroteOne
  <2>1. TypeInv /\ Written /\ tool.name = "expand_lab" /\ tool.phase = "main"
        /\ tool'.todo = Tail(tool.todo)
    BY <1>4 DEF WroteOne, Same, ConfigInv
  <2> DEFINE e == Head(tool.todo)[2]  f == Head(tool.todo)[3]  s == tool.todo  T == CallsOf(tool)
  <2>2. /\ s # <<>> /\ have' = After(have, e, f) /\ Head(s) = W(e, f)
        /\ <<e, f>> \in Provisioned \cup {<<c, "pause">> : c \in Configs}
    BY <2>1, WriteIs DEF Temporary
  <2>3. /\ s \in Seq(T) /\ tool'.todo = Tail(s)
        /\ \A x \in Provisioned : x \in have \/ Has(s, W(x[1], x[2]))
        /\ \A c \in Configs :
             /\ \A g \in Core \cup {"steps"} :
                  <<c, g>> \in have \/ Before(s, W(c, g), W(c, "active"))
             /\ Followed(s, W(c, "pause"), W(c, "active"))
    BY <2>1 DEF ConfigInv, ExpandInv, TypeInv, ToolOK
  <2> HIDE DEF e, f, s, T
  <2>4. f \notin {"clear", "temporary"} /\ (f = "pause" => e \in Configs)
    BY <2>2 DEF Provisioned, PlannedEntities, PlannedFacts, Fields
  <2>5. ASSUME NEW c, NEW g, g \notin {"temporary", "pause"},
               <<c, g>> \in have \/ (c = e /\ g = f), ~(g = "active" /\ f = "pause" /\ c = e)
        PROVE  <<c, g>> \in have'
    <3> DEFINE S == have
    <3>1. /\ c # e => (<<c, g>> \in After(S, e, f) <=> <<c, g>> \in S)
          /\ g \notin Changing =>
               (<<c, g>> \in After(S, e, f) <=>
                  <<c, g>> \in S \/ (c = e /\ g = f /\ f \notin {"pause", "clear"}))
          /\ <<e, "active">> \in After(S, e, f) <=> f = "active" \/ (<<e, "active">> \in S /\ f # "pause")
          /\ <<e, "steps">> \in After(S, e, f) <=>
               f = "steps" \/ (<<e, "steps">> \in S /\ f \notin {"clear", "temporary"})
      BY AfterIs
    <3> QED BY <2>2, <2>4, <2>5, <3>1 DEF Changing
  <2>6. \A x \in Provisioned : x = <<x[1], x[2]>> /\ x[2] \notin {"temporary", "pause"}
    BY DEF Provisioned, PlannedEntities, PlannedFacts, Fields
  <2>7. ASSUME NEW x \in Provisioned PROVE x \in have' \/ Has(Tail(s), W(x[1], x[2]))
    <3> DEFINE c == x[1]  g == x[2]
    <3>1. x = <<c, g>> /\ g \notin {"temporary", "pause"}
      BY <2>6
    <3>2. <<c, g>> \in have \/ Has(s, W(c, g))
      BY <2>3, <3>1
    <3> HIDE DEF c, g
    <3>3. CASE f = "pause" /\ c = e /\ g = "active"
      <4>1. Followed(s, W(c, "pause"), W(c, "active")) /\ Head(s) = W(c, "pause")
        BY <2>2, <2>3, <2>4, <3>3
      <4>2. Has(Tail(s), W(c, "active"))
        BY <2>2, <2>3, <4>1, FollowedTail
      <4> QED BY <3>3, <4>2 DEF c, g
    <3>4. CASE ~(f = "pause" /\ c = e /\ g = "active")
      <4>1. CASE Head(s) = W(c, g)
        <5>1. c = e /\ g = f
          BY <2>2, <4>1 DEF W
        <5> QED BY <2>5, <3>1, <3>4, <5>1
      <4>2. CASE Head(s) # W(c, g)
        <5>1. <<c, g>> \in have \/ Has(Tail(s), W(c, g))
          BY <2>2, <2>3, <3>2, <4>2, HasTail
        <5> QED BY <2>5, <3>1, <3>4, <5>1 DEF c, g
      <4> QED BY <4>1, <4>2
    <3> QED BY <3>3, <3>4
  <2>8. ASSUME NEW c \in Configs, NEW g \in Core \cup {"steps"}
        PROVE  <<c, g>> \in have' \/ Before(Tail(s), W(c, g), W(c, "active"))
    <3>1. g \notin {"temporary", "pause", "active"}
      BY DEF Core
    <3>2. CASE <<c, g>> \in have \/ Head(s) = W(c, g)
      <4>1. <<c, g>> \in have \/ (c = e /\ g = f)
        BY <2>2, <3>2 DEF W
      <4> QED BY <2>5, <3>1, <4>1
    <3>3. CASE <<c, g>> \notin have /\ Head(s) # W(c, g)
      <4>1. Before(s, W(c, g), W(c, "active"))
        BY <2>3, <3>3
      <4> QED BY <2>2, <2>3, <3>3, <4>1, BeforeTail
    <3> QED BY <3>2, <3>3
  <2>9. ASSUME NEW c \in Configs PROVE Followed(Tail(s), W(c, "pause"), W(c, "active"))
    BY <2>2, <2>3, FollowedTail
  <2> QED BY <2>3, <2>7, <2>8, <2>9 DEF ExpandInv
<1> QED BY <1>2, <1>3, <1>4, ExpandStart DEF ConfigInv

LEMMA TemporaryWriteIs ==
  ASSUME TypeInv, Written, tool.name \in Temporary, NEW e, NEW f,
         e = Head(tool.todo)[2], f = Head(tool.todo)[3]
  PROVE  /\ e \in Configs
         /\ \/ f \in {"temporary", "steps"}
            \/ f = "clear" /\ ~HasSteps(tool.seen, e)
            \/ f = "pause" /\ e = Beta
            \/ f = "active" /\ e = Beta /\ <<Beta, "active">> \in tool.seen
         /\ tool.name = "check_lab_states" /\ e = Beta => f \in {"pause", "active"}
<1>1. \/ <<e, f>> \in TemporaryWrites(tool.name)
      \/ <<e, f>> \in Restoring(tool.name, tool.seen)
  BY WriteIs DEF Temporary
<1>2. CASE <<e, f>> \in TemporaryWrites(tool.name)
  BY <1>2 DEF TemporaryWrites, Configs, Composite, Beta
<1>3. CASE <<e, f>> \in Restoring(tool.name, tool.seen)
  <2>1. StepsAgain(e, tool.seen) \in {"temporary", "steps", "clear"}
        /\ (StepsAgain(e, tool.seen) = "clear" => ~HasSteps(tool.seen, e))
    BY DEF StepsAgain, HasSteps
  <2>2. PausedAgain(Beta, tool.seen) \in {"pause", "active"}
        /\ (PausedAgain(Beta, tool.seen) = "active" => <<Beta, "active">> \in tool.seen)
    BY DEF PausedAgain
  <2> QED BY <1>3, <2>1, <2>2, RestoringIs
<1> QED BY <1>1, <1>2, <1>3

LEMMA ChangedKept ==
  ASSUME NEW S, NEW name, NEW seen, Changed(S, name, seen), NEW e \in Configs, NEW f,
         \/ f \in {"temporary", "steps"}
         \/ f = "clear" /\ ~HasSteps(seen, e)
         \/ f = "pause" /\ e = Beta
         \/ f = "active" /\ e = Beta /\ <<Beta, "active">> \in seen,
         name = "check_lab_states" /\ e = Beta => f \in {"pause", "active"}
  PROVE  Changed(After(S, e, f), name, seen)
<1> DEFINE T == After(S, e, f)
<1>1. /\ \A c, g : c # e => (<<c, g>> \in T <=> <<c, g>> \in S)
      /\ <<e, "active">> \in T <=> f = "active" \/ (<<e, "active">> \in S /\ f # "pause")
      /\ <<e, "steps">> \in T <=> f = "steps" \/ (<<e, "steps">> \in S /\ f \notin {"clear", "temporary"})
      /\ <<e, "temporary">> \in T <=> f = "temporary" \/ (<<e, "temporary">> \in S /\ f \notin {"clear", "steps"})
  BY AfterIs
<1> HIDE DEF T
<1>2. Composite # Beta
  BY DEF Composite, Beta
<1>3. <<Composite, "active">> \in T <=> <<Composite, "active">> \in seen
  BY <1>1, <1>2 DEF Changed
<1>4. ASSUME name = "check_lab_states", NEW g \in {"steps", "temporary"}
      PROVE  <<Beta, g>> \in T <=> <<Beta, g>> \in seen
  BY <1>1, <1>4 DEF Changed
<1>5. ASSUME NEW c \in Configs, <<c, "active">> \in T PROVE <<c, "active">> \in seen
  BY <1>1, <1>5 DEF Changed
<1>6. ASSUME NEW c \in Configs, HasSteps(seen, c) PROVE HasSteps(T, c)
  <2>1. HasSteps(S, c)
    BY <1>6 DEF Changed
  <2> QED BY <1>1, <1>6, <2>1 DEF HasSteps
<1>7. Changed(T, name, seen)
  BY <1>3, <1>4, <1>5, <1>6 DEF Changed
<1> QED BY <1>7 DEF T

LEMMA RestoredWrite ==
  ASSUME NEW S, NEW seen, Sound(seen), NEW T, NEW s \in Seq(T), s # <<>>,
         Restored(S, seen, s), NEW e \in Configs, NEW f, Head(s) = W(e, f),
         f = StepsAgain(e, seen) \/ (e = Beta /\ f = PausedAgain(Beta, seen))
  PROVE  Restored(After(S, e, f), seen, Tail(s))
<1> DEFINE A == After(S, e, f)
<1>1. /\ \A c, g : c # e => (<<c, g>> \in A <=> <<c, g>> \in S)
      /\ <<e, "active">> \in A <=> f = "active" \/ (<<e, "active">> \in S /\ f # "pause")
      /\ <<e, "steps">> \in A <=> f = "steps" \/ (<<e, "steps">> \in S /\ f \notin {"clear", "temporary"})
      /\ <<e, "temporary">> \in A <=> f = "temporary" \/ (<<e, "temporary">> \in S /\ f \notin {"clear", "steps"})
  BY AfterIs
<1> HIDE DEF A
<1>2. \A x : Has(s, x) <=> W(e, f) = x \/ Has(Tail(s), x)
  BY HasTail
<1>3. \A c, d, g, h : W(c, g) = W(d, h) <=> c = d /\ g = h
  BY DEF W
<1>4. ASSUME NEW c \in Configs
      PROVE  \/ \A g \in {"steps", "temporary"} : <<c, g>> \in A <=> <<c, g>> \in seen
             \/ Has(Tail(s), W(c, StepsAgain(c, seen)))
  <2>1. ~(<<c, "steps">> \in seen /\ <<c, "temporary">> \in seen)
    BY DEF Sound, SoundFor
  <2>2. \/ \A g \in {"steps", "temporary"} : <<c, g>> \in S <=> <<c, g>> \in seen
        \/ c = e /\ f = StepsAgain(c, seen)
        \/ Has(Tail(s), W(c, StepsAgain(c, seen)))
    BY <1>2, <1>3 DEF Restored
  <2>3. CASE c = e /\ f = StepsAgain(c, seen)
    <3>1. /\ <<c, "temporary">> \in seen => f = "temporary"
          /\ <<c, "steps">> \in seen => f = "steps"
          /\ <<c, "temporary">> \notin seen /\ <<c, "steps">> \notin seen => f = "clear"
      BY <2>1, <2>3 DEF StepsAgain
    <3> QED BY <1>1, <2>1, <2>3, <3>1
  <2>4. CASE c # e \/ f # StepsAgain(c, seen)
    <3>1. \A g \in {"steps", "temporary"} : <<c, g>> \in A <=> <<c, g>> \in S
      <4>1. PausedAgain(Beta, seen) \in {"active", "pause"}
        BY DEF PausedAgain
      <4> QED BY <1>1, <2>4, <4>1
    <3> QED BY <2>2, <2>4, <3>1
  <2> QED BY <2>3, <2>4
<1>5. \/ <<Beta, "active">> \in A <=> <<Beta, "active">> \in seen
      \/ Has(Tail(s), W(Beta, PausedAgain(Beta, seen)))
  <2>1. \/ <<Beta, "active">> \in S <=> <<Beta, "active">> \in seen
        \/ e = Beta /\ f = PausedAgain(Beta, seen)
        \/ Has(Tail(s), W(Beta, PausedAgain(Beta, seen)))
    BY <1>2, <1>3 DEF Restored
  <2>2. CASE e = Beta /\ f = PausedAgain(Beta, seen)
    BY <1>1, <2>2 DEF PausedAgain
  <2>3. CASE e # Beta \/ f # PausedAgain(Beta, seen)
    <3>1. StepsAgain(e, seen) \notin {"active", "pause"}
      BY DEF StepsAgain
    <3>2. <<Beta, "active">> \in A <=> <<Beta, "active">> \in S
      BY <1>1, <2>3, <3>1
    <3> QED BY <2>1, <2>3, <3>2
  <2> QED BY <2>2, <2>3
<1>6. Restored(A, seen, Tail(s))
  BY <1>4, <1>5 DEF Restored
<1> QED BY <1>6 DEF A

LEMMA ChangedStep ==
  ASSUME ConfigInv, have' = have \/ Written, tool.name \in Temporary, tool.phase # "preflight"
  PROVE  Changed(have', tool.name, tool.seen)
<1>1. TypeInv /\ Changed(have, tool.name, tool.seen)
  BY DEF ConfigInv, ChangeInv
<1> SUFFICES ASSUME Written PROVE Changed(have', tool.name, tool.seen)
  BY <1>1
<1> DEFINE e == Head(tool.todo)[2]  f == Head(tool.todo)[3]
<1>2. have' = After(have, e, f) /\ e = Head(tool.todo)[2] /\ f = Head(tool.todo)[3]
  BY DEF Written
<1> HIDE DEF e, f
<1> QED BY <1>1, <1>2, TemporaryWriteIs, ChangedKept

LEMMA ChangeStep ==
  ASSUME ConfigInv, [Next]_vars
  PROVE  ChangeInv'
<1> SUFFICES ASSUME tool'.name \in Temporary, tool'.phase # "preflight"
             PROVE  /\ Changed(have', tool'.name, tool'.seen)
                    /\ tool'.phase = "cleanup" /\ ~tool'.failed => Restored(have', tool'.seen, tool'.todo)
  BY DEF ChangeInv, Changed, Restored
<1>1. Idle.phase = "preflight"
  BY DEF Idle
<1>2. TypeInv /\ ToolOK(tool, Len(builds)) /\ SeenInv
  BY DEF ConfigInv, TypeInv
<1>3. CASE Unmoved \/ OtherCall
  <2>1. /\ have' = have /\ tool'.name = tool.name /\ tool'.phase = tool.phase
        /\ tool'.seen = tool.seen /\ tool'.failed = tool.failed
    BY <1>3 DEF Unmoved, OtherCall, Same
  <2>2. Changed(have, tool.name, tool.seen)
    BY <2>1 DEF ConfigInv, ChangeInv
  <2>3. ASSUME tool.phase = "cleanup", ~tool.failed PROVE Restored(have, tool.seen, tool'.todo)
    <3>1. Restored(have, tool.seen, tool.todo)
      BY <2>1, <2>3 DEF ConfigInv, ChangeInv
    <3>2. \A e, f : W(e, f)[1] = "write"
      BY DEF W
    <3>3. \A e, f : Has(tool.todo, W(e, f)) => Has(tool'.todo, W(e, f))
      BY <1>3, <2>3, <3>2 DEF Unmoved, OtherCall
    <3> QED BY <3>1, <3>3 DEF Restored
  <2> QED BY <2>1, <2>2, <2>3
<1>4. CASE WroteOne
  <2>1. /\ Written /\ tool'.name = tool.name /\ tool'.phase = tool.phase /\ tool'.seen = tool.seen
        /\ tool'.failed = tool.failed /\ tool'.todo = Tail(tool.todo)
    BY <1>4 DEF WroteOne, Same
  <2>2. Changed(have', tool.name, tool.seen)
    BY <2>1, ChangedStep
  <2>3. ASSUME tool.phase = "cleanup", ~tool.failed PROVE Restored(have', tool.seen, Tail(tool.todo))
    <3> DEFINE e == Head(tool.todo)[2]  f == Head(tool.todo)[3]  s == tool.todo  T == CallsOf(tool)
    <3>1. /\ s \in Seq(T) /\ Restored(have, tool.seen, s) /\ Sound(tool.seen)
          /\ e = Head(tool.todo)[2] /\ f = Head(tool.todo)[3]
      BY <1>2, <2>1, <2>3 DEF ConfigInv, ChangeInv, SeenInv, ToolOK
    <3> HIDE DEF e, f
    <3>2. /\ s # <<>> /\ have' = After(have, e, f) /\ Head(s) = W(e, f)
          /\ <<e, f>> \in Restoring(tool.name, tool.seen)
      BY <1>2, <2>1, <2>3, <3>1, WriteIs
    <3>3. /\ e \in Configs
          /\ f = StepsAgain(e, tool.seen) \/ (e = Beta /\ f = PausedAgain(Beta, tool.seen))
      BY <3>2, RestoringIs
    <3> HIDE DEF s, T
    <3>4. Restored(After(have, e, f), tool.seen, Tail(s))
      BY <3>1, <3>2, <3>3, RestoredWrite
    <3> QED BY <3>2, <3>4 DEF s
  <2> QED BY <2>1, <2>2, <2>3
<1>5. CASE ToCleanup
  <2>1. /\ tool.phase = "main" /\ tool.name \in Temporary /\ (have' = have \/ Written)
        /\ tool'.name = tool.name /\ tool'.seen = tool.seen /\ tool'.todo = Cleanup(tool)
    BY <1>5 DEF ToCleanup
  <2>2. Changed(have', tool.name, tool.seen)
    BY <2>1, ChangedStep
  <2>3. Restored(have', tool.seen, Cleanup(tool))
    <3>1. \A x \in Restoring(tool.name, tool.seen) : Has(Cleanup(tool), W(x[1], x[2]))
      BY <1>2, <2>1, CleanupIs
    <3>2. /\ Has(Cleanup(tool), W(Composite, StepsAgain(Composite, tool.seen)))
          /\ Has(Cleanup(tool), W(Beta, PausedAgain(Beta, tool.seen)))
          /\ tool.name = "seed_live_states" => Has(Cleanup(tool), W(Beta, StepsAgain(Beta, tool.seen)))
      <4>1. /\ <<Composite, StepsAgain(Composite, tool.seen)>> \in Restoring(tool.name, tool.seen)
            /\ <<Beta, PausedAgain(Beta, tool.seen)>> \in Restoring(tool.name, tool.seen)
            /\ tool.name = "seed_live_states" =>
                 <<Beta, StepsAgain(Beta, tool.seen)>> \in Restoring(tool.name, tool.seen)
        BY DEF Restoring
      <4>2. \A e, f : <<e, f>> \in Restoring(tool.name, tool.seen) => Has(Cleanup(tool), W(e, f))
        <5>1. \A e, f : <<e, f>>[1] = e /\ <<e, f>>[2] = f
          OBVIOUS
        <5> QED BY <3>1, <5>1
      <4> QED BY <4>1, <4>2
    <3>3. tool.name = "check_lab_states" \/ tool.name = "seed_live_states"
      BY <2>1 DEF Temporary
    <3> QED BY <2>2, <3>2, <3>3 DEF Restored, Changed, Configs
  <2> QED BY <2>1, <2>2, <2>3
<1>6. CASE CleanupFailed
  <2>1. /\ tool.phase = "cleanup" /\ (have' = have \/ Written)
        /\ tool'.name = tool.name /\ tool'.seen = tool.seen /\ tool'.failed
    BY <1>6 DEF CleanupFailed
  <2> QED BY <2>1, ChangedStep
<1>7. CASE ToMain
  <2>1. /\ tool.phase = "preflight" /\ tool.todo = <<>> /\ tool # Idle /\ have' = have
        /\ tool'.name = tool.name /\ tool'.phase = "main" /\ tool'.seen = tool.seen
        /\ tool.name # "none"
    BY <1>2, <1>7 DEF ToMain, ToolOK
  <2>2. \A x : ~Has(tool.todo, x)
    BY <2>1, TupleHas
  <2>3. ASSUME NEW c \in Configs, NEW f PROVE <<c, f>> \in have <=> <<c, f>> \in tool.seen
    BY <1>2, <2>1, <2>2 DEF SeenInv
  <2>4. Changed(have, tool.name, tool.seen)
    BY <2>3 DEF Changed, HasSteps, Configs
  <2> QED BY <2>1, <2>4
<1>8. \A e : ~ReadOne(e)
  BY DEF ReadOne
<1>9. \A name \in Tools : ~Began(name)
  BY DEF Began
<1> QED BY <1>1, <1>2, <1>3, <1>4, <1>5, <1>6, <1>7, <1>8, <1>9, Kinds DEF Kind, Ended

LEMMA ConfigStep == ConfigInv /\ [Next]_vars => ConfigInv'
<1> SUFFICES ASSUME ConfigInv, [Next]_vars PROVE ConfigInv'
  OBVIOUS
<1>1. TypeInv'
  BY TypeStep DEF ConfigInv
<1> QED BY <1>1, SoundStep, SeenStep, ExpandStep, ChangeStep DEF ConfigInv

(* Sound settings, what was read, what is still to be written.             *)
THEOREM ConfigurationsInvariant == Spec => []ConfigInv
<1>1. Init => Sound(have) /\ SeenInv /\ ExpandInv /\ ChangeInv
  <2> SUFFICES ASSUME Init PROVE Sound(have) /\ SeenInv /\ ExpandInv /\ ChangeInv
    OBVIOUS
  <2>1. tool.name = "none" /\ tool.phase = "preflight" /\ tool.seen = {}
    BY DEF Init, Idle
  <2>2. have = Provisioned \/ have = {}
    BY DEF Init, LabInit
  <2>3. Sound({})
    BY DEF Sound, SoundFor
  <2>4. Sound(Provisioned)
    <3>1. ASSUME NEW c \in Configs
          PROVE  /\ \A f \in Core \cup {"steps"} : <<c, f>> \in Provisioned
                 /\ <<c, "temporary">> \notin Provisioned
      BY DEF Core, Provisioned, PlannedEntities, PlannedFacts, Fields, Configs
    <3> QED BY <3>1 DEF Sound, SoundFor, Buildable, HasSteps
  <2> QED BY <2>1, <2>2, <2>3, <2>4 DEF SeenInv, ExpandInv, ChangeInv, Temporary
<1>2. Init => TypeInv
  BY TypesStart
<1> QED BY <1>1, <1>2, ConfigStep, PTL DEF Spec, ConfigInv

(* No configuration that can be built is half written, wherever scripts    *)
(* stop.                                                                   *)
THEOREM NothingHalfConfigured == Spec => []HalfConfiguredIsPaused
<1>1. ConfigInv => HalfConfiguredIsPaused
  <2> SUFFICES ASSUME ConfigInv, NEW c \in Configs, <<c, "active">> \in have
               PROVE  /\ {<<c, "roots">>, <<c, "dependencies">>, <<c, "artifactRules">>} \subseteq have
                      /\ <<c, "steps">> \in have \/ <<c, "temporary">> \in have
    BY DEF HalfConfiguredIsPaused
  <2>1. Buildable(have, c)
    BY DEF ConfigInv, Sound, SoundFor
  <2> QED BY <2>1 DEF Buildable, HasSteps, Core
<1> QED BY <1>1, ConfigurationsInvariant, PTL

(* An expand_lab.py that gets to make its last call leaves the plan,       *)
(* whatever earlier scripts left behind.                                   *)
THEOREM RerunsDoComplete == Spec => []RerunCompletes
<1>1. ConfigInv => RerunCompletes
  <2> SUFFICES ASSUME ConfigInv, tool.name = "expand_lab", tool.phase = "main", tool.todo = <<>>
               PROVE  have = Provisioned
    BY DEF RerunCompletes
  <2>1. Provisioned \subseteq have
    BY TupleHas DEF ConfigInv, ExpandInv
  <2>2. ASSUME NEW c \in Configs PROVE <<c, "temporary">> \notin have
    <3>1. <<c, "steps">> \in Provisioned
      BY DEF Provisioned, PlannedFacts, Fields, Configs
    <3> QED BY <2>1, <3>1 DEF ConfigInv, Sound, SoundFor
  <2>3. have \subseteq Facts
    BY DEF ConfigInv, TypeInv
  <2> QED BY <2>1, <2>2, <2>3 DEF Facts
<1> QED BY <1>1, ConfigurationsInvariant, PTL

-----------------------------------------------------------------------------
(* Builds.                                                                 *)

LEMMA BuildsGoOnward ==
  ASSUME TypeInv, [Next]_vars
  PROVE  Onward
<1>1. builds \in Seq(Build) /\ Len(builds) \in Nat
  BY DEF TypeInv
<1>2. CASE UNCHANGED builds
  BY <1>1, <1>2 DEF Onward
<1>3. CASE Delete \/ Stop
  <2>1. tool.todo # <<>> /\ Head(tool.todo)[1] \in {"cancel", "delete", "stop"}
    BY <1>3 DEF Delete, Stop, Call
  <2>2. Arg \in 1..Len(builds)
    BY <2>1, CancelCall
  <2>3. UNCHANGED builds \/ \E s \in {"removed", "cancelled"} : SetState(Arg, s)
    BY <1>3 DEF Delete, Stop
  <2>4. ASSUME NEW s \in {"removed", "cancelled"}, SetState(Arg, s) PROVE Onward
    <3>1. s \in ActiveStates \cup Finished \cup {"removed"} /\ s \notin ActiveStates /\ s # "queued"
      BY DEF ActiveStates, Finished
    <3>2. /\ builds' \in Seq(Build) /\ Len(builds') = Len(builds)
          /\ builds'[Arg].state = s /\ builds'[Arg].config = builds[Arg].config
          /\ builds'[Arg].by = builds[Arg].by
          /\ \A j \in 1..Len(builds) : j # Arg => builds'[j] = builds[j]
      BY <1>1, <2>2, <2>4, <3>1, StateIsSet
    <3> QED BY <1>1, <3>1, <3>2 DEF Onward
  <2> QED BY <1>2, <2>3, <2>4
<1>4. CASE Queue
  <2>1. tool.todo # <<>> /\ Head(tool.todo)[1] = "queue"
    BY <1>4 DEF Queue, Call
  <2>2. tool.name \in Tools /\ Arg \in Configs
    <3> DEFINE x == Head(tool.todo)
    <3>1. x = Head(tool.todo) /\ x[1] = "queue" /\ Arg = x[2]
      BY <2>1 DEF Arg
    <3> HIDE DEF x
    <3> QED BY <2>1, <3>1, PhaseOf, HeadOf
  <2>3. CASE builds' = Append(builds, NewBuild(Arg, tool.name))
    <3>1. /\ builds' \in Seq(Build) /\ Len(builds') = Len(builds) + 1
          /\ \A j \in 1..Len(builds) : builds'[j] = builds[j]
      BY <1>1, <2>2, <2>3, NewBuildIs
    <3>2. Len(builds) <= Len(builds')
      BY <1>1, <3>1
    <3> QED BY <3>1, <3>2 DEF Onward
  <2> QED BY <1>2, <1>4, <2>3 DEF Queue
<1>5. CASE Environment
  BY <1>5, EnvironmentIs
<1>6. ASSUME ~(Delete \/ Stop), ~Queue, ~Environment PROVE UNCHANGED builds
  BY <1>6 DEF Next, ToolStep, Read, CountRunning, CountQueued, RequireIdle, Write, Await, Observe,
       Judge, Report, Cancel, Verify, Proceed, CallFails, Deadline, Killed, Begin, Quiet, vars, labVars
<1> QED BY <1>2, <1>3, <1>4, <1>5, <1>6

(* A build about to be stopped has left the queue; check_lab_states.py     *)
(* still handles each build it knows that is active, unless a cleanup has  *)
(* raised.                                                                 *)
Cancelling == {"cancel", "delete", "stop"}
CancelInv ==
  tool.phase = "cleanup" =>
    /\ \A i \in Known(tool) : Has(tool.todo, <<"stop", i>>) => builds[i].state # "queued"
    /\ tool.name = "check_lab_states" /\ ~tool.failed =>
         \A i \in Known(tool) : \/ builds[i].state \notin ActiveStates
                                \/ \E op \in Cancelling : Has(tool.todo, <<op, i>>)

LEMMA CancelStart ==
  ASSUME TypeInv, tool.name \in Temporary, tool'.todo = Cleanup(tool), tool'.created = tool.created
  PROVE  CancelInv'
<1>1. /\ \A i \in Known(tool) : Has(Cleanup(tool), <<"cancel", i>>)
      /\ \A i : ~Has(Cleanup(tool), <<"stop", i>>)
  BY CleanupIs DEF TypeInv
<1>2. Known(tool') = Known(tool)
  BY DEF Known
<1> QED BY <1>1, <1>2 DEF CancelInv, Cancelling

(* A cleanup call is over.                                                 *)
LEMMA CancelOver ==
  ASSUME TypeInv, CancelInv, Onward, tool.phase = "cleanup", tool.todo # <<>>,
         tool'.name = tool.name, tool'.todo = Tail(tool.todo), tool'.created = tool.created,
         \/ tool'.failed
         \/ /\ tool'.failed = tool.failed
            /\ Head(tool.todo)[1] \in Cancelling => builds'[Arg].state \notin ActiveStates
  PROVE  CancelInv'
<1> DEFINE s == tool.todo  T == CallsOf(tool)
<1>1. s \in Seq(T) /\ s # <<>> /\ Known(tool) \subseteq 1..Len(builds)
      /\ Known(tool') = Known(tool) /\ tool'.todo = Tail(s)
  BY KnownBuilds DEF TypeInv, ToolOK, Known
<1>2. \A x : Has(s, x) <=> Head(s) = x \/ Has(Tail(s), x)
  <2> HIDE DEF s, T
  <2> QED BY <1>1, HasTail
<1>3. ASSUME NEW i \in Known(tool), Has(Tail(s), <<"stop", i>>) PROVE builds'[i].state # "queued"
  BY <1>1, <1>2, <1>3 DEF CancelInv, Onward
<1>4. ASSUME tool.name = "check_lab_states", ~tool'.failed, NEW i \in Known(tool)
      PROVE  \/ builds'[i].state \notin ActiveStates
             \/ \E op \in Cancelling : Has(Tail(s), <<op, i>>)
  <2>1. tool'.failed = tool.failed
        /\ (Head(s)[1] \in Cancelling => builds'[Arg].state \notin ActiveStates)
    BY <1>4
  <2>2. CASE builds[i].state \notin ActiveStates
    BY <1>1, <2>2 DEF Onward
  <2>3. ASSUME NEW op \in Cancelling, Has(s, <<op, i>>), ~Has(Tail(s), <<op, i>>)
        PROVE  builds'[i].state \notin ActiveStates
    <3>1. Head(s) = <<op, i>>
      BY <1>2, <2>3
    <3> DEFINE x == Head(s)
    <3>2. x[1] = op /\ Arg = x[2] /\ x = <<op, i>>
      BY <3>1 DEF Arg
    <3> HIDE DEF x
    <3>3. Arg = i
      BY <3>2
    <3> QED BY <2>1, <3>2, <3>3 DEF x
  <2> QED BY <1>4, <2>1, <2>2, <2>3 DEF CancelInv
<1> QED BY <1>1, <1>3, <1>4 DEF CancelInv

LEMMA CancelRaised ==
  ASSUME TypeInv, CancelInv, Onward, tool.todo # <<>>, tool' = Raised
  PROVE  CancelInv'
<1>1. CASE Raised = Idle
  BY <1>1 DEF CancelInv, Idle
<1>2. CASE /\ tool.phase = "main" /\ tool.name \in Temporary
           /\ Raised.todo = Cleanup(tool) /\ Raised.created = tool.created
  BY <1>2, CancelStart
<1>3. CASE /\ tool.phase = "cleanup" /\ Raised.name = tool.name /\ Raised.todo = Tail(tool.todo)
           /\ Raised.created = tool.created /\ Raised.failed = TRUE
  BY <1>3, CancelOver
<1> QED BY <1>1, <1>2, <1>3, RaisedOK

(* One call of cancelling follows another about the same build.            *)
LEMMA CancelFollows ==
  ASSUME TypeInv, CancelInv, Onward, tool.todo # <<>>, Head(tool.todo)[1] \in Cancelling,
         NEW op \in Cancelling, tool' = Then(<<<<op, Arg>>>>),
         op = "stop" => builds'[Arg].state # "queued"
  PROVE  CancelInv'
<1> DEFINE s == tool.todo  T == CallsOf(tool)  calls == <<<<op, Arg>>>>
<1>1. tool.phase = "cleanup" /\ Head(s) = <<Head(s)[1], Arg>> /\ calls \in Seq(T)
  BY CancelCall DEF Cancelling
<1>2. /\ tool'.name = tool.name /\ tool'.phase = tool.phase /\ tool'.created = tool.created
      /\ tool'.failed = tool.failed /\ tool'.todo = calls \o Tail(s)
  BY ThenIs
<1>3. s \in Seq(T) /\ s # <<>> /\ Known(tool) \subseteq 1..Len(builds)
      /\ Known(tool') = Known(tool)
  BY <1>2, KnownBuilds DEF TypeInv, ToolOK, Known
<1>4. \A x : Has(calls, x) <=> x = <<op, Arg>>
  BY TupleHas
<1> DEFINE more == calls \o Tail(s)
<1>5. \A x : Has(more, x) <=> x = <<op, Arg>> \/ Has(Tail(s), x)
  <2> HIDE DEF s, T, calls
  <2>1. Tail(s) \in Seq(T)
    BY <1>3
  <2> QED BY <1>1, <1>4, <2>1, HasConcat
<1>6. \A x : Has(s, x) <=> Head(s) = x \/ Has(Tail(s), x)
  <2> HIDE DEF s, T
  <2> QED BY <1>3, HasTail
<1>7. ASSUME NEW i \in Known(tool), Has(more, <<"stop", i>>) PROVE builds'[i].state # "queued"
  <2>1. (op = "stop" /\ Arg = i) \/ Has(s, <<"stop", i>>)
    BY <1>5, <1>6, <1>7
  <2> QED BY <1>1, <1>3, <2>1 DEF CancelInv, Onward
<1>8. ASSUME tool.name = "check_lab_states", ~tool.failed, NEW i \in Known(tool)
      PROVE  \/ builds'[i].state \notin ActiveStates
             \/ \E o \in Cancelling : Has(more, <<o, i>>)
  <2>1. CASE builds[i].state \notin ActiveStates
    BY <1>3, <2>1 DEF Onward
  <2>2. ASSUME NEW o \in Cancelling, Has(s, <<o, i>>) PROVE \E p \in Cancelling : Has(more, <<p, i>>)
    <3>1. CASE Has(Tail(s), <<o, i>>)
      BY <1>5, <3>1
    <3>2. CASE Head(s) = <<o, i>>
      <4>1. i = Arg
        BY <1>1, <3>2
      <4> QED BY <1>5, <4>1
    <3> QED BY <1>6, <2>2, <3>1, <3>2
  <2> QED BY <1>1, <1>8, <2>1, <2>2 DEF CancelInv
<1> HIDE DEF more
<1> QED BY <1>2, <1>3, <1>7, <1>8 DEF CancelInv, more

LEMMA CancelStep ==
  ASSUME TypeInv, CancelInv, [Next]_vars
  PROVE  CancelInv'
<1>0. Onward /\ ToolOK(tool, Len(builds)) /\ builds \in Seq(Build)
  BY BuildsGoOnward DEF TypeInv
<1>1. Idle.phase = "preflight"
  BY DEF Idle
<1>2. CASE tool'.phase # "cleanup"
  BY <1>2 DEF CancelInv
<1>3. CASE UNCHANGED tool
  <2>1. tool.phase = "cleanup" => Known(tool) \subseteq 1..Len(builds)
    BY <1>0, KnownBuilds
  <2> QED BY <1>0, <1>3, <2>1 DEF CancelInv, Onward
<1>4. CASE tool.todo # <<>> /\ tool' = Raised
  BY <1>0, <1>4, CancelRaised
<1>5. CASE Cancel
  <2>1. tool.todo # <<>> /\ Head(tool.todo)[1] \in Cancelling /\ UNCHANGED builds
    BY <1>5 DEF Cancel, Call, Cancelling, labVars
  <2>2. tool.phase = "cleanup" /\ Arg \in 1..Len(builds)
    BY <2>1, CancelCall DEF Cancelling
  <2>3. CASE tool' = Done /\ builds[Arg].state \notin ActiveStates
    BY <1>0, <2>1, <2>2, <2>3, DoneIs, CancelOver
  <2>4. CASE tool' = Then(<<<<"delete", Arg>>>>)
    BY <1>0, <2>1, <2>4, CancelFollows DEF Cancelling
  <2>5. CASE tool' = Then(<<<<"stop", Arg>>>>) /\ builds[Arg].state = "running"
    BY <1>0, <2>1, <2>5, CancelFollows DEF Cancelling
  <2>6. \/ tool' = Done /\ builds[Arg].state \notin ActiveStates
        \/ tool' = Then(<<<<"delete", Arg>>>>)
        \/ tool' = Then(<<<<"stop", Arg>>>>) /\ builds[Arg].state = "running"
    BY <1>5 DEF Cancel, ActiveStates
  <2> QED BY <2>3, <2>4, <2>5, <2>6
<1>6. CASE (Delete \/ Stop) /\ tool' # Raised
  <2>1. tool.todo # <<>> /\ Head(tool.todo)[1] \in Cancelling
    BY <1>6 DEF Delete, Stop, Call, Cancelling
  <2>2. tool.phase = "cleanup" /\ Arg \in 1..Len(builds) /\ Arg \in Known(tool)
        /\ Head(tool.todo) = <<Head(tool.todo)[1], Arg>>
    BY <2>1, CancelCall DEF Cancelling
  <2>3. CASE tool' = Done
    <3>1. CASE SetState(Arg, "removed") \/ SetState(Arg, "cancelled")
      <4>1. \A s \in {"removed", "cancelled"} :
              s \in ActiveStates \cup Finished \cup {"removed"} /\ s \notin ActiveStates
        BY DEF ActiveStates, Finished
      <4>2. builds'[Arg].state \notin ActiveStates
        BY <1>0, <2>2, <3>1, <4>1, StateIsSet
      <4> QED BY <1>0, <2>1, <2>2, <2>3, <4>2, DoneIs, CancelOver
    <3>2. CASE Stop /\ builds[Arg].state # "running" /\ UNCHANGED builds
      <4>1. Head(tool.todo) = <<"stop", Arg>>
        BY <2>2, <3>2 DEF Stop, Call
      <4>2. Has(tool.todo, <<"stop", Arg>>)
        <5> DEFINE s == tool.todo  T == CallsOf(tool)  x == <<"stop", Arg>>
        <5>1. s \in Seq(T) /\ s # <<>> /\ Head(s) = x
          BY <1>0, <2>1, <4>1 DEF ToolOK
        <5> HIDE DEF s, T, x
        <5>2. Has(s, x)
          BY <5>1, HasTail
        <5> QED BY <5>2 DEF s, x
      <4>3. builds[Arg].state # "queued"
        BY <2>2, <4>2 DEF CancelInv
      <4>4. builds'[Arg].state \notin ActiveStates
        BY <3>2, <4>3 DEF ActiveStates
      <4> QED BY <1>0, <2>1, <2>2, <2>3, <4>4, DoneIs, CancelOver
    <3>3. CASE Delete /\ tool' = Gone
      <4>1. tool' = Then(<<<<"cancel", Arg>>>>)
        BY <1>6, <3>3 DEF Gone
      <4> QED BY <1>0, <2>1, <4>1, CancelFollows DEF Cancelling
    <3> QED BY <1>6, <2>3, <3>1, <3>2, <3>3 DEF Delete, Stop
  <2>4. CASE tool' # Done
    <3>1. tool' = Then(<<<<"cancel", Arg>>>>)
      BY <1>6, <2>4 DEF Delete, Stop, Answered, Gone
    <3> QED BY <1>0, <2>1, <3>1, CancelFollows DEF Cancelling
  <2> QED BY <2>3, <2>4
<1>7. CASE (Write \/ Verify \/ Observe) /\ tool' = Done /\ tool'.phase = "cleanup"
  <2>1. tool.todo # <<>> /\ Head(tool.todo)[1] \notin Cancelling
    BY <1>7 DEF Write, Verify, Observe, Call, Cancelling
  <2>2. tool.phase = "cleanup"
    BY <1>7, DoneIs
  <2> QED BY <1>0, <1>7, <2>1, <2>2, DoneIs, CancelOver
<1>8. CASE Proceed
  BY <1>1, <1>2, <1>8, ProceedIs, CancelStart
<1>9. CASE Read \/ CountRunning \/ CountQueued \/ RequireIdle \/ Queue \/ Await \/ Judge \/ Report
  <2> DEFINE x == Head(tool.todo)
  <2>1. /\ tool.todo # <<>> /\ x = Head(tool.todo)
        /\ x[1] \in {"read", "running", "queued", "idle", "queue", "await", "judge", "report"}
    BY <1>9 DEF Read, CountRunning, CountQueued, RequireIdle, Queue, Await, Judge, Report, Call
  <2> HIDE DEF x
  <2>2. tool.phase # "cleanup"
    BY <2>1, PhaseOf
  <2>3. CASE Read
    BY <1>1, <1>2, <2>2, <2>3, ReadKind DEF Ended, ReadOne
  <2>4. CASE CountRunning \/ CountQueued
    <3>1. tool' = Idle \/ \E a : tool' = [Done EXCEPT !.active = a]
      BY <2>4 DEF CountRunning, CountQueued
    <3>2. ASSUME NEW a, tool' = [Done EXCEPT !.active = a] PROVE tool'.phase = tool.phase
      BY <3>2, DoneActive
    <3> QED BY <1>1, <1>2, <2>2, <3>1, <3>2
  <2>5. CASE RequireIdle \/ Await
    <3>1. tool' = Idle \/ tool' = Done \/ tool' = Raised
      BY <2>5 DEF RequireIdle, Await
    <3> QED BY <1>1, <1>2, <1>4, <2>1, <2>2, <3>1, DoneIs
  <2>6. CASE Queue
    <3>1. tool' = Raised \/ \E i : tool' = [Done EXCEPT !.created = <<i>> \o @]
      BY <2>6 DEF Queue
    <3> QED BY <1>2, <1>4, <2>1, <2>2, <3>1, DoneCreated
  <2>7. CASE Judge \/ Report
    BY <1>1, <1>2, <2>2, <2>7, JudgeIs, ReportIs DEF Same
  <2> QED BY <1>9, <2>3, <2>4, <2>5, <2>6, <2>7
<1>10. CASE (Write \/ Verify \/ Observe \/ Delete \/ Stop \/ CallFails) /\ tool' = Raised
  <2>1. tool.todo # <<>>
    BY <1>10 DEF Write, Verify, Observe, Delete, Stop, CallFails, Call
  <2> QED BY <1>4, <1>10, <2>1
<1>11. CASE Deadline
  BY <1>2, <1>11, DeadlineIs
<1>12. CASE Killed
  BY <1>1, <1>2, <1>12 DEF Killed
<1>13. ASSUME NEW name \in Tools, Begin(name) PROVE CancelInv'
  BY <1>2, <1>13, BeginIs
<1>14. CASE Write \/ Verify \/ Observe
  <2>1. tool' = Done \/ tool' = Raised
    BY <1>14 DEF Write, Verify, Observe, Answered
  <2> QED BY <1>2, <1>7, <1>10, <1>14, <2>1
<1>15. CASE CallFails
  BY <1>10, <1>15 DEF CallFails
<1> QED BY <1>3, <1>5, <1>6, <1>8, <1>9, <1>10, <1>11, <1>12, <1>13, <1>14, <1>15
        DEF Next, ToolStep, Quiet, vars

(* A temporary change whose cleanup raised nothing has put the settings    *)
(* back, and check_lab_states.py leaves none of its builds.                *)
THEOREM SettingsAreRestored == Spec => []SettingsRestored
<1>1. Init => CancelInv
  BY DEF Init, Idle, CancelInv
<1>2. TypeInv /\ CancelInv /\ [Next]_vars => CancelInv'
  BY CancelStep
<1>3. ConfigInv /\ CancelInv => SettingsRestored
  <2> SUFFICES ASSUME ConfigInv, CancelInv, tool.phase = "cleanup", tool.todo = <<>>, ~tool.failed
               PROVE  /\ Settings(have) = Settings(tool.seen)
                      /\ tool.name = "check_lab_states" =>
                           /\ \A c \in Configs : Matches(have, c)
                           /\ \A i \in Mine : builds[i].state \notin ActiveStates
    BY DEF SettingsRestored
  <2>1. \A x : ~Has(tool.todo, x)
    BY TupleHas
  <2>2. /\ tool.name \in Temporary /\ have \subseteq Facts /\ tool.seen \subseteq Facts
        /\ Changed(have, tool.name, tool.seen) /\ Restored(have, tool.seen, tool.todo) /\ SeenInv
    BY DEF ConfigInv, TypeInv, ToolOK, ChangeInv
  <2>3. ASSUME NEW c \in Configs, NEW f \in {"steps", "temporary", "active"}
        PROVE  <<c, f>> \in have <=> <<c, f>> \in tool.seen
    BY <2>1, <2>2 DEF Changed, Restored, Configs
  <2>4. Settings(have) = Settings(tool.seen)
    <3>1. ASSUME NEW x \in Facts, x[1] \in Configs, x[2] \in {"steps", "temporary", "active"}
          PROVE  x \in have <=> x \in tool.seen
      BY <2>3, <3>1, FactPairs
    <3> QED BY <2>2, <3>1 DEF Settings
  <2>5. ASSUME tool.name = "check_lab_states", NEW c \in Configs PROVE Matches(have, c)
    <3>1. PlannedFacts(c) \subseteq tool.seen
      BY <2>1, <2>2, <2>5 DEF SeenInv
    <3>2. ASSUME NEW x \in PlannedFacts(c) PROVE x \in have
      <4>1. \/ x[2] \notin Changing
            \/ \E f \in {"steps", "active"} : x = <<c, f>>
        BY PlannedFactsAre DEF Changing
      <4> QED BY <2>2, <2>3, <3>1, <4>1 DEF SeenInv
    <3> QED BY <3>2 DEF Matches
  <2>6. ASSUME tool.name = "check_lab_states", NEW i \in Mine PROVE builds[i].state \notin ActiveStates
    BY <2>1, <2>6 DEF CancelInv, Mine, Known
  <2> QED BY <2>4, <2>5, <2>6
<1>4. Spec => []CancelInv
  BY <1>1, <1>2, TypesAreKept, PTL DEF Spec
<1> QED BY <1>3, <1>4, ConfigurationsInvariant, PTL

-----------------------------------------------------------------------------
(* Requests of run_lab.py that wait in the queue.                          *)

Requests(c) == {i \in InState("queued", {c}) : builds[i].by = "run_lab"}

(* Each configuration is judged right after its queue was counted, and a   *)
(* build is only requested by the very next call.                          *)
CountedFirst(s) ==
  \A c \in Configs, j \in 1..Len(s) :
    /\ s[j] = <<"judge", c>> /\ j # 1 => s[j - 1] = <<"queued", {c}>>
    /\ s[j] = <<"queue", c>> => j = 1
NoneWaits ==
  tool.todo # <<>> =>
    \A c \in Configs : /\ Head(tool.todo) = <<"judge", c>> => tool.active \/ Requests(c) = {}
                       /\ Head(tool.todo) = <<"queue", c>> => Requests(c) = {}
RequestInv ==
  /\ \A c \in Configs : \A i, j \in Requests(c) : i = j
  /\ tool.name = "run_lab" /\ tool.phase = "main" => CountedFirst(tool.todo) /\ NoneWaits

LEMMA CountedTail ==
  ASSUME NEW T, NEW s \in Seq(T), s # <<>>, CountedFirst(s)
  PROVE  /\ CountedFirst(Tail(s))
         /\ Tail(s) # <<>> =>
              \A c \in Configs : /\ Head(Tail(s)) = <<"judge", c>> => Head(s) = <<"queued", {c}>>
                                 /\ Head(Tail(s)) # <<"queue", c>>
<1>1. /\ Head(s) = s[1] /\ Len(s) \in Nat /\ Len(Tail(s)) = Len(s) - 1
      /\ \A i \in 1..Len(Tail(s)) : i + 1 \in 1..Len(s) /\ Tail(s)[i] = s[i + 1]
  BY TailOf
<1>2. ASSUME NEW c \in Configs, NEW j \in 1..Len(Tail(s))
      PROVE  /\ Tail(s)[j] = <<"judge", c>> => s[j] = <<"queued", {c}>>
             /\ Tail(s)[j] # <<"queue", c>>
  <2>1. j + 1 \in 1..Len(s) /\ Tail(s)[j] = s[j + 1] /\ j + 1 # 1 /\ (j + 1) - 1 = j
    BY <1>1
  <2> QED BY <2>1 DEF CountedFirst
<1>3. ASSUME NEW j \in 1..Len(Tail(s)), j # 1 PROVE Tail(s)[j - 1] = s[j]
  <2>1. j - 1 \in 1..Len(Tail(s)) /\ (j - 1) + 1 = j
    BY <1>1, <1>3
  <2> QED BY <1>1, <2>1
<1>4. CountedFirst(Tail(s))
  BY <1>2, <1>3 DEF CountedFirst
<1>5. ASSUME Tail(s) # <<>> PROVE 1 \in 1..Len(Tail(s)) /\ Head(Tail(s)) = Tail(s)[1]
  <2>1. Tail(s) \in Seq(T)
    BY TailOf
  <2> DEFINE t == Tail(s)
  <2>2. t \in Seq(T) /\ t # <<>>
    BY <1>5, <2>1
  <2> HIDE DEF t
  <2>3. 1 \in 1..Len(t) /\ Head(t) = t[1]
    BY <2>2, TailOf
  <2> QED BY <2>3 DEF t
<1> QED BY <1>1, <1>2, <1>4, <1>5

LEMMA CountedPush ==
  ASSUME NEW T, NEW s \in Seq(T), CountedFirst(s), NEW d \in Configs, <<"queue", d>> \in T,
         s # <<>> => \A c \in Configs : Head(s) # <<"judge", c>> /\ Head(s) # <<"queue", c>>
  PROVE  CountedFirst(<<<<"queue", d>>>> \o s)
<1> DEFINE q == <<"queue", d>>  one == <<q>>  u == one \o s
<1>1. /\ one \in Seq(T) /\ Len(one) = 1 /\ one[1] = q /\ \A c : q # <<"judge", c>>
  OBVIOUS
<1> HIDE DEF q, one
<1>2. /\ Len(s) \in Nat /\ u[1] = q
      /\ \A i \in 1..Len(s) : u[1 + i] = s[i]
      /\ \A i \in 1..Len(u) : i = 1 \/ \E j \in 1..Len(s) : i = 1 + j
  <2>1. 1 \in 1..Len(one) /\ \A i \in 1..Len(one) : i = 1
    BY <1>1
  <2>2. one \in Seq(T)
    BY <1>1
  <2>3. /\ Len(s) \in Nat
        /\ \A i \in 1..Len(one) : (one \o s)[i] = one[i]
        /\ \A i \in 1..Len(s) : (one \o s)[Len(one) + i] = s[i]
        /\ \A i \in 1..Len(one \o s) : i \in 1..Len(one) \/ \E j \in 1..Len(s) : i = Len(one) + j
    BY <2>2, ConcatOf
  <2> QED BY <1>1, <2>1, <2>3
<1> HIDE DEF u
<1>3. ASSUME NEW c \in Configs, NEW j \in 1..Len(s)
      PROVE  /\ u[1 + j] = <<"judge", c>> => u[(1 + j) - 1] = <<"queued", {c}>>
             /\ u[1 + j] # <<"queue", c>>
  <2>1. u[1 + j] = s[j] /\ (1 + j) - 1 = j /\ s # <<>>
    BY <1>2
  <2>2. CASE j = 1
    <3>1. s[1] = Head(s)
      BY <2>1, TailOf
    <3> QED BY <2>1, <2>2, <3>1
  <2>3. CASE j # 1
    <3>1. j - 1 \in 1..Len(s) /\ 1 + (j - 1) = j
      BY <1>2, <2>3
    <3>2. u[j] = s[j - 1]
      BY <1>2, <3>1
    <3> QED BY <2>1, <2>3, <3>2 DEF CountedFirst
  <2> QED BY <2>2, <2>3
<1>4. ASSUME NEW c \in Configs, NEW j \in 1..Len(u)
      PROVE  /\ u[j] = <<"judge", c>> /\ j # 1 => u[j - 1] = <<"queued", {c}>>
             /\ u[j] = <<"queue", c>> => j = 1
  <2>1. CASE j = 1
    BY <1>1, <1>2, <2>1
  <2>2. ASSUME NEW k \in 1..Len(s), j = 1 + k
        PROVE  /\ u[j] = <<"judge", c>> => u[j - 1] = <<"queued", {c}>>
               /\ u[j] # <<"queue", c>>
    BY <1>3, <2>2
  <2> QED BY <1>2, <2>1, <2>2
<1>5. CountedFirst(u)
  BY <1>4 DEF CountedFirst
<1> QED BY <1>5 DEF u, one, q

LEMMA PassCounts ==
  /\ CountedFirst(Pass) /\ Pass # <<>> /\ \A c \in Configs : Head(Pass) # <<"judge", c>> /\ Head(Pass) # <<"queue", c>>
<1> DEFINE s == Pass
<1>1. /\ Len(s) = 7 /\ s[1] = <<"running", {Beta}>> /\ s[2] = <<"queued", {Beta}>>
      /\ s[3] = <<"judge", Beta>> /\ s[4] = <<"running", {Composite}>>
      /\ s[5] = <<"queued", {Composite}>> /\ s[6] = <<"judge", Composite>> /\ s[7] = <<"report">>
      /\ s # <<>> /\ Head(s) = s[1]
  BY DEF Pass
<1> HIDE DEF s
<1>2. \A j \in 1..7 : j = 1 \/ j = 2 \/ j = 3 \/ j = 4 \/ j = 5 \/ j = 6 \/ j = 7
  OBVIOUS
<1>3. 3 - 1 = 2 /\ 6 - 1 = 5
  OBVIOUS
<1>4. \A c \in Configs, j \in 1..7 :
        /\ s[j] # <<"queue", c>>
        /\ s[j] = <<"judge", c>> => (j = 3 /\ c = Beta) \/ (j = 6 /\ c = Composite)
  BY <1>1, <1>2
<1>5. CountedFirst(s)
  BY <1>1, <1>3, <1>4 DEF CountedFirst
<1>6. \A c \in Configs : Head(s) # <<"judge", c>> /\ Head(s) # <<"queue", c>>
  BY <1>1
<1> QED BY <1>1, <1>5, <1>6 DEF s

(* Only run_lab.py's own request makes one of its builds wait.             *)
LEMMA RequestsDoNotGrow ==
  ASSUME TypeInv, [Next]_vars, NEW c
  PROVE  \/ Requests(c)' \subseteq Requests(c)
         \/ /\ Queue /\ tool.name = "run_lab" /\ Arg \in Configs
            /\ builds' = Append(builds, NewBuild(Arg, "run_lab"))
<1>1. Onward /\ builds \in Seq(Build) /\ Len(builds) \in Nat
  BY BuildsGoOnward DEF TypeInv
<1>2. ASSUME \A i \in 1..Len(builds') : i \notin 1..Len(builds) => builds'[i].by # "run_lab"
      PROVE  Requests(c)' \subseteq Requests(c)
  <2> SUFFICES ASSUME NEW i \in Requests(c)' PROVE i \in Requests(c)
    OBVIOUS
  <2>1. i \in DOMAIN builds' /\ builds'[i].state = "queued" /\ builds'[i].config \in {c}
        /\ builds'[i].by = "run_lab"
    BY DEF Requests, InState, OfConfig
  <2>2. DOMAIN builds' = 1..Len(builds') /\ DOMAIN builds = 1..Len(builds)
    BY <1>1 DEF Onward
  <2>3. i \in 1..Len(builds)
    BY <1>2, <2>1, <2>2
  <2>4. builds[i].state = "queued" /\ builds[i].config = c /\ builds[i].by = "run_lab"
    BY <1>1, <2>1, <2>3 DEF Onward
  <2> QED BY <2>2, <2>3, <2>4 DEF Requests, InState, OfConfig
<1>3. CASE UNCHANGED builds \/ Delete \/ Stop
  <2>1. Len(builds') = Len(builds)
    <3>1. CASE Delete \/ Stop
      <4>1. tool.todo # <<>> /\ Head(tool.todo)[1] \in {"cancel", "delete", "stop"}
        BY <3>1 DEF Delete, Stop, Call
      <4>2. Arg \in 1..Len(builds)
        BY <4>1, CancelCall
      <4>3. UNCHANGED builds \/ \E s \in {"removed", "cancelled"} : SetState(Arg, s)
        BY <3>1 DEF Delete, Stop
      <4>4. \A s \in {"removed", "cancelled"} : s \in ActiveStates \cup Finished \cup {"removed"}
        BY DEF Finished
      <4> QED BY <1>1, <4>2, <4>3, <4>4, StateIsSet
    <3> QED BY <1>3, <3>1
  <2> QED BY <1>2, <2>1
<1>4. CASE Queue
  <2>1. tool.todo # <<>> /\ Head(tool.todo)[1] = "queue"
    BY <1>4 DEF Queue, Call
  <2>2. tool.name \in Tools /\ Arg \in Configs
    <3> DEFINE x == Head(tool.todo)
    <3>1. x = Head(tool.todo) /\ x[1] = "queue" /\ Arg = x[2]
      BY <2>1 DEF Arg
    <3> HIDE DEF x
    <3> QED BY <2>1, <3>1, PhaseOf, HeadOf
  <2>3. CASE builds' = Append(builds, NewBuild(Arg, tool.name)) /\ tool.name # "run_lab"
    <3>1. /\ Len(builds') = Len(builds) + 1
          /\ builds'[Len(builds) + 1] = NewBuild(Arg, tool.name)
      BY <1>1, <2>2, <2>3, NewBuildIs
    <3>2. NewBuild(Arg, tool.name).by # "run_lab"
      BY <2>3 DEF NewBuild
    <3>3. \A i \in 1..Len(builds') : i \notin 1..Len(builds) => i = Len(builds) + 1
      BY <1>1, <3>1
    <3> QED BY <1>2, <3>1, <3>2, <3>3
  <2> QED BY <1>3, <1>4, <2>2, <2>3 DEF Queue
<1>5. CASE Environment
  <2>1. \A i \in 1..Len(builds') : i \notin 1..Len(builds) => builds'[i].by = "user"
    BY <1>5, EnvironmentIs
  <2> QED BY <1>2, <2>1
<1>6. ASSUME ~(Delete \/ Stop), ~Queue, ~Environment PROVE UNCHANGED builds
  BY <1>6 DEF Next, ToolStep, Read, CountRunning, CountQueued, RequireIdle, Write, Await, Observe,
       Judge, Report, Cancel, Verify, Proceed, CallFails, Deadline, Killed, Begin, Quiet, vars, labVars
<1> QED BY <1>3, <1>4, <1>5, <1>6

LEMMA RunLabSteps ==
  ASSUME TypeInv, [Next]_vars, tool'.name = "run_lab", tool'.phase = "main"
  PROVE  \/ ToMain /\ tool.name = "run_lab"
         \/ /\ tool.name = "run_lab" /\ tool.phase = "main"
            /\ \/ tool'.todo = tool.todo /\ tool'.active = tool.active
               \/ CountRunning \/ CountQueued \/ Judge \/ Report \/ Queue
<1>1. Idle.phase = "preflight"
  BY DEF Idle
<1>2. ToMain \/ (tool.name = "run_lab" /\ tool.phase = "main")
  BY <1>1, Kinds DEF Kind, Ended, Unmoved, OtherCall, WroteOne, Same, ToCleanup, CleanupFailed,
       ReadOne, Began
<1> SUFFICES ASSUME tool.name = "run_lab", tool.phase = "main"
             PROVE  \/ tool'.todo = tool.todo /\ tool'.active = tool.active
                    \/ CountRunning \/ CountQueued \/ Judge \/ Report \/ Queue
  BY <1>2 DEF ToMain
<1>3. ASSUME tool.todo # <<>>
      PROVE  Head(tool.todo)[1] \notin {"read", "idle", "write", "await", "observe", "cancel",
                                        "delete", "stop", "verify"}
  BY <1>3, PhaseOf DEF Temporary
<1>4. ~(Read \/ RequireIdle \/ Write \/ Await \/ Observe \/ Cancel \/ Delete \/ Stop \/ Verify)
  BY <1>3 DEF Read, RequireIdle, Write, Await, Observe, Cancel, Delete, Stop, Verify, Call
<1>5. ~Proceed
  BY <1>1, ProceedIs
<1>6. ~CallFails
  BY <1>1, RaisedOK DEF CallFails, Temporary
<1>7. ~Killed
  BY <1>1 DEF Killed
<1>8. \A name \in Tools : ~Begin(name)
  BY BeginIs
<1>9. Deadline => tool'.todo = tool.todo /\ tool'.active = tool.active
  BY DeadlineIs
<1> QED BY <1>4, <1>5, <1>6, <1>7, <1>8, <1>9 DEF Next, ToolStep, Quiet, vars

LEMMA RunHeadIs ==
  ASSUME TypeInv, tool.todo # <<>>, tool.name = "run_lab", Head(tool.todo)[1] \in {"judge", "queue", "queued"},
         tool.phase = "main"
  PROVE  /\ Head(tool.todo) = <<Head(tool.todo)[1], Arg>>
         /\ Head(tool.todo)[1] \in {"judge", "queue"} => Arg \in Configs
<1> DEFINE x == Head(tool.todo)
<1>1. x = Head(tool.todo) /\ x[1] \in {"judge", "queue", "queued"} /\ Arg = x[2]
  BY DEF Arg
<1> HIDE DEF x
<1>2. x = <<x[1], x[2]>> /\ (x[1] \in {"judge", "queue"} => x[2] \in Configs)
  BY <1>1, PhaseOf
<1> QED BY <1>1, <1>2

LEMMA RequestStep ==
  ASSUME TypeInv, RequestInv, [Next]_vars
  PROVE  RequestInv'
<1>1. builds \in Seq(Build) /\ Len(builds) \in Nat /\ tool.todo \in Seq(CallsOf(tool))
  BY DEF TypeInv, ToolOK
<1>2. ASSUME Queue, tool.name = "run_lab"
      PROVE  /\ tool.phase = "main" /\ tool.todo # <<>> /\ Arg \in Configs
             /\ Head(tool.todo) = <<"queue", Arg>> /\ Requests(Arg) = {}
  <2>1. tool.todo # <<>> /\ Head(tool.todo)[1] = "queue"
    BY <1>2 DEF Queue, Call
  <2>2. tool.phase = "main"
    BY <2>1, PhaseOf
  <2>3. Head(tool.todo) = <<"queue", Arg>> /\ Arg \in Configs
    BY <1>2, <2>1, <2>2, RunHeadIs
  <2> QED BY <1>2, <2>1, <2>2, <2>3 DEF RequestInv, NoneWaits
<1>3. ASSUME NEW c \in Configs, NEW i \in Requests(c)', NEW j \in Requests(c)' PROVE i = j
  <2>1. CASE Requests(c)' \subseteq Requests(c)
    BY <2>1 DEF RequestInv
  <2>2. CASE /\ Queue /\ tool.name = "run_lab" /\ Arg \in Configs
             /\ builds' = Append(builds, NewBuild(Arg, "run_lab"))
    <3>1. Requests(Arg) = {}
      BY <1>2, <2>2
    <3>2. /\ builds' \in Seq(Build) /\ Len(builds') = Len(builds) + 1
          /\ builds'[Len(builds) + 1] = NewBuild(Arg, "run_lab")
          /\ \A k \in 1..Len(builds) : builds'[k] = builds[k]
      BY <1>1, <2>2, NewBuildIs DEF Tools
    <3>3. NewBuild(Arg, "run_lab").config = Arg
      BY DEF NewBuild
    <3>4. ASSUME NEW k \in Requests(c)'
          PROVE  \/ k \in Requests(c)
                 \/ k = Len(builds) + 1 /\ c = Arg
      <4>1. /\ k \in DOMAIN builds' /\ builds'[k].state = "queued" /\ builds'[k].config = c
            /\ builds'[k].by = "run_lab"
        BY <3>4 DEF Requests, InState, OfConfig
      <4>2. DOMAIN builds' = 1..Len(builds') /\ DOMAIN builds = 1..Len(builds)
        BY <1>1, <3>2
      <4>3. CASE k \in 1..Len(builds)
        BY <3>2, <4>1, <4>2, <4>3 DEF Requests, InState, OfConfig
      <4>4. CASE k \notin 1..Len(builds)
        <5>1. k = Len(builds) + 1
          BY <1>1, <3>2, <4>1, <4>2, <4>4
        <5> QED BY <3>2, <3>3, <4>1, <5>1
      <4> QED BY <4>3, <4>4
    <3> QED BY <3>1, <3>4 DEF RequestInv
  <2> QED BY <2>1, <2>2, RequestsDoNotGrow
<1>4. ASSUME tool'.name = "run_lab", tool'.phase = "main" PROVE CountedFirst(tool'.todo) /\ NoneWaits'
  <2>1. CASE ToMain /\ tool.name = "run_lab"
    <3>1. tool'.todo = Pass
      BY <2>1 DEF ToMain, Main
    <3> QED BY <3>1, PassCounts DEF NoneWaits
  <2> SUFFICES ASSUME tool.name = "run_lab", tool.phase = "main",
                      \/ tool'.todo = tool.todo /\ tool'.active = tool.active
                      \/ CountRunning \/ CountQueued \/ Judge \/ Report \/ Queue
               PROVE  CountedFirst(tool'.todo) /\ NoneWaits'
    BY <1>4, <2>1, RunLabSteps
  <2>2. CountedFirst(tool.todo) /\ NoneWaits
    BY DEF RequestInv
  <2>3. Idle.phase = "preflight"
    BY DEF Idle
  <2>4. CASE ~Queue /\ tool'.todo = tool.todo /\ tool'.active = tool.active
    <3>1. \A c : Requests(c)' \subseteq Requests(c)
      BY <2>4, RequestsDoNotGrow
    <3> QED BY <2>2, <2>4, <3>1 DEF NoneWaits
  <2> DEFINE s == tool.todo  T == CallsOf(tool)
  <2>5. ASSUME s # <<>>
        PROVE  /\ CountedFirst(Tail(s))
               /\ Tail(s) # <<>> =>
                    \A c \in Configs : /\ Head(Tail(s)) = <<"judge", c>> => Head(s) = <<"queued", {c}>>
                                       /\ Head(Tail(s)) # <<"queue", c>>
    <3>1. s \in Seq(T) /\ CountedFirst(s)
      BY <1>1, <2>2
    <3> HIDE DEF s, T
    <3> QED BY <2>5, <3>1, CountedTail
  <2>6. ASSUME s # <<>>, Head(s)[1] # "queued", tool'.todo = Tail(s)
        PROVE  CountedFirst(tool'.todo) /\ NoneWaits'
    <3>1. \A c \in Configs : Head(s) # <<"queued", {c}>>
      BY <2>6
    <3> HIDE DEF s
    <3> QED BY <2>5, <2>6, <3>1 DEF NoneWaits
  <2>7. CASE CountRunning
    <3>1. s # <<>> /\ Head(s)[1] = "running"
      BY <2>7 DEF CountRunning, Call
    <3> DEFINE a == InState("running", Arg) # {}
    <3>2. tool' = Idle \/ tool' = [Done EXCEPT !.active = a]
      BY <2>7 DEF CountRunning
    <3> HIDE DEF a
    <3>3. tool'.todo = Tail(s)
      <4>1. tool' = [Done EXCEPT !.active = a] => tool'.todo = Tail(s)
        BY DoneActive
      <4> QED BY <1>4, <2>3, <3>2, <4>1
    <3> QED BY <2>6, <3>1, <3>3
  <2>8. CASE CountQueued
    <3>1. s # <<>> /\ Head(s)[1] = "queued" /\ builds' = builds
      BY <2>8 DEF CountQueued, Call, labVars
    <3> DEFINE a == Done.active \/ InState("queued", Arg) # {}
    <3>2. tool' = [Done EXCEPT !.active = a]
      BY <2>8 DEF CountQueued
    <3> HIDE DEF a
    <3>3. tool'.todo = Tail(s) /\ tool'.active = a
      BY <3>2, DoneActive
    <3>4. Head(s) = <<"queued", Arg>>
      BY <3>1, RunHeadIs
    <3>5. ASSUME NEW c \in Configs, Head(s) = <<"queued", {c}>> PROVE tool'.active \/ Requests(c)' = {}
      <4>1. Arg = {c}
        <5> DEFINE x == Arg
        <5>1. <<"queued", x>> = <<"queued", {c}>>
          BY <3>4, <3>5
        <5> HIDE DEF x
        <5>2. x = {c}
          BY <5>1
        <5> QED BY <5>2 DEF x
      <4>2. a \/ InState("queued", {c}) = {}
        BY <4>1 DEF a
      <4>3. InState("queued", {c}) = {} => Requests(c) = {}
        BY DEF Requests
      <4>4. Requests(c)' = Requests(c)
        BY <3>1 DEF Requests, InState, OfConfig
      <4> QED BY <3>3, <4>2, <4>3, <4>4
    <3> HIDE DEF s
    <3> QED BY <2>5, <3>1, <3>3, <3>5 DEF NoneWaits
  <2>9. CASE Report
    <3>1. s # <<>> /\ Head(s)[1] = "report"
      BY <2>9 DEF Report, Call
    <3>2. tool'.todo = Pass \/ tool'.todo = Tail(s)
      BY <2>9, ReportIs
    <3> QED BY <2>6, <3>1, <3>2, PassCounts DEF NoneWaits
  <2>10. CASE Judge
    <3>1. s # <<>> /\ Head(s)[1] = "judge" /\ builds' = builds
      BY <2>10 DEF Judge, Call, labVars
    <3>2. Head(s) = <<"judge", Arg>> /\ Arg \in Configs
      BY <3>1, RunHeadIs
    <3>3. tool'.todo = Tail(s) \/ (tool'.todo = <<<<"queue", Arg>>>> \o Tail(s) /\ ~tool.active)
      BY <1>4, <2>3, <2>10, JudgeIs
    <3>4. CASE tool'.todo = <<<<"queue", Arg>>>> \o Tail(s) /\ ~tool.active
      <4>1. Requests(Arg) = {}
        BY <2>2, <3>1, <3>2, <3>4 DEF NoneWaits
      <4> DEFINE t == Tail(s)  new == <<<<"queue", Arg>>>> \o Tail(s)
      <4>2. t \in Seq(T) /\ CountedFirst(t)
            /\ (t # <<>> => \A c \in Configs : Head(t) # <<"judge", c>> /\ Head(t) # <<"queue", c>>)
        <5>1. \A c \in Configs : Head(s) # <<"queued", {c}>>
          BY <3>1
        <5>2. Tail(s) \in Seq(T)
          BY <3>1, HeadOf
        <5> QED BY <2>5, <3>1, <5>1, <5>2
      <4>3. <<"queue", Arg>> \in T
        BY <3>2 DEF CallsOf, RunCalls
      <4> HIDE DEF t, T
      <4>4. CountedFirst(<<<<"queue", Arg>>>> \o t)
        BY <3>2, <4>2, <4>3, CountedPush
      <4>5. Head(<<<<"queue", Arg>>>> \o t) = <<"queue", Arg>>
        BY <4>2
      <4>6. \A c \in Configs : /\ <<"queue", Arg>> # <<"judge", c>>
                               /\ <<"queue", Arg>> = <<"queue", c>> => c = Arg
        OBVIOUS
      <4>7. \A c : Requests(c)' = Requests(c)
        BY <3>1 DEF Requests, InState, OfConfig
      <4>8. \A c : c = Arg => Requests(c)' = {}
        BY <4>1, <4>7
      <4> QED BY <3>4, <4>4, <4>5, <4>6, <4>8 DEF NoneWaits, t
    <3> QED BY <2>6, <3>1, <3>3, <3>4
  <2>11. CASE Queue
    <3>1. s # <<>> /\ Head(s)[1] = "queue"
      BY <2>11 DEF Queue, Call
    <3>2. Raised = Idle
      BY <3>1, RaisedOK DEF Temporary
    <3>3. tool' = Raised \/ \E i : tool' = [Done EXCEPT !.created = <<i>> \o @]
      BY <2>11 DEF Queue
    <3>4. ASSUME NEW i, tool' = [Done EXCEPT !.created = <<i>> \o @] PROVE tool'.todo = Tail(s)
      BY <3>4, DoneCreated
    <3>5. tool'.todo = Tail(s)
      BY <1>4, <2>3, <3>2, <3>3, <3>4
    <3> QED BY <2>6, <3>1, <3>5
  <2> QED BY <2>4, <2>7, <2>8, <2>9, <2>10, <2>11
<1> QED BY <1>3, <1>4 DEF RequestInv

(* run_lab.py never has two requests for one configuration in the queue.   *)
THEOREM RequestsAreSingle == Spec => []OneRequestQueued
<1>1. Init => RequestInv
  <2> SUFFICES ASSUME Init PROVE RequestInv
    OBVIOUS
  <2>1. builds = <<>> /\ tool.name = "none"
    BY DEF Init, LabInit, Idle
  <2>2. \A c : Requests(c) = {}
    BY <2>1 DEF Requests, InState
  <2> QED BY <2>1, <2>2 DEF RequestInv
<1>2. TypeInv /\ RequestInv /\ [Next]_vars => RequestInv'
  BY RequestStep
<1>3. RequestInv => OneRequestQueued
  <2> SUFFICES ASSUME RequestInv, NEW c \in Configs PROVE Cardinality(Requests(c)) <= 1
    BY DEF OneRequestQueued, Requests
  <2>1. CASE Requests(c) = {}
    BY <2>1, FS_EmptySet
  <2>2. ASSUME NEW i \in Requests(c) PROVE Cardinality(Requests(c)) <= 1
    <3> DEFINE R == Requests(c)
    <3>1. R = {i}
      BY DEF RequestInv
    <3> HIDE DEF R
    <3>2. Cardinality(R) = 1
      BY <3>1, FS_Singleton
    <3> QED BY <3>2 DEF R
  <2> QED BY <2>1, <2>2
<1> QED BY <1>1, <1>2, <1>3, TypesAreKept, PTL DEF Spec

-----------------------------------------------------------------------------
(* Builds that were there before check_lab_states.py.                      *)

(* The calls of its preflight; what is left of them after each.            *)
AskQueued == <<"queued", Configs>>
AskRunning == <<"running", Configs>>
CheckIdle == <<<<"idle">>>>
CheckQueue == <<AskQueued, <<"idle">>>>
CheckActive == <<AskRunning, AskQueued, <<"idle">>>>
CheckBeta == <<<<"read", Beta>>, AskRunning, AskQueued, <<"idle">>>>
CheckAll == <<<<"read", Composite>>, <<"read", Beta>>, AskRunning, AskQueued, <<"idle">>>>

(* No build that was queued when the script began is still queued.         *)
QueueLeft == \A i \in 1..Len(builds) : builds[i].state = "queued" => i > tool.since

(* Until it has asked for the queue the script knows nothing; then it goes *)
(* on only if none of the earlier builds waits, and those that it knows    *)
(* are later ones.                                                         *)
EarlierInv ==
  tool.name = "check_lab_states" =>
    /\ tool.since \in Nat /\ tool.since <= Len(builds)
    /\ tool.phase = "preflight" =>
         /\ tool.created = <<>>
         /\ tool.todo \in {CheckAll, CheckBeta, CheckActive, CheckQueue, CheckIdle, <<>>}
         /\ tool.todo = CheckIdle => tool.active \/ QueueLeft
         /\ tool.todo = <<>> => QueueLeft
    /\ tool.phase # "preflight" => QueueLeft /\ \A i \in Known(tool) : i > tool.since

LEMMA CheckPreflight == Preflight("check_lab_states") = CheckAll
<1>1. Preflight("check_lab_states") = ReadAll(<<Composite, Beta>>) \o Active(Configs) \o <<<<"idle">>>>
  BY DEF Preflight
<1>2. ReadAll(<<Composite, Beta>>) = <<<<"read", Composite>>, <<"read", Beta>>>>
  BY DEF ReadAll
<1>3. Active(Configs) = <<AskRunning, AskQueued>>
  BY DEF Active, AskRunning, AskQueued
<1> DEFINE a == <<"read", Composite>>  b == <<"read", Beta>>  c == AskRunning  d == AskQueued  e == <<"idle">>
           T == {a, b, c, d, e}
           s == <<a, b>> \o <<c, d>> \o <<e>>
           t == <<a, b, c, d, e>>
<1>4. CheckAll = t /\ Preflight("check_lab_states") = s
  BY <1>1, <1>2, <1>3 DEF CheckAll
<1>5. /\ <<a, b>> \in Seq(T) /\ <<c, d>> \in Seq(T) /\ <<e>> \in Seq(T) /\ t \in Seq(T)
      /\ Len(<<a, b>>) = 2 /\ Len(<<c, d>>) = 2 /\ Len(<<e>>) = 1 /\ Len(t) = 5
  <2> HIDE DEF a, b, c, d, e
  <2> QED OBVIOUS
<1> DEFINE r == <<a, b>> \o <<c, d>>
<1>6. r \in Seq(T) /\ Len(r) = 4 /\ r[1] = a /\ r[2] = b /\ r[3] = c /\ r[4] = d
  <2>1. /\ r \in Seq(T) /\ Len(r) = 4
        /\ \A i \in 1..4 : r[i] = IF i <= 2 THEN <<a, b>>[i] ELSE <<c, d>>[i - 2]
    <3> HIDE DEF a, b, c, d, e, T
    <3> QED BY <1>5, ConcatProperties
  <2> HIDE DEF a, b, c, d, e, T, r
  <2> QED BY <2>1
<1>7. s \in Seq(T) /\ Len(s) = 5 /\ \A i \in 1..5 : s[i] = t[i]
  <2>1. /\ r \o <<e>> \in Seq(T) /\ Len(r \o <<e>>) = 5
        /\ \A i \in 1..5 : (r \o <<e>>)[i] = IF i <= 4 THEN r[i] ELSE <<e>>[i - 4]
    <3> DEFINE q == <<e>>
    <3>1. q \in Seq(T) /\ Len(q) = 1 /\ r \in Seq(T) /\ Len(r) = 4
      BY <1>5, <1>6
    <3> HIDE DEF a, b, c, d, e, T, r, s, t, q
    <3>2. /\ r \o q \in Seq(T) /\ Len(r \o q) = Len(r) + Len(q)
          /\ \A i \in 1..Len(r) + Len(q) : (r \o q)[i] = IF i <= Len(r) THEN r[i] ELSE q[i - Len(r)]
      BY <3>1, ConcatProperties
    <3>3. /\ r \o q \in Seq(T) /\ Len(r \o q) = 5
          /\ \A i \in 1..5 : (r \o q)[i] = IF i <= 4 THEN r[i] ELSE q[i - 4]
      BY <3>1, <3>2
    <3> QED BY <3>3 DEF q
  <2>2. s = r \o <<e>>
    OBVIOUS
  <2> HIDE DEF a, b, c, d, e, T, r, s
  <2> QED BY <1>6, <2>1, <2>2
<1>8. s = t
  <2> HIDE DEF T, r, s, t
  <2> QED BY <1>5, <1>7, SeqEqual
<1> QED BY <1>4, <1>8

(* What is left after each call of the preflight.                          *)
LEMMA CheckTails ==
  /\ Tail(CheckAll) = CheckBeta /\ Head(CheckAll)[1] = "read"
  /\ Tail(CheckBeta) = CheckActive /\ Head(CheckBeta)[1] = "read"
  /\ Tail(CheckActive) = CheckQueue /\ Head(CheckActive)[1] = "running"
  /\ Tail(CheckQueue) = CheckIdle /\ Head(CheckQueue) = AskQueued /\ AskQueued[1] = "queued"
  /\ Tail(CheckIdle) = <<>> /\ Head(CheckIdle)[1] = "idle"
  /\ CheckIdle # CheckBeta /\ CheckIdle # CheckActive /\ CheckIdle # CheckQueue
  /\ CheckIdle # CheckAll /\ AskQueued[2] = Configs
  /\ <<>> \notin {CheckAll, CheckBeta, CheckActive, CheckQueue, CheckIdle}
BY DEF CheckAll, CheckBeta, CheckActive, CheckQueue, CheckIdle, AskQueued, AskRunning

(* The steps of check_lab_states.py.                                       *)
AskedNext ==
  /\ tool.phase = "preflight" /\ tool'.phase = "preflight" /\ tool.todo # <<>>
  /\ tool'.todo = Tail(tool.todo) /\ tool'.created = tool.created /\ UNCHANGED builds
  /\ \/ Head(tool.todo)[1] \in {"read", "running"}
     \/ /\ Head(tool.todo)[1] = "queued"
        /\ tool'.active = (tool.active \/ InState("queued", Head(tool.todo)[2]) # {})
     \/ Head(tool.todo)[1] = "idle" /\ ~tool.active
WentOn ==
  /\ tool.phase = "preflight" /\ tool'.phase = "main" /\ tool.todo = <<>>
  /\ tool'.created = tool.created /\ UNCHANGED builds
Worked ==
  /\ tool.phase # "preflight" /\ tool'.phase # "preflight"
  /\ \/ tool'.created = tool.created
     \/ \E i \in {Len(builds) + 1} \cup InState("queued", Configs) :
          tool'.created = <<i>> \o tool.created
CheckStep ==
  /\ tool.name = "check_lab_states" /\ tool'.since = tool.since
  /\ UNCHANGED tool \/ AskedNext \/ WentOn \/ Worked

LEMMA CheckRead ==
  ASSUME TypeInv, Read, tool'.name = "check_lab_states"
  PROVE  CheckStep
<1>1. tool.todo # <<>> /\ Head(tool.todo)[1] = "read" /\ UNCHANGED builds
  BY DEF Read, Call, labVars
<1>2. tool.phase = "preflight"
  <2> DEFINE x == Head(tool.todo)
  <2>1. x = Head(tool.todo) /\ x[1] = "read"
    BY <1>1
  <2> HIDE DEF x
  <2> QED BY <1>1, <2>1, PhaseOf
<1> DEFINE found == {x \in have : x[1] = Arg}
           reconcile == tool.name = "expand_lab" /\ Arg \in Configs
                          /\ found # {} /\ ~Matches(have, Arg)
           calls == IF reconcile THEN Active({Arg}) \o <<<<"idle">>>> ELSE <<>>
           t == Then(calls)
           u == [Then(calls) EXCEPT !.seen = @ \cup found]
           a == t.seen \cup found
<1>3. tool' = u
  BY DEF Read, Idle
<1>4. tool.name # "expand_lab" => calls = <<>>
  OBVIOUS
<1> HIDE DEF calls
<1>5. /\ Record(t) /\ t.name = tool.name /\ t.phase = tool.phase /\ t.since = tool.since
      /\ t.todo = calls \o Tail(tool.todo) /\ t.created = tool.created
  BY ThenIs
<1>6. u = [t EXCEPT !.seen = a]
  OBVIOUS
<1> HIDE DEF t, u, a
<1>7. u.name = t.name /\ u.phase = t.phase /\ u.todo = t.todo /\ u.created = t.created /\ u.since = t.since
  BY <1>5, <1>6, UpdateSeen
<1>8. tool.name = "check_lab_states"
  BY <1>3, <1>5, <1>7
<1>9. <<>> \o Tail(tool.todo) = Tail(tool.todo)
  BY <1>1, HeadOf
<1> QED BY <1>1, <1>2, <1>3, <1>4, <1>5, <1>7, <1>8, <1>9 DEF CheckStep, AskedNext

LEMMA CheckCount ==
  ASSUME TypeInv, CountRunning \/ CountQueued, tool'.name = "check_lab_states"
  PROVE  CheckStep
<1>1. tool.todo # <<>> /\ Head(tool.todo)[1] \in {"running", "queued"} /\ UNCHANGED builds
  BY DEF CountRunning, CountQueued, Call, labVars
<1>2. ASSUME NEW a, tool' = [Done EXCEPT !.active = a]
      PROVE  /\ tool'.name = tool.name /\ tool'.phase = tool.phase /\ tool'.since = tool.since
             /\ tool'.todo = Tail(tool.todo) /\ tool'.created = tool.created /\ tool'.active = a
  <2> DEFINE t == Done  u == tool'
  <2>1. Record(t) /\ u = [t EXCEPT !.active = a]
    BY <1>2, DoneIs
  <2> HIDE DEF t, u
  <2>2. /\ u.name = t.name /\ u.phase = t.phase /\ u.todo = t.todo /\ u.since = t.since
        /\ u.created = t.created /\ u.active = a
    BY <2>1, UpdateActive
  <2> QED BY <2>2, DoneIs DEF t, u
<1>3. \/ CountRunning /\ tool' = [Done EXCEPT !.active = InState("running", Arg) # {}]
      \/ CountQueued /\ tool' = [Done EXCEPT !.active = Done.active \/ InState("queued", Arg) # {}]
  BY DEF CountRunning, CountQueued, Idle
<1>4. tool.name = "check_lab_states"
  BY <1>2, <1>3
<1>5. tool.phase = "preflight"
  <2> DEFINE x == Head(tool.todo)
  <2>1. x = Head(tool.todo) /\ x[1] \in {"running", "queued"}
    BY <1>1
  <2> HIDE DEF x
  <2> QED BY <1>1, <1>4, <2>1, PhaseOf
<1>6. CASE CountRunning
  <2>1. Head(tool.todo)[1] = "running" /\ tool' = [Done EXCEPT !.active = InState("running", Arg) # {}]
    BY <1>6 DEF CountRunning, Call, Idle
  <2> QED BY <1>1, <1>2, <1>4, <1>5, <2>1 DEF CheckStep, AskedNext
<1>7. CASE CountQueued
  <2> DEFINE a == Done.active \/ InState("queued", Arg) # {}
  <2>1. Head(tool.todo)[1] = "queued" /\ tool' = [Done EXCEPT !.active = a]
    BY <1>7 DEF CountQueued, Call
  <2>2. a = (tool.active \/ InState("queued", Head(tool.todo)[2]) # {})
    BY DoneIs DEF Arg
  <2> HIDE DEF a
  <2> QED BY <1>1, <1>2, <1>4, <1>5, <2>1, <2>2 DEF CheckStep, AskedNext
<1> QED BY <1>3, <1>6, <1>7

LEMMA CheckQueueCall ==
  ASSUME TypeInv, Queue, tool'.name = "check_lab_states"
  PROVE  CheckStep
<1>1. tool.todo # <<>> /\ Head(tool.todo)[1] = "queue"
  BY DEF Queue, Call
<1>2. tool.phase = "main" /\ Arg \in Configs
  <2> DEFINE x == Head(tool.todo)
  <2>1. x = Head(tool.todo) /\ x[1] = "queue" /\ Arg = x[2]
    BY <1>1 DEF Arg
  <2> HIDE DEF x
  <2> QED BY <1>1, <2>1, PhaseOf
<1>3. \/ tool' = Raised
      \/ \E i \in {Len(builds) + 1} \cup InState("queued", {Arg}) :
           tool' = [Done EXCEPT !.created = <<i>> \o @]
  BY DEF Queue
<1>4. CASE tool' = Raised
  BY <1>1, <1>2, <1>4, RaisedOK DEF CheckStep, Worked, Idle
<1>5. ASSUME NEW i \in {Len(builds) + 1} \cup InState("queued", {Arg}),
             tool' = [Done EXCEPT !.created = <<i>> \o @]
      PROVE  CheckStep
  <2> DEFINE t == Done  u == tool'  a == <<i>> \o Done.created
  <2>1. Record(t) /\ u = [t EXCEPT !.created = a]
    BY <1>5, DoneIs
  <2>2. a = <<i>> \o tool.created
    BY DoneIs
  <2> HIDE DEF t, u, a
  <2>3. u.name = t.name /\ u.phase = t.phase /\ u.since = t.since /\ u.created = a
    BY <2>1, UpdateCreated
  <2>4. i \in {Len(builds) + 1} \cup InState("queued", Configs)
    BY <1>2 DEF InState, OfConfig
  <2> QED BY <1>2, <2>2, <2>3, <2>4, DoneIs DEF CheckStep, Worked, t, u
<1> QED BY <1>3, <1>4, <1>5

LEMMA CheckSteps ==
  ASSUME TypeInv, [Next]_vars, tool'.name = "check_lab_states"
  PROVE  CheckStep \/ Begin("check_lab_states")
<1>1. Idle.name # "check_lab_states"
  BY DEF Idle
<1>2. CASE UNCHANGED tool
  BY <1>2 DEF CheckStep
<1>3. CASE tool.todo # <<>> /\ tool' = Raised
  BY <1>1, <1>3, RaisedOK DEF CheckStep, Worked
<1>4. CASE Read
  BY <1>4, CheckRead
<1>5. CASE CountRunning \/ CountQueued
  BY <1>5, CheckCount
<1>6. CASE RequireIdle
  <2>1. tool.todo # <<>> /\ Head(tool.todo)[1] = "idle" /\ UNCHANGED builds /\ tool' = Done /\ ~tool.active
    BY <1>1, <1>6 DEF RequireIdle, Call, labVars
  <2>2. tool.phase = "preflight"
    <3> DEFINE x == Head(tool.todo)
    <3>1. x = Head(tool.todo) /\ x[1] = "idle"
      BY <2>1
    <3> HIDE DEF x
    <3> QED BY <2>1, <3>1, PhaseOf
  <2> QED BY <2>1, <2>2, DoneIs DEF CheckStep, AskedNext
<1>7. CASE Queue
  BY <1>7, CheckQueueCall
<1>8. CASE tool.todo # <<>> /\ Head(tool.todo)[1] \in {"write", "await", "observe", "verify"} /\ tool' = Done
  <2>1. tool.phase # "preflight"
    <3> DEFINE x == Head(tool.todo)
    <3>1. x = Head(tool.todo) /\ x[1] \in {"write", "await", "observe", "verify"}
      BY <1>8
    <3> HIDE DEF x
    <3> QED BY <1>8, <3>1, PhaseOf
  <2> QED BY <1>8, <2>1, DoneIs DEF CheckStep, Worked
<1>9. CASE Cancel \/ Delete \/ Stop
  <2>1. tool.todo # <<>> /\ Head(tool.todo)[1] \in {"cancel", "delete", "stop"}
    BY <1>9 DEF Cancel, Delete, Stop, Call
  <2>2. tool.phase = "cleanup"
    BY <2>1, CancelCall
  <2>3. tool' = Raised \/ tool' = Done \/ \E calls : tool' = Then(calls)
    BY <1>9 DEF Cancel, Delete, Stop, Answered, Gone
  <2> QED BY <1>3, <2>1, <2>2, <2>3, DoneIs, ThenIs DEF CheckStep, Worked
<1>10. CASE Judge \/ Report
  <2>1. tool.todo # <<>> /\ Head(tool.todo)[1] \in {"judge", "report"}
    BY <1>10 DEF Judge, Report, Call
  <2>2. tool.name = "run_lab"
    <3> DEFINE x == Head(tool.todo)
    <3>1. x = Head(tool.todo) /\ x[1] \in {"judge", "report"}
      BY <2>1
    <3> HIDE DEF x
    <3> QED BY <2>1, <3>1, PhaseOf
  <2> QED BY <1>1, <1>10, <2>2, JudgeIs, ReportIs DEF Same
<1>11. CASE Proceed
  BY <1>1, <1>11, ProceedIs DEF CheckStep, WentOn, Worked, labVars
<1>12. CASE Deadline
  BY <1>12, DeadlineIs DEF CheckStep, Worked
<1>13. CASE Killed
  BY <1>1, <1>13 DEF Killed
<1>14. ASSUME NEW name \in Tools, Begin(name) PROVE Begin("check_lab_states")
  BY <1>14, BeginIs
<1>15. Write \/ Await \/ Observe \/ Verify =>
         tool.todo # <<>> /\ Head(tool.todo)[1] \in {"write", "await", "observe", "verify"}
         /\ tool' \in {Done, Raised}
  BY DEF Write, Await, Observe, Verify, Answered, Call
<1>16. CallFails => tool.todo # <<>> /\ tool' = Raised
  BY DEF CallFails
<1> QED BY <1>2, <1>3, <1>4, <1>5, <1>6, <1>7, <1>8, <1>9, <1>10, <1>11, <1>12, <1>13, <1>14, <1>15, <1>16
        DEF Next, ToolStep, Quiet, vars

LEMMA EarlierStep ==
  ASSUME TypeInv, EarlierInv, [Next]_vars
  PROVE  EarlierInv'
<1> SUFFICES ASSUME tool'.name = "check_lab_states" PROVE EarlierInv'
  BY DEF EarlierInv
<1>1. Onward /\ builds \in Seq(Build) /\ Len(builds) \in Nat /\ Len(builds') \in Nat
      /\ Len(builds) <= Len(builds')
  BY BuildsGoOnward DEF TypeInv, Onward
<1>2. CASE Begin("check_lab_states")
  <2>1. /\ UNCHANGED builds /\ tool'.phase = "preflight" /\ tool'.todo = CheckAll
        /\ tool'.created = <<>> /\ tool'.since = Len(builds)
    BY <1>2, BeginIs, CheckPreflight DEF Tools, Temporary, labVars
  <2> QED BY <1>1, <2>1, CheckTails DEF EarlierInv
<1>3. CASE CheckStep
  <2>1. tool.name = "check_lab_states" /\ tool'.since = tool.since
    BY <1>3 DEF CheckStep
  <2>2. tool.since \in Nat /\ tool.since <= Len(builds)
    BY <2>1 DEF EarlierInv
  <2>3. tool'.since \in Nat /\ tool'.since <= Len(builds')
    BY <1>1, <2>1, <2>2
  <2>4. ASSUME QueueLeft PROVE QueueLeft'
    <3> SUFFICES ASSUME NEW i \in 1..Len(builds'), builds'[i].state = "queued" PROVE i > tool.since
      BY <2>1 DEF QueueLeft
    <3>1. CASE i \in 1..Len(builds)
      <4>1. builds[i].state = "queued"
        BY <1>1, <3>1 DEF Onward
      <4> QED BY <2>4, <3>1, <4>1 DEF QueueLeft
    <3>2. CASE i \notin 1..Len(builds)
      BY <1>1, <2>2, <3>2
    <3> QED BY <3>1, <3>2
  <2>5. CASE UNCHANGED tool
    BY <2>1, <2>3, <2>4, <2>5 DEF EarlierInv, Known
  <2>6. CASE AskedNext
    <3>1. /\ tool.created = <<>>
          /\ tool.todo \in {CheckAll, CheckBeta, CheckActive, CheckQueue, CheckIdle}
          /\ tool.todo = CheckIdle => tool.active \/ QueueLeft
      BY <2>1, <2>6 DEF EarlierInv, AskedNext
    <3>2. tool'.phase = "preflight" /\ tool'.created = <<>> /\ tool'.todo = Tail(tool.todo)
      BY <2>6, <3>1 DEF AskedNext
    <3>3. tool'.todo \in {CheckBeta, CheckActive, CheckQueue, CheckIdle, <<>>}
      BY <3>1, <3>2, CheckTails
    <3>4. ASSUME tool'.todo = CheckIdle PROVE (tool.active \/ QueueLeft)' 
      <4>1. tool.todo = CheckQueue
        BY <3>1, <3>2, <3>4, CheckTails
      <4>2. tool'.active = (tool.active \/ InState("queued", Configs) # {}) /\ UNCHANGED builds
        BY <2>6, <4>1, CheckTails DEF AskedNext
      <4>3. CASE InState("queued", Configs) # {}
        BY <4>2, <4>3
      <4>4. CASE InState("queued", Configs) = {}
        <5>1. ASSUME NEW i \in 1..Len(builds), builds[i].state = "queued" PROVE FALSE
          <6>1. builds[i] \in Build /\ DOMAIN builds = 1..Len(builds)
            BY <1>1
          <6>2. i \in InState("queued", Configs)
            BY <5>1, <6>1 DEF InState, OfConfig, Build
          <6> QED BY <4>4, <6>2
        <5> QED BY <2>4, <5>1 DEF QueueLeft
      <4> QED BY <4>3, <4>4
    <3>5. ASSUME tool'.todo = <<>> PROVE QueueLeft'
      <4>1. tool.todo = CheckIdle
        BY <3>1, <3>2, <3>5, CheckTails
      <4>2. ~tool.active
        BY <2>6, <4>1, CheckTails DEF AskedNext
      <4> QED BY <2>4, <3>1, <4>1, <4>2
    <3> QED BY <2>3, <3>2, <3>3, <3>4, <3>5 DEF EarlierInv
  <2>7. CASE WentOn
    <3>1. QueueLeft /\ tool'.created = <<>> /\ tool'.phase = "main"
      BY <2>1, <2>7 DEF EarlierInv, WentOn
    <3>2. Known(tool') = {}
      BY <3>1 DEF Known
    <3> QED BY <2>3, <2>4, <3>1, <3>2 DEF EarlierInv
  <2>8. CASE Worked
    <3>1. QueueLeft /\ (\A i \in Known(tool) : i > tool.since) /\ tool'.phase # "preflight"
      BY <2>1, <2>8 DEF EarlierInv, Worked
    <3>2. ASSUME NEW i \in {Len(builds) + 1} \cup InState("queued", Configs),
                 tool'.created = <<i>> \o tool.created
          PROVE  \A j \in Known(tool') : j > tool.since
      <4>1. i > tool.since
        BY <1>1, <2>2, <3>1, InStateIs DEF QueueLeft
      <4> DEFINE s == tool.created  n == Len(builds)
      <4>2. s \in Seq(1..n) /\ n \in Nat
        BY <1>1 DEF TypeInv, ToolOK
      <4> HIDE DEF s, n
      <4>3. /\ DOMAIN (<<i>> \o s) = 1..(Len(s) + 1) /\ (<<i>> \o s)[1] = i /\ Len(s) \in Nat
            /\ DOMAIN s = 1..Len(s)
            /\ \A k \in 1..(Len(s) + 1) : k # 1 => k - 1 \in 1..Len(s) /\ (<<i>> \o s)[k] = s[k - 1]
        BY <4>2
      <4>4. \A k \in DOMAIN (<<i>> \o s) : (<<i>> \o s)[k] = i \/ \E m \in DOMAIN s : (<<i>> \o s)[k] = s[m]
        BY <4>3
      <4> QED BY <3>1, <3>2, <4>1, <4>4 DEF Known, s
    <3>3. \A j \in Known(tool') : j > tool.since
      BY <2>8, <3>1, <3>2 DEF Worked, Known
    <3> QED BY <2>1, <2>3, <2>4, <3>1, <3>3 DEF EarlierInv
  <2> QED BY <1>3, <2>5, <2>6, <2>7, <2>8 DEF CheckStep
<1> QED BY <1>2, <1>3, CheckSteps

(* A script stops no build but those its requests were answered with.      *)
LEMMA OwnCancelled ==
  ASSUME TypeInv, [Next]_vars, NEW i \in 1..Len(builds),
         builds[i].state \in ActiveStates, builds'[i].state \in {"cancelled", "removed"}
  PROVE  i \in Mine
<1>1. builds \in Seq(Build) /\ Mine = Known(tool)
  BY DEF TypeInv, Mine, Known
<1>2. builds'[i] # builds[i]
  BY DEF ActiveStates
<1>3. CASE Delete \/ Stop
  <2>1. tool.todo # <<>> /\ Head(tool.todo)[1] \in {"cancel", "delete", "stop"}
    BY <1>3 DEF Delete, Stop, Call
  <2>2. Arg \in Known(tool) /\ Arg \in 1..Len(builds)
    BY <2>1, CancelCall
  <2>3. SetState(Arg, "removed") \/ SetState(Arg, "cancelled")
    BY <1>2, <1>3 DEF Delete, Stop
  <2>4. "removed" \in ActiveStates \cup Finished \cup {"removed"}
        /\ "cancelled" \in ActiveStates \cup Finished \cup {"removed"}
    BY DEF Finished
  <2>5. i # Arg => builds'[i] = builds[i]
    BY <1>1, <2>2, <2>3, <2>4, StateIsSet
  <2> QED BY <1>1, <1>2, <2>2, <2>5
<1>4. CASE Queue
  <2>1. tool.todo # <<>> /\ Head(tool.todo)[1] = "queue"
    BY <1>4 DEF Queue, Call
  <2>2. tool.name \in Tools /\ Arg \in Configs
    <3> DEFINE x == Head(tool.todo)
    <3>1. x = Head(tool.todo) /\ x[1] = "queue" /\ Arg = x[2]
      BY <2>1 DEF Arg
    <3> HIDE DEF x
    <3> QED BY <2>1, <3>1, PhaseOf, HeadOf
  <2>3. builds' = builds \/ builds' = Append(builds, NewBuild(Arg, tool.name))
    BY <1>4 DEF Queue
  <2> QED BY <1>1, <1>2, <2>2, <2>3, NewBuildIs
<1>5. CASE Environment
  BY <1>5, EnvironmentIs
<1>6. CASE UNCHANGED builds
  BY <1>2, <1>6
<1>7. ASSUME ~(Delete \/ Stop), ~Queue, ~Environment PROVE UNCHANGED builds
  BY <1>7 DEF Next, ToolStep, Read, CountRunning, CountQueued, RequireIdle, Write, Await, Observe,
       Judge, Report, Cancel, Verify, Proceed, CallFails, Deadline, Killed, Begin, Quiet, vars, labVars
<1> QED BY <1>3, <1>4, <1>5, <1>6, <1>7

(* check_lab_states.py never stops a build that was there before it began, *)
(* whatever starts between the two requests of its idle check.             *)
THEOREM EarlierBuildsDoStay == Spec => EarlierBuildsStay
<1>1. Init => EarlierInv
  BY DEF Init, Idle, EarlierInv
<1>2. TypeInv /\ EarlierInv /\ [Next]_vars => EarlierInv'
  BY EarlierStep
<1>3. TypeInv /\ EarlierInv /\ [Next]_vars =>
        [\A i \in DOMAIN builds :
           /\ tool.name = "check_lab_states"
           /\ builds[i].state \in ActiveStates /\ builds'[i].state \in {"cancelled", "removed"}
           => i > tool.since]_vars
  <2>1. TypeInv => DOMAIN builds = 1..Len(builds)
    BY DEF TypeInv
  <2> QED BY <2>1, OwnCancelled DEF EarlierInv, Mine, Known
<1> QED BY <1>1, <1>2, <1>3, TypesAreKept, PTL DEF Spec, EarlierBuildsStay
=============================================================================
