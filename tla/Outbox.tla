------------------------------- MODULE Outbox -------------------------------
(***************************************************************************)
(* The webhook outbox: rows enqueued by closing scans and delivered by the *)
(* job that runs `dispatch_webhooks` every minute (app/alerts.py,          *)
(* app/main.py), with the receiver, the passing of time, restarts and the  *)
(* operator's requeue of the runbook around it.                            *)
(*                                                                         *)
(* next_attempt_at is abstracted to whether it has passed; the length of   *)
(* the backoff is left to the passing of time.                             *)
(***************************************************************************)
EXTENDS Naturals, FiniteSets

CONSTANTS
  MaxEvents,    \* bound: rows ever enqueued
  BatchLimit,   \* rows one run of the job takes
  MaxAttempts,  \* WEBHOOK_MAX_ATTEMPTS
  MaxRequeues,  \* bound: operator requeues
  MaxRestarts,  \* bound: restarts
  Garbled       \* events whose response httpx cannot decode

ASSUME OutboxAssumption ==
  /\ MaxEvents \in Nat /\ MaxRequeues \in Nat /\ MaxRestarts \in Nat
  /\ BatchLimit \in Nat \ {0}
  /\ MaxAttempts \in Nat \ {0}
  /\ Garbled \subseteq 1..MaxEvents

VARIABLES
  rows,      \* database: webhook_deliveries by id
  nextId,    \* database: next value of the id sequence
  batch,     \* ids the running job still has to handle
  inFlight,  \* the id whose POST is awaited, 0 for none
  received,  \* receiver: how often it has processed each event (not counted
             \* for Garbled ones, which are posted without end)
  requeues, restarts

vars == <<rows, nextId, batch, inFlight, received, requeues, restarts>>

EventIds == 1..MaxEvents
Row == [status : {"absent", "pending", "sent", "dead"}, attempts : Nat, due : BOOLEAN]
Absent == [status |-> "absent", attempts |-> 0, due |-> FALSE]
Fresh == [status |-> "pending", attempts |-> 0, due |-> TRUE]

Pending == {i \in EventIds : rows[i].status = "pending"}

Init ==
  /\ rows = [i \in EventIds |-> Absent]
  /\ nextId = 1
  /\ batch = {}
  /\ inFlight = 0
  /\ received = [i \in EventIds |-> 0]
  /\ requeues = 0 /\ restarts = 0

(* A closing scan inserts a row; it may do so while a POST is awaited. *)
Enqueue ==
  /\ nextId <= MaxEvents
  /\ rows' = [rows EXCEPT ![nextId] = Fresh]
  /\ nextId' = nextId + 1
  /\ UNCHANGED <<batch, inFlight, received, requeues, restarts>>

(* next_attempt_at passes. *)
TimePasses(i) ==
  /\ rows[i].status = "pending" /\ ~rows[i].due
  /\ rows' = [rows EXCEPT ![i].due = TRUE]
  /\ UNCHANGED <<nextId, batch, inFlight, received, requeues, restarts>>

-----------------------------------------------------------------------------
First(S) == {i \in S : Cardinality({j \in S : j < i}) < BatchLimit}

(* Mutant: a second run of the job may start. *)
Fetch_Overlapping ==
  /\ \E i \in Pending : rows[i].due
  /\ batch' = First({i \in Pending : rows[i].due})
  /\ UNCHANGED <<rows, nextId, inFlight, received, requeues, restarts>>

(* The job fires; max_instances=1 keeps a second run from starting. *)
Fetch ==
  /\ batch = {} /\ inFlight = 0
  /\ \E i \in Pending : rows[i].due
  /\ batch' = First({i \in Pending : rows[i].due})
  /\ UNCHANGED <<rows, nextId, inFlight, received, requeues, restarts>>

(* Reload the next row and post it if it is still pending. *)
Post ==
  /\ batch # {} /\ inFlight = 0
  /\ \E i \in batch :
       /\ \A j \in batch : i <= j
       /\ batch' = batch \ {i}
       /\ inFlight' = IF rows[i].status = "pending" THEN i ELSE 0
  /\ UNCHANGED <<rows, nextId, received, requeues, restarts>>

(* Mutants: one attempt too many; no limit. *)
RetryOrDead_OneMore(row) ==
  IF row.attempts > MaxAttempts THEN [row EXCEPT !.status = "dead"]
  ELSE [row EXCEPT !.due = FALSE]
RetryOrDead_Forever(row) == [row EXCEPT !.attempts = 1, !.due = FALSE]
RetryOrDead(row) ==
  IF row.attempts >= MaxAttempts THEN [row EXCEPT !.status = "dead"]
  ELSE [row EXCEPT !.due = FALSE]

Tried(i) == [rows[i] EXCEPT !.attempts = @ + 1]

Answered(row) ==
  /\ rows' = [rows EXCEPT ![inFlight] = row]
  /\ inFlight' = 0
  /\ UNCHANGED <<nextId, batch, requeues, restarts>>

Awaited == inFlight # 0 /\ inFlight \notin Garbled

(* The receiver processes what was posted. *)
Process == received' = [received EXCEPT ![inFlight] = @ + 1]

(* 2xx *)
Success ==
  /\ Awaited
  /\ Process
  /\ Answered([Tried(inFlight) EXCEPT !.status = "sent"])

(* 408, 425, 429 or 5xx *)
Retryable ==
  /\ Awaited
  /\ Answered(RetryOrDead(Tried(inFlight)))
  /\ UNCHANGED received

(* Any other status *)
Refused ==
  /\ Awaited
  /\ Answered([Tried(inFlight) EXCEPT !.status = "dead"])
  /\ UNCHANGED received

(* Mutant: only responses count as attempts. *)
TransportError_Uncounted ==
  /\ Awaited
  /\ Process \/ UNCHANGED received
  /\ Answered(RetryOrDead(rows[inFlight]))

(* TransportError: the receiver may have processed the request. *)
TransportError ==
  /\ Awaited
  /\ Process \/ UNCHANGED received
  /\ Answered(RetryOrDead(Tried(inFlight)))

(* A response that cannot be decoded is no TransportError: the exception   *)
(* ends the run, nothing is committed.                                     *)
Undecodable ==
  /\ inFlight \in Garbled
  /\ inFlight' = 0
  /\ batch' = {}
  /\ UNCHANGED <<rows, nextId, received, requeues, restarts>>

(* The process stops; a request under way may still reach the receiver. *)
Restart ==
  /\ restarts < MaxRestarts
  /\ restarts' = restarts + 1
  /\ (Awaited /\ Process) \/ UNCHANGED received
  /\ batch' = {}
  /\ inFlight' = 0
  /\ UNCHANGED <<rows, nextId, requeues>>

(* The operator reopens a dead row (docs/production-runbook.md). *)
Requeue(i) ==
  /\ requeues < MaxRequeues
  /\ rows[i].status = "dead"
  /\ rows' = [rows EXCEPT ![i] = Fresh]
  /\ requeues' = requeues + 1
  /\ UNCHANGED <<nextId, batch, inFlight, received, restarts>>

(* Nothing is left to deliver. *)
Quiescent ==
  /\ Pending = {}
  /\ UNCHANGED vars

Reply == Success \/ Retryable \/ Refused \/ TransportError \/ Undecodable

Next ==
  \/ Enqueue
  \/ \E i \in EventIds : TimePasses(i) \/ Requeue(i)
  \/ Fetch
  \/ Post
  \/ Reply
  \/ Restart
  \/ Quiescent

(* Time passes, the job runs every minute and a POST ends within           *)
(* WEBHOOK_TIMEOUT_SECONDS; nothing obliges the receiver to accept.        *)
Fairness ==
  /\ \A i \in EventIds : WF_vars(TimePasses(i))
  /\ WF_vars(Fetch)
  /\ WF_vars(Post)
  /\ WF_vars(Reply)

Spec == Init /\ [][Next]_vars /\ Fairness

-----------------------------------------------------------------------------
(* Every variable has its type.                                            *)
TypeOK ==
  /\ rows \in [EventIds -> Row]
  /\ nextId \in 1..(MaxEvents + 1)
  /\ batch \subseteq EventIds
  /\ inFlight \in 0..MaxEvents
  /\ received \in [EventIds -> Nat]
  /\ requeues \in 0..MaxRequeues
  /\ restarts \in 0..MaxRestarts

(* The row accounts for what the receiver got: beyond its attempts only a  *)
(* restart that cut a POST off, or the attempts a requeue erased, can have *)
(* processed the event once more.                                          *)
AttemptsAccountForReceipts ==
  \A i \in EventIds \ Garbled :
    received[i] <= rows[i].attempts + MaxAttempts * requeues + restarts

(* A pending delivery has an attempt left, also one the operator reopened. *)
PendingHasAttemptLeft ==
  \A i \in EventIds :
    /\ rows[i].attempts <= MaxAttempts
    /\ rows[i].status = "pending" => rows[i].attempts < MaxAttempts

(* The job works on pending rows only: nothing settles a row between the   *)
(* query that listed it and its turn in the batch.                         *)
BatchIsPending ==
  \A i \in batch \cup (EventIds \cap {inFlight}) : rows[i].status = "pending"

(* A delivery whose receiver answers is sent or given up, whatever the     *)
(* answer, the restarts and the fate of the other deliveries.              *)
AnsweredDeliveriesSettle ==
  \A i \in EventIds \ Garbled :
    rows[i].status = "pending" ~> rows[i].status # "pending"
=============================================================================
