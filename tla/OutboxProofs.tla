---------------------------- MODULE OutboxProofs ----------------------------
(* Proofs about the webhook outbox, for any number of rows, any batch and  *)
(* attempt limit and any set of undecodable responses.                     *)
EXTENDS Outbox, TLAPS

(* A row leaves the batch before it is posted. *)
InFlightLeftBatch == inFlight \notin batch

(* What is not enqueued was never posted. *)
UnbornUntouched ==
  \A i \in EventIds : i >= nextId => rows[i].status = "absent" /\ received[i] = 0

IInv ==
  /\ TypeOK
  /\ UnbornUntouched
  /\ AttemptsAccountForReceipts
  /\ PendingHasAttemptLeft
  /\ BatchIsPending
  /\ InFlightLeftBatch

(* A batch is taken from the rows it is asked to choose from. *)
LEMMA FirstSubset ==
  ASSUME NEW S
  PROVE  First(S) \subseteq S
BY DEF First

LEMMA InitInv == Init => IInv
BY OutboxAssumption
   DEF Init, IInv, TypeOK, UnbornUntouched, AttemptsAccountForReceipts, PendingHasAttemptLeft, BatchIsPending,
       InFlightLeftBatch, EventIds, Row, Absent

(* The receiver processes the posted event at most once more, no other.    *)
LEMMA ReceivedOnce ==
  ASSUME TypeOK, inFlight \in EventIds \/ UNCHANGED received, Process \/ UNCHANGED received
  PROVE  /\ received' \in [EventIds -> Nat]
         /\ \A i \in EventIds :
              /\ received'[i] <= received[i] + 1
              /\ i # inFlight => received'[i] = received[i]
BY DEF TypeOK, Process

(* An answer, whatever it is, keeps the invariant when it writes a row     *)
(* that is typed, counts the attempt and keeps attempts in bounds.         *)
LEMMA AnsweredInv ==
  ASSUME IInv, Awaited, NEW row \in Row,
         Answered(row), Process \/ UNCHANGED received,
         row.attempts = rows[inFlight].attempts + 1,
         row.attempts <= MaxAttempts,
         row.status = "pending" => row.attempts < MaxAttempts
  PROVE  IInv'
<1>1. inFlight \in EventIds
  BY DEF IInv, TypeOK, Awaited, EventIds
<1>2. TypeOK'
  <2>1. received' \in [EventIds -> Nat]
    BY <1>1, ReceivedOnce DEF IInv
  <2>2. rows' \in [EventIds -> Row]
    BY <1>1 DEF IInv, TypeOK, Answered
  <2>3. 0 \in 0..MaxEvents
    BY OutboxAssumption
  <2> QED BY <2>1, <2>2, <2>3 DEF IInv, TypeOK, Answered
<1>3. AttemptsAccountForReceipts'
  <2>1. SUFFICES ASSUME NEW i \in EventIds \ Garbled
                 PROVE  received'[i] <= rows'[i].attempts + MaxAttempts * requeues + restarts
    BY DEF AttemptsAccountForReceipts, Answered
  <2> DEFINE others == MaxAttempts * requeues + restarts
  <2>2. /\ received[i] \in Nat /\ rows[i].attempts \in Nat /\ others \in Nat
        /\ received[i] <= rows[i].attempts + others
    BY OutboxAssumption DEF IInv, TypeOK, Row, AttemptsAccountForReceipts
  <2>3. /\ received'[i] <= received[i] + 1 /\ (i # inFlight => received'[i] = received[i])
        /\ received'[i] \in Nat
    <3>1. i \in EventIds /\ TypeOK
      BY DEF IInv
    <3> QED BY <1>1, <3>1, ReceivedOnce
  <2>4. /\ i = inFlight => rows'[i].attempts = rows[i].attempts + 1
        /\ i # inFlight => rows'[i].attempts = rows[i].attempts
    BY <1>1 DEF Answered, IInv, TypeOK
  <2> HIDE DEF others
  <2>5. received'[i] <= rows'[i].attempts + others /\ rows'[i].attempts \in Nat
    BY <2>2, <2>3, <2>4
  <2>6. MaxAttempts * requeues \in Nat /\ restarts \in Nat
    BY OutboxAssumption DEF IInv, TypeOK
  <2> QED BY <2>5, <2>6 DEF others
<1>4. PendingHasAttemptLeft'
  BY <1>1 DEF IInv, TypeOK, PendingHasAttemptLeft, Answered
<1>5. BatchIsPending'
  <2>1. ASSUME NEW i \in batch PROVE rows'[i].status = "pending"
    BY <1>1, <2>1 DEF IInv, TypeOK, BatchIsPending, InFlightLeftBatch, Answered
  <2>2. EventIds \cap {inFlight'} = {}
    BY OutboxAssumption DEF Answered, EventIds
  <2> QED BY <2>1, <2>2 DEF BatchIsPending, Answered
<1>6. InFlightLeftBatch'
  BY DEF IInv, TypeOK, InFlightLeftBatch, Answered, EventIds
<1>7. UnbornUntouched'
  <2>1. rows[inFlight].status = "pending"
    BY <1>1 DEF IInv, BatchIsPending
  <2>2. \A i \in EventIds \ {inFlight} : rows'[i] = rows[i] /\ received'[i] = received[i]
    BY <1>1, ReceivedOnce DEF Answered, IInv, TypeOK
  <2>3. inFlight < nextId
    BY <1>1, <2>1 DEF IInv, TypeOK, UnbornUntouched, EventIds
  <2>4. nextId' = nextId
    BY DEF Answered
  <2>5. ASSUME NEW i \in EventIds, i >= nextId' PROVE i # inFlight
    BY <1>1, <2>3, <2>4, <2>5 DEF IInv, TypeOK, EventIds
  <2> QED BY <2>2, <2>4, <2>5 DEF UnbornUntouched, IInv
<1> QED BY <1>2, <1>3, <1>4, <1>5, <1>6, <1>7 DEF IInv

LEMMA TriedRow ==
  ASSUME IInv, Awaited
  PROVE  /\ inFlight \in EventIds
         /\ Tried(inFlight) \in Row
         /\ Tried(inFlight).status = "pending"
         /\ Tried(inFlight).attempts = rows[inFlight].attempts + 1
         /\ Tried(inFlight).attempts <= MaxAttempts
<1>1. inFlight \in EventIds
  BY DEF IInv, TypeOK, Awaited, EventIds
<1>2. rows[inFlight] \in Row /\ rows[inFlight].status = "pending"
  BY <1>1 DEF IInv, TypeOK, BatchIsPending
<1>3. rows[inFlight].attempts \in Nat /\ rows[inFlight].attempts < MaxAttempts
  BY <1>1, <1>2 DEF IInv, PendingHasAttemptLeft, Row
<1> QED BY <1>1, <1>2, <1>3, OutboxAssumption DEF IInv, TypeOK, Tried, Row

(* A retried row is dead exactly when its attempts are used up. *)
LEMMA RetryRow ==
  ASSUME NEW row \in Row, row.attempts <= MaxAttempts, row.status = "pending"
  PROVE  /\ RetryOrDead(row) \in Row
         /\ RetryOrDead(row).attempts = row.attempts
         /\ RetryOrDead(row).status = "pending" => row.attempts < MaxAttempts
<1>1. row.attempts \in Nat /\ MaxAttempts \in Nat
  BY OutboxAssumption DEF Row
<1>2. CASE row.attempts >= MaxAttempts
  <2>1. RetryOrDead(row) = [row EXCEPT !.status = "dead"]
    BY <1>2 DEF RetryOrDead
  <2> QED BY <2>1 DEF Row
<1>3. CASE ~(row.attempts >= MaxAttempts)
  <2>1. RetryOrDead(row) = [row EXCEPT !.due = FALSE]
    BY <1>3 DEF RetryOrDead
  <2>2. row.attempts < MaxAttempts
    BY <1>1, <1>3
  <2> QED BY <2>1, <2>2 DEF Row
<1> QED BY <1>2, <1>3

LEMMA NextInv == IInv /\ [Next]_vars => IInv'
<1> SUFFICES ASSUME IInv, [Next]_vars PROVE IInv'
  OBVIOUS
<1> USE OutboxAssumption
<1>1. CASE Enqueue
  <2>1. Fresh \in Row /\ Fresh.status = "pending" /\ Fresh.attempts = 0
    BY DEF Fresh, Row
  <2>2. /\ nextId \in EventIds /\ rows' = [rows EXCEPT ![nextId] = Fresh] /\ nextId' = nextId + 1
        /\ UNCHANGED <<batch, inFlight, received, requeues, restarts>>
    BY <1>1 DEF Enqueue, IInv, TypeOK, EventIds
  <2>3. TypeOK'
    BY <2>1, <2>2 DEF IInv, TypeOK, EventIds
  <2>4. received[nextId] = 0 /\ MaxAttempts * requeues \in Nat
    BY <2>2 DEF IInv, TypeOK, UnbornUntouched, EventIds
  <2>5. \A i \in EventIds \ {nextId} : rows'[i] = rows[i]
    BY <2>2 DEF IInv, TypeOK
  <2>6. rows'[nextId] = Fresh
    BY <2>2 DEF IInv, TypeOK
  <2>7. AttemptsAccountForReceipts'
    BY <2>1, <2>2, <2>4, <2>5, <2>6 DEF IInv, TypeOK, AttemptsAccountForReceipts
  <2>8. UnbornUntouched'
    BY <2>2, <2>5 DEF IInv, TypeOK, UnbornUntouched, EventIds
  <2> QED BY <2>1, <2>2, <2>3, <2>5, <2>6, <2>7, <2>8 DEF IInv, PendingHasAttemptLeft,
                    BatchIsPending, InFlightLeftBatch
<1>2. CASE \E i \in EventIds : TimePasses(i)
  <2>1. PICK i \in EventIds : TimePasses(i)
    BY <1>2
  <2> DEFINE row == [rows[i] EXCEPT !.due = TRUE]
  <2>2. /\ row \in Row /\ row.status = rows[i].status
        /\ row.attempts = rows[i].attempts
    BY DEF IInv, TypeOK, Row
  <2>3. /\ rows' = [rows EXCEPT ![i] = row]
        /\ UNCHANGED <<nextId, batch, inFlight, received, requeues, restarts>>
    BY <2>1 DEF TimePasses
  <2> HIDE DEF row
  <2>4. TypeOK'
    BY <2>2, <2>3 DEF IInv, TypeOK
  <2>5. ASSUME NEW j \in EventIds
        PROVE  rows'[j].status = rows[j].status /\ rows'[j].attempts = rows[j].attempts
    BY <2>2, <2>3 DEF IInv, TypeOK
  <2> QED BY <2>3, <2>4, <2>5 DEF IInv, TypeOK, UnbornUntouched, AttemptsAccountForReceipts, PendingHasAttemptLeft,
                    BatchIsPending, InFlightLeftBatch
<1>3. CASE \E i \in EventIds : Requeue(i)
  <2>1. Fresh \in Row /\ Fresh.status = "pending" /\ Fresh.attempts = 0
    BY DEF Fresh, Row
  <2>2. PICK i \in EventIds : Requeue(i)
    BY <1>3
  <2>3. AttemptsAccountForReceipts'
    <3>1. SUFFICES ASSUME NEW j \in EventIds \ Garbled
                   PROVE  received[j] <= rows'[j].attempts + MaxAttempts * (requeues + 1) + restarts
      BY <2>2 DEF AttemptsAccountForReceipts, Requeue
    <3>2. /\ received[j] \in Nat /\ rows[j].attempts \in 0..MaxAttempts
          /\ MaxAttempts * requeues \in Nat /\ restarts \in Nat
          /\ received[j] <= rows[j].attempts + MaxAttempts * requeues + restarts
      BY DEF IInv, TypeOK, Row, AttemptsAccountForReceipts, PendingHasAttemptLeft
    <3>3. MaxAttempts * (requeues + 1) = MaxAttempts * requeues + MaxAttempts
      BY DEF IInv, TypeOK
    <3>4. rows'[j].attempts \in {0, rows[j].attempts}
      BY <2>1, <2>2 DEF Requeue, IInv, TypeOK
    <3> QED BY <3>2, <3>3, <3>4
  <2> QED BY <1>3, <2>1, <2>3 DEF Requeue, IInv, TypeOK, UnbornUntouched, PendingHasAttemptLeft,
                    BatchIsPending, InFlightLeftBatch
<1>4. CASE Fetch
  <2>1. batch' \subseteq Pending
    BY <1>4, FirstSubset DEF Fetch
  <2>2. inFlight' = 0 /\ 0 \notin EventIds
    BY <1>4 DEF Fetch, EventIds
  <2> QED BY <1>4, <2>1, <2>2 DEF Fetch, Pending, IInv, TypeOK, UnbornUntouched, AttemptsAccountForReceipts,
                    PendingHasAttemptLeft, BatchIsPending, InFlightLeftBatch
<1>5. CASE Post
  <2>1. PICK i \in batch : /\ batch' = batch \ {i}
                           /\ inFlight' = IF rows[i].status = "pending" THEN i ELSE 0
    BY <1>5 DEF Post
  <2>2. i \in EventIds /\ rows[i].status = "pending" /\ inFlight' = i
    BY <2>1 DEF IInv, TypeOK, BatchIsPending
  <2> QED BY <1>5, <2>1, <2>2 DEF Post, IInv, TypeOK, UnbornUntouched, AttemptsAccountForReceipts,
                    PendingHasAttemptLeft, BatchIsPending, InFlightLeftBatch, EventIds
<1>6. CASE Success
  <2>1. Awaited
    BY <1>6 DEF Success
  <2> DEFINE row == [Tried(inFlight) EXCEPT !.status = "sent"]
  <2>2. /\ row \in Row /\ row.status = "sent"
        /\ row.attempts = Tried(inFlight).attempts
    BY <2>1, TriedRow DEF Row
  <2>3. Answered(row) /\ Process
    BY <1>6 DEF Success
  <2> HIDE DEF row
  <2> QED BY <2>1, <2>2, <2>3, TriedRow, AnsweredInv
<1>7. CASE Retryable
  <2>1. Awaited /\ Answered(RetryOrDead(Tried(inFlight))) /\ UNCHANGED received
    BY <1>7 DEF Retryable
  <2> QED BY <2>1, TriedRow, RetryRow, AnsweredInv
<1>8. CASE Refused
  <2>1. Awaited /\ UNCHANGED received
    BY <1>8 DEF Refused
  <2> DEFINE row == [Tried(inFlight) EXCEPT !.status = "dead"]
  <2>2. /\ row \in Row /\ row.status = "dead"
        /\ row.attempts = Tried(inFlight).attempts
    BY <2>1, TriedRow DEF Row
  <2>3. Answered(row)
    BY <1>8 DEF Refused
  <2> HIDE DEF row
  <2> QED BY <2>1, <2>2, <2>3, TriedRow, AnsweredInv
<1>9. CASE TransportError
  <2>1. /\ Awaited /\ Answered(RetryOrDead(Tried(inFlight)))
        /\ Process \/ UNCHANGED received
    BY <1>9 DEF TransportError
  <2> QED BY <2>1, TriedRow, RetryRow, AnsweredInv
<1>10. CASE Undecodable
  <2>1. inFlight \in EventIds \cup {0}
    BY DEF IInv, TypeOK, EventIds
  <2> QED BY <1>10, <2>1 DEF Undecodable, IInv, TypeOK, UnbornUntouched, AttemptsAccountForReceipts,
                    PendingHasAttemptLeft, BatchIsPending, InFlightLeftBatch, EventIds
<1>11. CASE Restart
  <2>1. /\ received' \in [EventIds -> Nat] /\ restarts' = restarts + 1
        /\ \A i \in EventIds : received'[i] <= received[i] + 1
    BY <1>11, ReceivedOnce DEF Restart, Awaited, IInv, TypeOK, EventIds
  <2>2. AttemptsAccountForReceipts'
    <3>1. SUFFICES ASSUME NEW j \in EventIds \ Garbled
                   PROVE  received'[j] <= rows[j].attempts + MaxAttempts * requeues + (restarts + 1)
      BY <1>11 DEF AttemptsAccountForReceipts, Restart
    <3>2. /\ received[j] \in Nat /\ received'[j] \in Nat /\ rows[j].attempts \in Nat
          /\ MaxAttempts * requeues \in Nat /\ restarts \in Nat
          /\ received[j] <= rows[j].attempts + MaxAttempts * requeues + restarts
      BY <2>1 DEF IInv, TypeOK, Row, AttemptsAccountForReceipts
    <3> QED BY <2>1, <3>2
  <2>3. UnbornUntouched'
    <3>1. inFlight # 0 => inFlight < nextId
      BY DEF IInv, TypeOK, UnbornUntouched, BatchIsPending, EventIds
    <3> QED BY <1>11, <3>1, ReceivedOnce DEF Restart, Awaited, Process, IInv, TypeOK,
                 UnbornUntouched, EventIds
  <2> QED BY <1>11, <2>1, <2>2, <2>3 DEF Restart, IInv, TypeOK,
               PendingHasAttemptLeft, BatchIsPending, InFlightLeftBatch, EventIds
<1>12. CASE UNCHANGED vars
  BY <1>12 DEF vars, IInv, TypeOK, UnbornUntouched, AttemptsAccountForReceipts, PendingHasAttemptLeft, BatchIsPending,
               InFlightLeftBatch
<1> QED
  BY <1>1, <1>2, <1>3, <1>4, <1>5, <1>6, <1>7, <1>8, <1>9, <1>10, <1>11, <1>12
  DEF Next, Reply, Quiescent

THEOREM OutboxInvariant == Spec => []IInv
BY InitInv, NextInv, PTL DEF Spec

(* The receiver gets an event at most once per attempt of its row, beyond  *)
(* those a restart cut off or a requeue erased.                            *)
THEOREM AttemptsDoAccountForReceipts == Spec => []AttemptsAccountForReceipts
BY OutboxInvariant, PTL DEF IInv

(* A pending delivery always has an attempt left. *)
THEOREM PendingDeliveriesCanBeTried == Spec => []PendingHasAttemptLeft
BY OutboxInvariant, PTL DEF IInv

(* What the job still has to handle is pending. *)
THEOREM BatchesArePending == Spec => []BatchIsPending
BY OutboxInvariant, PTL DEF IInv
=============================================================================
