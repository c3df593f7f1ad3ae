---------------------------- MODULE BuildHistory ----------------------------
(***************************************************************************)
(* Incremental build history of one TeamCity configuration                 *)
(* (app/build_history.py with the requests of app/collectors.py): a scan   *)
(* reads only what changed since the last one, asks again for the builds   *)
(* it knew as unfinished, and reconciles everything once in a while, while *)
(* TeamCity queues, starts, finishes and deletes builds between any two    *)
(* of its requests, and so between two pages of a listing.                 *)
(*                                                                         *)
(* TEAMCITY_BUILD_LIMIT is 0: a limited history is never read in part, its *)
(* scans take the newest builds of the listing as they are.                *)
(*                                                                         *)
(* A build carries its state and the date the code compares (build_date):  *)
(* when it started, before that when it was queued, on TeamCity's clock.   *)
(***************************************************************************)
EXTENDS Integers, FiniteSets

CONSTANTS
  Builds,    \* build ids
  PageSize,  \* builds on a page of the listing
  Days,      \* TEAMCITY_BUILD_LOOKBACK_DAYS
  Overlap,   \* the five minutes a scan looks back before the last one
  Reconcile, \* the seven days after which the history is read in full
  Skews,     \* how far TeamCity's clock may be ahead of the service's
  MaxTime    \* bound: the service's clock

ASSUME HistoryAssumption ==
  /\ Days \in Nat /\ Overlap \in Nat /\ MaxTime \in Nat
  /\ Reconcile \in Nat \ {0} /\ PageSize \in Nat \ {0}
  /\ IsFiniteSet(Builds)
  /\ Skews \subseteq Int
(* The overlap absorbs the difference of the clocks. *)
ASSUME SkewAssumption == \A s \in Skews : s + Overlap >= 0

VARIABLES
  time,   \* the service's clock
  skew,   \* TeamCity's clock minus the service's
  tc,     \* TeamCity: each build
  turn,   \* TeamCity: the how-manieth build to start it was, 0 before
  gone,   \* when a deleted build was deleted, by the service's clock
  cache,  \* persistent cache entry of the configuration
  scan    \* local variables of incremental_builds, and its last result

vars == <<time, skew, tc, turn, gone, cache, scan>>

Active == {"queued", "running"}
Times == Int
Build == [state : Active \cup {"absent", "finished"}, date : Times]
NoBuild == [state |-> "absent", date |-> 0]
NoBuilds == [b \in Builds |-> NoBuild]
Histories == [Builds -> Build]
TeamCityHistories ==
  [Builds -> [state : Active \cup {"absent", "finished", "deleted"}, date : Times]]

(* No code reads `missed`: the builds that moved up past the place a scan  *)
(* had reached in the listing, and that no page has shown since.           *)
Caches == [stored : BOOLEAN, checkedAt : Times, fullAt : Times, builds : Histories,
           missed : SUBSET Builds]
NoCache == [stored |-> FALSE, checkedAt |-> 0, fullAt |-> 0, builds |-> NoBuilds, missed |-> {}]

(* Nor `begun`, what TeamCity knew when the scan began. *)
Scans == [pc : {"idle", "builds", "queue", "ask", "done"}, now : Times, full : BOOLEAN,
          stored : Caches, at : Nat, updates : Histories, ask : SUBSET Builds,
          result : Histories, begun : TeamCityHistories, missed : SUBSET Builds]
Idle == [pc |-> "idle", now |-> 0, full |-> FALSE, stored |-> NoCache, at |-> 0,
         updates |-> NoBuilds, ask |-> {}, result |-> NoBuilds, begun |-> NoBuilds, missed |-> {}]

Known(history) == {b \in Builds : history[b].state # "absent"}

Init ==
  /\ time = 0
  /\ skew \in Skews
  /\ tc = NoBuilds
  /\ turn = [b \in Builds |-> 0]
  /\ gone = [b \in Builds |-> MaxTime + 1]
  /\ cache = NoCache
  /\ scan = Idle

Tick ==
  /\ time < MaxTime
  /\ time' = time + 1
  /\ UNCHANGED <<skew, tc, turn, gone, cache, scan>>

-----------------------------------------------------------------------------
(* The listing a scan reads: the builds that started since a date, newest  *)
(* first.                                                                  *)

Cutoff == scan.now - Days
Later(a, b) == IF a >= b THEN a ELSE b

Since ==
  IF scan.full THEN Cutoff ELSE Later(Cutoff, scan.stored.checkedAt - Overlap)

Listed(history) ==
  {b \in Builds : history[b].state \in {"running", "finished"} /\ history[b].date >= Since}
Position(history, b) == Cardinality({c \in Listed(history) : turn[c] >= turn[b]})

(* The unread builds a deletion moves up past the place the scan has       *)
(* reached (0 as long as it reads no listing).                             *)
MovedUp(after) ==
  {b \in Listed(after) :
     scan.updates[b] = NoBuild /\ Position(tc, b) > scan.at /\ Position(after, b) <= scan.at}

-----------------------------------------------------------------------------
(* TeamCity                                                                *)

Becomes(b, state, date) ==
  /\ tc' = [tc EXCEPT ![b] = [state |-> state, date |-> date]]
  /\ UNCHANGED <<time, skew, cache>>

Queue(b) ==
  /\ tc[b].state = "absent"
  /\ Becomes(b, "queued", time + skew)
  /\ UNCHANGED <<turn, gone, scan>>

Start(b) ==
  /\ tc[b].state = "queued"
  /\ Becomes(b, "running", time + skew)
  /\ turn' = [turn EXCEPT ![b] = 1 + Cardinality({c \in Builds : turn[c] # 0})]
  /\ UNCHANGED <<gone, scan>>

Complete(b) ==
  /\ tc[b].state = "running"
  /\ Becomes(b, "finished", tc[b].date)
  /\ UNCHANGED <<turn, gone, scan>>

(* A queued build is cancelled or a finished one cleaned up. *)
Delete(b) ==
  /\ tc[b].state \in {"queued", "finished"}
  /\ Becomes(b, "deleted", tc[b].date)
  /\ gone' = [gone EXCEPT ![b] = time]
  /\ scan' = [scan EXCEPT !.missed = @ \cup MovedUp(tc')]
  /\ UNCHANGED turn

(* The entry expires, is evicted or cannot be read: get() returns None. *)
CacheLost ==
  /\ cache.stored
  /\ cache' = NoCache
  /\ UNCHANGED <<time, skew, tc, turn, gone, scan>>

-----------------------------------------------------------------------------
(* incremental_builds                                                      *)

ReadInFull == ~cache.stored \/ time - cache.fullAt >= Reconcile

Begin ==
  /\ scan.pc \in {"idle", "done"}
  /\ scan' = [Idle EXCEPT
                !.pc = "builds", !.now = time, !.stored = cache, !.begun = tc,
                !.full = ReadInFull,
                !.missed = IF ReadInFull THEN {} ELSE cache.missed]
  /\ UNCHANGED <<time, skew, tc, turn, gone, cache>>

(* GET builds: the next page; there is a nextHref while builds follow.     *)
QueryBuilds ==
  /\ scan.pc = "builds"
  /\ LET next == scan.at + PageSize
         page == {b \in Listed(tc) : Position(tc, b) \in (scan.at + 1)..next}
         last == next >= Cardinality(Listed(tc))
     IN  scan' = [scan EXCEPT
           !.pc = IF last THEN "queue" ELSE "builds",
           !.at = IF last THEN 0 ELSE next,
           !.updates = [b \in Builds |-> IF b \in page THEN tc[b] ELSE scan.updates[b]],
           !.missed = @ \ page]
  /\ UNCHANGED <<time, skew, tc, turn, gone, cache>>

(* Mutant: the builds known as unfinished are not asked for. *)
ToAsk_Nothing(updates) == {}
(* The unfinished builds of the stored history the updates do not show. *)
ToAsk(updates) ==
  IF scan.full THEN {}
  ELSE {b \in Builds : scan.stored.builds[b].state \in Active /\ updates[b] = NoBuild}

(* GET buildQueue, a page: some of the queued builds, since the queue      *)
(* moves between its pages.  A build listed by both counts as the builds   *)
(* saw it.                                                                 *)
QueryQueue ==
  /\ scan.pc = "queue"
  /\ \E page \in SUBSET {b \in Builds : tc[b].state = "queued" /\ tc[b].date > Cutoff} :
       LET updates == [b \in Builds |->
             IF scan.updates[b] = NoBuild /\ b \in page THEN tc[b] ELSE scan.updates[b]]
       IN  \/ scan' = [scan EXCEPT !.updates = updates]
           \/ scan' = [scan EXCEPT !.pc = "ask", !.updates = updates, !.ask = ToAsk(updates),
                         !.result = IF scan.full THEN NoBuilds ELSE scan.stored.builds]
  /\ UNCHANGED <<time, skew, tc, turn, gone, cache>>

Found(b) == IF tc[b].state = "deleted" THEN NoBuild ELSE tc[b]

(* GET builds/id: a build that is gone (404) is dropped. *)
Ask(b) ==
  /\ scan.pc = "ask"
  /\ b \in scan.ask
  /\ scan' = [scan EXCEPT !.ask = @ \ {b}, !.result = [@ EXCEPT ![b] = Found(b)]]
  /\ UNCHANGED <<time, skew, tc, turn, gone, cache>>

(* Mutants: the watermark is the end of the scan; every scan counts as full. *)
Watermark_End == [checked |-> time, full |-> IF scan.full THEN scan.now ELSE scan.stored.fullAt]
Watermark_AlwaysFull == [checked |-> scan.now, full |-> scan.now]
Watermark == [checked |-> scan.now, full |-> IF scan.full THEN scan.now ELSE scan.stored.fullAt]

(* The updates win, builds before the cutoff leave, and the cache is       *)
(* written - unless the database refuses, which put() ignores.             *)
Put ==
  /\ scan.pc = "ask" /\ scan.ask = {}
  /\ LET merged == [b \in Builds |->
           IF scan.updates[b] = NoBuild THEN scan.result[b] ELSE scan.updates[b]]
         result == [b \in Builds |->
           IF merged[b].date >= Cutoff THEN merged[b] ELSE NoBuild]
     IN  /\ scan' = [Idle EXCEPT !.pc = "done", !.now = scan.now, !.begun = scan.begun,
                                   !.result = result, !.missed = scan.missed]
         /\ \/ cache' = [stored |-> TRUE, checkedAt |-> Watermark.checked,
                         fullAt |-> Watermark.full, builds |-> result,
                         missed |-> scan.missed]
            \/ UNCHANGED cache
  /\ UNCHANGED <<time, skew, tc, turn, gone>>

(* A request fails and the scan with it: the watermark does not advance. *)
Fail ==
  /\ scan.pc \in {"builds", "queue", "ask"}
  /\ scan' = Idle
  /\ UNCHANGED <<time, skew, tc, turn, gone, cache>>

Next ==
  \/ Tick
  \/ \E b \in Builds : Queue(b) \/ Start(b) \/ Complete(b) \/ Delete(b) \/ Ask(b)
  \/ CacheLost
  \/ Begin
  \/ QueryBuilds
  \/ QueryQueue
  \/ Put
  \/ Fail

Spec == Init /\ [][Next]_vars

-----------------------------------------------------------------------------
(* Every variable has its type.                                            *)
TypeOK ==
  /\ time \in 0..MaxTime
  /\ skew \in Skews
  /\ tc \in TeamCityHistories
  /\ turn \in [Builds -> Nat]
  /\ gone \in [Builds -> 0..(MaxTime + 1)]
  /\ cache \in Caches
  /\ scan \in Scans

Rank(state) == CASE state = "queued" -> 1 [] state = "running" -> 2 [] OTHER -> 3

(* A scan that reads only the changes knows every build that had started   *)
(* inside the window when it began, in a state at least as recent: neither *)
(* clock skew, a failed scan, a slow one nor a lost cache makes it forget. *)
(* Only a deletion between two pages can, by moving the build up past the  *)
(* place the scan has reached, and until it is listed again: at the latest *)
(* by the next full reading.                                               *)
StartedBuildsKnown ==
  scan.pc = "done" =>
    \A b \in Builds \ scan.missed :
      /\ scan.begun[b].state \in {"running", "finished"}
      /\ scan.begun[b].date >= Cutoff
      /\ gone[b] > MaxTime
      => /\ b \in Known(scan.result)
         /\ Rank(scan.result[b].state) >= Rank(scan.begun[b].state)

(* No build is shown as queued or running that TeamCity had finished or    *)
(* deleted before the scan began.                                          *)
NoPhantomActivity ==
  scan.pc = "done" =>
    \A b \in Builds : scan.result[b].state \in Active =>
      scan.begun[b].state \in Active \cup {"absent"}

(* A deleted build is shown for less than one reconciliation period.       *)
DeletedBuildsReconciled ==
  scan.pc = "done" =>
    \A b \in Known(scan.result) : scan.now - gone[b] < Reconcile
=============================================================================
