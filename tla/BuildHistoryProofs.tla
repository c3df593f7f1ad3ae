------------------------- MODULE BuildHistoryProofs -------------------------
(* Proofs about the incremental history, for any number of builds, any     *)
(* lookback, overlap and reconciliation period, and any skew of the clocks *)
(* that the overlap absorbs.                                               *)
EXTENDS BuildHistory, FiniteSetTheorems, TLAPS

Started(build) == build.state \in {"running", "finished"}

(* A build seen in state `old` may later be seen in state `new`. *)
Advances(old, new) ==
  /\ new = "absent" => old = "absent"
  /\ new = "queued" => old \in {"absent", "queued"}
  /\ new = "running" => old \in {"absent", "queued", "running"}
  /\ new = "finished" => old # "deleted"

(* A deleted build, and no other, has a time of deletion. *)
GoneInv ==
  \A b \in Builds : IF tc[b].state = "deleted" THEN gone[b] <= MaxTime ELSE gone[b] = MaxTime + 1

(* What a stored history is good for, also while TeamCity moves on: builds *)
(* that started before its watermark, and were not missed, are in it with  *)
(* the date that decides, and what it shows was there at the last full     *)
(* reading.                                                                *)
EntryInv(entry) ==
  entry.stored =>
    /\ entry.fullAt <= entry.checkedAt
    /\ entry.checkedAt <= time
    /\ \A b \in Builds :
         /\ /\ Started(tc[b]) /\ b \notin entry.missed
            /\ tc[b].date - skew < entry.checkedAt
            /\ tc[b].date >= entry.checkedAt - Days
            => Started(entry.builds[b]) /\ entry.builds[b].date = tc[b].date
         /\ entry.builds[b].state # "absent" => gone[b] >= entry.fullAt

(* TeamCity has only moved on since the scan began. *)
BegunInv ==
  scan.pc # "idle" =>
    /\ scan.now <= time
    /\ \A b \in Builds :
         /\ Advances(scan.begun[b].state, tc[b].state)
         /\ Started(scan.begun[b]) /\ tc[b].state # "deleted"
              => Started(tc[b]) /\ tc[b].date = scan.begun[b].date
         /\ Started(tc[b]) /\ tc[b].date - skew < scan.now => Started(scan.begun[b])

(* The history the scan builds upon; what it had missed is still missed,   *)
(* or listed by now.                                                       *)
StoredInv ==
  scan.pc \in {"builds", "queue", "ask"} =>
    /\ EntryInv(scan.stored)
    /\ scan.full \/ /\ scan.stored.stored
                    /\ scan.stored.checkedAt <= scan.now
                    /\ scan.now - scan.stored.fullAt < Reconcile
                    /\ \A b \in scan.stored.missed :
                         b \in scan.missed \/ scan.updates[b] # NoBuild

(* The queries report builds that were there, not before the scan saw      *)
(* them, and every one that started since the date unless it moved up past *)
(* the place of the scan or is still to come.                              *)
UpdateInv(b, update) ==
  /\ update # NoBuild =>
       /\ update.state \in Active \cup {"finished"}
       /\ Advances(scan.begun[b].state, update.state)
       /\ Started(scan.begun[b]) => update.date = scan.begun[b].date
       /\ gone[b] >= scan.now
  /\ Started(scan.begun[b]) /\ scan.begun[b].date >= Since /\ tc[b].state # "deleted"
       => \/ update # NoBuild
          \/ b \in scan.missed
          \/ scan.pc = "builds" /\ Position(tc, b) > scan.at

UpdatesInv ==
  scan.pc \in {"builds", "queue", "ask"} => \A b \in Builds : UpdateInv(b, scan.updates[b])

(* What may be shown of a build. *)
Shows(b, build) ==
  /\ build.state \in Active => scan.begun[b].state \in Active \cup {"absent"}
  /\ /\ Started(scan.begun[b]) /\ scan.begun[b].date >= Cutoff
     /\ tc[b].state # "deleted" /\ b \notin scan.missed
     => /\ Started(build)
        /\ build.date = scan.begun[b].date
        /\ build.state = "running" => scan.begun[b].state = "running"
  /\ build.state # "absent" => scan.now - gone[b] < Reconcile

AskedInv ==
  scan.pc = "ask" =>
    \A b \in Builds : scan.updates[b] = NoBuild /\ b \notin scan.ask =>
      /\ Shows(b, scan.result[b])
      /\ scan.result[b].state # "absent" => gone[b] >= Watermark.full

DoneInv == scan.pc = "done" => \A b \in Builds : Shows(b, scan.result[b])

IInv ==
  /\ TypeOK
  /\ GoneInv
  /\ EntryInv(cache)
  /\ BegunInv
  /\ StoredInv
  /\ UpdatesInv
  /\ AskedInv
  /\ DoneInv

-----------------------------------------------------------------------------
(* Data structures.                                                        *)

LEMMA DataTypes ==
  /\ NoBuild \in Build /\ NoBuilds \in Histories /\ NoCache \in Caches
  /\ NoBuilds \in TeamCityHistories /\ Idle \in Scans
  /\ \A r \in Build : r.state = "absent" \/ r.state \in Active \/ Started(r)
BY DEF NoBuild, NoBuilds, NoCache, Idle, Build, Histories, Caches, TeamCityHistories, Scans,
       Times, Active, Started

(* What TeamCity shows of a build that is not deleted. *)
LEMMA TeamCityTypes ==
  ASSUME TypeOK, NEW b \in Builds
  PROVE  /\ tc[b].state # "deleted" => tc[b] \in Build
         /\ tc[b].date \in Int /\ gone[b] \in Int
         /\ time \in Int /\ time <= MaxTime /\ MaxTime \in Int /\ skew \in Int
         /\ skew + Overlap >= 0
         /\ Days \in Nat /\ Overlap \in Nat /\ Reconcile \in Nat /\ Reconcile > 0
BY HistoryAssumption, SkewAssumption DEF TypeOK, TeamCityHistories, Build, Active, Times

LEMMA ScanTypes ==
  ASSUME TypeOK
  PROVE  /\ scan.now \in Int /\ scan.full \in BOOLEAN /\ scan.ask \in SUBSET Builds
         /\ scan.stored \in Caches /\ scan.updates \in Histories /\ scan.result \in Histories
         /\ scan.begun \in TeamCityHistories
         /\ scan.at \in Nat /\ scan.missed \in SUBSET Builds
         /\ scan.pc \in {"idle", "builds", "queue", "ask", "done"}
BY DEF TypeOK, Scans, Times

LEMMA CacheTypes ==
  ASSUME NEW entry \in Caches
  PROVE  /\ entry.checkedAt \in Int /\ entry.fullAt \in Int /\ entry.stored \in BOOLEAN
         /\ entry.builds \in Histories /\ entry.missed \in SUBSET Builds
BY DEF Caches, Times

-----------------------------------------------------------------------------
(* Places in the listing.                                                  *)

LEMMA ListedFinite ==
  ASSUME NEW history, NEW b
  PROVE  /\ IsFiniteSet(Listed(history)) /\ Cardinality(Listed(history)) \in Nat
         /\ Position(history, b) \in Nat /\ Position(history, b) <= Cardinality(Listed(history))
<1>1. IsFiniteSet(Listed(history))
  BY FS_Subset, HistoryAssumption DEF Listed
<1>2. {c \in Listed(history) : turn[c] >= turn[b]} \subseteq Listed(history)
  OBVIOUS
<1> QED BY <1>1, <1>2, FS_Subset, FS_CardinalityType DEF Position

LEMMA ListedPosition ==
  ASSUME TypeOK, NEW history, NEW b \in Listed(history)
  PROVE  Position(history, b) > 0
<1> DEFINE above == {c \in Listed(history) : turn[c] >= turn[b]}
<1>1. b \in Builds /\ turn[b] \in Nat
  BY DEF Listed, TypeOK
<1>2. b \in above
  BY <1>1
<1>3. IsFiniteSet(above) /\ above \subseteq Listed(history)
  BY ListedFinite, FS_Subset
<1>4. Position(history, b) = Cardinality(above)
  BY DEF Position
<1> HIDE DEF above
<1> QED BY <1>2, <1>3, <1>4, FS_EmptySet, FS_CardinalityType

LEMMA SamePosition ==
  ASSUME UNCHANGED <<tc, turn>>, Since' = Since
  PROVE  Listed(tc)' = Listed(tc) /\ \A b : Position(tc, b)' = Position(tc, b)
<1>1. Listed(tc)' = Listed(tc)
  BY DEF Listed
<1> QED BY <1>1 DEF Position

(* A build does not move up as long as none is deleted. *)
LEMMA PositionKept ==
  ASSUME NEW b, turn'[b] = turn[b], Listed(tc) \subseteq Listed(tc)',
         \A c \in Listed(tc) : turn'[c] = turn[c]
  PROVE  Position(tc, b)' \in Nat /\ Position(tc, b)' >= Position(tc, b)
<1> DEFINE above == {c \in Listed(tc) : turn[c] >= turn[b]}
           later == {c \in Listed(tc)' : turn'[c] >= turn'[b]}
<1>1. above \subseteq later
  OBVIOUS
<1>2. IsFiniteSet(later)
  <2>1. IsFiniteSet(Listed(tc)')
    BY FS_Subset, HistoryAssumption DEF Listed
  <2>2. later \subseteq Listed(tc)'
    OBVIOUS
  <2> QED BY <2>1, <2>2, FS_Subset
<1>3. Position(tc, b) = Cardinality(above) /\ Position(tc, b)' = Cardinality(later)
  BY DEF Position
<1> HIDE DEF above, later
<1> QED BY <1>1, <1>2, <1>3, FS_Subset, FS_CardinalityType

-----------------------------------------------------------------------------
(* Steps of TeamCity and of the clock.                                     *)

LEMMA TickInv ==
  ASSUME IInv, Tick
  PROVE  IInv'
<1>1. /\ time < MaxTime /\ time' = time + 1 /\ time \in 0..MaxTime /\ MaxTime \in Nat
      /\ UNCHANGED <<skew, tc, turn, gone, cache, scan>>
  BY HistoryAssumption DEF Tick, IInv, TypeOK
<1>2. TypeOK'
  BY <1>1 DEF IInv, TypeOK
<1>3. GoneInv' /\ AskedInv' /\ DoneInv'
  BY <1>1 DEF IInv, GoneInv, AskedInv, DoneInv, Shows, Cutoff, Watermark
<1>9. UpdatesInv'
  <2>1. Since' = Since
    BY <1>1 DEF Since, Later, Cutoff
  <2> QED BY <1>1, <2>1, SamePosition DEF IInv, UpdatesInv, UpdateInv
<1>4. ASSUME NEW entry \in Caches, EntryInv(entry) PROVE EntryInv(entry)'
  BY <1>1, <1>4, CacheTypes DEF EntryInv
<1>5. cache \in Caches /\ scan.stored \in Caches
  BY ScanTypes DEF IInv, TypeOK
<1>6. EntryInv(cache)'
  BY <1>1, <1>4, <1>5 DEF IInv, EntryInv
<1>7. BegunInv'
  BY <1>1, ScanTypes DEF IInv, BegunInv
<1>8. StoredInv'
  BY <1>1, <1>4, <1>5 DEF IInv, StoredInv, EntryInv
<1> QED BY <1>2, <1>3, <1>6, <1>7, <1>8, <1>9 DEF IInv

(* What any step of TeamCity does to a build. *)
Moves(b) ==
  /\ Advances(tc[b].state, tc'[b].state)
  /\ Started(tc[b]) /\ tc'[b].state # "deleted" => Started(tc'[b]) /\ tc'[b].date = tc[b].date
  /\ Started(tc'[b]) =>
       \/ Started(tc[b]) /\ tc'[b].date = tc[b].date
       \/ tc'[b].date = time + skew
  /\ IF tc'[b].state = "deleted" THEN gone'[b] <= MaxTime
     ELSE tc[b].state # "deleted" /\ gone'[b] = gone[b]
  /\ gone'[b] = gone[b] \/ gone'[b] = time

(* A scan notices nothing, but it may be made to miss builds. *)
SameScan ==
  /\ scan'.pc = scan.pc /\ scan'.now = scan.now /\ scan'.full = scan.full
  /\ scan'.stored = scan.stored /\ scan'.at = scan.at /\ scan'.updates = scan.updates
  /\ scan'.ask = scan.ask /\ scan'.result = scan.result /\ scan'.begun = scan.begun
  /\ scan.missed \subseteq scan'.missed

LEMMA TeamCityMoves ==
  ASSUME IInv, NEW b \in Builds, Queue(b) \/ Start(b) \/ Complete(b) \/ Delete(b)
  PROVE  /\ tc' \in TeamCityHistories /\ gone' \in [Builds -> 0..(MaxTime + 1)]
         /\ turn' \in [Builds -> Nat] /\ scan' \in Scans
         /\ UNCHANGED <<time, skew, cache>> /\ SameScan
         /\ \A c \in Builds : Moves(c)
<1> DEFINE States == Active \cup {"absent", "finished", "deleted"}
<1>1. PICK state \in States, date \in Int :
        /\ Becomes(b, state, date)
        /\ \/ state = "queued" /\ tc[b].state = "absent"
           \/ state = "running" /\ tc[b].state = "queued" /\ date = time + skew
           \/ state = "finished" /\ tc[b].state = "running" /\ date = tc[b].date
           \/ state = "deleted" /\ tc[b].state \in {"queued", "finished"}
        /\ state # "deleted" => gone' = gone
        /\ state = "deleted" => gone' = [gone EXCEPT ![b] = time]
  <2>1. time + skew \in Int /\ tc[b].date \in Int
    BY TeamCityTypes DEF IInv
  <2>2. {"queued", "running", "finished", "deleted"} \subseteq States
    BY DEF Active
  <2> QED BY <2>1, <2>2 DEF Queue, Start, Complete, Delete
<1>2. /\ UNCHANGED <<time, skew, cache>>
      /\ tc' = [tc EXCEPT ![b] = [state |-> state, date |-> date]]
  BY <1>1 DEF Becomes
<1>3. tc' \in TeamCityHistories
  BY <1>2 DEF TeamCityHistories, IInv, TypeOK, Times
<1>4. gone' \in [Builds -> 0..(MaxTime + 1)]
  BY <1>1, TeamCityTypes DEF IInv, TypeOK
<1>5. ASSUME NEW c \in Builds PROVE Moves(c)
  <2>1. CASE c = b
    <3>1. tc'[c].state = state /\ tc'[c].date = date
      BY <1>2, <2>1 DEF TeamCityHistories, IInv, TypeOK
    <3>2. IF state = "deleted" THEN gone'[c] = time ELSE gone'[c] = gone[c]
      BY <1>1, <2>1 DEF IInv, TypeOK
    <3>3. time <= MaxTime
      BY TeamCityTypes DEF IInv
    <3> QED BY <1>1, <2>1, <3>1, <3>2, <3>3 DEF Moves, Advances, Started
  <2>2. CASE c # b
    <3>1. tc'[c] = tc[c] /\ gone'[c] = gone[c]
      BY <1>1, <1>2, <2>2 DEF TeamCityHistories, IInv, TypeOK
    <3> QED BY <3>1 DEF Moves, Advances, Started, IInv, GoneInv
  <2> QED BY <2>1, <2>2
<1>6. turn' \in [Builds -> Nat]
  <2>1. CASE turn' = turn
    BY <2>1 DEF IInv, TypeOK
  <2>2. CASE Start(b)
    <3>1. IsFiniteSet({c \in Builds : turn[c] # 0})
      BY FS_Subset, HistoryAssumption
    <3>2. 1 + Cardinality({c \in Builds : turn[c] # 0}) \in Nat
      BY <3>1, FS_CardinalityType
    <3> QED BY <2>2, <3>2 DEF Start, IInv, TypeOK
  <2> QED BY <2>1, <2>2 DEF Queue, Complete, Delete
<1>7. scan' \in Scans /\ SameScan
  <2>1. CASE scan' = scan
    BY <2>1 DEF IInv, TypeOK, SameScan
  <2>2. CASE Delete(b)
    <3>1. MovedUp(tc') \subseteq Builds
      BY DEF MovedUp, Listed
    <3>2. scan \in Scans /\ scan' = [scan EXCEPT !.missed = scan.missed \cup MovedUp(tc')]
      BY <2>2 DEF Delete, IInv, TypeOK
    <3> QED BY <3>1, <3>2 DEF Scans, SameScan
  <2> QED BY <2>1, <2>2 DEF Queue, Start, Complete
<1> QED BY <1>2, <1>3, <1>4, <1>5, <1>6, <1>7

(* A listed build the scan has not reached stays ahead of it or is missed. *)
LEMMA Unread ==
  ASSUME IInv, NEW b \in Builds, Queue(b) \/ Start(b) \/ Complete(b) \/ Delete(b),
         NEW c \in Listed(tc), tc'[c].state # "deleted",
         scan.updates[c] = NoBuild, Position(tc, c) > scan.at
  PROVE  Position(tc, c)' > scan'.at \/ c \in scan'.missed
<1>1. SameScan /\ \A d \in Builds : Moves(d)
  BY TeamCityMoves
<1>2. Since' = Since
  BY <1>1 DEF SameScan, Since, Later, Cutoff
<1>3. /\ scan.at \in Nat /\ Position(tc, c) \in Nat /\ scan'.at = scan.at
      /\ c \in Builds
  BY <1>1, ScanTypes, ListedFinite DEF IInv, SameScan, Listed
<1>4. ASSUME NEW d \in Listed(tc), tc'[d].state # "deleted" PROVE d \in Listed(tc)'
  BY <1>1, <1>2, <1>4 DEF Listed, Moves, Started
<1>5. CASE Queue(b) \/ Start(b) \/ Complete(b)
  <2>1. /\ tc' = [tc EXCEPT ![b] = tc'[b]] /\ tc'[b].state # "deleted"
        /\ tc \in [Builds -> [state : Active \cup {"absent", "finished", "deleted"}, date : Times]]
    BY <1>5 DEF Queue, Start, Complete, Becomes, IInv, TypeOK, TeamCityHistories
  <2>2. Listed(tc) \subseteq Listed(tc)'
    BY <1>4, <2>1 DEF Listed
  <2>3. \A d \in Listed(tc) : turn'[d] = turn[d]
    <3>1. CASE turn' = turn
      BY <3>1
    <3>2. CASE Start(b)
      <4>1. b \notin Listed(tc)
        BY <3>2 DEF Start, Listed
      <4> QED BY <3>2, <4>1 DEF Start, IInv, TypeOK, Listed
    <3> QED BY <1>5, <3>1, <3>2 DEF Queue, Complete
  <2>4. Position(tc, c)' \in Nat /\ Position(tc, c)' >= Position(tc, c)
    BY <2>2, <2>3, PositionKept
  <2> QED BY <1>3, <2>4
<1>6. CASE Delete(b)
  <2>1. turn' = turn /\ scan'.missed = scan.missed \cup MovedUp(tc')
    BY <1>6 DEF Delete, IInv, TypeOK, Scans
  <2>2. Listed(tc') = Listed(tc)'
    BY <1>2 DEF Listed
  <2>3. Position(tc', c) = Position(tc, c)'
    BY <2>1, <2>2 DEF Position
  <2>4. Position(tc', c) \in Nat
    BY ListedFinite
  <2>5. Position(tc', c) <= scan.at => c \in MovedUp(tc')
    BY <1>4, <2>2 DEF MovedUp
  <2> QED BY <1>3, <2>1, <2>3, <2>4, <2>5
<1> QED BY <1>5, <1>6

LEMMA TeamCityInv ==
  ASSUME IInv, NEW b \in Builds, Queue(b) \/ Start(b) \/ Complete(b) \/ Delete(b)
  PROVE  IInv'
<1>1. /\ tc' \in TeamCityHistories /\ gone' \in [Builds -> 0..(MaxTime + 1)]
      /\ turn' \in [Builds -> Nat] /\ scan' \in Scans
      /\ UNCHANGED <<time, skew, cache>>
      /\ \A c \in Builds : Moves(c)
  BY TeamCityMoves
<1>14. /\ scan'.pc = scan.pc /\ scan'.now = scan.now /\ scan'.full = scan.full
      /\ scan'.stored = scan.stored /\ scan'.at = scan.at /\ scan'.updates = scan.updates
      /\ scan'.ask = scan.ask /\ scan'.result = scan.result /\ scan'.begun = scan.begun
      /\ scan.missed \subseteq scan'.missed
  BY TeamCityMoves DEF SameScan
<1>2. TypeOK'
  BY <1>1 DEF IInv, TypeOK
<1>3. ASSUME NEW c \in Builds
      PROVE  /\ tc[c].date \in Int /\ tc'[c].date \in Int /\ gone[c] \in Int /\ gone'[c] \in Int
             /\ time \in Int /\ skew \in Int /\ Reconcile > 0 /\ Reconcile \in Int
             /\ Moves(c)
  <2>1. tc'[c].date \in Int /\ gone'[c] \in Int
    BY <1>1, TeamCityTypes DEF TeamCityHistories, Times, IInv
  <2> QED BY <1>1, <2>1, TeamCityTypes DEF IInv
<1>4. GoneInv'
  BY <1>1 DEF GoneInv, Moves, IInv
<1>5. ASSUME NEW entry \in Caches, EntryInv(entry) PROVE EntryInv(entry)'
  <2>1. SUFFICES ASSUME entry.stored, NEW c \in Builds
                 PROVE  /\ /\ Started(tc'[c]) /\ c \notin entry.missed
                           /\ tc'[c].date - skew < entry.checkedAt
                           /\ tc'[c].date >= entry.checkedAt - Days
                           => Started(entry.builds[c]) /\ entry.builds[c].date = tc'[c].date
                        /\ entry.builds[c].state # "absent" => gone'[c] >= entry.fullAt
    BY <1>1, <1>5 DEF EntryInv, Started
  <2>2. /\ entry.fullAt <= entry.checkedAt /\ entry.checkedAt <= time
        /\ entry.fullAt \in Int /\ entry.checkedAt \in Int
    BY <1>5, <2>1, CacheTypes DEF EntryInv
  <2>3. entry.builds[c].state # "absent" => gone[c] >= entry.fullAt
    BY <1>5, <2>1 DEF EntryInv
  <2>4. Started(tc'[c]) /\ tc'[c].date - skew < entry.checkedAt
          => Started(tc[c]) /\ tc'[c].date = tc[c].date
    BY <1>3, <2>2 DEF Moves
  <2> QED BY <1>3, <1>5, <2>1, <2>2, <2>3, <2>4 DEF EntryInv, Moves
<1>6. EntryInv(cache)' /\ (scan.pc \in {"builds", "queue", "ask"} => EntryInv(scan.stored)')
  <2>1. cache \in Caches /\ scan.stored \in Caches
    BY ScanTypes DEF IInv, TypeOK
  <2>2. EntryInv(cache)'
    BY <1>1, <1>5, <2>1 DEF IInv, EntryInv
  <2> QED BY <1>1, <1>14, <1>5, <2>1, <2>2 DEF IInv, StoredInv, EntryInv
<1>7. StoredInv'
  BY <1>1, <1>14, <1>6 DEF IInv, StoredInv, EntryInv
<1>8. BegunInv'
  <2>1. SUFFICES ASSUME scan.pc # "idle", NEW c \in Builds
                 PROVE  /\ Advances(scan.begun[c].state, tc'[c].state)
                        /\ Started(scan.begun[c]) /\ tc'[c].state # "deleted"
                             => Started(tc'[c]) /\ tc'[c].date = scan.begun[c].date
                        /\ Started(tc'[c]) /\ tc'[c].date - skew < scan.now
                             => Started(scan.begun[c])
    BY <1>1, <1>14 DEF IInv, BegunInv
  <2>2. /\ Advances(scan.begun[c].state, tc[c].state)
        /\ Started(scan.begun[c]) /\ tc[c].state # "deleted"
             => Started(tc[c]) /\ tc[c].date = scan.begun[c].date
        /\ Started(tc[c]) /\ tc[c].date - skew < scan.now => Started(scan.begun[c])
        /\ scan.now <= time /\ scan.now \in Int
    BY <2>1, ScanTypes DEF IInv, BegunInv
  <2>3. /\ tc[c].state \in Active \cup {"absent", "finished", "deleted"}
        /\ tc'[c].state \in Active \cup {"absent", "finished", "deleted"}
        /\ scan.begun[c].state \in Active \cup {"absent", "finished", "deleted"}
    BY <1>2, ScanTypes DEF IInv, TypeOK, TeamCityHistories
  <2>4. Advances(scan.begun[c].state, tc'[c].state)
    BY <1>3, <2>2, <2>3 DEF Moves, Advances, Active
  <2>5. Started(tc'[c]) /\ tc'[c].date - skew < scan.now => Started(tc[c]) /\ tc'[c].date = tc[c].date
    BY <1>3, <2>2 DEF Moves
  <2> QED BY <1>3, <2>2, <2>4, <2>5 DEF Moves
<1>9. scan.pc # "idle" =>
        /\ scan.now \in Int
        /\ \A c \in Builds : \/ gone'[c] = gone[c] /\ gone'[c] \in Int
                             \/ /\ gone'[c] \in Int /\ gone'[c] >= scan.now
                                /\ scan.now - gone'[c] < Reconcile
  BY <1>3, ScanTypes DEF IInv, BegunInv, Moves
<1>15. Since' = Since
  BY <1>14 DEF Since, Later, Cutoff
<1>10. UpdatesInv'
  <2>1. SUFFICES ASSUME scan.pc \in {"builds", "queue", "ask"}, NEW c \in Builds
                 PROVE  UpdateInv(c, scan.updates[c])'
    BY <1>14 DEF UpdatesInv
  <2>2. UpdateInv(c, scan.updates[c])
    BY <2>1 DEF IInv, UpdatesInv
  <2>3. gone[c] >= scan.now => gone'[c] >= scan.now
    BY <1>9, <2>1
  <2>4. ASSUME Started(scan.begun[c]), scan.begun[c].date >= Since, tc'[c].state # "deleted",
               scan.updates[c] = NoBuild, c \notin scan'.missed
        PROVE  scan.pc = "builds" /\ Position(tc, c)' > scan'.at
    <3>1. tc[c].state # "deleted"
      BY <1>1, <2>4 DEF Moves
    <3>2. scan.pc = "builds" /\ Position(tc, c) > scan.at
      BY <1>14, <2>2, <2>4, <3>1 DEF UpdateInv
    <3>3. c \in Listed(tc)
      BY <2>4, <3>1, <3>2 DEF IInv, BegunInv, Listed, Started
    <3> QED BY <2>4, <3>2, <3>3, Unread
  <2> QED BY <1>14, <1>15, <2>2, <2>3, <2>4 DEF UpdateInv
<1>11. ASSUME scan.pc # "idle", NEW c \in Builds, NEW build, Shows(c, build)
       PROVE  Shows(c, build)'
  <2>1. scan.now - gone[c] < Reconcile => scan.now - gone'[c] < Reconcile
    BY <1>9, <1>11
  <2> QED BY <1>1, <1>14, <1>3, <1>11, <2>1 DEF Shows, Moves, Cutoff, Started
<1>12. DoneInv'
  BY <1>1, <1>14, <1>11 DEF IInv, DoneInv, Shows
<1>13. AskedInv'
  <2>1. SUFFICES ASSUME scan.pc = "ask", NEW c \in Builds,
                        scan.updates[c] = NoBuild, c \notin scan.ask
                 PROVE  /\ Shows(c, scan.result[c])'
                        /\ scan.result[c].state # "absent" => gone'[c] >= Watermark.full
    BY <1>1, <1>14 DEF AskedInv, Watermark, Shows
  <2>2. Shows(c, scan.result[c])'
    BY <1>1, <1>14, <1>11, <2>1 DEF IInv, AskedInv, Shows
  <2>3. scan.result[c].state # "absent" => gone[c] >= Watermark.full
    BY <2>1 DEF IInv, AskedInv
  <2>4. Watermark.full <= scan.now /\ Watermark.full \in Int
    <3>1. scan.stored \in Caches
      BY ScanTypes DEF IInv
    <3> QED BY <2>1, <3>1, ScanTypes, CacheTypes DEF IInv, StoredInv, EntryInv, Watermark
  <2> QED BY <1>9, <2>1, <2>2, <2>3, <2>4
<1> QED BY <1>1, <1>2, <1>4, <1>6, <1>7, <1>8, <1>10, <1>12, <1>13 DEF IInv

-----------------------------------------------------------------------------
(* Steps of the cache and of a scan.                                       *)

LEMMA CacheLostInv ==
  ASSUME IInv, CacheLost
  PROVE  IInv'
<1>1. cache' = NoCache /\ UNCHANGED <<time, skew, tc, turn, gone, scan>>
  BY DEF CacheLost
<1>2. TypeOK'
  BY <1>1, DataTypes DEF IInv, TypeOK
<1>3. EntryInv(cache)'
  BY <1>1 DEF EntryInv, NoCache
<1>4. GoneInv' /\ BegunInv' /\ StoredInv' /\ AskedInv' /\ DoneInv'
  BY <1>1 DEF IInv, GoneInv, BegunInv, StoredInv, EntryInv, AskedInv, DoneInv, Shows, Cutoff,
              Watermark
<1>5. UpdatesInv'
  <2>1. Since' = Since
    BY <1>1 DEF Since, Later, Cutoff
  <2> QED BY <1>1, <2>1, SamePosition DEF IInv, UpdatesInv, UpdateInv
<1> QED BY <1>2, <1>3, <1>4, <1>5 DEF IInv

LEMMA BeginInv ==
  ASSUME IInv, Begin
  PROVE  IInv'
<1>1. /\ scan'.pc = "builds" /\ scan'.now = time /\ scan'.stored = cache /\ scan'.begun = tc
      /\ ~cache.stored \/ time - cache.fullAt >= Reconcile => scan'.full
      /\ scan'.updates = NoBuilds /\ scan'.at = 0
      /\ scan'.full \/ scan'.missed = cache.missed
      /\ UNCHANGED <<time, skew, tc, turn, gone, cache>>
  BY DEF Begin, Idle, ReadInFull
<1>2. /\ cache \in Caches /\ tc \in TeamCityHistories /\ time \in Int
      /\ time - cache.fullAt \in Int /\ Reconcile \in Int
  BY CacheTypes, HistoryAssumption DEF IInv, TypeOK
<1>3. scan' \in Scans
  BY <1>2, DataTypes, CacheTypes DEF Begin, Idle, Scans, Times, ReadInFull
<1>4. TypeOK' /\ GoneInv' /\ AskedInv' /\ DoneInv'
  BY <1>1, <1>3 DEF IInv, TypeOK, GoneInv, AskedInv, DoneInv
<1>8. UpdatesInv'
  <2>1. SUFFICES ASSUME NEW b \in Builds PROVE UpdateInv(b, NoBuild)'
    BY <1>1 DEF UpdatesInv, NoBuilds
  <2>2. ASSUME Started(tc[b]), tc[b].date >= Since' PROVE Position(tc, b)' > 0
    <3> DEFINE above == {c \in Listed(tc)' : turn'[c] >= turn'[b]}
    <3>1. b \in above
      BY <1>1, <2>2 DEF Listed, Started, IInv, TypeOK
    <3>2. IsFiniteSet(above)
      BY FS_Subset, HistoryAssumption DEF Listed
    <3>3. Position(tc, b)' = Cardinality(above)
      BY DEF Position
    <3> HIDE DEF above
    <3> QED BY <3>1, <3>2, <3>3, FS_EmptySet, FS_CardinalityType
  <2> QED BY <1>1, <2>2 DEF UpdateInv
<1>5. EntryInv(cache)' /\ EntryInv(scan.stored)'
  BY <1>1 DEF IInv, EntryInv
<1>6. BegunInv'
  BY <1>1, <1>2 DEF BegunInv, Advances
<1>7. StoredInv'
  <2>1. cache.stored => cache.checkedAt <= time
    BY DEF IInv, EntryInv
  <2>2. scan'.full \/ (cache.stored /\ time - cache.fullAt < Reconcile)
    <3>1. time - cache.fullAt < Reconcile \/ time - cache.fullAt >= Reconcile
      BY <1>2
    <3> QED BY <1>1, <3>1
  <2> QED BY <1>1, <1>5, <2>1, <2>2 DEF StoredInv
<1> QED BY <1>4, <1>5, <1>6, <1>7, <1>8 DEF IInv

LEMMA FailInv ==
  ASSUME IInv, Fail
  PROVE  IInv'
<1>1. scan' = Idle /\ Idle.pc = "idle" /\ UNCHANGED <<time, skew, tc, turn, gone, cache>>
  BY DEF Fail, Idle
<1>2. TypeOK'
  BY <1>1, DataTypes DEF IInv, TypeOK
<1>3. GoneInv' /\ EntryInv(cache)'
  BY <1>1 DEF IInv, GoneInv, EntryInv
<1>4. BegunInv' /\ StoredInv' /\ UpdatesInv' /\ AskedInv' /\ DoneInv'
  BY <1>1 DEF BegunInv, StoredInv, UpdatesInv, AskedInv, DoneInv
<1> QED BY <1>2, <1>3, <1>4 DEF IInv

(* The steps between Begin and Put keep what the scan began with. *)
LEMMA ScanStepInv ==
  ASSUME IInv, NEW p \in {"builds", "queue", "ask"}, scan.pc \in {"builds", "queue", "ask"},
         scan' \in Scans, scan'.pc = p,
         scan'.now = scan.now, scan'.full = scan.full, scan'.stored = scan.stored,
         scan'.begun = scan.begun, UNCHANGED <<time, skew, tc, turn, gone, cache>>,
         \A b \in Builds : b \in scan.missed \/ scan.updates[b] # NoBuild
           => b \in scan'.missed \/ scan'.updates[b] # NoBuild,
         UpdatesInv', AskedInv'
  PROVE  IInv'
<1>1. TypeOK' /\ GoneInv' /\ EntryInv(cache)' /\ BegunInv'
  BY DEF IInv, TypeOK, GoneInv, EntryInv, BegunInv
<1>2. DoneInv'
  BY DEF DoneInv
<1>3. StoredInv'
  <2>1. scan.stored.missed \subseteq Builds
    BY ScanTypes, CacheTypes DEF IInv
  <2> QED BY <2>1 DEF IInv, StoredInv, EntryInv
<1> QED BY <1>1, <1>2, <1>3 DEF IInv

LEMMA QueryBuildsInv ==
  ASSUME IInv, QueryBuilds
  PROVE  IInv'
<1> DEFINE next == scan.at + PageSize
           page == {b \in Listed(tc) : Position(tc, b) \in (scan.at + 1)..next}
           last == next >= Cardinality(Listed(tc))
           updates == [b \in Builds |-> IF b \in page THEN tc[b] ELSE scan.updates[b]]
           pc == IF last THEN "queue" ELSE "builds"
           at == IF last THEN 0 ELSE next
<1>1. /\ scan.pc = "builds" /\ UNCHANGED <<time, skew, tc, turn, gone, cache>>
      /\ scan' = [scan EXCEPT !.pc = pc, !.at = at, !.updates = updates,
                               !.missed = scan.missed \ page]
  BY DEF QueryBuilds
<1>2. updates \in Histories
  <2>1. \A b \in Builds : b \in page => tc[b] \in Build
    BY TeamCityTypes DEF IInv, Listed
  <2> QED BY <2>1, ScanTypes DEF IInv, Histories
<1>3. ASSUME NEW b \in Builds
      PROVE  /\ b \in page => /\ updates[b] = tc[b] /\ tc[b] # NoBuild /\ Started(tc[b])
                               /\ tc[b].state \in Active \cup {"finished"}
             /\ b \notin page => updates[b] = scan.updates[b]
  BY DEF Started, Listed, NoBuild, Active
<1>4. next \in Nat /\ next >= scan.at /\ at \in Nat /\ pc \in {"builds", "queue"}
  BY ScanTypes, HistoryAssumption DEF IInv
<1>5. ASSUME NEW b \in Listed(tc), b \notin page, Position(tc, b) > scan.at
      PROVE  pc = "builds" /\ at = next /\ Position(tc, b) > at
  <2>1. /\ scan.at \in Nat /\ Position(tc, b) \in Nat /\ Cardinality(Listed(tc)) \in Nat
        /\ Position(tc, b) <= Cardinality(Listed(tc))
    BY ScanTypes, ListedFinite DEF IInv
  <2>2. Position(tc, b) > next
    BY <1>4, <1>5, <2>1
  <2> QED BY <1>4, <2>1, <2>2
<1> HIDE DEF next, page, last, updates, pc, at
<1>6. /\ scan' \in Scans /\ scan'.pc = pc /\ scan'.updates = updates /\ scan'.at = at
      /\ scan'.missed = scan.missed \ page
      /\ scan'.now = scan.now /\ scan'.full = scan.full /\ scan'.stored = scan.stored
      /\ scan'.begun = scan.begun
  BY <1>1, <1>2, <1>4 DEF IInv, TypeOK, Scans
<1>7. Since' = Since
  BY <1>1, <1>6 DEF Since, Later, Cutoff
<1>8. UpdatesInv'
  <2>1. SUFFICES ASSUME NEW b \in Builds PROVE UpdateInv(b, scan.updates[b])'
    BY DEF UpdatesInv
  <2>2. /\ scan.now <= time
        /\ Advances(scan.begun[b].state, tc[b].state)
        /\ Started(scan.begun[b]) /\ tc[b].state # "deleted"
             => Started(tc[b]) /\ tc[b].date = scan.begun[b].date
    BY <1>1 DEF IInv, BegunInv
  <2>3. CASE b \in page
    <3>1. tc[b].state # "deleted"
      BY <1>3, <2>3 DEF Started
    <3>2. gone[b] >= scan.now
      BY <2>2, <3>1, TeamCityTypes, ScanTypes DEF IInv, GoneInv
    <3> QED BY <1>1, <1>3, <1>6, <2>2, <2>3, <3>1, <3>2 DEF UpdateInv
  <2>4. CASE b \notin page
    <3>1. UpdateInv(b, scan.updates[b]) /\ updates[b] = scan.updates[b]
      BY <1>1, <1>3, <2>4 DEF IInv, UpdatesInv
    <3>2. Position(tc, b)' = Position(tc, b)
      BY <1>1, <1>7, SamePosition
    <3>3. ASSUME Started(scan.begun[b]), scan.begun[b].date >= Since, tc[b].state # "deleted",
                 Position(tc, b) > scan.at
          PROVE  pc = "builds" /\ Position(tc, b) > at
      <4>1. b \in Listed(tc)
        BY <2>2, <3>3 DEF Listed, Started
      <4> QED BY <1>5, <2>4, <3>3, <4>1
    <3> QED BY <1>1, <1>6, <1>7, <2>4, <3>1, <3>2, <3>3 DEF UpdateInv
  <2> QED BY <2>3, <2>4
<1>9. AskedInv'
  BY <1>4, <1>6 DEF AskedInv
<1>10. \A b \in Builds : b \in scan.missed \/ scan.updates[b] # NoBuild
          => b \in scan'.missed \/ scan'.updates[b] # NoBuild
  BY <1>3, <1>6
<1> QED BY <1>1, <1>4, <1>6, <1>8, <1>9, <1>10, ScanStepInv

(* A stored build that need not be asked for may be shown as it is. *)
LEMMA StoredShows ==
  ASSUME IInv, scan.pc \in {"queue", "ask"}, ~scan.full, NEW b \in Builds,
         scan.stored.builds[b].state \notin Active,
         b \in scan.stored.missed => b \in scan.missed,
         Started(scan.begun[b]) /\ scan.begun[b].date >= Since
           => tc[b].state = "deleted" \/ b \in scan.missed
  PROVE  /\ Shows(b, scan.stored.builds[b])
         /\ scan.stored.builds[b].state # "absent" => gone[b] >= Watermark.full
<1> DEFINE entry == scan.stored
<1>1. /\ EntryInv(entry) /\ entry.stored /\ entry.checkedAt <= scan.now
      /\ scan.now - entry.fullAt < Reconcile
      /\ entry.checkedAt \in Int /\ entry.fullAt \in Int /\ scan.now \in Int
      /\ scan.begun[b].date \in Int
  <2>1. scan.stored \in Caches /\ scan.begun[b].date \in Int
    BY ScanTypes DEF IInv, TeamCityHistories, Times
  <2> QED BY <2>1, ScanTypes, CacheTypes DEF IInv, StoredInv
<1>2. /\ /\ Started(tc[b]) /\ b \notin entry.missed
         /\ tc[b].date - skew < entry.checkedAt
         /\ tc[b].date >= entry.checkedAt - Days
         => Started(entry.builds[b]) /\ entry.builds[b].date = tc[b].date
      /\ entry.builds[b].state # "absent" => gone[b] >= entry.fullAt
  BY <1>1 DEF EntryInv
<1>3. Started(scan.begun[b]) /\ tc[b].state # "deleted"
        => Started(tc[b]) /\ tc[b].date = scan.begun[b].date
  BY DEF IInv, BegunInv
<1>4. Since = (IF Cutoff >= entry.checkedAt - Overlap THEN Cutoff ELSE entry.checkedAt - Overlap)
  BY DEF Since, Later
<1>5. ASSUME Started(scan.begun[b]), scan.begun[b].date >= Cutoff, tc[b].state # "deleted",
             b \notin scan.missed
      PROVE  Started(entry.builds[b]) /\ entry.builds[b].date = scan.begun[b].date
  <2>1. ~(scan.begun[b].date >= Since)
    BY <1>5
  <2>2. /\ skew \in Int /\ Overlap \in Nat /\ Days \in Nat /\ skew + Overlap >= 0
        /\ Cutoff = scan.now - Days
    BY TeamCityTypes DEF IInv, Cutoff
  <2>3. scan.begun[b].date < entry.checkedAt - Overlap
    BY <1>1, <1>4, <1>5, <2>1, <2>2
  <2>4. /\ scan.begun[b].date - skew < entry.checkedAt
        /\ scan.begun[b].date >= entry.checkedAt - Days
    BY <1>1, <1>5, <2>2, <2>3
  <2> QED BY <1>2, <1>3, <1>5, <2>4
<1>6. entry.builds[b].state # "running"
  BY DEF Active
<1>7. entry.builds[b].state # "absent" =>
        gone[b] >= entry.fullAt /\ scan.now - gone[b] < Reconcile
  BY <1>1, <1>2, TeamCityTypes DEF IInv
<1> QED BY <1>5, <1>6, <1>7 DEF Shows, Watermark

LEMMA QueryQueueInv ==
  ASSUME IInv, QueryQueue
  PROVE  IInv'
<1> DEFINE after(page) == [b \in Builds |->
             IF scan.updates[b] = NoBuild /\ b \in page THEN tc[b] ELSE scan.updates[b]]
           result == IF scan.full THEN NoBuilds ELSE scan.stored.builds
<1>1. PICK page \in SUBSET {b \in Builds : tc[b].state = "queued" /\ tc[b].date > Cutoff} :
        \/ scan' = [scan EXCEPT !.updates = after(page)]
        \/ scan' = [scan EXCEPT !.pc = "ask", !.updates = after(page),
                       !.ask = ToAsk(after(page)), !.result = result]
  BY DEF QueryQueue
<1> DEFINE updates == after(page)
<1>2. scan.pc = "queue" /\ UNCHANGED <<time, skew, tc, turn, gone, cache>>
  BY DEF QueryQueue
<1>3. updates \in Histories /\ result \in Histories
  <2>1. \A b \in page : tc[b] \in Build
    BY TeamCityTypes DEF IInv
  <2>2. scan.updates \in Histories /\ scan.stored.builds \in Histories
    BY ScanTypes, CacheTypes DEF IInv
  <2> QED BY <2>1, <2>2, DataTypes DEF Histories
<1>4. ASSUME NEW b \in Builds
      PROVE  \/ updates[b] = scan.updates[b]
             \/ /\ scan.updates[b] = NoBuild
                /\ updates[b] = tc[b] /\ tc[b].state = "queued"
  OBVIOUS
<1>5. /\ scan.full => \A b \in Builds : result[b] = NoBuild
      /\ ~scan.full => result = scan.stored.builds
  BY DEF NoBuilds
<1>6. \/ scan' = [scan EXCEPT !.updates = updates]
      \/ scan' = [scan EXCEPT !.pc = "ask", !.updates = updates, !.ask = ToAsk(updates),
                     !.result = result]
  BY <1>1
<1> HIDE DEF updates, result
<1>7. ToAsk(updates) \in SUBSET Builds
  BY DEF ToAsk
<1>8. /\ scan' \in Scans /\ scan'.updates = updates /\ scan'.missed = scan.missed
      /\ scan'.now = scan.now /\ scan'.full = scan.full /\ scan'.stored = scan.stored
      /\ scan'.begun = scan.begun
      /\ \/ scan'.pc = "queue"
         \/ scan'.pc = "ask" /\ scan'.ask = ToAsk(updates) /\ scan'.result = result
  BY <1>2, <1>3, <1>6, <1>7 DEF IInv, TypeOK, Scans
<1>9. Since' = Since
  BY <1>8 DEF Since, Later, Cutoff
<1>10. ASSUME NEW b \in Builds PROVE UpdateInv(b, updates[b])
  <2>1. UpdateInv(b, scan.updates[b])
    BY <1>2 DEF IInv, UpdatesInv
  <2>2. CASE updates[b] = tc[b] /\ tc[b].state = "queued"
    <3>1. Advances(scan.begun[b].state, "queued") /\ scan.now <= time
      BY <1>2, <2>2 DEF IInv, BegunInv
    <3>2. ~Started(scan.begun[b])
      BY <3>1 DEF Advances, Started
    <3>3. gone[b] >= scan.now
      BY <2>2, <3>1, ScanTypes, TeamCityTypes DEF IInv, GoneInv
    <3> QED BY <2>2, <3>1, <3>2, <3>3 DEF UpdateInv, Active
  <2> QED BY <1>4, <2>1, <2>2
<1>11. UpdatesInv'
  BY <1>2, <1>8, <1>9, <1>10 DEF UpdatesInv, UpdateInv
<1>12. AskedInv'
  <2>1. SUFFICES ASSUME NEW b \in Builds, updates[b] = NoBuild, b \notin ToAsk(updates)
                 PROVE  /\ Shows(b, result[b])
                        /\ result[b].state # "absent" => gone[b] >= Watermark.full
    BY <1>2, <1>8 DEF AskedInv, Shows, Watermark, Cutoff
  <2>2. Started(scan.begun[b]) /\ scan.begun[b].date >= Since
          => tc[b].state = "deleted" \/ b \in scan.missed
    BY <1>2, <1>10, <2>1 DEF UpdateInv
  <2>3. CASE scan.full
    <3>1. result[b] = NoBuild /\ NoBuild.state = "absent" /\ Since = Cutoff
      BY <1>5, <2>3 DEF NoBuild, Since
    <3> QED BY <2>2, <3>1 DEF Shows, Active
  <2>4. CASE ~scan.full
    <3>1. scan.stored.builds[b].state \notin Active
      BY <2>1, <2>4 DEF ToAsk
    <3>2. scan.updates[b] = NoBuild
      BY <1>4, <2>1
    <3>3. b \in scan.stored.missed => b \in scan.missed
      BY <1>2, <2>4, <3>2 DEF IInv, StoredInv
    <3> QED BY <1>2, <1>5, <2>2, <2>4, <3>1, <3>3, StoredShows
  <2> QED BY <2>3, <2>4
<1>13. \A b \in Builds : b \in scan.missed \/ scan.updates[b] # NoBuild
          => b \in scan'.missed \/ scan'.updates[b] # NoBuild
  BY <1>4, <1>8
<1> QED BY <1>2, <1>8, <1>11, <1>12, <1>13, ScanStepInv

(* What TeamCity answers when asked for one build may be shown. *)
LEMMA FoundShows ==
  ASSUME IInv, scan.pc = "ask", NEW b \in Builds
  PROVE  /\ Found(b) \in Build
         /\ Shows(b, Found(b))
         /\ Found(b).state # "absent" => gone[b] >= Watermark.full
<1>1. CASE tc[b].state = "deleted"
  <2>1. Found(b) = NoBuild /\ NoBuild.state = "absent"
    BY <1>1 DEF Found, NoBuild
  <2> QED BY <1>1, <2>1, DataTypes DEF Shows, Active
<1>2. CASE tc[b].state # "deleted"
  <2>1. Found(b) = tc[b] /\ tc[b] \in Build
    BY <1>2, TeamCityTypes DEF Found, IInv
  <2>2. /\ scan.now <= time
        /\ Advances(scan.begun[b].state, tc[b].state)
        /\ Started(scan.begun[b]) => Started(tc[b]) /\ tc[b].date = scan.begun[b].date
    BY <1>2 DEF IInv, BegunInv
  <2>3. gone[b] > scan.now /\ scan.now - gone[b] < Reconcile /\ scan.now \in Int /\ gone[b] \in Int
    BY <1>2, <2>2, ScanTypes, TeamCityTypes DEF IInv, GoneInv
  <2>4. Watermark.full <= scan.now /\ Watermark.full \in Int
    <3>1. scan.stored \in Caches
      BY ScanTypes DEF IInv
    <3> QED BY <3>1, ScanTypes, CacheTypes DEF IInv, StoredInv, EntryInv, Watermark
  <2>5. scan.begun[b].state \in Active \cup {"absent", "finished", "deleted"}
    BY ScanTypes DEF IInv, TeamCityHistories
  <2>6. tc[b].state \in Active => scan.begun[b].state \in Active \cup {"absent"}
    BY <2>2 DEF Advances, Active
  <2>7. tc[b].state = "running" /\ Started(scan.begun[b]) => scan.begun[b].state = "running"
    BY <2>2 DEF Advances, Started
  <2> QED BY <2>1, <2>2, <2>3, <2>4, <2>6, <2>7 DEF Shows
<1> QED BY <1>1, <1>2

LEMMA AskInv ==
  ASSUME IInv, NEW b \in Builds, Ask(b)
  PROVE  IInv'
<1> DEFINE result == [scan.result EXCEPT ![b] = Found(b)]
<1>1. /\ scan.pc = "ask" /\ UNCHANGED <<time, skew, tc, turn, gone, cache>>
      /\ scan' = [scan EXCEPT !.ask = scan.ask \ {b}, !.result = result]
  BY DEF Ask
<1>2. /\ Found(b) \in Build /\ Shows(b, Found(b))
      /\ Found(b).state # "absent" => gone[b] >= Watermark.full
  BY <1>1, FoundShows
<1>3. /\ result \in Histories /\ result[b] = Found(b)
      /\ \A c \in Builds : c # b => result[c] = scan.result[c]
  BY <1>2, ScanTypes DEF IInv, Histories
<1> HIDE DEF result
<1>4. /\ scan' \in Scans /\ scan'.pc = "ask" /\ scan'.updates = scan.updates
      /\ scan'.ask = scan.ask \ {b} /\ scan'.result = result /\ scan'.missed = scan.missed
      /\ scan'.now = scan.now /\ scan'.full = scan.full /\ scan'.stored = scan.stored
      /\ scan'.begun = scan.begun
  BY <1>1, <1>3 DEF IInv, TypeOK, Scans
<1>5. UpdatesInv'
  BY <1>1, <1>4 DEF IInv, UpdatesInv, UpdateInv, Since, Later, Cutoff
<1>6. AskedInv'
  <2>1. SUFFICES ASSUME NEW c \in Builds, scan.updates[c] = NoBuild, c \notin scan.ask \ {b}
                 PROVE  /\ Shows(c, result[c])
                        /\ result[c].state # "absent" => gone[c] >= Watermark.full
    BY <1>1, <1>4 DEF AskedInv, Shows, Watermark, Cutoff
  <2>2. CASE c = b
    BY <1>2, <1>3, <2>2
  <2>3. CASE c # b
    BY <1>1, <1>3, <2>1, <2>3 DEF IInv, AskedInv
  <2> QED BY <2>2, <2>3
<1> QED BY <1>1, <1>4, <1>5, <1>6, ScanStepInv

(* So may a build that the queries reported. *)
LEMMA UpdateShows ==
  ASSUME IInv, scan.pc = "ask", NEW b \in Builds, scan.updates[b] # NoBuild
  PROVE  /\ Shows(b, scan.updates[b])
         /\ gone[b] >= Watermark.full
<1>1. /\ scan.updates[b].state \in Active \cup {"finished"}
      /\ Advances(scan.begun[b].state, scan.updates[b].state)
      /\ Started(scan.begun[b]) => scan.updates[b].date = scan.begun[b].date
      /\ gone[b] >= scan.now
  BY DEF IInv, UpdatesInv, UpdateInv
<1>2. /\ scan.now - gone[b] < Reconcile /\ Watermark.full <= scan.now
      /\ Watermark.full \in Int /\ scan.now \in Int /\ gone[b] \in Int
  <2>1. scan.stored \in Caches
    BY ScanTypes DEF IInv
  <2>2. Watermark.full <= scan.now /\ Watermark.full \in Int
    BY <2>1, ScanTypes, CacheTypes DEF IInv, StoredInv, EntryInv, Watermark
  <2> QED BY <1>1, <2>2, ScanTypes, TeamCityTypes DEF IInv
<1>3. scan.updates[b].state \in Active => scan.begun[b].state \in Active \cup {"absent"}
  BY <1>1 DEF Advances, Active
<1>4. Started(scan.begun[b]) =>
        /\ Started(scan.updates[b])
        /\ scan.updates[b].state = "running" => scan.begun[b].state = "running"
  BY <1>1 DEF Advances, Started, Active
<1> QED BY <1>1, <1>2, <1>3, <1>4 DEF Shows

LEMMA PutInv ==
  ASSUME IInv, Put
  PROVE  IInv'
<1> DEFINE merged == [b \in Builds |->
             IF scan.updates[b] = NoBuild THEN scan.result[b] ELSE scan.updates[b]]
           result == [b \in Builds |->
             IF merged[b].date >= Cutoff THEN merged[b] ELSE NoBuild]
           entry == [stored |-> TRUE, checkedAt |-> Watermark.checked,
                     fullAt |-> Watermark.full, builds |-> result, missed |-> scan.missed]
<1>1. /\ scan.pc = "ask" /\ scan.ask = {} /\ UNCHANGED <<time, skew, tc, turn, gone>>
      /\ scan' = [Idle EXCEPT !.pc = "done", !.now = scan.now, !.begun = scan.begun,
                                !.result = result, !.missed = scan.missed]
      /\ cache' = entry \/ cache' = cache
  BY DEF Put
<1>2. merged \in Histories /\ result \in Histories
  <2>1. merged \in Histories
    BY ScanTypes DEF IInv, Histories
  <2> QED BY <2>1, DataTypes DEF Histories
<1>3. ASSUME NEW b \in Builds
      PROVE  /\ Shows(b, merged[b])
             /\ merged[b].state # "absent" => gone[b] >= Watermark.full
  <2>1. CASE scan.updates[b] = NoBuild
    <3>1. merged[b] = scan.result[b] /\ b \notin scan.ask
      BY <1>1, <2>1
    <3> QED BY <1>1, <2>1, <3>1 DEF IInv, AskedInv
  <2>2. CASE scan.updates[b] # NoBuild
    <3>1. merged[b] = scan.updates[b]
      BY <2>2
    <3> QED BY <1>1, <2>2, <3>1, UpdateShows
  <2> QED BY <2>1, <2>2
<1>4. ASSUME NEW b \in Builds
      PROVE  IF merged[b].date >= Cutoff THEN result[b] = merged[b] ELSE result[b] = NoBuild
  OBVIOUS
<1> HIDE DEF merged, result
<1>5. ASSUME NEW b \in Builds
      PROVE  /\ Shows(b, result[b])
             /\ result[b].state # "absent" => gone[b] >= Watermark.full
  <2>1. NoBuild.state = "absent"
    BY DEF NoBuild
  <2> QED BY <1>3, <1>4, <2>1 DEF Shows, Active
<1>6. /\ scan' \in Scans /\ scan'.pc = "done" /\ scan'.result = result
      /\ scan'.now = scan.now /\ scan'.begun = scan.begun /\ scan'.missed = scan.missed
  BY <1>1, <1>2, DataTypes, ScanTypes DEF IInv, Idle, Scans, Times
<1>7. EntryInv(entry)
  <2>1. /\ entry.stored /\ entry.checkedAt = scan.now /\ entry.fullAt = Watermark.full
        /\ entry.builds = result /\ entry.missed = scan.missed
    BY DEF Watermark
  <2>2. Watermark.full <= scan.now /\ scan.now <= time
    <3>1. scan.stored \in Caches
      BY ScanTypes DEF IInv
    <3> QED BY <1>1, <3>1, ScanTypes, CacheTypes
            DEF IInv, StoredInv, EntryInv, Watermark, BegunInv
  <2>3. ASSUME NEW b \in Builds, Started(tc[b]), tc[b].date - skew < scan.now,
               tc[b].date >= scan.now - Days, b \notin scan.missed
        PROVE  Started(result[b]) /\ result[b].date = tc[b].date
    <3>1. Started(scan.begun[b]) /\ tc[b].state # "deleted"
      BY <1>1, <2>3 DEF IInv, BegunInv, Started
    <3>2. tc[b].date = scan.begun[b].date
      BY <1>1, <3>1 DEF IInv, BegunInv
    <3> QED BY <1>5, <2>3, <3>1, <3>2 DEF Shows, Cutoff
  <2> HIDE DEF entry
  <2> QED BY <1>5, <2>1, <2>2, <2>3 DEF EntryInv
<1>8. entry \in Caches
  <2>1. Watermark.checked \in Int /\ Watermark.full \in Int /\ scan.missed \in SUBSET Builds
    BY ScanTypes, CacheTypes DEF IInv, Watermark
  <2> QED BY <1>2, <2>1 DEF Caches, Times
<1> HIDE DEF entry
<1>9. TypeOK' /\ GoneInv' /\ EntryInv(cache)'
  <2>1. cache' \in Caches
    BY <1>1, <1>8 DEF IInv, TypeOK
  <2>2. EntryInv(cache)'
    BY <1>1, <1>7 DEF IInv, EntryInv
  <2> QED BY <1>1, <1>6, <2>1, <2>2 DEF IInv, TypeOK, GoneInv
<1>10. BegunInv'
  BY <1>1, <1>6 DEF IInv, BegunInv
<1>11. DoneInv'
  BY <1>1, <1>5, <1>6 DEF DoneInv, Shows, Cutoff
<1>12. StoredInv' /\ UpdatesInv' /\ AskedInv'
  BY <1>6 DEF StoredInv, UpdatesInv, AskedInv
<1> QED BY <1>9, <1>10, <1>11, <1>12 DEF IInv

LEMMA InitInv == Init => IInv
<1> SUFFICES ASSUME Init PROVE IInv
  OBVIOUS
<1>1. TypeOK
  BY DataTypes, HistoryAssumption DEF Init, TypeOK
<1>2. GoneInv
  <2>1. \A b \in Builds : tc[b].state = "absent" /\ gone[b] = MaxTime + 1
    BY DEF Init, NoBuilds, NoBuild
  <2> QED BY <2>1 DEF GoneInv
<1>3. EntryInv(cache)
  BY DEF Init, EntryInv, NoCache
<1>4. BegunInv /\ StoredInv /\ UpdatesInv /\ AskedInv /\ DoneInv
  BY DEF Init, Idle, BegunInv, StoredInv, UpdatesInv, AskedInv, DoneInv
<1> QED BY <1>1, <1>2, <1>3, <1>4 DEF IInv

LEMMA NextInv == IInv /\ [Next]_vars => IInv'
<1> SUFFICES ASSUME IInv, [Next]_vars PROVE IInv'
  OBVIOUS
<1>1. CASE UNCHANGED vars
  <2>1. Since' = Since
    BY <1>1 DEF vars, Since, Later, Cutoff
  <2>2. UpdatesInv'
    BY <1>1, <2>1, SamePosition DEF vars, IInv, UpdatesInv, UpdateInv
  <2> QED
    BY <1>1, <2>2 DEF vars, IInv, TypeOK, GoneInv, EntryInv, BegunInv, StoredInv,
                      AskedInv, DoneInv, Shows, Cutoff, Watermark
<1>2. ASSUME NEW b \in Builds, Queue(b) \/ Start(b) \/ Complete(b) \/ Delete(b) \/ Ask(b)
      PROVE  IInv'
  BY <1>2, TeamCityInv, AskInv
<1> QED
  BY <1>1, <1>2, TickInv, CacheLostInv, BeginInv, QueryBuildsInv, QueryQueueInv, PutInv, FailInv
  DEF Next

-----------------------------------------------------------------------------
(* The theorems.                                                           *)

THEOREM BuildHistoryInvariant == Spec => []IInv
BY InitInv, NextInv, PTL DEF Spec

(* Every variable keeps its type. *)
THEOREM TypeCorrect == Spec => []TypeOK
BY BuildHistoryInvariant, PTL DEF IInv

LEMMA InvStarted == IInv => StartedBuildsKnown
<1> SUFFICES ASSUME IInv, scan.pc = "done", NEW b \in Builds,
                    scan.begun[b].state \in {"running", "finished"},
                    scan.begun[b].date >= Cutoff, gone[b] > MaxTime, b \notin scan.missed
             PROVE  /\ b \in Known(scan.result)
                    /\ Rank(scan.result[b].state) >= Rank(scan.begun[b].state)
  BY DEF StartedBuildsKnown
<1>1. tc[b].state # "deleted"
  BY TeamCityTypes DEF IInv, GoneInv
<1>2. /\ Started(scan.result[b])
      /\ scan.result[b].state = "running" => scan.begun[b].state = "running"
  BY <1>1 DEF IInv, DoneInv, Shows, Started
<1>3. scan.result[b].state # "absent" /\ scan.result[b].state # "queued"
  BY <1>2 DEF Started
<1>4. Rank("running") = 2 /\ Rank("finished") = 3
  BY DEF Rank
<1>5. Rank(scan.result[b].state) >= Rank(scan.begun[b].state)
  BY <1>2, <1>4 DEF Started
<1> QED BY <1>3, <1>5 DEF Known

(* An incremental scan reports every build that had started inside the     *)
(* window when the scan began, however the clocks differ within the        *)
(* overlap, however many scans failed or took long before it and wherever  *)
(* the pages of its listings end - but for the builds that a deletion      *)
(* moved from one page to the one before, until a page shows them.         *)
THEOREM StartedBuildsAreKnown == Spec => []StartedBuildsKnown
BY BuildHistoryInvariant, InvStarted, PTL

LEMMA InvPhantom == IInv => NoPhantomActivity
BY DEF IInv, DoneInv, Shows, NoPhantomActivity

(* The unfinished builds of the last history are asked for again, so none  *)
(* is shown as active that had ended before the scan began.                *)
THEOREM NoPhantomsAreShown == Spec => []NoPhantomActivity
BY BuildHistoryInvariant, InvPhantom, PTL

LEMMA InvReconciled == IInv => DeletedBuildsReconciled
BY DEF IInv, DoneInv, Shows, DeletedBuildsReconciled, Known

(* A build that TeamCity deleted leaves the history with the next full     *)
(* reading, whatever was cached in between.                                *)
THEOREM DeletedBuildsLeave == Spec => []DeletedBuildsReconciled
BY BuildHistoryInvariant, InvReconciled, PTL
=============================================================================
