-------------------------- MODULE GraphCacheProofs --------------------------
(* Proofs about the response cache, for any set of threads, requests and   *)
(* payload sizes, any bounds and any number of saves.                      *)
EXTENDS GraphCache, FiniteSetTheorems, SequenceTheorems, WellFoundedInduction, TLAPS

(* The types of everything but the LRU order and the byte count, which no  *)
(* decision on what a reply contains depends on.                           *)
Typed ==
  /\ version \in Versions
  /\ saving \in BOOLEAN
  /\ settled \in Versions
  /\ settled <= version
  /\ generation \in Nat
  /\ items \in [Keys -> Entries \cup {NoEntry}]
  /\ reader \in [Readers -> Reader]

(* v is a version of the tables a save may leave in the cache. *)
Recent(v) == v >= settled /\ (~saving => v = version)

EntriesRecent ==
  \A k \in Keys : items[k] # NoEntry => Recent(items[k].nodes) /\ Recent(items[k].edges)

(* What a thread has read is recent for as long as its generation is the   *)
(* current one, and never older than its request.                          *)
ReaderRecent(rd) ==
  /\ rd.generation <= generation
  /\ rd.since <= settled
  /\ rd.pc # "nodes" => rd.nodes >= rd.since
  /\ rd.pc \in {"idle", "store"} => rd.edges >= rd.since
  /\ rd.pc \in {"edges", "store"} /\ rd.generation = generation => Recent(rd.nodes)
  /\ rd.pc = "store" /\ rd.generation = generation => Recent(rd.edges)

ReadersRecent == \A r \in Readers : ReaderRecent(reader[r])

IInv == Typed /\ EntriesRecent /\ ReadersRecent

(* A save that ended is a lower bound on the version. *)
LEMMA VersionsAreNumbers ==
  ASSUME NEW v \in Versions PROVE v \in Nat
BY BoundsAssumption DEF Versions

(* The empty cache is typed. *)
LEMMA NoEntries == [k \in Keys |-> NoEntry] \in [Keys -> Entries \cup {NoEntry}]
OBVIOUS

LEMMA InitInv == Init => IInv
<1> SUFFICES ASSUME Init PROVE IInv
  OBVIOUS
<1>1. 0 \in Versions
  BY BoundsAssumption DEF Versions
<1>2. Typed
  <2>1. items \in [Keys -> Entries \cup {NoEntry}]
    BY NoEntries DEF Init
  <2>2. PICK k \in Keys :
          reader = [r \in Readers |-> [pc |-> "idle", key |-> k, generation |-> 0,
                                       nodes |-> 0, edges |-> 0, since |-> 0]]
    BY DEF Init
  <2>3. reader \in [Readers -> Reader]
    BY <1>1, <2>2 DEF Reader
  <2>4. version = 0 /\ settled = 0 /\ generation = 0 /\ saving \in BOOLEAN
    BY DEF Init
  <2>5. settled <= version /\ generation \in Nat
    BY <2>4
  <2> QED BY <1>1, <2>1, <2>3, <2>4, <2>5 DEF Typed
<1>3. EntriesRecent
  BY DEF Init, EntriesRecent
<1>4. ReadersRecent
  BY DEF Init, ReadersRecent, ReaderRecent
<1> QED BY <1>2, <1>3, <1>4 DEF IInv

(* Only the thread r moves, and the cache and the tables keep what the     *)
(* invariant of the others is about.                                       *)
LEMMA ReaderMoves ==
  ASSUME IInv, NEW r \in Readers, NEW rd \in Reader, ReaderRecent(rd),
         reader' = [reader EXCEPT ![r] = rd],
         UNCHANGED <<version, saving, settled, generation>>
  PROVE  ReadersRecent' /\ reader' \in [Readers -> Reader]
<1>1. reader' \in [Readers -> Reader]
  BY DEF IInv, Typed
<1>2. ASSUME NEW q \in Readers PROVE ReaderRecent(reader'[q])
  BY DEF IInv, Typed, ReadersRecent
<1> QED BY <1>1, <1>2 DEF ReadersRecent, ReaderRecent, Recent

LEMMA CommitInv == IInv /\ Commit => IInv'
<1> SUFFICES ASSUME IInv, Commit PROVE IInv'
  OBVIOUS
<1>1. version' \in Versions /\ version' = version + 1 /\ settled' <= version'
  BY BoundsAssumption DEF Commit, IInv, Typed, Versions
<1>2. Typed'
  BY <1>1 DEF Commit, IInv, Typed, cache
<1>3. EntriesRecent'
  BY DEF Commit, IInv, EntriesRecent, Recent, cache
<1>4. ReadersRecent'
  BY DEF Commit, IInv, ReadersRecent, ReaderRecent, Recent, cache
<1> QED BY <1>2, <1>3, <1>4 DEF IInv

LEMMA InvalidateInv == IInv /\ Invalidate => IInv'
<1> SUFFICES ASSUME IInv, Invalidate PROVE IInv'
  OBVIOUS
<1>1. version \in Nat /\ settled \in Nat
  BY VersionsAreNumbers DEF IInv, Typed
<1>2. Typed'
  <2>1. items' \in [Keys -> Entries \cup {NoEntry}]
    BY NoEntries DEF Invalidate
  <2>2. generation' \in Nat /\ settled' <= version'
    BY <1>1 DEF Invalidate, IInv, Typed
  <2> QED BY <2>1, <2>2 DEF Invalidate, IInv, Typed
<1>3. EntriesRecent'
  BY DEF Invalidate, EntriesRecent
<1>4. ASSUME NEW r \in Readers PROVE ReaderRecent(reader[r])'
  <2>1. reader[r] \in Reader /\ reader[r].generation \in Nat /\ reader[r].since \in Nat
    BY VersionsAreNumbers DEF IInv, Typed, Reader
  <2>2. reader'[r] = reader[r] /\ reader[r].generation # generation'
    BY <2>1 DEF Invalidate, IInv, Typed, ReadersRecent, ReaderRecent
  <2> QED BY <1>1, <2>1, <2>2 DEF Invalidate, IInv, Typed, ReadersRecent, ReaderRecent
<1> QED BY <1>2, <1>3, <1>4 DEF IInv, ReadersRecent

LEMMA RestartInv == IInv /\ Restart => IInv'
<1> SUFFICES ASSUME IInv, Restart PROVE IInv'
  OBVIOUS
<1>1. version \in Nat
  BY VersionsAreNumbers DEF IInv, Typed
<1>2. Typed'
  <2>1. items' \in [Keys -> Entries \cup {NoEntry}]
    BY NoEntries DEF Restart
  <2>2. reader' \in [Readers -> Reader]
    BY DEF Restart, IInv, Typed, Reader
  <2>3. generation' = 0 /\ settled' = version /\ version' = version /\ saving' \in BOOLEAN
    BY DEF Restart
  <2>4. generation' \in Nat /\ settled' <= version'
    BY <1>1, <2>3
  <2> QED BY <2>1, <2>2, <2>3, <2>4 DEF IInv, Typed
<1>3. EntriesRecent'
  BY DEF Restart, EntriesRecent
<1>4. ASSUME NEW r \in Readers PROVE ReaderRecent(reader[r])'
  <2>1. /\ reader'[r].pc = "idle" /\ reader'[r].generation = 0
        /\ reader'[r].nodes = version /\ reader'[r].edges = version
        /\ reader'[r].since = version
    BY DEF Restart, IInv, Typed, Reader
  <2>2. generation' = 0 /\ settled' = version
    BY DEF Restart
  <2> QED BY <1>1, <2>1, <2>2 DEF ReaderRecent
<1> QED BY <1>2, <1>3, <1>4 DEF IInv, ReadersRecent

LEMMA LookupInv ==
  ASSUME IInv, NEW r \in Readers, NEW k \in Keys, Hit(r, k) \/ Miss(r, k)
  PROVE  IInv'
<1>1. reader[r] \in Reader /\ settled \in Nat
  BY VersionsAreNumbers DEF IInv, Typed
<1>2. CASE Hit(r, k)
  <2> DEFINE rd == [reader[r] EXCEPT !.key = k, !.since = settled,
                      !.nodes = items[k].nodes, !.edges = items[k].edges]
  <2>1. items[k] \in Entries
    BY <1>2 DEF Hit, IInv, Typed
  <2>2. rd \in Reader
    BY <1>1, <2>1 DEF IInv, Typed, Reader, Entries
  <2>3. /\ rd.pc = "idle" /\ rd.generation = reader[r].generation /\ rd.since = settled
        /\ rd.nodes = items[k].nodes /\ rd.edges = items[k].edges
    BY <1>1, <1>2 DEF Hit, Reader
  <2>4. ReaderRecent(rd)
    BY <1>1, <1>2, <2>3 DEF Hit, IInv, EntriesRecent, ReadersRecent, ReaderRecent, Recent
  <2>5. /\ reader' = [reader EXCEPT ![r] = rd]
        /\ UNCHANGED <<version, saving, settled, generation, items>>
    BY <1>2 DEF Hit
  <2> HIDE DEF rd
  <2>6. ReadersRecent' /\ reader' \in [Readers -> Reader]
    BY <2>2, <2>4, <2>5, ReaderMoves
  <2> QED BY <2>5, <2>6 DEF IInv, Typed, EntriesRecent, Recent
<1>3. CASE Miss(r, k)
  <2> DEFINE rd == [reader[r] EXCEPT !.pc = "nodes", !.key = k, !.since = settled,
                      !.generation = generation]
  <2>1. rd \in Reader
    BY <1>1 DEF IInv, Typed, Reader
  <2>2. rd.pc = "nodes" /\ rd.generation = generation /\ rd.since = settled
    BY <1>1 DEF Reader
  <2>3. ReaderRecent(rd)
    BY <1>1, <2>2 DEF IInv, Typed, ReaderRecent
  <2>4. /\ reader' = [reader EXCEPT ![r] = rd]
        /\ UNCHANGED <<version, saving, settled, generation, items>>
    BY <1>3 DEF Miss, cache
  <2> HIDE DEF rd
  <2>5. ReadersRecent' /\ reader' \in [Readers -> Reader]
    BY <2>1, <2>3, <2>4, ReaderMoves
  <2> QED BY <2>4, <2>5 DEF IInv, Typed, EntriesRecent, Recent
<1> QED BY <1>2, <1>3

LEMMA QueryInv ==
  ASSUME IInv, NEW r \in Readers, QueryNodes(r) \/ QueryEdges(r)
  PROVE  IInv'
<1>1. /\ reader[r] \in Reader /\ ReaderRecent(reader[r])
      /\ version \in Nat /\ settled \in Nat /\ reader[r].since \in Nat
  BY VersionsAreNumbers DEF IInv, Typed, ReadersRecent, Reader
<1>2. version >= reader[r].since /\ Recent(version)
  BY <1>1 DEF IInv, Typed, ReaderRecent, Recent
<1>3. CASE QueryNodes(r)
  <2> DEFINE rd == [reader[r] EXCEPT !.pc = "edges", !.nodes = version]
  <2>1. rd \in Reader
    BY <1>1 DEF IInv, Typed, Reader
  <2>2. /\ rd.pc = "edges" /\ rd.generation = reader[r].generation
        /\ rd.since = reader[r].since /\ rd.nodes = version
    BY <1>1 DEF Reader
  <2>3. ReaderRecent(rd)
    BY <1>1, <1>2, <2>2 DEF ReaderRecent
  <2>4. /\ reader' = [reader EXCEPT ![r] = rd]
        /\ UNCHANGED <<version, saving, settled, generation, items>>
    BY <1>3 DEF QueryNodes, cache
  <2> HIDE DEF rd
  <2>5. ReadersRecent' /\ reader' \in [Readers -> Reader]
    BY <2>1, <2>3, <2>4, ReaderMoves
  <2> QED BY <2>4, <2>5 DEF IInv, Typed, EntriesRecent, Recent
<1>4. CASE QueryEdges(r)
  <2> DEFINE rd == [reader[r] EXCEPT !.pc = "store", !.edges = version]
  <2>1. rd \in Reader
    BY <1>1 DEF IInv, Typed, Reader
  <2>2. /\ rd.pc = "store" /\ rd.generation = reader[r].generation
        /\ rd.since = reader[r].since /\ rd.edges = version
        /\ rd.nodes = reader[r].nodes /\ reader[r].pc = "edges"
    BY <1>1, <1>4 DEF QueryEdges, Reader
  <2>3. ReaderRecent(rd)
    BY <1>1, <1>2, <2>2 DEF ReaderRecent
  <2>4. /\ reader' = [reader EXCEPT ![r] = rd]
        /\ UNCHANGED <<version, saving, settled, generation, items>>
    BY <1>4 DEF QueryEdges, cache
  <2> HIDE DEF rd
  <2>5. ReadersRecent' /\ reader' \in [Readers -> Reader]
    BY <2>1, <2>3, <2>4, ReaderMoves
  <2> QED BY <2>4, <2>5 DEF IInv, Typed, EntriesRecent, Recent
<1> QED BY <1>3, <1>4

LEMMA StoreInv ==
  ASSUME IInv, NEW r \in Readers, Store(r)
  PROVE  IInv'
<1>1. reader[r] \in Reader /\ ReaderRecent(reader[r]) /\ reader[r].pc = "store"
  BY DEF IInv, Typed, ReadersRecent, Store
<1>2. ReadersRecent' /\ reader' \in [Readers -> Reader]
  <2> DEFINE rd == [reader[r] EXCEPT !.pc = "idle"]
  <2>1. rd \in Reader
    BY <1>1 DEF Reader
  <2>2. ReaderRecent(rd)
    BY <1>1 DEF Reader, ReaderRecent
  <2>3. /\ reader' = [reader EXCEPT ![r] = rd]
        /\ UNCHANGED <<version, saving, settled, generation>>
    BY DEF Store
  <2> HIDE DEF rd
  <2> QED BY <2>1, <2>2, <2>3, ReaderMoves
<1>3. PICK b \in Sizes :
        \/ UNCHANGED items
        \/ /\ reader[r].generation = generation
           /\ \E evicted : items' = [x \in Keys |-> IF x \in evicted THEN NoEntry ELSE
                [items EXCEPT ![reader[r].key] =
                   [nodes |-> reader[r].nodes, edges |-> reader[r].edges, bytes |-> b]][x]]
  BY Zenon DEF Store, Storable
<1>4. CASE UNCHANGED items
  BY <1>2, <1>4 DEF Store, IInv, Typed, EntriesRecent, Recent
<1>5. CASE ~UNCHANGED items
  <2> DEFINE e == [nodes |-> reader[r].nodes, edges |-> reader[r].edges, bytes |-> b]
  <2>1. /\ e \in Entries /\ Recent(e.nodes) /\ Recent(e.edges)
    BY <1>1, <1>3, <1>5 DEF Entries, Reader, ReaderRecent
  <2>2. PICK evicted : items' = [x \in Keys |-> IF x \in evicted THEN NoEntry ELSE
                                   [items EXCEPT ![reader[r].key] = e][x]]
    BY <1>3, <1>5
  <2> HIDE DEF e
  <2>3. \A x \in Keys : items'[x] \in {NoEntry, e, items[x]}
    BY <2>2 DEF IInv, Typed
  <2>4. items' \in [Keys -> Entries \cup {NoEntry}]
    BY <2>1, <2>2, <2>3 DEF IInv, Typed
  <2>5. EntriesRecent'
    BY <2>1, <2>3 DEF Store, IInv, EntriesRecent, Recent
  <2> QED BY <1>2, <2>4, <2>5 DEF Store, IInv, Typed
<1> QED BY <1>4, <1>5

LEMMA NextInv == IInv /\ [Next]_vars => IInv'
<1> SUFFICES ASSUME IInv, [Next]_vars PROVE IInv'
  OBVIOUS
<1>1. CASE UNCHANGED vars
  BY <1>1 DEF vars, cache, IInv, Typed, EntriesRecent, ReadersRecent, ReaderRecent, Recent
<1> QED
  BY <1>1, CommitInv, InvalidateInv, RestartInv, LookupInv, QueryInv, StoreInv DEF Next

THEOREM GraphCacheInvariant == Spec => []IInv
BY InitInv, NextInv, PTL DEF Spec

LEMMA InvCurrent == IInv => CacheIsCurrent
BY DEF IInv, EntriesRecent, Recent, CacheIsCurrent

LEMMA InvNotOlder == IInv => RepliesNotOlderThanSave
BY DEF IInv, ReadersRecent, ReaderRecent, RepliesNotOlderThanSave

(* Between saves every entry of the response cache is a response to the    *)
(* current graph, whatever the threads were computing during a save.       *)
THEOREM CacheHoldsCurrentGraph == Spec => []CacheIsCurrent
BY GraphCacheInvariant, InvCurrent, PTL

(* A request is never answered with a graph older than the last save that  *)
(* had returned when the request arrived.                                  *)
THEOREM RepliesFollowSaves == Spec => []RepliesNotOlderThanSave
BY GraphCacheInvariant, InvNotOlder, PTL

-----------------------------------------------------------------------------
(* The sums of MapThenSumSet over a finite set of natural numbers: the     *)
(* recursive equation of the fold has a solution, on which it does not     *)
(* matter which element is picked first.                                   *)

Pick(s) == CHOOSE x \in s : TRUE

(* The equation of the sums that MapThenSumSet folds. *)
SumStep(g, w, s) == g[s] = IF s = {} THEN 0 ELSE w[Pick(s)] + g[s \ {Pick(s)}]

IsSum(g, w, S) ==
  g = [s \in SUBSET S |-> IF s = {} THEN 0 ELSE w[Pick(s)] + g[s \ {Pick(s)}]]

TotalOf(w, S) == MapThenSumSet(LAMBDA x : w[x], S)

LEMMA LeastNumber ==
  ASSUME NEW S \in SUBSET Nat, S # {}
  PROVE  \E m \in S : \A k \in S : m <= k
<1>1. PICK m \in S : \A k \in S : <<k, m>> \notin OpToRel(<, Nat)
  BY WFMin, NatLessThanWellFounded
<1>2. \A k \in S : ~(k < m)
  BY <1>1 DEF OpToRel
<1>3. \A k \in S : k \in Nat
  OBVIOUS
<1>4. \A k \in S : m <= k
  BY <1>2, <1>3
<1> QED BY <1>4

LEMMA PickedElement ==
  ASSUME NEW s, s # {}, IsFiniteSet(s)
  PROVE  /\ Pick(s) \in s
         /\ IsFiniteSet(s \ {Pick(s)})
         /\ Cardinality(s) \in Nat
         /\ Cardinality(s \ {Pick(s)}) \in Nat
         /\ Cardinality(s \ {Pick(s)}) = Cardinality(s) - 1
<1>1. Pick(s) \in s
  BY DEF Pick
<1> QED BY <1>1, FS_RemoveElement, FS_CardinalityType

LEMMA SumsUpTo ==
  ASSUME NEW S, IsFiniteSet(S), NEW w, \A x \in S : w[x] \in Nat, NEW n \in Nat
  PROVE  \E g \in [SUBSET S -> Nat] : \A s \in SUBSET S :
           Cardinality(s) <= n => SumStep(g, w, s)
<1> DEFINE
      Good(g, m) == \A s \in SUBSET S : Cardinality(s) <= m => SumStep(g, w, s)
      bad == {m \in Nat : ~\E g \in [SUBSET S -> Nat] : Good(g, m)}
      Next1(g) == [s \in SUBSET S |-> IF s = {} THEN 0 ELSE w[Pick(s)] + g[s \ {Pick(s)}]]
<1>0. SUFFICES ASSUME bad # {} PROVE FALSE
  OBVIOUS
<1>1. PICK m \in bad : \A k \in bad : m <= k
  <2> HIDE DEF Good
  <2> QED BY <1>0, LeastNumber
<1>2. \A s \in SUBSET S : s # {} =>
         /\ Pick(s) \in s
         /\ s \ {Pick(s)} \in SUBSET S
         /\ Cardinality(s \ {Pick(s)}) \in Nat
         /\ Cardinality(s \ {Pick(s)}) = Cardinality(s) - 1
  BY PickedElement, FS_Subset
<1>3. \A s \in SUBSET S : Cardinality(s) \in Nat
  BY FS_Subset, FS_CardinalityType
<1>4. \A g \in [SUBSET S -> Nat] : Next1(g) \in [SUBSET S -> Nat]
  <2> SUFFICES ASSUME NEW g \in [SUBSET S -> Nat], NEW s \in SUBSET S, s # {}
      PROVE w[Pick(s)] + g[s \ {Pick(s)}] \in Nat
    OBVIOUS
  <2>1. w[Pick(s)] \in Nat /\ g[s \ {Pick(s)}] \in Nat
    BY <1>2
  <2> QED BY <2>1
<1>5. ASSUME m = 0 PROVE FALSE
  <2>1. Good([s \in SUBSET S |-> 0], 0)
    <3> SUFFICES ASSUME NEW s \in SUBSET S, Cardinality(s) <= 0
        PROVE SumStep([t \in SUBSET S |-> 0], w, s)
      OBVIOUS
    <3>1. s = {}
      BY <1>3, FS_EmptySet, FS_Subset
    <3> QED BY <3>1 DEF SumStep
  <2>2. [s \in SUBSET S |-> 0] \in [SUBSET S -> Nat]
    OBVIOUS
  <2> HIDE DEF Good
  <2> QED BY <1>1, <1>5, <2>1, <2>2
<1>6. ASSUME m # 0 PROVE FALSE
  <2>1. m - 1 \in Nat /\ m - 1 \notin bad
    <3>1. m \in Nat /\ \A k \in bad : m <= k
      BY <1>1
    <3> HIDE DEF bad
    <3> QED BY <1>6, <3>1
  <2>2. PICK g \in [SUBSET S -> Nat] : Good(g, m - 1)
    <3> HIDE DEF Good
    <3> QED BY <2>1
  <2>3. Good(Next1(g), m)
    <3> SUFFICES ASSUME NEW s \in SUBSET S, Cardinality(s) <= m
        PROVE SumStep(Next1(g), w, s)
      OBVIOUS
    <3>1. CASE s = {}
      BY <3>1 DEF SumStep
    <3>2. CASE s # {}
      <4> DEFINE t == s \ {Pick(s)}
      <4>1. t \in SUBSET S /\ Cardinality(t) <= m - 1
        BY <1>1, <1>2, <1>3, <3>2
      <4>2. SumStep(g, w, t)
        BY <2>2, <4>1
      <4>3. Next1(g)[t] = g[t]
        BY <4>1, <4>2 DEF SumStep
      <4>4. Next1(g)[s] = w[Pick(s)] + g[t]
        BY <3>2
      <4> QED BY <3>2, <4>3, <4>4 DEF SumStep
    <3> QED BY <3>1, <3>2
  <2>4. Next1(g) \in [SUBSET S -> Nat]
    BY <1>4, <2>2
  <2> HIDE DEF Good, Next1
  <2> QED BY <1>1, <2>3, <2>4
<1> QED BY <1>5, <1>6

LEMMA SumsExist ==
  ASSUME NEW S, IsFiniteSet(S), NEW w, \A x \in S : w[x] \in Nat
  PROVE  \E g : IsSum(g, w, S)
<1>1. PICK g \in [SUBSET S -> Nat] : \A s \in SUBSET S :
        Cardinality(s) <= Cardinality(S) => SumStep(g, w, s)
  <2>1. Cardinality(S) \in Nat
    BY FS_CardinalityType
  <2> QED BY <2>1, SumsUpTo
<1>2. \A s \in SUBSET S : SumStep(g, w, s)
  BY <1>1, FS_Subset
<1> QED BY <1>1, <1>2 DEF IsSum, SumStep

(* The fold is a solution of the equation, and stays one on the subsets.   *)
LEMMA SumIsSolution ==
  ASSUME NEW S, IsFiniteSet(S), NEW w, \A x \in S : w[x] \in Nat
  PROVE  \E g : IsSum(g, w, S) /\ TotalOf(w, S) = g[S]
<1> DEFINE g == CHOOSE g : IsSum(g, w, S)
<1>1. IsSum(g, w, S)
  BY SumsExist
<1>2. TotalOf(w, S) = g[S]
  BY DEF TotalOf, MapThenSumSet, MapThenFoldSet, IsSum, Pick
<1> QED BY <1>1, <1>2

LEMMA SumsAgree ==
  ASSUME NEW S, IsFiniteSet(S), NEW T \in SUBSET S, NEW v, NEW w,
         \A x \in T : v[x] = w[x],
         NEW g, IsSum(g, v, S), NEW h, IsSum(h, w, T)
  PROVE  g[T] = h[T]
<1> DEFINE bad == {n \in Nat : \E s \in SUBSET T : Cardinality(s) = n /\ g[s] # h[s]}
<1>1. \A s \in SUBSET T : IsFiniteSet(s) /\ Cardinality(s) \in Nat
  BY FS_Subset, FS_CardinalityType
<1>2. SUFFICES ASSUME bad # {} PROVE FALSE
  BY <1>1
<1>3. PICK n \in bad : \A k \in bad : n <= k
  BY <1>2, LeastNumber
<1>4. PICK s \in SUBSET T : Cardinality(s) = n /\ g[s] # h[s]
  BY <1>3
<1> DEFINE c == Pick(s)
           t == s \ {c}
<1>5. CASE s = {}
  BY <1>4, <1>5 DEF IsSum
<1>6. CASE s # {}
  <2>1. c \in s /\ Cardinality(t) \in Nat /\ Cardinality(t) = n - 1 /\ t \in SUBSET T
    BY <1>1, <1>4, <1>6, PickedElement
  <2>2. g[s] = v[c] + g[t] /\ h[s] = w[c] + h[t]
    BY <1>4, <1>6 DEF IsSum
  <2>3. v[c] = w[c]
    BY <2>1
  <2>4. g[t] # h[t]
    BY <1>4, <2>2, <2>3
  <2>5. n - 1 \in bad
    BY <2>1, <2>4
  <2>6. n \in Nat /\ n <= n - 1
    BY <1>3, <2>5
  <2> QED BY <2>6
<1> QED BY <1>5, <1>6

LEMMA SumOfSubset ==
  ASSUME NEW S, IsFiniteSet(S), NEW w, \A x \in S : w[x] \in Nat,
         NEW g, IsSum(g, w, S), NEW T \in SUBSET S
  PROVE  TotalOf(w, T) = g[T]
<1>1. IsFiniteSet(T) /\ \A x \in T : w[x] \in Nat
  BY FS_Subset
<1>2. PICK h : IsSum(h, w, T) /\ TotalOf(w, T) = h[T]
  BY <1>1, SumIsSolution
<1>3. g[T] = h[T]
  BY <1>2, SumsAgree
<1> QED BY <1>2, <1>3

LEMMA SumSame ==
  ASSUME NEW S, IsFiniteSet(S), NEW v, NEW w,
         \A x \in S : w[x] \in Nat /\ v[x] = w[x]
  PROVE  TotalOf(v, S) = TotalOf(w, S)
<1>1. PICK h : IsSum(h, w, S) /\ TotalOf(w, S) = h[S]
  BY SumIsSolution
<1>2. PICK g : IsSum(g, v, S) /\ TotalOf(v, S) = g[S]
  BY SumIsSolution
<1>3. g[S] = h[S]
  BY <1>1, <1>2, SumsAgree
<1> QED BY <1>1, <1>2, <1>3

LEMMA SumEmpty == ASSUME NEW w PROVE TotalOf(w, {}) = 0
<1>1. IsFiniteSet({}) /\ \A x \in {} : w[x] \in Nat
  BY FS_EmptySet
<1>2. PICK g : IsSum(g, w, {}) /\ TotalOf(w, {}) = g[{}]
  BY <1>1, SumIsSolution
<1> QED BY <1>2 DEF IsSum

(* The sum of a set is the weight of the element the fold picks, and the   *)
(* sum of the others.                                                      *)
LEMMA SumPick ==
  ASSUME NEW S, IsFiniteSet(S), S # {}, NEW w, \A x \in S : w[x] \in Nat
  PROVE  TotalOf(w, S) = w[Pick(S)] + TotalOf(w, S \ {Pick(S)})
<1>1. PICK g : IsSum(g, w, S) /\ TotalOf(w, S) = g[S]
  BY SumIsSolution
<1>2. g[S] = w[Pick(S)] + g[S \ {Pick(S)}]
  BY <1>1 DEF IsSum
<1>3. TotalOf(w, S \ {Pick(S)}) = g[S \ {Pick(S)}]
  BY <1>1, SumOfSubset
<1> QED BY <1>1, <1>2, <1>3

LEMMA SumType ==
  ASSUME NEW S, IsFiniteSet(S), NEW w, \A x \in S : w[x] \in Nat
  PROVE  TotalOf(w, S) \in Nat
<1> DEFINE bad == {n \in Nat : \E s \in SUBSET S : Cardinality(s) = n /\ TotalOf(w, s) \notin Nat}
<1>1. \A s \in SUBSET S : IsFiniteSet(s) /\ Cardinality(s) \in Nat
  BY FS_Subset, FS_CardinalityType
<1>2. SUFFICES ASSUME bad # {} PROVE FALSE
  BY <1>1
<1>3. PICK n \in bad : \A k \in bad : n <= k
  BY <1>2, LeastNumber
<1>4. PICK s \in SUBSET S : Cardinality(s) = n /\ TotalOf(w, s) \notin Nat
  BY <1>3
<1>5. s # {}
  <2>1. TotalOf(w, {}) = 0 /\ 0 \in Nat
    BY SumEmpty
  <2> QED BY <1>4, <2>1
<1> DEFINE t == s \ {Pick(s)}
<1>6. /\ Pick(s) \in s /\ t \in SUBSET S
      /\ Cardinality(t) \in Nat /\ Cardinality(t) = n - 1
  BY <1>1, <1>4, <1>5, PickedElement
<1>7. TotalOf(w, s) = w[Pick(s)] + TotalOf(w, t)
  BY <1>1, <1>5, SumPick
<1>8. TotalOf(w, t) \notin Nat
  BY <1>4, <1>6, <1>7
<1>9. n - 1 \in bad
  BY <1>6, <1>8
<1>10. n \in Nat /\ n <= n - 1
  BY <1>3, <1>9
<1> QED BY <1>10

(* The order of the fold does not matter.                                  *)
LEMMA SumRemove ==
  ASSUME NEW S, IsFiniteSet(S), NEW w, \A x \in S : w[x] \in Nat, NEW y \in S
  PROVE  TotalOf(w, S) = w[y] + TotalOf(w, S \ {y})
<1> DEFINE Bad(s) == \E x \in s : TotalOf(w, s) # w[x] + TotalOf(w, s \ {x})
           bad == {n \in Nat : \E s \in SUBSET S : Cardinality(s) = n /\ Bad(s)}
<1>1. \A s \in SUBSET S : IsFiniteSet(s) /\ Cardinality(s) \in Nat /\ TotalOf(w, s) \in Nat
  BY FS_Subset, FS_CardinalityType, SumType
<1>2. SUFFICES ASSUME bad # {} PROVE FALSE
  BY <1>1
<1>3. PICK n \in bad : \A k \in bad : n <= k
  <2> HIDE DEF Bad
  <2> QED BY <1>2, LeastNumber
<1>4. PICK s \in SUBSET S : Cardinality(s) = n /\ Bad(s)
  BY <1>3
<1>5. PICK x \in s : TotalOf(w, s) # w[x] + TotalOf(w, s \ {x})
  BY <1>4
<1> DEFINE c == Pick(s)
<1>6. c \in s /\ s \ {c} \in SUBSET S /\ Cardinality(s \ {c}) = n - 1
  BY <1>1, <1>4, <1>5, PickedElement
<1>7. Cardinality(s \ {x}) = n - 1 /\ s \ {x} \in SUBSET S
  BY <1>1, <1>4, <1>5, FS_RemoveElement
<1>8. TotalOf(w, s) = w[c] + TotalOf(w, s \ {c})
  BY <1>1, <1>5, SumPick
<1>9. x # c /\ x \in s \ {c} /\ c \in s \ {x}
  BY <1>5, <1>6, <1>8
<1>10. \A t \in SUBSET S : Cardinality(t) = n - 1 => ~Bad(t)
  <2> SUFFICES ASSUME NEW t \in SUBSET S, Cardinality(t) = n - 1, Bad(t) PROVE FALSE
    OBVIOUS
  <2>1. n - 1 \in bad
    <3> HIDE DEF Bad
    <3> QED BY <1>1
  <2>2. n \in Nat /\ n <= n - 1
    BY <1>3, <2>1
  <2> QED BY <2>2
<1>11. TotalOf(w, s \ {c}) = w[x] + TotalOf(w, (s \ {c}) \ {x})
  BY <1>6, <1>9, <1>10
<1>12. TotalOf(w, s \ {x}) = w[c] + TotalOf(w, (s \ {x}) \ {c})
  BY <1>7, <1>9, <1>10
<1>13. (s \ {c}) \ {x} = (s \ {x}) \ {c} /\ (s \ {x}) \ {c} \in SUBSET S
  OBVIOUS
<1>14. w[x] \in Nat /\ w[c] \in Nat /\ TotalOf(w, (s \ {x}) \ {c}) \in Nat
  BY <1>1, <1>5, <1>6, <1>13
<1> QED BY <1>5, <1>8, <1>11, <1>12, <1>13, <1>14

-----------------------------------------------------------------------------
(* The LRU order as a sequence that lists a set of keys, each once.        *)

(* s holds the elements of S, each once.                                   *)
Ordered(s, S) ==
  /\ s \in Seq(S)
  /\ \A x \in S : \E i \in 1..Len(s) : s[i] = x
  /\ \A i, j \in 1..Len(s) : s[i] = s[j] => i = j

Prefix(s, n) == {s[i] : i \in 1..n}

LEMMA OrderedCounts ==
  ASSUME NEW S, NEW s, Ordered(s, S)
  PROVE  IsFiniteSet(S) /\ Len(s) \in Nat /\ Cardinality(S) = Len(s)
<1>1. Len(s) \in Nat /\ s \in [1..Len(s) -> S]
  BY DEF Ordered
<1>2. s \in Bijection(1..Len(s), S)
  BY <1>1 DEF Ordered, Bijection, Injection, Surjection, IsInjective
<1>3. ExistsBijection(1..Len(s), S)
  BY <1>2 DEF ExistsBijection
<1>4. IsFiniteSet(1..Len(s)) /\ Cardinality(1..Len(s)) = Len(s)
  BY <1>1, FS_Interval
<1> QED BY <1>1, <1>3, <1>4, FS_Bijection

LEMMA WithoutOrdered ==
  ASSUME NEW S, NEW s, Ordered(s, S), NEW k
  PROVE  Ordered(Without(s, k), S \ {k})
<1> DEFINE r == Without(s, k)
<1>1. s \in Seq(S) /\ Len(s) \in Nat /\ DOMAIN s = 1..Len(s)
  BY DEF Ordered
<1>2. CASE \A i \in DOMAIN s : s[i] # k
  <2>1. r = s
    BY <1>2 DEF Without
  <2>2. k \notin S
    BY <1>1, <1>2 DEF Ordered
  <2>3. S \ {k} = S
    BY <2>2
  <2> QED BY <2>1, <2>3
<1>3. CASE \E i \in DOMAIN s : s[i] = k
  <2>1. PICK i \in DOMAIN s : i = (CHOOSE j \in DOMAIN s : s[j] = k) /\ s[i] = k
    BY <1>3
  <2>2. i \in 1..Len(s)
    BY <1>1, <2>1
  <2> DEFINE a == SubSeq(s, 1, i - 1)
             b == SubSeq(s, i + 1, Len(s))
  <2>3. r = a \o b
    BY <1>3, <2>1 DEF Without, RemoveAt
  <2>4. /\ a \in Seq(S) /\ Len(a) = i - 1
        /\ \A j \in 1..i - 1 : a[j] = s[j]
    BY <1>1, <2>2
  <2>5. /\ b \in Seq(S) /\ Len(b) = Len(s) - i
        /\ \A j \in 1..Len(s) - i : b[j] = s[i + j]
    BY <1>1, <2>2
  <2> HIDE DEF a, b, r
  <2>16. /\ a \o b \in Seq(S) /\ Len(a \o b) = Len(a) + Len(b)
         /\ \A j \in 1..Len(a) + Len(b) :
              (a \o b)[j] = IF j <= Len(a) THEN a[j] ELSE b[j - Len(a)]
    BY <2>4, <2>5, ConcatProperties
  <2>12. r \in Seq(S) /\ Len(r) = Len(s) - 1
    BY <1>1, <2>2, <2>3, <2>4, <2>5, <2>16
  <2>13. ASSUME NEW j \in 1..Len(r), j < i PROVE r[j] = s[j]
    <3>1. j \in 1..Len(a) + Len(b) /\ j <= Len(a) /\ j \in 1..i - 1
      BY <1>1, <2>2, <2>4, <2>5, <2>12, <2>13
    <3> QED BY <2>3, <2>4, <2>16, <3>1
  <2>14. ASSUME NEW j \in 1..Len(r), ~(j < i) PROVE r[j] = s[j + 1]
    <3>1. j - (i - 1) \in 1..Len(s) - i /\ i + (j - (i - 1)) = j + 1
      BY <1>1, <2>2, <2>12, <2>14
    <3>2. r[j] = b[j - (i - 1)]
      <4>1. j \in 1..Len(a) + Len(b) /\ ~(j <= Len(a))
        BY <1>1, <2>2, <2>4, <2>5, <2>12, <2>14
      <4> QED BY <2>3, <2>4, <2>16, <4>1
    <3> QED BY <2>5, <3>1, <3>2
  <2>6. /\ r \in Seq(S) /\ Len(r) = Len(s) - 1
        /\ \A j \in 1..Len(r) : r[j] = IF j < i THEN s[j] ELSE s[j + 1]
    BY <2>12, <2>13, <2>14
  <2>7. \A j \in 1..Len(s) : s[j] = k => j = i
    BY <1>1, <2>1, <2>2 DEF Ordered
  <2>8. \A j \in 1..Len(r) : r[j] \in S \ {k}
    BY <1>1, <2>2, <2>6, <2>7
  <2>9. r \in Seq(S \ {k})
    BY <2>6, <2>8
  <2>10. ASSUME NEW x \in S \ {k} PROVE \E j \in 1..Len(r) : r[j] = x
    <3>1. PICK j \in 1..Len(s) : s[j] = x
      BY DEF Ordered
    <3>2. j # i
      BY <2>1, <3>1
    <3>3. CASE j < i
      BY <1>1, <2>2, <2>6, <3>1, <3>3
    <3>4. CASE j > i
      <4>1. j - 1 \in 1..Len(r) /\ ~(j - 1 < i) /\ (j - 1) + 1 = j
        BY <1>1, <2>2, <2>6, <3>4
      <4>2. r[j - 1] = x
        BY <2>6, <3>1, <4>1
      <4> QED BY <4>1, <4>2
    <3> QED BY <1>1, <2>2, <3>2, <3>3, <3>4
  <2>11. ASSUME NEW x \in 1..Len(r), NEW y \in 1..Len(r), r[x] = r[y] PROVE x = y
    <3> DEFINE At(j) == IF j < i THEN j ELSE j + 1
    <3>1. \A j \in 1..Len(r) : At(j) \in 1..Len(s) /\ r[j] = s[At(j)]
      BY <1>1, <2>2, <2>6
    <3>2. At(x) = At(y)
      <4>1. s[At(x)] = s[At(y)] /\ At(x) \in 1..Len(s) /\ At(y) \in 1..Len(s)
        BY <2>11, <3>1
      <4> HIDE DEF At
      <4> QED BY <4>1 DEF Ordered
    <3> QED BY <1>1, <2>2, <2>6, <3>2
  <2>15. Ordered(r, S \ {k})
    BY <2>9, <2>10, <2>11 DEF Ordered
  <2> QED BY <2>15 DEF r
<1> QED BY <1>2, <1>3

LEMMA ToEndOrdered ==
  ASSUME NEW S, NEW s, Ordered(s, S), NEW k
  PROVE  Ordered(ToEnd(s, k), S \cup {k})
<1> DEFINE a == Without(s, k)
           r == Append(a, k)
<1>1. Ordered(a, S \ {k})
  BY WithoutOrdered
<1> HIDE DEF a
<1>2. a \in Seq(S \cup {k}) /\ Len(a) \in Nat
  BY <1>1 DEF Ordered
<1>3. /\ r \in Seq(S \cup {k}) /\ Len(r) = Len(a) + 1 /\ r[Len(r)] = k
      /\ \A i \in 1..Len(a) : r[i] = a[i] /\ r[i] \in S \ {k}
  BY <1>1, <1>2 DEF Ordered
<1> HIDE DEF r
<1>4. ASSUME NEW x \in S \cup {k} PROVE \E i \in 1..Len(r) : r[i] = x
  <2>1. CASE x = k
    BY <1>2, <1>3, <2>1
  <2>2. CASE x # k
    <3>1. PICK i \in 1..Len(a) : a[i] = x
      BY <1>1, <2>2 DEF Ordered
    <3> QED BY <1>2, <1>3, <3>1
  <2> QED BY <2>1, <2>2
<1>5. ASSUME NEW i \in 1..Len(r), NEW j \in 1..Len(r), r[i] = r[j] PROVE i = j
  <2>1. i = Len(r) \/ i \in 1..Len(a)
    BY <1>2, <1>3
  <2>2. j = Len(r) \/ j \in 1..Len(a)
    BY <1>2, <1>3
  <2>3. CASE i \in 1..Len(a) /\ j \in 1..Len(a)
    BY <1>1, <1>3, <1>5, <2>3 DEF Ordered
  <2> QED BY <1>3, <1>5, <2>1, <2>2, <2>3
<1>6. r = ToEnd(s, k)
  BY DEF ToEnd, a, r
<1>7. Ordered(r, S \cup {k})
  BY <1>3, <1>4, <1>5 DEF Ordered
<1> QED BY <1>6, <1>7

LEMMA RestOrdered ==
  ASSUME NEW S, NEW s, Ordered(s, S), NEW n \in 0..Len(s)
  PROVE  Ordered(SubSeq(s, n + 1, Len(s)), S \ Prefix(s, n))
<1> DEFINE r == SubSeq(s, n + 1, Len(s))
<1>1. s \in Seq(S) /\ Len(s) \in Nat
  BY DEF Ordered
<1>2. /\ r \in Seq(S) /\ Len(r) = Len(s) - n
      /\ \A j \in 1..Len(r) : r[j] = s[n + j]
  BY <1>1
<1> HIDE DEF r
<1>3. \A x \in S : x \in Prefix(s, n) <=> \E i \in 1..n : s[i] = x
  BY DEF Prefix
<1>4. ASSUME NEW j \in 1..Len(r) PROVE r[j] \in S \ Prefix(s, n)
  <2>1. n + j \in 1..Len(s) /\ \A i \in 1..n : i \in 1..Len(s) /\ i # n + j
    BY <1>1, <1>2
  <2>2. s[n + j] \in S /\ \A i \in 1..n : s[i] # s[n + j]
    BY <1>1, <2>1 DEF Ordered
  <2> QED BY <1>2, <1>3, <2>2
<1>5. r \in Seq(S \ Prefix(s, n))
  BY <1>2, <1>4
<1>6. ASSUME NEW x \in S \ Prefix(s, n) PROVE \E j \in 1..Len(r) : r[j] = x
  <2>1. PICK i \in 1..Len(s) : s[i] = x
    BY DEF Ordered
  <2>2. i \notin 1..n
    BY <1>3, <2>1
  <2>3. i - n \in 1..Len(r) /\ n + (i - n) = i
    BY <1>1, <1>2, <2>2
  <2> QED BY <1>2, <2>1, <2>3
<1>7. ASSUME NEW i \in 1..Len(r), NEW j \in 1..Len(r), r[i] = r[j] PROVE i = j
  <2>1. n + i \in 1..Len(s) /\ n + j \in 1..Len(s) /\ s[n + i] = s[n + j]
    BY <1>1, <1>2, <1>7
  <2>2. n + i = n + j
    BY <2>1 DEF Ordered
  <2> QED BY <2>2
<1> QED BY <1>5, <1>6, <1>7 DEF Ordered, r

(* The bytes of the first n keys, as the cache counts them down.           *)
Popped(w, s, n) == MapThenSumSet(LAMBDA i : w[s[i]], 1..n)

LEMMA PoppedIsSum ==
  ASSUME NEW w, NEW s, NEW n \in Nat, \A i \in 1..n : w[s[i]] \in Nat
  PROVE  Popped(w, s, n) = TotalOf([i \in 1..n |-> w[s[i]]], 1..n)
<1> DEFINE v == [i \in 1..n |-> w[s[i]]]
           Body(g) == [t \in SUBSET (1..n) |-> IF t = {} THEN 0
                        ELSE w[s[CHOOSE x \in t : TRUE]] + g[t \ {CHOOSE x \in t : TRUE}]]
           g == CHOOSE g : g = Body(g)
<1>1. IsFiniteSet(1..n)
  <2>1. 1 \in Int /\ n \in Int
    OBVIOUS
  <2> QED BY ONLY <2>1, FS_Interval
<1>2. \A x \in 1..n : v[x] = w[s[x]] /\ v[x] \in Nat
  OBVIOUS
<1>3. \E h : IsSum(h, v, 1..n)
  <2> HIDE DEF v
  <2> QED BY <1>1, <1>2, SumsExist
<1>4. \A h : IsSum(h, v, 1..n) <=> h = Body(h)
  <2>1. \A t \in SUBSET (1..n) : t # {} => Pick(t) \in 1..n
    BY DEF Pick
  <2> QED BY <1>2, <2>1 DEF IsSum, Pick
<1>5. IsSum(g, v, 1..n)
  <2> HIDE DEF v, Body
  <2>1. \E h : h = Body(h)
    BY <1>3, <1>4
  <2>2. g = Body(g)
    BY <2>1
  <2> QED BY <1>4, <2>2
<1>6. Popped(w, s, n) = g[1..n]
  BY DEF Popped, MapThenSumSet, MapThenFoldSet
<1>7. TotalOf(v, 1..n) = g[1..n]
  <2>1. \A x \in 1..n : v[x] \in Nat
    BY <1>2
  <2>2. 1..n \in SUBSET (1..n)
    OBVIOUS
  <2> HIDE DEF v, g
  <2> QED BY <1>1, <1>5, <2>1, <2>2, SumOfSubset
<1> QED BY <1>6, <1>7

LEMMA PoppedNext ==
  ASSUME NEW w, NEW s, NEW n \in Nat, \A i \in 1..n + 1 : w[s[i]] \in Nat
  PROVE  Popped(w, s, n + 1) = w[s[n + 1]] + Popped(w, s, n)
<1> DEFINE v == [i \in 1..n + 1 |-> w[s[i]]]
           u == [i \in 1..n |-> w[s[i]]]
<1>1. /\ n + 1 \in Nat /\ n + 1 \in 1..n + 1 /\ (1..n + 1) \ {n + 1} = 1..n
      /\ \A i \in 1..n : i \in 1..n + 1
  OBVIOUS
<1>2. /\ \A i \in 1..n + 1 : v[i] = w[s[i]] /\ v[i] \in Nat
      /\ \A i \in 1..n : u[i] = v[i] /\ u[i] \in Nat
  BY <1>1
<1>3. Popped(w, s, n + 1) = TotalOf(v, 1..n + 1)
  BY <1>1, PoppedIsSum
<1>4. Popped(w, s, n) = TotalOf(u, 1..n)
  BY <1>1, PoppedIsSum
<1>5. v[n + 1] = w[s[n + 1]]
  BY <1>1
<1> HIDE DEF u, v
<1>6. IsFiniteSet(1..n + 1) /\ IsFiniteSet(1..n)
  BY <1>1, FS_Interval
<1>7. TotalOf(v, 1..n + 1) = v[n + 1] + TotalOf(v, 1..n)
  BY <1>1, <1>2, <1>6, SumRemove
<1>8. TotalOf(v, 1..n) = TotalOf(u, 1..n)
  BY <1>1, <1>2, <1>6, SumSame
<1> QED BY <1>3, <1>4, <1>5, <1>7, <1>8

(* What is popped and what stays add up to the whole.                      *)
LEMMA PoppedAndKept ==
  ASSUME NEW S, NEW s, Ordered(s, S), NEW w, \A x \in S : w[x] \in Nat,
         NEW n \in 0..Len(s)
  PROVE  TotalOf(w, S) = Popped(w, s, n) + TotalOf(w, S \ Prefix(s, n)) /\ Popped(w, s, n) \in Nat
<1> DEFINE Good(p) == /\ TotalOf(w, S) = Popped(w, s, p) + TotalOf(w, S \ Prefix(s, p))
                      /\ Popped(w, s, p) \in Nat
           bad == {p \in 0..Len(s) : ~Good(p)}
<1>1. s \in Seq(S) /\ Len(s) \in Nat /\ IsFiniteSet(S) /\ n \in Nat
  BY OrderedCounts DEF Ordered
<1>2. SUFFICES ASSUME bad # {} PROVE FALSE
  OBVIOUS
<1>3. PICK m \in bad : \A j \in bad : m <= j
  <2>1. bad \in SUBSET Nat
    OBVIOUS
  <2> HIDE DEF bad
  <2> QED BY <1>2, <2>1, LeastNumber
<1>4. m \in 0..Len(s) /\ ~Good(m)
  BY <1>3
<1>5. ASSUME m = 0 PROVE FALSE
  <2>1. 1..0 = {}
    OBVIOUS
  <2>2. Prefix(s, 0) = {}
    BY <2>1 DEF Prefix
  <2>3. Popped(w, s, 0) = TotalOf([i \in 1..0 |-> w[s[i]]], 1..0)
    BY <2>1, PoppedIsSum
  <2>4. Popped(w, s, 0) = 0
    BY <2>1, <2>3, SumEmpty
  <2>5. S \ Prefix(s, 0) = S
    BY <2>2
  <2>6. TotalOf(w, S) \in Nat
    BY <1>1, SumType
  <2>7. TotalOf(w, S) = 0 + TotalOf(w, S)
    BY <2>6
  <2>8. Good(0)
    <3>1. Popped(w, s, 0) \in Nat
      BY <2>4
    <3>2. TotalOf(w, S) = Popped(w, s, 0) + TotalOf(w, S)
      BY <2>4, <2>7
    <3>3. TotalOf(w, S) = Popped(w, s, 0) + TotalOf(w, S \ Prefix(s, 0))
      BY <2>5, <3>2
    <3> QED BY <3>1, <3>3
  <2> QED BY <1>4, <1>5, <2>8
<1>6. ASSUME m # 0 PROVE FALSE
  <2> DEFINE l == m - 1
             x == s[m]
             K == S \ Prefix(s, l)
  <2>1. l \in 0..Len(s) /\ l \in Nat /\ l + 1 = m /\ m \in 1..Len(s)
    BY <1>1, <1>4, <1>6
  <2>2. Good(l)
    <3>1. l \in bad => m <= l
      BY <1>3
    <3>2. ~(m <= l)
      BY <1>4, <2>1
    <3> QED BY <2>1, <3>1, <3>2
  <2>3. x \in K
    <3>1. x \in S
      BY <1>1, <2>1
    <3>2. \A i \in 1..l : s[i] # x
      BY <1>1, <2>1 DEF Ordered
    <3> QED BY <3>1, <3>2 DEF Prefix
  <2>4. S \ Prefix(s, m) = K \ {x}
    <3>1. \A y : y \in Prefix(s, m) <=> \E i \in 1..m : s[i] = y
      BY DEF Prefix
    <3>2. \A y : y \in Prefix(s, l) <=> \E i \in 1..l : s[i] = y
      BY DEF Prefix
    <3>3. \A i : i \in 1..m <=> i \in 1..l \/ i = m
      BY <2>1
    <3> QED BY <3>1, <3>2, <3>3
  <2>5. \A i \in 1..m : s[i] \in S
    BY <1>1, <2>1
  <2>6. Popped(w, s, l + 1) = w[s[l + 1]] + Popped(w, s, l)
    <3>1. \A i \in 1..l + 1 : w[s[i]] \in Nat
      BY <2>1, <2>5
    <3> HIDE DEF l
    <3> QED BY <2>1, <3>1, PoppedNext
  <2>7. Popped(w, s, m) = w[x] + Popped(w, s, l)
    BY <2>1, <2>6
  <2>8. IsFiniteSet(K) /\ \A y \in K : w[y] \in Nat
    BY <1>1, FS_Subset
  <2>9. IsFiniteSet(K \ {x}) /\ TotalOf(w, K \ {x}) \in Nat
    <3>1. IsFiniteSet(K \ {x})
      BY <2>8, FS_RemoveElement
    <3> QED BY <2>8, <3>1, SumType
  <2>10. TotalOf(w, K) = w[x] + TotalOf(w, K \ {x})
    <3> HIDE DEF K, x
    <3> QED BY <2>3, <2>8, SumRemove
  <2>11. w[x] \in Nat
    BY <2>3
  <2>12. TotalOf(w, S) = Popped(w, s, l) + TotalOf(w, K) /\ Popped(w, s, l) \in Nat
    BY <2>2
  <2>13. Good(m)
    <3> HIDE DEF K, x, l
    <3>1. Popped(w, s, m) \in Nat
      BY <2>7, <2>11, <2>12
    <3>2. TotalOf(w, S) = Popped(w, s, m) + TotalOf(w, K \ {x})
      BY <2>7, <2>9, <2>10, <2>11, <2>12
    <3> QED BY <2>4, <3>1, <3>2
  <2> QED BY <1>4, <2>13
<1> QED BY <1>5, <1>6

-----------------------------------------------------------------------------
(* The accounting of the cache: what `recency` and `size` say of `items`.  *)
Kept == {k \in Keys : items[k] # NoEntry}

Weights(f) == [k \in Keys |-> f[k].bytes]

AccountInv ==
  /\ Ordered(recency, Kept)
  /\ size = TotalOf(Weights(items), Kept)
  /\ size <= MaxBytes
  /\ Len(recency) <= MaxEntries

CacheInv == IInv /\ AccountInv

LEMMA WeightsAreNumbers ==
  ASSUME NEW f \in [Keys -> Entries \cup {NoEntry}], NEW k \in Keys
  PROVE  /\ Weights(f)[k] = f[k].bytes
         /\ f[k].bytes \in Nat
         /\ f[k] = NoEntry => f[k].bytes = 0
<1>1. Weights(f)[k] = f[k].bytes
  BY DEF Weights
<1>2. CASE f[k] = NoEntry
  BY <1>1, <1>2 DEF NoEntry
<1>3. CASE f[k] # NoEntry
  <2>1. f[k].bytes \in Sizes
    BY <1>3 DEF Entries
  <2> QED BY <1>1, <1>3, <2>1, BoundsAssumption
<1> QED BY <1>2, <1>3

LEMMA EmptyOrdered == Ordered(<<>>, {})
BY DEF Ordered

LEMMA InitAccount == Init => AccountInv
<1> SUFFICES ASSUME Init PROVE AccountInv
  OBVIOUS
<1>1. Kept = {}
  BY DEF Init, Kept
<1>2. recency = <<>> /\ size = 0 /\ Len(recency) = 0
  BY DEF Init
<1> QED BY <1>1, <1>2, EmptyOrdered, SumEmpty, BoundsAssumption DEF AccountInv

LEMMA ClearAccount ==
  ASSUME items' = [k \in Keys |-> NoEntry], recency' = <<>>, size' = 0
  PROVE  AccountInv'
<1>1. Kept' = {}
  BY DEF Kept
<1>2. Len(recency') = 0
  OBVIOUS
<1> QED BY <1>1, <1>2, EmptyOrdered, SumEmpty, BoundsAssumption DEF AccountInv

LEMMA CacheUnchanged ==
  ASSUME AccountInv, UNCHANGED <<items, recency, size>> PROVE AccountInv'
BY DEF AccountInv, Kept, Ordered

LEMMA HitAccount ==
  ASSUME CacheInv, NEW r \in Readers, NEW k \in Keys, Hit(r, k)
  PROVE  AccountInv'
<1>1. Kept \cup {k} = Kept /\ Kept' = Kept /\ UNCHANGED <<items, size>>
  BY DEF Hit, Kept
<1>2. Ordered(recency', Kept)
  BY <1>1, ToEndOrdered DEF Hit, CacheInv, AccountInv
<1>3. Len(recency') = Len(recency)
  BY <1>2, OrderedCounts DEF CacheInv, AccountInv
<1> QED BY <1>1, <1>2, <1>3 DEF CacheInv, AccountInv

(* A response of b bytes replaces the entry of its key: the count less the *)
(* bytes of the old entry, plus the new ones, is the sum again.            *)
LEMMA AddedTotal ==
  ASSUME CacheInv, NEW k \in Keys, NEW e \in Entries,
         NEW added, added = [items EXCEPT ![k] = e]
  PROVE  /\ added \in [Keys -> Entries \cup {NoEntry}]
         /\ {x \in Keys : added[x] # NoEntry} = Kept \cup {k}
         /\ IsFiniteSet(Kept \cup {k})
         /\ Replaced(k) + e.bytes = TotalOf(Weights(added), Kept \cup {k})
<1>1. items \in [Keys -> Entries \cup {NoEntry}]
  BY DEF CacheInv, IInv, Typed
<1>2. added \in [Keys -> Entries \cup {NoEntry}]
  BY <1>1
<1>3. e # NoEntry /\ e.bytes \in Nat
  <2>1. e.bytes \in Sizes
    BY DEF Entries
  <2>2. e.bytes \in Nat /\ e.bytes # 0
    BY <2>1, BoundsAssumption
  <2> QED BY <2>2 DEF NoEntry
<1>4. {x \in Keys : added[x] # NoEntry} = Kept \cup {k}
  BY <1>1, <1>3 DEF Kept
<1>5. IsFiniteSet(Kept) /\ IsFiniteSet(Kept \cup {k}) /\ IsFiniteSet(Kept \ {k})
  BY OrderedCounts, FS_AddElement, FS_RemoveElement DEF CacheInv, AccountInv
<1> DEFINE v == Weights(items)
           w == Weights(added)
<1>6. \A x \in Keys : v[x] = items[x].bytes /\ v[x] \in Nat
  BY <1>1, WeightsAreNumbers
<1>7. \A x \in Keys : w[x] = added[x].bytes /\ w[x] \in Nat
  BY <1>2, WeightsAreNumbers
<1>8. w[k] = e.bytes /\ \A x \in Kept \ {k} : v[x] = w[x] /\ w[x] \in Nat
  BY <1>1, <1>6, <1>7 DEF Kept
<1>9. /\ \A x \in Kept : v[x] \in Nat
      /\ \A x \in Kept \cup {k} : w[x] \in Nat
      /\ \A x \in Kept \ {k} : v[x] \in Nat
  BY <1>6, <1>7 DEF Kept
<1> HIDE DEF v, w
<1>10. TotalOf(w, Kept \cup {k}) = w[k] + TotalOf(w, Kept \ {k})
  <2>1. (Kept \cup {k}) \ {k} = Kept \ {k} /\ k \in Kept \cup {k}
    OBVIOUS
  <2> QED BY <1>5, <1>9, <2>1, SumRemove
<1>11. TotalOf(v, Kept \ {k}) = TotalOf(w, Kept \ {k})
  BY <1>5, <1>8, SumSame
<1>12. TotalOf(v, Kept) = v[k] + TotalOf(v, Kept \ {k})
  <2>1. CASE k \in Kept
    BY <1>5, <1>9, <2>1, SumRemove
  <2>2. CASE k \notin Kept
    <3>1. items[k] = NoEntry /\ Kept \ {k} = Kept
      BY <2>2 DEF Kept
    <3>2. v[k] = 0
      BY <1>6, <3>1 DEF NoEntry
    <3>3. TotalOf(v, Kept) \in Nat
      BY <1>5, <1>9, SumType
    <3> QED BY <3>1, <3>2, <3>3
  <2> QED BY <2>1, <2>2
<1>13. TotalOf(v, Kept \ {k}) \in Nat
  BY <1>5, <1>9, SumType
<1>14. size = TotalOf(v, Kept)
  BY DEF CacheInv, AccountInv, v
<1>15. Replaced(k) + e.bytes = w[k] + TotalOf(w, Kept \ {k})
  BY <1>3, <1>6, <1>8, <1>11, <1>12, <1>13, <1>14 DEF Replaced
<1> QED BY <1>2, <1>4, <1>5, <1>10, <1>15 DEF w

(* Popping from the front ends, at the latest with the cache empty.        *)
LEMMA EvictionEnds ==
  ASSUME NEW S, NEW order, Ordered(order, S), NEW w, \A x \in S : w[x] \in Nat,
         NEW total, total = TotalOf(w, S),
         NEW n, n = Min({m \in 0..Len(order) : Evictable(m, order, total, w)})
  PROVE  n \in 0..Len(order) /\ Evictable(n, order, total, w)
<1> DEFINE enough == {m \in 0..Len(order) : Evictable(m, order, total, w)}
           l == Len(order)
<1>1. l \in Nat /\ l \in 0..l
  BY OrderedCounts
<1>2. Prefix(order, l) = S
  <2>1. \A x \in S : \E i \in 1..l : order[i] = x
    BY DEF Ordered
  <2>2. \A i \in 1..l : order[i] \in S
    BY <1>1 DEF Ordered
  <2> QED BY <2>1, <2>2 DEF Prefix
<1>3. TotalOf(w, S) = Popped(w, order, l) + TotalOf(w, S \ S) /\ Popped(w, order, l) \in Nat
  <2>1. /\ TotalOf(w, S) = Popped(w, order, l) + TotalOf(w, S \ Prefix(order, l))
        /\ Popped(w, order, l) \in Nat
    BY <1>1, PoppedAndKept
  <2> HIDE DEF l
  <2> QED BY <1>2, <2>1
<1>4. TotalOf(w, S \ S) = 0
  <2>1. S \ S = {}
    OBVIOUS
  <2> QED BY <2>1, SumEmpty
<1>5. total - Popped(w, order, l) = 0
  <2> HIDE DEF l
  <2> QED BY <1>3, <1>4
<1>6. Evictable(l, order, total, w)
  BY <1>1, <1>5, BoundsAssumption DEF Evictable, Popped
<1>7. l \in enough /\ enough \in SUBSET Nat
  BY <1>1, <1>6
<1>8. \E m \in enough : \A j \in enough : m <= j
  <2> HIDE DEF enough
  <2> QED BY <1>7, LeastNumber
<1>9. n \in enough
  BY <1>8 DEF Min
<1> QED BY <1>9

LEMMA StoreAccount ==
  ASSUME CacheInv, NEW r \in Readers, Store(r)
  PROVE  AccountInv'
<1> DEFINE k == reader[r].key
<1>1. PICK b \in Sizes :
        \/ UNCHANGED <<items, recency, size>>
        \/ LET added == [items EXCEPT ![k] = [nodes |-> reader[r].nodes,
                                              edges |-> reader[r].edges, bytes |-> b]]
               bytes == [x \in Keys |-> added[x].bytes]
               order == ToEnd(recency, k)
               total == Replaced(k) + b
               enough == {n \in 0..Len(order) : Evictable(n, order, total, bytes)}
               n == Min(enough)
               evicted == {order[i] : i \in 1..n}
           IN  /\ items' = [x \in Keys |-> IF x \in evicted THEN NoEntry ELSE added[x]]
               /\ recency' = SubSeq(order, n + 1, Len(order))
               /\ size' = total - MapThenSumSet(LAMBDA i : bytes[order[i]], 1..n)
  BY Zenon DEF Store
<1>2. CASE UNCHANGED <<items, recency, size>>
  BY <1>2, CacheUnchanged DEF CacheInv
<1>3. CASE ~UNCHANGED <<items, recency, size>>
  <2> DEFINE e == [nodes |-> reader[r].nodes, edges |-> reader[r].edges, bytes |-> b]
             added == [items EXCEPT ![k] = e]
             w == Weights(added)
             order == ToEnd(recency, k)
             S == Kept \cup {k}
             total == Replaced(k) + b
             n == Min({m \in 0..Len(order) : Evictable(m, order, total, w)})
             T == S \ Prefix(order, n)
  <2>2. e \in Entries /\ e.bytes = b /\ k \in Keys
    BY DEF CacheInv, IInv, Typed, Reader, Entries
  <2>8. /\ items' = [x \in Keys |-> IF x \in Prefix(order, n) THEN NoEntry ELSE added[x]]
        /\ recency' = SubSeq(order, n + 1, Len(order))
        /\ size' = total - Popped(w, order, n)
    <3>1. items' = [x \in Keys |-> IF x \in Prefix(order, n) THEN NoEntry ELSE added[x]]
      BY <1>1, <1>3 DEF Prefix, Weights
    <3>2. recency' = SubSeq(order, n + 1, Len(order))
      BY <1>1, <1>3 DEF Weights
    <3>3. size' = total - Popped(w, order, n)
      BY <1>1, <1>3, Zenon DEF Popped, Weights
    <3> QED BY <3>1, <3>2, <3>3
  <2>24. /\ added = [items EXCEPT ![k] = e] /\ w = Weights(added)
         /\ order = ToEnd(recency, k) /\ S = Kept \cup {k} /\ T = S \ Prefix(order, n)
         /\ total = Replaced(k) + b
         /\ n = Min({m \in 0..Len(order) : Evictable(m, order, total, w)})
    OBVIOUS
  <2> HIDE DEF k, e, added, w, order, S, total, n, T
  <2>9. /\ added \in [Keys -> Entries \cup {NoEntry}]
        /\ {x \in Keys : added[x] # NoEntry} = S
        /\ IsFiniteSet(S)
        /\ total = TotalOf(w, S)
    BY <2>2, <2>24, AddedTotal
  <2>10. Ordered(order, S)
    BY <2>24, ToEndOrdered DEF CacheInv, AccountInv
  <2>11. \A x \in Keys : w[x] = added[x].bytes /\ w[x] \in Nat
    BY <2>9, <2>24, WeightsAreNumbers
  <2>12. \A x \in S : w[x] \in Nat
    BY <2>9, <2>11
  <2>13. n \in 0..Len(order) /\ Evictable(n, order, total, w)
    BY <2>9, <2>10, <2>12, <2>24, EvictionEnds
  <2>14. /\ TotalOf(w, S) = Popped(w, order, n) + TotalOf(w, S \ Prefix(order, n))
         /\ Popped(w, order, n) \in Nat
    BY <2>10, <2>12, <2>13, PoppedAndKept
  <2>15. T = S \ Prefix(order, n)
    BY <2>24
  <2>16. IsFiniteSet(T) /\ \A x \in T : w[x] \in Nat
    BY <2>9, <2>12, <2>15, FS_Subset
  <2>17. TotalOf(w, T) \in Nat
    BY <2>16, SumType
  <2>18. size' = TotalOf(w, T) /\ size' <= MaxBytes
    <3>1. total - Popped(w, order, n) <= MaxBytes
      BY <2>13 DEF Evictable, Popped
    <3>2. TotalOf(w, S) = Popped(w, order, n) + TotalOf(w, T)
      BY <2>14, <2>15
    <3>3. total = TotalOf(w, S) /\ size' = total - Popped(w, order, n)
      BY <2>8, <2>9
    <3>4. size' = TotalOf(w, T)
      BY <2>14, <2>17, <3>2, <3>3
    <3> QED BY <3>1, <3>3, <3>4
  <2>19. Kept' = T
    <3>1. \A x : x \in Kept' <=> x \in Keys /\ items'[x] # NoEntry
      BY DEF Kept
    <3>2. \A x \in Keys : x \in S <=> added[x] # NoEntry
      BY <2>9
    <3>3. \A x \in S : x \in Keys
      BY <2>9
    <3> QED BY <2>8, <2>15, <3>1, <3>2, <3>3
  <2>20. \A x \in T : Weights(items)'[x] = w[x]
    <3>1. \A x \in T : x \in Keys /\ items'[x] = added[x]
      BY <2>8, <2>9, <2>15
    <3> QED BY <2>11, <3>1 DEF Weights
  <2>21. TotalOf(Weights(items)', T) = TotalOf(w, T)
    BY <2>16, <2>20, SumSame
  <2>22. Ordered(recency', T)
    BY <2>8, <2>10, <2>13, <2>15, RestOrdered
  <2>23. Len(recency') <= MaxEntries
    <3>1. order \in Seq(S) /\ Len(order) \in Nat
      BY <2>10, OrderedCounts DEF Ordered
    <3>2. Len(recency') = Len(order) - n
      BY <2>8, <2>13, <3>1
    <3> QED BY <2>13, <3>2 DEF Evictable
  <2> QED BY <2>18, <2>19, <2>21, <2>22, <2>23 DEF AccountInv
<1> QED BY <1>2, <1>3

LEMMA NextAccount == CacheInv /\ [Next]_vars => CacheInv'
<1> SUFFICES ASSUME CacheInv, [Next]_vars PROVE CacheInv'
  OBVIOUS
<1>1. IInv'
  BY NextInv DEF CacheInv
<1>2. ASSUME UNCHANGED vars PROVE AccountInv'
  BY <1>2, CacheUnchanged DEF vars, cache, CacheInv
<1>3. ASSUME Commit PROVE AccountInv'
  BY <1>3, CacheUnchanged DEF Commit, cache, CacheInv
<1>4. ASSUME Invalidate PROVE AccountInv'
  BY <1>4, ClearAccount DEF Invalidate
<1>5. ASSUME Restart PROVE AccountInv'
  BY <1>5, ClearAccount DEF Restart
<1>6. ASSUME NEW r \in Readers, NEW k \in Keys, Hit(r, k) PROVE AccountInv'
  BY <1>6, HitAccount
<1>7. ASSUME NEW r \in Readers, NEW k \in Keys, Miss(r, k) PROVE AccountInv'
  BY <1>7, CacheUnchanged DEF Miss, cache, CacheInv
<1>8. ASSUME NEW r \in Readers, QueryNodes(r) \/ QueryEdges(r) PROVE AccountInv'
  BY <1>8, CacheUnchanged DEF QueryNodes, QueryEdges, cache, CacheInv
<1>9. ASSUME NEW r \in Readers, Store(r) PROVE AccountInv'
  BY <1>9, StoreAccount
<1>10. AccountInv'
  BY <1>2, <1>3, <1>4, <1>5, <1>6, <1>7, <1>8, <1>9 DEF Next
<1> QED BY <1>1, <1>10 DEF CacheInv

THEOREM CacheInvariant == Spec => []CacheInv
<1>1. Init => CacheInv
  BY InitInv, InitAccount DEF CacheInv
<1> QED BY <1>1, NextAccount, PTL DEF Spec

LEMMA InvAccounted == CacheInv => SizeAccounted
<1> SUFFICES ASSUME CacheInv PROVE SizeAccounted
  OBVIOUS
<1>1. /\ Ordered(recency, Kept) /\ size = TotalOf(Weights(items), Kept)
      /\ size <= MaxBytes /\ Len(recency) <= MaxEntries
  BY DEF CacheInv, AccountInv
<1>2. recency \in Seq(Kept) /\ Len(recency) = Cardinality(Kept) /\ Len(recency) \in Nat
      /\ IsFiniteSet(Kept)
  BY <1>1, OrderedCounts DEF Ordered
<1>3. {recency[i] : i \in DOMAIN recency} = Kept
  <2>1. DOMAIN recency = 1..Len(recency)
    BY <1>2
  <2>2. \A i \in 1..Len(recency) : recency[i] \in Kept
    BY <1>2
  <2>3. \A x \in Kept : \E i \in 1..Len(recency) : recency[i] = x
    BY <1>1 DEF Ordered
  <2> QED BY <2>1, <2>2, <2>3
<1>4. MapThenSumSet(LAMBDA k : items[k].bytes, Kept) = TotalOf(Weights(items), Kept)
  <2> DEFINE w == Weights(items)
             Body(g) == [s \in SUBSET Kept |-> IF s = {} THEN 0
                          ELSE items[CHOOSE x \in s : TRUE].bytes
                               + g[s \ {CHOOSE x \in s : TRUE}]]
             g == CHOOSE g : g = Body(g)
  <2>1. \A x \in Kept : w[x] = items[x].bytes /\ w[x] \in Nat
    BY WeightsAreNumbers DEF Kept, CacheInv, IInv, Typed
  <2> HIDE DEF w
  <2>2. \A h : IsSum(h, w, Kept) <=> h = Body(h)
    <3>1. \A s \in SUBSET Kept : s # {} => Pick(s) \in Kept
      BY DEF Pick
    <3> QED BY <2>1, <3>1 DEF IsSum, Pick
  <2>3. \E h : IsSum(h, w, Kept)
    BY <1>2, <2>1, SumsExist
  <2>4. IsSum(g, w, Kept)
    <3> HIDE DEF Body
    <3>1. \E h : h = Body(h)
      BY <2>2, <2>3
    <3>2. g = Body(g)
      BY <3>1
    <3> QED BY <2>2, <3>2
  <2>5. MapThenSumSet(LAMBDA k : items[k].bytes, Kept) = g[Kept]
    BY DEF MapThenSumSet, MapThenFoldSet
  <2>6. TotalOf(w, Kept) = g[Kept]
    <3>1. \A x \in Kept : w[x] \in Nat
      BY <2>1
    <3>2. Kept \in SUBSET Kept
      OBVIOUS
    <3> HIDE DEF g
    <3> QED BY <1>2, <2>4, <3>1, <3>2, SumOfSubset
  <2> QED BY <2>5, <2>6 DEF w
<1> QED BY <1>1, <1>2, <1>3, <1>4 DEF SizeAccounted, Kept

(* Through replacement, eviction and invalidation the byte count is the    *)
(* sum over the entries kept, the LRU order lists each of them once, and   *)
(* both bounds hold whenever the lock is free.                             *)
THEOREM SizeIsAccounted == Spec => []SizeAccounted
BY CacheInvariant, InvAccounted, PTL

LEMMA InvTyped == CacheInv => TypeOK
<1> SUFFICES ASSUME CacheInv PROVE TypeOK
  OBVIOUS
<1>1. Ordered(recency, Kept) /\ IsFiniteSet(Kept)
  BY OrderedCounts DEF CacheInv, AccountInv
<1>2. recency \in Seq(Keys)
  BY <1>1 DEF Ordered, Kept
<1>3. \A k \in Kept : Weights(items)[k] \in Nat
  BY WeightsAreNumbers DEF Kept, CacheInv, IInv, Typed
<1>4. size \in Nat
  BY <1>1, <1>3, SumType DEF CacheInv, AccountInv
<1> QED BY <1>2, <1>4 DEF TypeOK, CacheInv, IInv, Typed

(* Every variable of the response cache keeps its type: in particular the  *)
(* byte count never falls below zero.                                      *)
THEOREM TypeCorrect == Spec => []TypeOK
BY CacheInvariant, InvTyped, PTL
=============================================================================
