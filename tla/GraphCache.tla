----------------------------- MODULE GraphCache -----------------------------
(***************************************************************************)
(* The response cache of /api/graph (app/graph_cache.py): threads of the   *)
(* server's pool look a request up, compute it without the lock and store  *)
(* it, while the event loop commits new graphs and invalidates the cache   *)
(* (`_save` in app/service.py).                                            *)
(*                                                                         *)
(* The graph tables are abstracted to the number of graphs committed so    *)
(* far; a computed response to the versions its two queries saw.  Time is  *)
(* left out: an entry may count as expired at any lookup.                  *)
(***************************************************************************)
EXTENDS Naturals, SequencesExt

CONSTANTS
  Readers,      \* server threads
  Keys,         \* distinct argument lists
  Sizes,        \* payload sizes in bytes
  MaxBytes,     \* max_bytes
  MaxEntries,   \* max_entries
  MaxVersion    \* bound: graphs committed

ASSUME BoundsAssumption ==
  /\ Sizes \subseteq Nat \ {0}
  /\ MaxBytes \in Nat
  /\ MaxEntries \in Nat \ {0}
  /\ MaxVersion \in Nat

VARIABLES
  version,     \* database: graphs committed so far
  saving,      \* _save has committed and not yet invalidated
  settled,     \* version at the last completed _save
  generation,  \* GraphCache.generation
  items,       \* GraphCache.items, NoEntry for an absent key
  recency,     \* the keys of items, least recently used first
  size,        \* GraphCache.size
  reader       \* the local variables of each thread

vars == <<version, saving, settled, generation, items, recency, size, reader>>
cache == <<generation, items, recency, size>>

Versions == 0..MaxVersion
Entries == [nodes : Versions, edges : Versions, bytes : Sizes]
NoEntry == [nodes |-> 0, edges |-> 0, bytes |-> 0]

(* `since` is the version a request that starts now must not fall behind. *)
Reader == [pc : {"idle", "nodes", "edges", "store"}, key : Keys, generation : Nat,
           nodes : Versions, edges : Versions, since : Versions]

Init ==
  /\ version = 0 /\ settled = 0 /\ saving = FALSE
  /\ generation = 0
  /\ items = [k \in Keys |-> NoEntry]
  /\ recency = <<>>
  /\ size = 0
  /\ \E k \in Keys :
       reader = [r \in Readers |-> [pc |-> "idle", key |-> k, generation |-> 0,
                                    nodes |-> 0, edges |-> 0, since |-> 0]]

-----------------------------------------------------------------------------
(* _save                                                                   *)

Commit ==
  /\ ~saving
  /\ version < MaxVersion
  /\ version' = version + 1
  /\ saving' = TRUE
  /\ UNCHANGED <<settled, cache, reader>>

(* Mutant: the entries survive. *)
Invalidate_KeepsItems ==
  /\ saving
  /\ saving' = FALSE
  /\ settled' = version
  /\ generation' = generation + 1
  /\ UNCHANGED <<version, items, recency, size, reader>>

Invalidate ==
  /\ saving
  /\ saving' = FALSE
  /\ settled' = version
  /\ generation' = generation + 1
  /\ items' = [k \in Keys |-> NoEntry]
  /\ recency' = <<>>
  /\ size' = 0
  /\ UNCHANGED <<version, reader>>

(* The process restarts: the cache, the threads and a pending invalidation *)
(* are gone, the database is not.                                          *)
Restart ==
  /\ saving' = FALSE
  /\ settled' = version
  /\ generation' = 0
  /\ items' = [k \in Keys |-> NoEntry]
  /\ recency' = <<>>
  /\ size' = 0
  /\ reader' = [r \in Readers |-> [reader[r] EXCEPT !.pc = "idle", !.generation = 0,
                                     !.nodes = version, !.edges = version, !.since = version]]
  /\ UNCHANGED version

-----------------------------------------------------------------------------
(* cached                                                                  *)

Without(s, k) ==
  IF \E i \in DOMAIN s : s[i] = k THEN RemoveAt(s, CHOOSE i \in DOMAIN s : s[i] = k) ELSE s
ToEnd(s, k) == Append(Without(s, k), k)

(* First critical section: a live entry is the reply and becomes the most  *)
(* recently used one.                                                      *)
Hit(r, k) ==
  /\ reader[r].pc = "idle"
  /\ items[k] # NoEntry
  /\ recency' = ToEnd(recency, k)
  /\ reader' = [reader EXCEPT ![r] = [@ EXCEPT !.key = k, !.since = settled,
                                        !.nodes = items[k].nodes, !.edges = items[k].edges]]
  /\ UNCHANGED <<version, saving, settled, generation, items, size>>

(* No entry, or one older than the TTL. *)
Miss(r, k) ==
  /\ reader[r].pc = "idle"
  /\ reader' = [reader EXCEPT ![r] = [@ EXCEPT !.pc = "nodes", !.key = k, !.since = settled,
                                        !.generation = generation]]
  /\ UNCHANGED <<version, saving, settled, cache>>

(* The endpoint's two queries, each on its own view of the tables. *)
QueryNodes(r) ==
  /\ reader[r].pc = "nodes"
  /\ reader' = [reader EXCEPT ![r] = [@ EXCEPT !.pc = "edges", !.nodes = version]]
  /\ UNCHANGED <<version, saving, settled, cache>>

QueryEdges(r) ==
  /\ reader[r].pc = "edges"
  /\ reader' = [reader EXCEPT ![r] = [@ EXCEPT !.pc = "store", !.edges = version]]
  /\ UNCHANGED <<version, saving, settled, cache>>

(* Mutants: the generation is not compared; the bytes of a replaced entry  *)
(* are not given back.                                                     *)
Storable_AnyGeneration(r, bytes) == bytes <= MaxBytes
Replaced_KeepsSize(k) == size

Storable(r, bytes) == reader[r].generation = generation /\ bytes <= MaxBytes
(* What is left of `size` when the key's old entry is popped. *)
Replaced(k) == size - items[k].bytes
(* Popping the n least recently used entries is enough. *)
Evictable(n, order, total, bytes) ==
  /\ Len(order) - n <= MaxEntries
  /\ total - MapThenSumSet(LAMBDA i : bytes[order[i]], 1..n) <= MaxBytes

(* Second critical section. *)
Store(r) ==
  /\ reader[r].pc = "store"
  /\ reader' = [reader EXCEPT ![r].pc = "idle"]
  /\ UNCHANGED <<version, saving, settled, generation>>
  /\ \E b \in Sizes :
       IF ~Storable(r, b) THEN UNCHANGED <<items, recency, size>> ELSE
       LET k == reader[r].key
           added == [items EXCEPT ![k] = [nodes |-> reader[r].nodes,
                                          edges |-> reader[r].edges, bytes |-> b]]
           bytes == [x \in Keys |-> added[x].bytes]
           order == ToEnd(recency, k)
           total == Replaced(k) + b
           enough == {n \in 0..Len(order) : Evictable(n, order, total, bytes)}
           n == Min(enough)
           evicted == {order[i] : i \in 1..n}
       IN  /\ items' = [x \in Keys |-> IF x \in evicted THEN NoEntry ELSE added[x]]
           /\ recency' = SubSeq(order, n + 1, Len(order))
           /\ size' = total - MapThenSumSet(LAMBDA i : bytes[order[i]], 1..n)

Next ==
  \/ Commit
  \/ Invalidate
  \/ Restart
  \/ \E r \in Readers :
       \/ \E k \in Keys : Hit(r, k) \/ Miss(r, k)
       \/ QueryNodes(r)
       \/ QueryEdges(r)
       \/ Store(r)

Spec == Init /\ [][Next]_vars

-----------------------------------------------------------------------------
(* Every variable has its type.                                            *)
TypeOK ==
  /\ version \in Versions
  /\ saving \in BOOLEAN
  /\ settled \in Versions
  /\ generation \in Nat
  /\ items \in [Keys -> Entries \cup {NoEntry}]
  /\ recency \in Seq(Keys)
  /\ size \in Nat
  /\ reader \in [Readers -> Reader]

(* Between saves the cache holds responses to the current graph only, both *)
(* queries of each on it: no thread that computed across a save left one.  *)
CacheIsCurrent ==
  ~saving => \A k \in Keys : items[k] # NoEntry =>
               items[k].nodes = version /\ items[k].edges = version

(* A request answered from the cache or the database sees every graph      *)
(* whose save had returned when it arrived.                                *)
RepliesNotOlderThanSave ==
  \A r \in Readers : reader[r].pc = "idle" =>
    reader[r].nodes >= reader[r].since /\ reader[r].edges >= reader[r].since

(* The bounds hold, and `size` and the LRU order describe exactly the      *)
(* entries kept, through replacement, eviction and invalidation.           *)
SizeAccounted ==
  LET kept == {k \in Keys : items[k] # NoEntry}
  IN  /\ {recency[i] : i \in DOMAIN recency} = kept
      /\ Len(recency) = Cardinality(kept)
      /\ size = MapThenSumSet(LAMBDA k : items[k].bytes, kept)
      /\ size <= MaxBytes
      /\ Cardinality(kept) <= MaxEntries
=============================================================================
