---------------------------- MODULE BrowseProofs ----------------------------
(* Proofs about what is read from a saved graph: pages, searches, filters, *)
(* colours, statuses and impact, for any worlds, orders and limits.        *)
EXTENDS Browse, SequenceTheorems, WellFoundedInduction, TLAPS

-----------------------------------------------------------------------------
(* Sequences.                                                              *)

LEMMA LeastNumber ==
  ASSUME NEW S \in SUBSET Nat, S # {}
  PROVE  \E m \in S : \A k \in S : m <= k
<1>1. PICK m \in S : \A k \in S : <<k, m>> \notin OpToRel(<, Nat)
  BY WFMin, NatLessThanWellFounded
<1>2. \A k \in S : ~(k < m)
  BY <1>1 DEF OpToRel
<1>3. \A k \in S : k \in Nat
  OBVIOUS
<1> QED BY <1>2, <1>3

(* Induction up to a bound, over a set.                                    *)
LEMMA Stepwise ==
  ASSUME NEW n \in Nat, NEW S, 0 \in S, \A k \in 1..n : k - 1 \in S => k \in S
  PROVE  \A k \in 0..n : k \in S
<1> DEFINE missing == {k \in 0..n : k \notin S}
<1>1. SUFFICES ASSUME missing # {} PROVE FALSE
  OBVIOUS
<1>2. PICK m \in missing : \A k \in missing : m <= k
  <2>1. missing \in SUBSET Nat
    OBVIOUS
  <2> HIDE DEF missing
  <2> QED BY <1>1, <2>1, LeastNumber
<1>3. m \in 1..n /\ m - 1 \in 0..n
  BY <1>2
<1>4. m - 1 \notin missing
  BY <1>2, <1>3
<1> QED BY <1>2, <1>3, <1>4

LEMMA LesserIs ==
  ASSUME NEW a \in Nat, NEW b \in Nat
  PROVE  Min({a, b}) = IF a <= b THEN a ELSE b
BY DEF Min

(* x comes before y in the sequence o.                                     *)
Before(o, x, y) == \E a, b \in 1..Len(o) : a < b /\ o[a] = x /\ o[b] = y

(* s lists some elements of o, each once and in the order of o.            *)
Ascending(o, s) ==
  s \in Seq(Range(o)) /\ \A i, j \in 1..Len(s) : i < j => Before(o, s[i], s[j])

LEMMA BeforeIsOrder ==
  ASSUME NEW T, NEW o \in Seq(T), IsInjective(o), NEW x, NEW y, Before(o, x, y)
  PROVE  x # y /\ ~Before(o, y, x)
<1>1. DOMAIN o = 1..Len(o)
  OBVIOUS
<1> QED BY <1>1 DEF Before, IsInjective

LEMMA ElementsAre ==
  ASSUME NEW T, NEW s \in Seq(T)
  PROVE  Elements(s) = Range(s) /\ Elements(s) \subseteq T
BY DEF Elements, Range

(* Such a sequence is determined by its elements.                          *)
LEMMA NoLonger ==
  ASSUME NEW T, NEW o \in Seq(T), IsInjective(o),
         NEW s, Ascending(o, s), NEW t, Ascending(o, t), Elements(s) = Elements(t)
  PROVE  Len(s) <= Len(t) /\ \A k \in 1..Len(s) : s[k] = t[k]
<1> DEFINE D == {k \in 1..Len(s) : k > Len(t) \/ s[k] # t[k]}
<1>1. Len(s) \in Nat /\ Len(t) \in Nat
  BY DEF Ascending
<1>2. SUFFICES ASSUME D # {} PROVE FALSE
  <2>1. D = {} => \A k \in 1..Len(s) : k <= Len(t) /\ s[k] = t[k]
    BY <1>1
  <2>2. (\A k \in 1..Len(s) : k <= Len(t)) => Len(s) <= Len(t)
    BY <1>1
  <2> HIDE DEF D
  <2> QED BY <2>1, <2>2
<1>3. PICK m \in D : \A k \in D : m <= k
  <2>1. D \in SUBSET Nat
    OBVIOUS
  <2> HIDE DEF D
  <2> QED BY <1>2, <2>1, LeastNumber
<1>4. m \in 1..Len(s) /\ \A k \in 1..Len(s) : k < m => k <= Len(t) /\ s[k] = t[k]
  BY <1>1, <1>3
<1>5. PICK j \in 1..Len(t) : s[m] = t[j]
  <2>1. s[m] \in Elements(s)
    BY <1>4 DEF Elements
  <2> QED BY <2>1 DEF Elements
<1>6. j >= m
  <2>1. SUFFICES ASSUME j < m PROVE FALSE
    BY <1>1, <1>4
  <2>2. j \in 1..Len(s) /\ s[j] = t[j]
    BY <1>1, <1>4, <2>1
  <2>3. Before(o, s[j], s[m])
    BY <1>4, <2>1, <2>2 DEF Ascending
  <2> QED BY <1>5, <2>2, <2>3, BeforeIsOrder
<1>7. m \in 1..Len(t) /\ s[m] # t[m] /\ m < j
  BY <1>1, <1>3, <1>4, <1>5, <1>6
<1>8. PICK i \in 1..Len(s) : t[m] = s[i]
  <2>1. t[m] \in Elements(t)
    BY <1>7 DEF Elements
  <2> QED BY <2>1 DEF Elements
<1>9. i >= m
  <2>1. SUFFICES ASSUME i < m PROVE FALSE
    BY <1>1, <1>4
  <2>2. i \in 1..Len(t) /\ s[i] = t[i]
    BY <1>1, <1>4, <2>1
  <2>3. Before(o, t[i], t[m])
    BY <1>7, <2>1, <2>2 DEF Ascending
  <2> QED BY <1>8, <2>2, <2>3, BeforeIsOrder
<1>10. m < i
  BY <1>1, <1>4, <1>7, <1>8, <1>9
<1>11. Before(o, s[m], s[i])
  BY <1>4, <1>8, <1>10 DEF Ascending
<1>12. Before(o, t[m], t[j])
  BY <1>5, <1>7 DEF Ascending
<1> QED BY <1>5, <1>8, <1>11, <1>12, BeforeIsOrder

LEMMA AscendingIsUnique ==
  ASSUME NEW T, NEW o \in Seq(T), IsInjective(o),
         NEW s, Ascending(o, s), NEW t, Ascending(o, t), Elements(s) = Elements(t)
  PROVE  s = t
<1>1. Len(s) <= Len(t) /\ \A k \in 1..Len(s) : s[k] = t[k]
  BY NoLonger
<1>2. Len(t) <= Len(s)
  BY NoLonger
<1>3. s \in Seq(Range(o)) /\ t \in Seq(Range(o))
  BY DEF Ascending
<1>4. Len(s) = Len(t)
  BY <1>1, <1>2, <1>3
<1> QED BY <1>1, <1>3, <1>4, SeqEqual

LEMMA PartIs ==
  ASSUME NEW T, NEW s \in Seq(T), NEW a \in Nat, NEW b \in Nat, b <= Len(s)
  PROVE  LET part == SubSeq(s, a + 1, b)
         IN  /\ part \in Seq(T)
             /\ Len(part) = IF a <= b THEN b - a ELSE 0
             /\ \A j \in 1..Len(part) : a + j \in 1..Len(s) /\ part[j] = s[a + j]
OBVIOUS

LEMMA PartAscends ==
  ASSUME NEW T, NEW o \in Seq(T), NEW s, Ascending(o, s),
         NEW a \in Nat, NEW b \in Nat, b <= Len(s)
  PROVE  Ascending(o, SubSeq(s, a + 1, b))
<1> DEFINE part == SubSeq(s, a + 1, b)
<1>1. s \in Seq(Range(o))
  BY DEF Ascending
<1>2. /\ part \in Seq(Range(o)) /\ Len(part) \in Nat
      /\ \A j \in 1..Len(part) : a + j \in 1..Len(s) /\ part[j] = s[a + j]
  BY <1>1, PartIs
<1> HIDE DEF part
<1>3. ASSUME NEW i \in 1..Len(part), NEW j \in 1..Len(part), i < j
      PROVE  Before(o, part[i], part[j])
  <2>1. a + i < a + j
    BY <1>2, <1>3
  <2> QED BY <1>2, <2>1 DEF Ascending
<1>4. Ascending(o, part)
  BY <1>2, <1>3 DEF Ascending
<1> QED BY <1>4 DEF part

(* The elements in S among the first n, from those among the first n - 1.  *)
Nth(s, S, f, n) ==
  IF n = 0 THEN <<>> ELSE IF s[n] \in S THEN Append(f[n - 1], s[n]) ELSE f[n - 1]

Picked(s, S) == CHOOSE f : f = [n \in 0..Len(s) |-> Nth(s, S, f, n)]

LEMMA InOrderPicked ==
  ASSUME NEW s, NEW S
  PROVE  InOrder(s, S) = Picked(s, S)[Len(s)]
BY DEF InOrder, Picked, Nth

(* The recursion has a solution.                                           *)
LEMMA Pickable ==
  ASSUME NEW s, Len(s) \in Nat, NEW S
  PROVE  \E f : f = [n \in 0..Len(s) |-> Nth(s, S, f, n)]
<1> DEFINE Upto(m) == \E f : /\ f = [n \in 0..Len(s) |-> f[n]]
                             /\ \A n \in 0..m : f[n] = Nth(s, S, f, n)
           D == {m \in 0..Len(s) : Upto(m)}
<1>1. Upto(0)
  <2> DEFINE f == [n \in 0..Len(s) |-> <<>>]
  <2>1. f = [n \in 0..Len(s) |-> f[n]] /\ f[0] = Nth(s, S, f, 0)
    BY DEF Nth
  <2> HIDE DEF f
  <2>2. \A n \in 0..0 : f[n] = Nth(s, S, f, n)
    BY <2>1
  <2> QED BY <2>1, <2>2
<1>2. ASSUME NEW m \in 1..Len(s), Upto(m - 1) PROVE Upto(m)
  <2>1. PICK f : /\ f = [n \in 0..Len(s) |-> f[n]]
                 /\ \A n \in 0..m - 1 : f[n] = Nth(s, S, f, n)
    BY <1>2
  <2> DEFINE x == Nth(s, S, f, m)
             g == [n \in 0..Len(s) |-> IF n = m THEN x ELSE f[n]]
  <2> HIDE DEF x
  <2>2. g = [n \in 0..Len(s) |-> g[n]] /\ g[m] = x
    OBVIOUS
  <2>3. \A n \in 0..m - 1 : g[n] = f[n]
    OBVIOUS
  <2> HIDE DEF g
  <2>4. ASSUME NEW n \in 0..m PROVE Nth(s, S, g, n) = Nth(s, S, f, n)
    <3>1. n = 0 \/ n - 1 \in 0..m - 1
      OBVIOUS
    <3>2. n = 0 \/ g[n - 1] = f[n - 1]
      BY <2>3, <3>1
    <3> QED BY <3>2 DEF Nth
  <2>5. ASSUME NEW n \in 0..m PROVE g[n] = Nth(s, S, g, n)
    <3>1. CASE n = m
      BY <2>2, <2>4, <3>1 DEF x
    <3>2. CASE n \in 0..m - 1
      BY <2>1, <2>3, <2>4, <3>2
    <3> QED BY <3>1, <3>2
  <2> QED BY <2>2, <2>5
<1> HIDE DEF Upto
<1>3. 0 \in D /\ \A m \in 1..Len(s) : m - 1 \in D => m \in D
  BY <1>1, <1>2
<1>4. Len(s) \in D
  <2> HIDE DEF D
  <2>1. \A m \in 0..Len(s) : m \in D
    BY <1>3, Stepwise
  <2> QED BY <2>1
<1>5. PICK f : /\ f = [n \in 0..Len(s) |-> f[n]]
               /\ \A n \in 0..Len(s) : f[n] = Nth(s, S, f, n)
  BY <1>4 DEF Upto
<1>6. f = [n \in 0..Len(s) |-> Nth(s, S, f, n)]
  BY <1>5
<1> QED BY <1>6

(* The elements of o in S, in order: InOrder is what its name says.        *)
LEMMA InOrderIs ==
  ASSUME NEW T, NEW o \in Seq(T), NEW S
  PROVE  Ascending(o, InOrder(o, S)) /\ Elements(InOrder(o, S)) = S \cap Range(o)
<1> DEFINE c == Picked(o, S)
<1>1. Len(o) \in Nat
  OBVIOUS
<1>2. c = [n \in 0..Len(o) |-> Nth(o, S, c, n)]
  BY <1>1, Pickable DEF Picked
<1> HIDE DEF c
<1>3. /\ c[0] = <<>>
      /\ \A n \in 1..Len(o) : c[n] = IF o[n] \in S THEN Append(c[n - 1], o[n]) ELSE c[n - 1]
  <2>1. \A n \in 0..Len(o) : c[n] = Nth(o, S, c, n)
    BY <1>2
  <2>2. \A n \in 1..Len(o) : n \in 0..Len(o) /\ n # 0
    BY <1>1
  <2> QED BY <1>1, <2>1, <2>2 DEF Nth
<1> DEFINE Good(n) == /\ c[n] \in Seq(Range(o))
                      /\ \A i, j \in 1..Len(c[n]) : i < j => Before(o, c[n][i], c[n][j])
                      /\ \A i \in 1..Len(c[n]) : \E a \in 1..n : o[a] = c[n][i] /\ o[a] \in S
                      /\ \A a \in 1..n : o[a] \in S => \E i \in 1..Len(c[n]) : c[n][i] = o[a]
           D == {n \in 0..Len(o) : Good(n)}
<1>4. 0 \in D
  <2>1. 0 \in 0..Len(o) /\ c[0] \in Seq(Range(o)) /\ Len(c[0]) = 0
    BY <1>1, <1>3
  <2>2. 1..0 = {}
    OBVIOUS
  <2> HIDE DEF c
  <2>3. Good(0)
    BY <2>1, <2>2
  <2> QED BY <2>1, <2>3
<1>5. ASSUME NEW n \in 1..Len(o), n - 1 \in D PROVE n \in D
  <2> DEFINE s == c[n - 1]
  <2>1. Good(n - 1)
    BY <1>5
  <2>2. o[n] \in Range(o) /\ n \in 0..Len(o) /\ \A a \in 1..n : a = n \/ a \in 1..n - 1
    BY <1>1 DEF Range
  <2>3. CASE o[n] \notin S
    <3>1. c[n] = s
      BY <1>3, <2>3
    <3>2. ASSUME NEW i \in 1..Len(c[n]) PROVE \E a \in 1..n : o[a] = c[n][i] /\ o[a] \in S
      <4>1. PICK a \in 1..n - 1 : o[a] = s[i] /\ o[a] \in S
        BY <2>1, <3>1
      <4>2. a \in 1..n
        OBVIOUS
      <4> QED BY <3>1, <4>1, <4>2
    <3>3. ASSUME NEW a \in 1..n, o[a] \in S PROVE \E i \in 1..Len(c[n]) : c[n][i] = o[a]
      <4>1. a \in 1..n - 1
        BY <2>2, <2>3, <3>3
      <4> QED BY <2>1, <3>1, <3>3, <4>1
    <3> HIDE DEF c
    <3>4. Good(n)
      BY <2>1, <3>1, <3>2, <3>3
    <3> QED BY <2>2, <3>4
  <2>4. CASE o[n] \in S
    <3> HIDE DEF c
    <3>1. c[n] = Append(s, o[n])
      BY <1>3, <2>4
    <3>2. s \in Seq(Range(o)) /\ Len(s) \in Nat
      BY <2>1
    <3>3. /\ c[n] \in Seq(Range(o)) /\ Len(c[n]) = Len(s) + 1
          /\ \A i \in 1..Len(s) : c[n][i] = s[i]
          /\ c[n][Len(s) + 1] = o[n]
      <4> HIDE DEF s
      <4> QED BY <2>2, <3>1, <3>2
    <3>4. \A i \in 1..Len(c[n]) : i \in 1..Len(s) \/ i = Len(s) + 1
      BY <3>2, <3>3
    <3>5. ASSUME NEW i \in 1..Len(c[n]), NEW j \in 1..Len(c[n]), i < j
          PROVE  Before(o, c[n][i], c[n][j])
      <4>1. i \in 1..Len(s)
        BY <3>2, <3>3, <3>5
      <4>2. CASE j \in 1..Len(s)
        BY <2>1, <3>3, <3>5, <4>1, <4>2
      <4>3. CASE j = Len(s) + 1
        <5>1. PICK a \in 1..n - 1 : o[a] = s[i]
          BY <2>1, <4>1
        <5>2. a \in 1..Len(o) /\ a < n
          BY <1>1
        <5> QED BY <3>3, <4>1, <4>3, <5>1, <5>2 DEF Before
      <4> QED BY <3>4, <4>2, <4>3
    <3>6. ASSUME NEW i \in 1..Len(c[n]) PROVE \E a \in 1..n : o[a] = c[n][i] /\ o[a] \in S
      <4>1. CASE i \in 1..Len(s)
        <5>1. PICK a \in 1..n - 1 : o[a] = s[i] /\ o[a] \in S
          BY <2>1, <4>1
        <5>2. a \in 1..n
          OBVIOUS
        <5> QED BY <3>3, <4>1, <5>1, <5>2
      <4>2. CASE i = Len(s) + 1
        BY <2>4, <3>3, <4>2
      <4> QED BY <3>4, <4>1, <4>2
    <3>7. ASSUME NEW a \in 1..n, o[a] \in S PROVE \E i \in 1..Len(c[n]) : c[n][i] = o[a]
      <4>1. CASE a = n
        <5>1. Len(s) + 1 \in 1..Len(c[n])
          BY <3>2, <3>3
        <5> QED BY <3>3, <4>1, <5>1
      <4>2. CASE a \in 1..n - 1
        <5>1. PICK i \in 1..Len(s) : s[i] = o[a]
          BY <2>1, <3>7, <4>2
        <5>2. i \in 1..Len(c[n])
          BY <3>2, <3>3
        <5> QED BY <3>3, <5>1, <5>2
      <4> QED BY <2>2, <4>1, <4>2
    <3>8. Good(n)
      BY <3>3, <3>5, <3>6, <3>7
    <3> QED BY <2>2, <3>8
  <2> QED BY <2>3, <2>4
<1>6. Good(Len(o))
  <2>1. \A n \in 0..Len(o) : n \in D
    <3> HIDE DEF D
    <3> QED BY <1>1, <1>4, <1>5, Stepwise
  <2>2. Len(o) \in 0..Len(o)
    BY <1>1
  <2> QED BY <2>1, <2>2
<1>7. InOrder(o, S) = c[Len(o)]
  BY InOrderPicked DEF c
<1> DEFINE s == c[Len(o)]
<1>8. Ascending(o, s)
  BY <1>6 DEF Ascending
<1>9. Elements(s) = S \cap Range(o)
  <2>1. DOMAIN o = 1..Len(o)
    OBVIOUS
  <2>2. ASSUME NEW x \in Elements(s) PROVE x \in S \cap Range(o)
    <3>1. PICK i \in 1..Len(s) : x = s[i]
      BY DEF Elements
    <3>2. PICK a \in 1..Len(o) : o[a] = s[i] /\ o[a] \in S
      BY <1>6
    <3> QED BY <2>1, <3>1, <3>2 DEF Range
  <2>3. ASSUME NEW x \in S \cap Range(o) PROVE x \in Elements(s)
    <3>1. PICK a \in 1..Len(o) : x = o[a]
      BY <2>1 DEF Range
    <3>2. \E i \in 1..Len(s) : s[i] = o[a]
      BY <1>6, <3>1
    <3> QED BY <3>1, <3>2 DEF Elements
  <2> QED BY <2>2, <2>3
<1> QED BY <1>7, <1>8, <1>9

-----------------------------------------------------------------------------
(* Pages of a sorted list.                                                 *)

Limit(l) == l \in Nat \ {0}

LEMMA LimitsAre == Limit(PageLimit) /\ Limit(RepoLimit) /\ Limit(BuildLimit)
BY GraphQueriesAssumption DEF Limit

LEMMA SortedIs ==
  ASSUME NEW S \in SUBSET Ids
  PROVE  /\ Sorted(S) \in Seq(Ids) /\ Ascending(Order, Sorted(S))
         /\ Elements(Sorted(S)) = S
<1>1. Order \in Seq(Ids) /\ Range(Order) = Ids
  BY GraphQueriesAssumption
<1>2. Ascending(Order, InOrder(Order, S)) /\ Elements(InOrder(Order, S)) = S \cap Range(Order)
  BY <1>1, InOrderIs
<1> QED BY <1>1, <1>2 DEF Sorted, Ascending

(* The first elements, as many as n allows.                                *)
LEMMA FirstIs ==
  ASSUME NEW T, NEW s \in Seq(T), NEW n \in Nat
  PROVE  /\ First(s, n) \in Seq(T)
         /\ First(s, n) = SubSeq(s, 1, IF n <= Len(s) THEN n ELSE Len(s))
         /\ Len(First(s, n)) = IF n <= Len(s) THEN n ELSE Len(s)
         /\ Elements(First(s, n)) \subseteq Elements(s)
<1> DEFINE m == IF n <= Len(s) THEN n ELSE Len(s)
<1>1. Len(s) \in Nat /\ m \in Nat /\ m <= Len(s) /\ Min({n, Len(s)}) = m
  BY LesserIs
<1>2. First(s, n) = SubSeq(s, 1, m)
  BY <1>1 DEF First
<1> DEFINE part == SubSeq(s, 0 + 1, m)
<1>3. /\ part \in Seq(T) /\ Len(part) = m
      /\ \A j \in 1..Len(part) : 0 + j \in 1..Len(s) /\ part[j] = s[0 + j]
  <2> HIDE DEF m
  <2> QED BY <1>1, PartIs
<1>4. part = SubSeq(s, 1, m)
  OBVIOUS
<1> HIDE DEF part
<1>5. Elements(part) \subseteq Elements(s)
  BY <1>3 DEF Elements
<1> QED BY <1>2, <1>3, <1>4, <1>5

LEMMA FirstAscends ==
  ASSUME NEW T, NEW o \in Seq(T), NEW s, Ascending(o, s), NEW n \in Nat
  PROVE  Ascending(o, First(s, n))
<1> DEFINE m == IF n <= Len(s) THEN n ELSE Len(s)
<1>1. s \in Seq(Range(o))
  BY DEF Ascending
<1>2. First(s, n) = SubSeq(s, 1, m)
  BY <1>1, FirstIs
<1>3. m \in Nat /\ m <= Len(s) /\ 0 + 1 = 1
  BY <1>1
<1> HIDE DEF m
<1>4. Ascending(o, SubSeq(s, 0 + 1, m))
  BY <1>3, PartAscends
<1> QED BY <1>2, <1>3, <1>4

LEMMA SliceIs ==
  ASSUME NEW T, NEW s \in Seq(T), NEW offset \in Nat
  PROVE  /\ Slice(s, offset) \in Seq(T)
         /\ Slice(s, offset) = SubSeq(s, offset + 1,
                                 IF offset + PageLimit <= Len(s) THEN offset + PageLimit ELSE Len(s))
         /\ Len(Slice(s, offset)) <= PageLimit
         /\ Elements(Slice(s, offset)) \subseteq Elements(s)
<1> DEFINE m == IF offset + PageLimit <= Len(s) THEN offset + PageLimit ELSE Len(s)
           part == SubSeq(s, offset + 1, m)
<1>1. PageLimit \in Nat /\ PageLimit > 0
  BY LimitsAre DEF Limit
<1>2. Len(s) \in Nat /\ m \in Nat /\ m <= Len(s) /\ Min({offset + PageLimit, Len(s)}) = m
  BY <1>1, LesserIs
<1>3. Slice(s, offset) = part
  BY <1>2 DEF Slice
<1>4. /\ part \in Seq(T) /\ Len(part) = IF offset <= m THEN m - offset ELSE 0
      /\ \A j \in 1..Len(part) : offset + j \in 1..Len(s) /\ part[j] = s[offset + j]
  <2> HIDE DEF m
  <2> QED BY <1>2, PartIs
<1>5. Len(part) <= PageLimit
  <2> HIDE DEF part
  <2> QED BY <1>1, <1>2, <1>4
<1> HIDE DEF part
<1>6. Elements(part) \subseteq Elements(s)
  BY <1>4 DEF Elements
<1> QED BY <1>3, <1>4, <1>5, <1>6 DEF part

LEMMA SliceAscends ==
  ASSUME NEW T, NEW o \in Seq(T), NEW s, Ascending(o, s), NEW offset \in Nat
  PROVE  Ascending(o, Slice(s, offset))
<1> DEFINE m == IF offset + PageLimit <= Len(s) THEN offset + PageLimit ELSE Len(s)
<1>1. s \in Seq(Range(o))
  BY DEF Ascending
<1>2. Slice(s, offset) = SubSeq(s, offset + 1, m)
  BY <1>1, SliceIs
<1>3. m \in Nat /\ m <= Len(s)
  BY <1>1, LimitsAre DEF Limit
<1> HIDE DEF m
<1> QED BY <1>2, <1>3, PartAscends

(* Sorting the elements of a page gives the page.                          *)
LEMMA SortedPage ==
  ASSUME NEW S \in SUBSET Ids, NEW offset \in Nat
  PROVE  LET page == Slice(Sorted(S), offset)
         IN  /\ page \in Seq(Ids) /\ Elements(page) \subseteq S
             /\ Sorted(Elements(page)) = page
             /\ Slice(Sorted(Elements(page)), 0) = page
<1> DEFINE page == Slice(Sorted(S), offset)
           again == Sorted(Elements(page))
<1>1. /\ Sorted(S) \in Seq(Ids) /\ Ascending(Order, Sorted(S)) /\ Elements(Sorted(S)) = S
      /\ Order \in Seq(Ids) /\ IsInjective(Order)
  BY SortedIs, GraphQueriesAssumption
<1>2. /\ page \in Seq(Ids) /\ Elements(page) \subseteq S /\ Len(page) <= PageLimit
      /\ Ascending(Order, page)
  BY <1>1, SliceIs, SliceAscends
<1> HIDE DEF page
<1>3. Ascending(Order, again) /\ Elements(again) = Elements(page)
  BY <1>2, SortedIs
<1>4. again = page
  BY <1>1, <1>2, <1>3, AscendingIsUnique
<1>5. Slice(page, 0) = page
  <2>1. Len(page) \in Nat /\ PageLimit \in Nat
    BY <1>2, LimitsAre DEF Limit
  <2>2. Slice(page, 0) = SubSeq(page, 1, Len(page))
    <3>1. Slice(page, 0) = SubSeq(page, 0 + 1,
                             IF 0 + PageLimit <= Len(page) THEN 0 + PageLimit ELSE Len(page))
      BY <1>2, SliceIs
    <3>2. (IF 0 + PageLimit <= Len(page) THEN 0 + PageLimit ELSE Len(page)) = Len(page) /\ 0 + 1 = 1
      BY <1>2, <2>1
    <3> QED BY <3>1, <3>2
  <2> QED BY <1>2, <2>2
<1> QED BY <1>2, <1>4, <1>5 DEF page

(* The pages up to an offset and the one there are the pages up to the     *)
(* next offset.                                                            *)
LEMMA PagesJoin ==
  ASSUME NEW T, NEW s \in Seq(T), NEW offset \in Nat, offset <= Len(s)
  PROVE  First(s, offset) \o Slice(s, offset) = First(s, offset + PageLimit)
<1> DEFINE m == IF offset + PageLimit <= Len(s) THEN offset + PageLimit ELSE Len(s)
<1>1. /\ PageLimit \in Nat /\ Len(s) \in Nat /\ m \in Nat /\ m <= Len(s) /\ offset <= m
      /\ offset + PageLimit \in Nat
  BY LimitsAre DEF Limit
<1>2. First(s, offset) = SubSeq(s, 1, offset) /\ Len(First(s, offset)) = offset
  BY FirstIs
<1>3. Slice(s, offset) = SubSeq(s, offset + 1, m)
  BY SliceIs
<1>4. First(s, offset + PageLimit) = SubSeq(s, 1, m)
  BY <1>1, FirstIs
<1> HIDE DEF m
<1> DEFINE a == SubSeq(s, 0 + 1, offset)
           b == SubSeq(s, offset + 1, m)
           c == SubSeq(s, 0 + 1, m)
<1>5. /\ a \in Seq(T) /\ Len(a) = offset /\ \A j \in 1..Len(a) : a[j] = s[0 + j]
      /\ b \in Seq(T) /\ Len(b) = m - offset /\ \A j \in 1..Len(b) : b[j] = s[offset + j]
      /\ c \in Seq(T) /\ Len(c) = m /\ \A j \in 1..Len(c) : c[j] = s[0 + j]
  BY <1>1, PartIs
<1>6. a = SubSeq(s, 1, offset) /\ c = SubSeq(s, 1, m)
  OBVIOUS
<1> HIDE DEF a, b, c
<1>7. a \o b \in Seq(T) /\ Len(a \o b) = Len(c)
  BY <1>1, <1>5
<1>8. ASSUME NEW j \in 1..Len(c) PROVE (a \o b)[j] = c[j]
  <2>1. CASE j <= offset
    BY <1>1, <1>5, <2>1
  <2>2. CASE j > offset
    <3>1. j - offset \in 1..Len(b) /\ offset + (j - offset) = j /\ 0 + j = j
      BY <1>1, <1>5, <2>2
    <3>2. b[j - offset] = s[j] /\ c[j] = s[j]
      BY <1>5, <3>1
    <3>3. (a \o b)[j] = b[j - offset]
      BY <1>1, <1>5, <2>2, <3>1
    <3> QED BY <3>2, <3>3
  <2> QED BY <1>1, <1>5, <2>1, <2>2
<1>9. a \o b = c
  BY <1>5, <1>7, <1>8, SeqEqual
<1> QED BY <1>2, <1>3, <1>4, <1>6, <1>9 DEF b

(* The newest builds of a set.                                             *)
LEMMA NewestIs ==
  ASSUME NEW B \in SUBSET Builds, NEW n \in Nat
  PROVE  Newest(B, n) \subseteq B /\ Newest(Newest(B, n), n) = Newest(B, n)
<1> DEFINE list == InOrder(Recency, B)
           first == First(list, n)
           C == Elements(first)
           again == InOrder(Recency, C)
<1>1. Recency \in Seq(Builds) /\ IsInjective(Recency) /\ Range(Recency) = Builds
  BY ProductGraphAssumption
<1>2. Ascending(Recency, list) /\ Elements(list) = B /\ list \in Seq(Builds)
  <2>1. Ascending(Recency, list) /\ Elements(list) = B \cap Range(Recency)
    BY <1>1, InOrderIs
  <2> HIDE DEF list
  <2> QED BY <1>1, <2>1 DEF Ascending
<1> HIDE DEF list
<1>3. /\ first \in Seq(Builds) /\ C \subseteq B /\ Ascending(Recency, first)
      /\ Len(first) \in Nat /\ Len(first) <= n
  <2>1. Len(list) \in Nat /\ Len(first) = IF n <= Len(list) THEN n ELSE Len(list)
    BY <1>2, FirstIs
  <2>2. first \in Seq(Builds) /\ C \subseteq B
    BY <1>2, FirstIs
  <2>3. Ascending(Recency, first)
    BY <1>1, <1>2, FirstAscends
  <2> HIDE DEF first
  <2> QED BY <1>2, <2>1, <2>2, <2>3
<1>4. Newest(B, n) = C
  BY DEF Newest, list
<1> HIDE DEF first
<1>5. Ascending(Recency, again) /\ Elements(again) = C
  <2>1. Ascending(Recency, again) /\ Elements(again) = C \cap Range(Recency)
    BY <1>1, InOrderIs
  <2> HIDE DEF again, C
  <2> QED BY <1>1, <1>3, <2>1
<1>6. again = first
  BY <1>1, <1>3, <1>5, AscendingIsUnique
<1>7. First(first, n) = first
  <2>1. First(first, n) = SubSeq(first, 1, IF n <= Len(first) THEN n ELSE Len(first))
    BY <1>3, FirstIs
  <2>2. (IF n <= Len(first) THEN n ELSE Len(first)) = Len(first)
    BY <1>3
  <2> QED BY <1>3, <2>1, <2>2
<1>8. Newest(C, n) = C
  BY <1>6, <1>7 DEF Newest
<1> QED BY <1>3, <1>4, <1>8

-----------------------------------------------------------------------------
(* Graphs.                                                                 *)

Joined(g, m, r, n) == Link(m, r, n) \in g.edges

(* The links form chains of the five kinds, between nodes of the graph.    *)
Chain(g) ==
  /\ g.nodes \subseteq Ids /\ g.edges \subseteq Links
  /\ \A m, n \in Ids : Joined(g, m, "contains", n) =>
       /\ m \in g.nodes /\ n \in g.nodes
       /\ \/ m \in Projects /\ n \in Repos /\ m = HomeOf[n]
          \/ m \in TcProjects /\ n \in Configs /\ m = ProjectOf[n]
  /\ \A m, n \in Ids : Joined(g, m, "maps_to", n) =>
       m \in g.nodes /\ n \in g.nodes /\ m \in Repos /\ n \in TcProjects
  /\ \A m, n \in Ids : Joined(g, m, "ran_as", n) =>
       m \in g.nodes /\ n \in g.nodes /\ m \in Configs /\ n \in Builds /\ m = RunOf[n]

IsGraph(g) ==
  g = [nodes |-> g.nodes, edges |-> g.edges, mapping |-> g.mapping, outputs |-> g.outputs,
       failed |-> g.failed, branch |-> g.branch, status |-> g.status]

(* What a scan saves: every configuration is there with its place, every   *)
(* project for a repository, every link of a repository to a TeamCity      *)
(* project for a configuration.                                            *)
Collected(g) ==
  /\ IsGraph(g) /\ Chain(g)
  /\ g.outputs \subseteq Builds /\ g.failed \subseteq Builds
  /\ \A c \in Configs : Joined(g, ProjectOf[c], "contains", c)
  /\ \A r \in Repos \cap g.nodes : HomeOf[r] # Unassigned => Joined(g, HomeOf[r], "contains", r)
  /\ \A p \in Projects \cap g.nodes : \E r \in Repos : Joined(g, p, "contains", r)
  /\ \A c \in Configs :
       /\ g.mapping[c].state \in {"unavailable", "explicit", "legacy"}
       /\ g.mapping[c].state = "explicit" => g.mapping[c].repos \subseteq Repos \cap g.nodes
       /\ Owners(g, c) \subseteq Repos \cap g.nodes
       /\ \A r \in Owners(g, c) : Joined(g, r, "maps_to", ProjectOf[c])
  /\ \A r \in Repos, t \in TcProjects : Joined(g, r, "maps_to", t) =>
       \E c \in Configs : ProjectOf[c] = t /\ r \in Owners(g, c)
  /\ g.branch = OutputBranch(g)
  /\ g.status = MappingStatus(g)

LEMMA KindsDiffer ==
  /\ Projects \cap (Repos \cup TcProjects \cup Configs \cup Builds) = {}
  /\ Repos \cap (TcProjects \cup Configs \cup Builds) = {}
  /\ TcProjects \cap (Configs \cup Builds) = {} /\ Configs \cap Builds = {}
  /\ HomeOf \in [Repos -> Projects \cup {Unassigned}]
  /\ Unassigned \notin Projects \cup TcProjects
  /\ ProjectOf \in [Configs -> TcProjects]
  /\ RunOf \in [Builds -> Configs]
  /\ \A c \in Configs : Rules[c].mode \in {"none", "add", "replace"}
BY ProductGraphAssumption

LEMMA LinkIs ==
  /\ \A m, r, n : Link(m, r, n).source = m /\ Link(m, r, n).relation = r /\ Link(m, r, n).target = n
  /\ \A e \in Links : e = Link(e.source, e.relation, e.target)
  /\ \A m, r, n : Link(m, r, n) \in Links => m \in Ids /\ n \in Ids
BY DEF Link, Links

LEMMA EndsAre ==
  ASSUME NEW g, g.edges \subseteq Links, NEW r
  PROVE  /\ \A m, n : m \in Sources(g, r, n) <=> Joined(g, m, r, n)
         /\ \A m, n : m \in Targets(g, r, n) <=> Joined(g, n, r, m)
         /\ \A m, n : Joined(g, m, r, n) => m \in Ids /\ n \in Ids
<1>1. ASSUME NEW m, NEW n, m \in Sources(g, r, n) PROVE Joined(g, m, r, n)
  <2>1. PICK e \in g.edges : e.relation = r /\ e.target = n /\ m = e.source
    BY <1>1 DEF Sources
  <2> QED BY <2>1, LinkIs DEF Joined
<1>2. ASSUME NEW m, NEW n, Joined(g, m, r, n) PROVE m \in Sources(g, r, n)
  <2> DEFINE e == Link(m, r, n)
  <2>1. e \in g.edges /\ e.relation = r /\ e.target = n /\ m = e.source
    BY <1>2, LinkIs DEF Joined
  <2> HIDE DEF e
  <2> QED BY <2>1 DEF Sources
<1>3. ASSUME NEW m, NEW n, m \in Targets(g, r, n) PROVE Joined(g, n, r, m)
  <2>1. PICK e \in g.edges : e.relation = r /\ e.source = n /\ m = e.target
    BY <1>3 DEF Targets
  <2> QED BY <2>1, LinkIs DEF Joined
<1>4. ASSUME NEW m, NEW n, Joined(g, n, r, m) PROVE m \in Targets(g, r, n)
  <2> DEFINE e == Link(n, r, m)
  <2>1. e \in g.edges /\ e.relation = r /\ e.source = n /\ m = e.target
    BY <1>4, LinkIs DEF Joined
  <2> HIDE DEF e
  <2> QED BY <2>1 DEF Targets
<1>5. ASSUME NEW m, NEW n, Joined(g, m, r, n) PROVE m \in Ids /\ n \in Ids
  BY <1>5, LinkIs DEF Joined
<1> QED BY <1>1, <1>2, <1>3, <1>4, <1>5

(* The links of a chain, by kind.                                          *)
LEMMA ChainIs ==
  ASSUME NEW g, Chain(g)
  PROVE  /\ \A m, n : Joined(g, m, "contains", n) =>
              /\ m \in g.nodes /\ n \in g.nodes
              /\ \/ m \in Projects /\ n \in Repos /\ m = HomeOf[n]
                 \/ m \in TcProjects /\ n \in Configs /\ m = ProjectOf[n]
         /\ \A m, n : Joined(g, m, "maps_to", n) =>
              m \in g.nodes /\ n \in g.nodes /\ m \in Repos /\ n \in TcProjects
         /\ \A m, n : Joined(g, m, "ran_as", n) =>
              m \in g.nodes /\ n \in g.nodes /\ m \in Configs /\ n \in Builds /\ m = RunOf[n]
<1>1. \A m, r, n : Joined(g, m, r, n) => m \in Ids /\ n \in Ids
  BY EndsAre DEF Chain
<1> QED BY <1>1 DEF Chain

LEMMA ChainEnds ==
  ASSUME NEW g, Chain(g)
  PROVE  /\ \A r, m, n : m \in Sources(g, r, n) <=> Joined(g, m, r, n)
         /\ \A r, m, n : m \in Targets(g, r, n) <=> Joined(g, n, r, m)
BY EndsAre DEF Chain

LEMMA RunsAre ==
  ASSUME NEW g, Chain(g)
  PROVE  \A c, b : b \in Runs(g, c) <=> Joined(g, c, "ran_as", b)
BY ChainEnds, ChainIs DEF Runs

(* Who owns a configuration, in a graph that a scan saved.                 *)
LEMMA OwnersAre ==
  ASSUME NEW g, Chain(g), NEW c \in Configs
  PROVE  /\ g.mapping[c].state = "unavailable" => Owners(g, c) = {}
         /\ g.mapping[c].state = "explicit" =>
              Owners(g, c) = g.mapping[c].repos \cap Repos \cap g.nodes
         /\ g.mapping[c].state = "legacy" =>
              \A r : r \in Owners(g, c) <=>
                Joined(g, ProjectOf[c], "contains", c) /\ Joined(g, r, "maps_to", ProjectOf[c])
<1>1. CASE g.mapping[c].state = "legacy"
  <2>1. Owners(g, c) = UNION {Sources(g, "maps_to", p) \cap Repos : p \in Sources(g, "contains", c) \cap TcProjects}
    BY <1>1 DEF Owners
  <2>2. \A p : p \in Sources(g, "contains", c) \cap TcProjects
                 <=> p = ProjectOf[c] /\ Joined(g, ProjectOf[c], "contains", c)
    BY ChainEnds, ChainIs, KindsDiffer
  <2>3. \A r, p : r \in Sources(g, "maps_to", p) \cap Repos <=> Joined(g, r, "maps_to", p)
    BY ChainEnds, ChainIs
  <2>4. \A r : r \in Owners(g, c) <=>
          \E p \in Sources(g, "contains", c) \cap TcProjects : r \in Sources(g, "maps_to", p) \cap Repos
    BY <2>1
  <2> QED BY <1>1, <2>2, <2>3, <2>4
<1>2. CASE g.mapping[c].state = "explicit"
  BY <1>2 DEF Owners
<1>3. CASE g.mapping[c].state = "unavailable"
  BY <1>3 DEF Owners
<1> QED BY <1>1, <1>2, <1>3

-----------------------------------------------------------------------------
(* What is below a node.                                                   *)

Child(g, m, n) == Joined(g, m, "contains", n) \/ Joined(g, m, "ran_as", n)

Children(g, S) == UNION {Targets(g, "contains", m) \cup Targets(g, "ran_as", m) : m \in S}

Deeper(g, n, f, i) == IF i = 0 THEN {n} ELSE f[i - 1] \cup Children(g, f[i - 1])

LEMMA DescendantsAre ==
  ASSUME NEW g, Chain(g), NEW n
  PROVE  \A x : x \in Descendants(g, n) <=>
           x # n /\ (Child(g, n, x) \/ \E m : Child(g, n, m) /\ Child(g, m, x))
<1> DEFINE f == CHOOSE f : f = [i \in 0..2 |-> Deeper(g, n, f, i)]
           A == {n} \cup Children(g, {n})
           B == A \cup Children(g, A)
           h == [i \in 0..2 |-> IF i = 0 THEN {n} ELSE IF i = 1 THEN A ELSE B]
<1>1. Descendants(g, n) = f[2] \ {n}
  BY DEF Descendants, Deeper, Children
<1>2. h = [i \in 0..2 |-> Deeper(g, n, h, i)]
  <2>1. h[0] = {n} /\ h[1] = A /\ h[2] = B
    OBVIOUS
  <2>2. h = [i \in 0..2 |-> h[i]]
    OBVIOUS
  <2>3. \A i \in 0..2 : i = 0 \/ i = 1 \/ i = 2
    OBVIOUS
  <2> HIDE DEF h
  <2>4. Deeper(g, n, h, 0) = {n} /\ Deeper(g, n, h, 1) = h[0] \cup Children(g, h[0])
        /\ Deeper(g, n, h, 2) = h[1] \cup Children(g, h[1])
    <3>1. 1 - 1 = 0 /\ 2 - 1 = 1
      OBVIOUS
    <3> QED BY <3>1 DEF Deeper
  <2>5. \A i \in 0..2 : h[i] = Deeper(g, n, h, i)
    BY <2>1, <2>3, <2>4
  <2> QED BY <2>2, <2>5
<1>3. f = [i \in 0..2 |-> Deeper(g, n, f, i)]
  <2> HIDE DEF h
  <2> QED BY <1>2
<1> HIDE DEF f
<1>4. f[0] = {n} /\ f[1] = f[0] \cup Children(g, f[0]) /\ f[2] = f[1] \cup Children(g, f[1])
  <2>1. \A i \in 0..2 : f[i] = Deeper(g, n, f, i)
    BY <1>3
  <2> QED BY <2>1 DEF Deeper
<1>5. \A S, x : x \in Children(g, S) <=> \E m \in S : Child(g, m, x)
  BY ChainEnds DEF Children, Child
<1> QED BY <1>1, <1>4, <1>5

-----------------------------------------------------------------------------
(* What a scan collects.                                                   *)

LEMMA ResolvedAre ==
  ASSUME NEW w \in Worlds, NEW c \in Configs
  PROVE  ResolveMapping(w, c) \subseteq w.repos /\ w.repos \subseteq Repos
<1>1. w.repos \subseteq Repos /\ Rules[c].mode \in {"none", "add", "replace"}
  BY KindsDiffer, BrowseAssumption
<1> QED BY <1>1 DEF ResolveMapping

LEMMA CollectedLinksAre ==
  ASSUME NEW w \in Worlds
  PROVE  /\ CollectedLinks(w) \subseteq Links
         /\ \A m, n : Link(m, "contains", n) \in CollectedLinks(w) <=>
              \/ n \in w.repos /\ HomeOf[n] # Unassigned /\ m = HomeOf[n]
              \/ n \in Configs /\ m = ProjectOf[n]
         /\ \A m, n : Link(m, "maps_to", n) \in CollectedLinks(w) <=>
              \E c \in Configs : w.roots[c].readable /\ m \in ResolveMapping(w, c) /\ n = ProjectOf[c]
         /\ \A m, n : Link(m, "ran_as", n) \in CollectedLinks(w) <=>
              n \in Builds /\ w.roots[RunOf[n]].readable /\ m = RunOf[n]
<1> DEFINE readable == {c \in Configs : w.roots[c].readable}
           A == {Link(HomeOf[r], "contains", r) : r \in {r \in w.repos : HomeOf[r] # Unassigned}}
           B == {Link(ProjectOf[c], "contains", c) : c \in Configs}
           C == UNION {{Link(r, "maps_to", ProjectOf[c]) : r \in ResolveMapping(w, c)} : c \in readable}
           D == {Link(RunOf[b], "ran_as", b) : b \in {b \in Builds : RunOf[b] \in readable}}
<1>1. CollectedLinks(w) = A \cup B \cup C \cup D
  BY DEF CollectedLinks
<1>2. w.repos \subseteq Repos
  BY BrowseAssumption
<1>3. \A m, n, r, x, y, z : Link(m, n, r) = Link(x, y, z) <=> m = x /\ n = y /\ r = z
  BY DEF Link
<1>4. \A e : e \in A <=> \E r \in w.repos : HomeOf[r] # Unassigned /\ e = Link(HomeOf[r], "contains", r)
  OBVIOUS
<1>5. \A e : e \in B <=> \E c \in Configs : e = Link(ProjectOf[c], "contains", c)
  OBVIOUS
<1>6. \A e : e \in C <=> \E c \in Configs : /\ w.roots[c].readable
                                            /\ \E r \in ResolveMapping(w, c) : e = Link(r, "maps_to", ProjectOf[c])
  OBVIOUS
<1>7. \A e : e \in D <=> \E b \in Builds : RunOf[b] \in readable /\ e = Link(RunOf[b], "ran_as", b)
  OBVIOUS
<1>8. \A b \in Builds : RunOf[b] \in readable <=> w.roots[RunOf[b]].readable
  BY KindsDiffer
<1> HIDE DEF readable, A, B, C, D
<1>9. CollectedLinks(w) \subseteq Links
  <2>1. \A m, n \in Ids, r \in {"contains", "maps_to", "ran_as"} : Link(m, r, n) \in Links
    BY DEF Link, Links
  <2>2. A \subseteq Links
    BY <1>2, <1>4, <2>1, KindsDiffer DEF Ids
  <2>3. B \subseteq Links
    BY <1>5, <2>1, KindsDiffer DEF Ids
  <2>4. C \subseteq Links
    BY <1>6, <2>1, KindsDiffer, ResolvedAre DEF Ids
  <2>5. D \subseteq Links
    BY <1>7, <2>1, KindsDiffer DEF Ids
  <2> QED BY <1>1, <2>2, <2>3, <2>4, <2>5
<1>10. ASSUME NEW m, NEW n
       PROVE  Link(m, "contains", n) \in CollectedLinks(w) <=>
                \/ n \in w.repos /\ HomeOf[n] # Unassigned /\ m = HomeOf[n]
                \/ n \in Configs /\ m = ProjectOf[n]
  <2>1. Link(m, "contains", n) \in A <=> n \in w.repos /\ HomeOf[n] # Unassigned /\ m = HomeOf[n]
    BY <1>3, <1>4
  <2>2. Link(m, "contains", n) \in B <=> n \in Configs /\ m = ProjectOf[n]
    BY <1>3, <1>5
  <2>3. Link(m, "contains", n) \notin C /\ Link(m, "contains", n) \notin D
    BY <1>3, <1>6, <1>7
  <2> QED BY <1>1, <2>1, <2>2, <2>3
<1>11. ASSUME NEW m, NEW n
       PROVE  Link(m, "maps_to", n) \in CollectedLinks(w) <=>
                \E c \in Configs : w.roots[c].readable /\ m \in ResolveMapping(w, c) /\ n = ProjectOf[c]
  <2>1. Link(m, "maps_to", n) \in C <=>
          \E c \in Configs : w.roots[c].readable /\ m \in ResolveMapping(w, c) /\ n = ProjectOf[c]
    BY <1>3, <1>6
  <2>2. Link(m, "maps_to", n) \notin A /\ Link(m, "maps_to", n) \notin B /\ Link(m, "maps_to", n) \notin D
    BY <1>3, <1>4, <1>5, <1>7
  <2> QED BY <1>1, <2>1, <2>2
<1>12. ASSUME NEW m, NEW n
       PROVE  Link(m, "ran_as", n) \in CollectedLinks(w) <=>
                n \in Builds /\ w.roots[RunOf[n]].readable /\ m = RunOf[n]
  <2>1. Link(m, "ran_as", n) \in D <=> n \in Builds /\ w.roots[RunOf[n]].readable /\ m = RunOf[n]
    BY <1>3, <1>7, <1>8
  <2>2. Link(m, "ran_as", n) \notin A /\ Link(m, "ran_as", n) \notin B /\ Link(m, "ran_as", n) \notin C
    BY <1>3, <1>4, <1>5, <1>6
  <2> QED BY <1>1, <2>1, <2>2
<1> QED BY <1>9, <1>10, <1>11, <1>12

(* The graph of a world, whichever version of the program saved it.        *)
LEMMA CollectedNodesAre ==
  ASSUME NEW w \in Worlds, NEW g,
         g.nodes = CollectLive(w).nodes, g.edges = CollectLive(w).edges
  PROVE  /\ Chain(g)
         /\ \A m, r, n : Joined(g, m, r, n) <=> Link(m, r, n) \in CollectedLinks(w)
         /\ w.repos = Repos \cap g.nodes
         /\ \A p \in Projects \cap g.nodes : \E r \in Repos : Joined(g, p, "contains", r)
<1>1. g.edges = CollectedLinks(w)
  BY DEF CollectLive
<1>2. g.nodes = w.repos \cup {e.source : e \in CollectedLinks(w)} \cup {e.target : e \in CollectedLinks(w)}
  BY DEF CollectLive
<1>3. \A m, r, n : Joined(g, m, r, n) <=> Link(m, r, n) \in CollectedLinks(w)
  BY <1>1 DEF Joined
<1>4. w.repos \subseteq Repos
  BY BrowseAssumption
<1>5. CollectedLinks(w) \subseteq Links
  BY CollectedLinksAre
<1>6. \A x : x \in g.nodes <=> x \in w.repos \/ \E m, r, n : Joined(g, m, r, n) /\ x \in {m, n}
  <2>1. ASSUME NEW e \in CollectedLinks(w) PROVE Joined(g, e.source, e.relation, e.target)
    BY <1>3, <1>5, LinkIs
  <2>2. ASSUME NEW m, NEW r, NEW n, Joined(g, m, r, n)
        PROVE  \E e \in CollectedLinks(w) : e.source = m /\ e.target = n
    BY <1>3, <2>2, LinkIs
  <2> QED BY <1>2, <2>1, <2>2
<1>7. \A m, r, n : Joined(g, m, r, n) => m \in Ids /\ n \in Ids /\ r \in {"contains", "maps_to", "ran_as"}
  <2>1. \A m, r, n : Link(m, r, n) \in Links => r \in {"contains", "maps_to", "ran_as"}
    BY DEF Link, Links
  <2> QED BY <1>3, <1>5, <2>1, LinkIs
<1>8. \A m, n : Joined(g, m, "contains", n) =>
        /\ m \in g.nodes /\ n \in g.nodes
        /\ \/ m \in Projects /\ n \in w.repos /\ m = HomeOf[n]
           \/ m \in TcProjects /\ n \in Configs /\ m = ProjectOf[n]
  BY <1>3, <1>4, <1>6, CollectedLinksAre, KindsDiffer
<1>9. \A m, n : Joined(g, m, "maps_to", n) =>
        m \in g.nodes /\ n \in g.nodes /\ m \in w.repos /\ n \in TcProjects
  BY <1>3, <1>6, CollectedLinksAre, ResolvedAre, KindsDiffer
<1>10. \A m, n : Joined(g, m, "ran_as", n) =>
        m \in g.nodes /\ n \in g.nodes /\ m \in Configs /\ n \in Builds /\ m = RunOf[n]
  BY <1>3, <1>6, CollectedLinksAre, KindsDiffer
<1>11. Chain(g)
  <2>1. g.nodes \subseteq Ids
    BY <1>4, <1>6, <1>7 DEF Ids
  <2> QED BY <1>1, <1>4, <1>5, <1>8, <1>9, <1>10, <2>1 DEF Chain
<1>12. \A x \in g.nodes :
        \/ x \in w.repos \cup TcProjects \cup Configs \cup Builds
        \/ x \in Projects /\ \E r \in w.repos : Joined(g, x, "contains", r)
  BY <1>6, <1>7, <1>8, <1>9, <1>10
<1>13. w.repos = Repos \cap g.nodes
  BY <1>4, <1>6, <1>12, KindsDiffer
<1>14. \A p \in Projects \cap g.nodes : \E r \in Repos : Joined(g, p, "contains", r)
  BY <1>4, <1>12, KindsDiffer
<1> QED BY <1>3, <1>11, <1>13, <1>14

(* Colours and statuses do not depend on colours and statuses.             *)
LEMMA AnnotatedIs ==
  ASSUME NEW g
  PROVE  LET a == Annotated(g)
         IN  /\ IsGraph(a) /\ a.nodes = g.nodes /\ a.edges = g.edges /\ a.mapping = g.mapping
             /\ a.outputs = g.outputs /\ a.failed = g.failed
             /\ a.branch = OutputBranch(a) /\ a.status = MappingStatus(a)
<1> DEFINE a == Annotated(g)
<1>1. /\ IsGraph(a) /\ a.nodes = g.nodes /\ a.edges = g.edges /\ a.mapping = g.mapping
      /\ a.outputs = g.outputs /\ a.failed = g.failed
      /\ a.branch = OutputBranch(g) /\ a.status = MappingStatus(g)
  BY DEF Annotated, IsGraph
<1> HIDE DEF a
<1>2. \A r, n : Sources(a, r, n) = Sources(g, r, n) /\ Targets(a, r, n) = Targets(g, r, n)
  BY <1>1 DEF Sources, Targets
<1>3. \A c : Owners(a, c) = Owners(g, c)
  BY <1>1, <1>2 DEF Owners
<1>4. OutputBranch(a) = OutputBranch(g)
  BY <1>1, <1>2, <1>3 DEF OutputBranch
<1>5. MappingStatus(a) = MappingStatus(g)
  BY <1>1, <1>2 DEF MappingStatus
<1> QED BY <1>1, <1>4, <1>5 DEF a

LEMMA CollectedIs ==
  ASSUME NEW w \in Worlds,
         NEW g \in {Annotated(CollectLive(w)), Annotated(Legacy(CollectLive(w)))}
  PROVE  Collected(g)
<1>1. /\ IsGraph(g) /\ g.branch = OutputBranch(g) /\ g.status = MappingStatus(g)
      /\ g.nodes = CollectLive(w).nodes /\ g.edges = CollectLive(w).edges
      /\ g.outputs = w.outputs /\ g.failed = w.failed
      /\ g.mapping \in {[c \in Configs |-> Mapping(w, c)], [c \in Configs |-> LegacyMapping]}
  <2> DEFINE l == Legacy(CollectLive(w))
  <2>1. /\ CollectLive(w).outputs = w.outputs /\ CollectLive(w).failed = w.failed
        /\ CollectLive(w).mapping = [c \in Configs |-> Mapping(w, c)]
        /\ l.nodes = CollectLive(w).nodes /\ l.edges = CollectLive(w).edges
        /\ l.outputs = w.outputs /\ l.failed = w.failed
        /\ l.mapping = [c \in Configs |-> LegacyMapping]
    BY DEF CollectLive, Legacy
  <2> HIDE DEF l
  <2> QED BY <2>1, AnnotatedIs DEF l
<1>2. /\ Chain(g)
      /\ \A m, r, n : Joined(g, m, r, n) <=> Link(m, r, n) \in CollectedLinks(w)
      /\ w.repos = Repos \cap g.nodes
      /\ \A p \in Projects \cap g.nodes : \E r \in Repos : Joined(g, p, "contains", r)
  BY <1>1, CollectedNodesAre
<1>3. \A c \in Configs : Joined(g, ProjectOf[c], "contains", c)
  BY <1>2, CollectedLinksAre
<1>4. \A r \in Repos \cap g.nodes : HomeOf[r] # Unassigned => Joined(g, HomeOf[r], "contains", r)
  BY <1>2, CollectedLinksAre
<1>5. g.outputs \subseteq Builds /\ g.failed \subseteq Builds
  BY <1>1, BrowseAssumption
<1>6. \A m, n : Joined(g, m, "maps_to", n) <=>
        \E c \in Configs : w.roots[c].readable /\ m \in ResolveMapping(w, c) /\ n = ProjectOf[c]
  BY <1>2, CollectedLinksAre
<1>7. \A c \in Configs : ResolveMapping(w, c) \subseteq Repos \cap g.nodes
  BY <1>2, ResolvedAre
<1>8. CASE g.mapping = [c \in Configs |-> Mapping(w, c)]
  <2>1. \A c \in Configs :
          IF w.roots[c].readable
          THEN g.mapping[c].state = "explicit" /\ g.mapping[c].repos = ResolveMapping(w, c)
          ELSE g.mapping[c].state = "unavailable"
    BY <1>8 DEF Mapping
  <2>2. \A c \in Configs : Owners(g, c) = IF w.roots[c].readable THEN ResolveMapping(w, c) ELSE {}
    <3> SUFFICES ASSUME NEW c \in Configs
                 PROVE  Owners(g, c) = IF w.roots[c].readable THEN ResolveMapping(w, c) ELSE {}
      OBVIOUS
    <3>1. CASE w.roots[c].readable
      <4>1. Owners(g, c) = ResolveMapping(w, c) \cap Repos \cap g.nodes
        BY <1>2, <2>1, <3>1, OwnersAre
      <4> QED BY <1>7, <3>1, <4>1
    <3>2. CASE ~w.roots[c].readable
      BY <1>2, <2>1, <3>2, OwnersAre
    <3> QED BY <3>1, <3>2
  <2>3. \A c \in Configs : \A r \in Owners(g, c) : Joined(g, r, "maps_to", ProjectOf[c])
    BY <1>6, <2>2
  <2>4. \A r, t : Joined(g, r, "maps_to", t) => \E c \in Configs : ProjectOf[c] = t /\ r \in Owners(g, c)
    BY <1>6, <2>2
  <2> QED BY <1>1, <1>2, <1>3, <1>4, <1>5, <1>7, <2>1, <2>2, <2>3, <2>4 DEF Collected
<1>9. CASE g.mapping = [c \in Configs |-> LegacyMapping]
  <2>1. \A c \in Configs : g.mapping[c].state = "legacy"
    BY <1>9 DEF LegacyMapping
  <2>2. \A c \in Configs : \A r : r \in Owners(g, c) <=> Joined(g, r, "maps_to", ProjectOf[c])
    BY <1>2, <1>3, <2>1, OwnersAre
  <2>3. \A r, t : Joined(g, r, "maps_to", t) => \E c \in Configs : ProjectOf[c] = t /\ r \in Owners(g, c)
    BY <1>6, <2>2
  <2>4. \A c \in Configs : Owners(g, c) \subseteq Repos \cap g.nodes
    BY <1>2, <2>2, ChainIs
  <2> QED BY <1>1, <1>2, <1>3, <1>4, <1>5, <2>1, <2>2, <2>3, <2>4 DEF Collected
<1> QED BY <1>1, <1>8, <1>9

-----------------------------------------------------------------------------
(* Colours and impact.                                                     *)

HasOutput(g, c) == \E b \in g.outputs : Joined(g, c, "ran_as", b)

LEMMA OutputBranchIs ==
  ASSUME NEW g, Collected(g), NEW n
  PROVE  n \in g.branch <=>
           \/ n \in Configs /\ HasOutput(g, n)
           \/ \E c \in Configs : HasOutput(g, c) /\ n = ProjectOf[c]
           \/ \E c \in Configs : HasOutput(g, c) /\ n \in Owners(g, c)
           \/ /\ n \in Projects
              /\ \E c \in Configs : HasOutput(g, c) /\ \E r \in Owners(g, c) : Joined(g, n, "contains", r)
<1>1. /\ Chain(g) /\ g.branch = OutputBranch(g)
      /\ \A c \in Configs : Joined(g, ProjectOf[c], "contains", c) /\ Owners(g, c) \subseteq Repos
  BY DEF Collected
<1> DEFINE builds == g.outputs \cap g.nodes
           configs == (UNION {Sources(g, "ran_as", b) : b \in builds}) \cap Configs
           tcProjects == (UNION {Sources(g, "contains", c) : c \in configs}) \cap TcProjects
           repos == UNION {Owners(g, c) : c \in configs}
           projects == (UNION {Sources(g, "contains", r) : r \in repos}) \cap Projects
<1>2. OutputBranch(g) = configs \cup tcProjects \cup repos \cup projects
  BY DEF OutputBranch
<1>3. \A c : c \in configs <=> c \in Configs /\ HasOutput(g, c)
  BY <1>1, ChainEnds, ChainIs DEF HasOutput
<1> HIDE DEF configs
<1>4. \A t : t \in tcProjects <=> \E c \in configs : t = ProjectOf[c]
  BY <1>1, <1>3, ChainEnds, ChainIs, KindsDiffer
<1>5. \A r : r \in repos <=> \E c \in configs : r \in Owners(g, c)
  OBVIOUS
<1>6. \A p : p \in projects <=> p \in Projects /\ \E r \in repos : Joined(g, p, "contains", r)
  BY <1>1, ChainEnds
<1> HIDE DEF tcProjects, repos, projects
<1> QED BY <1>1, <1>2, <1>3, <1>4, <1>5, <1>6

LEMMA BelowConfig ==
  ASSUME NEW g, Chain(g), NEW c \in Configs
  PROVE  \A x : x \in Descendants(g, c) <=> Joined(g, c, "ran_as", x)
<1>1. \A y : Child(g, c, y) <=> Joined(g, c, "ran_as", y)
  BY ChainIs, KindsDiffer DEF Child
<1>2. \A y, z : Joined(g, c, "ran_as", y) => ~Child(g, y, z) /\ y # c
  BY ChainIs, KindsDiffer DEF Child
<1> QED BY <1>1, <1>2, DescendantsAre

LEMMA RepositoryImpactIs ==
  ASSUME NEW g, Collected(g), NEW r \in Repos, NEW x
  PROVE  x \in RepositoryImpact(g, r) <=>
           \/ x = r
           \/ Joined(g, r, "maps_to", x)
           \/ x \in Configs /\ r \in Owners(g, x)
           \/ \E c \in Configs : r \in Owners(g, c) /\ Joined(g, c, "ran_as", x)
<1>1. /\ Chain(g)
      /\ \A c \in Configs : /\ Joined(g, ProjectOf[c], "contains", c)
                            /\ r \in Owners(g, c) => Joined(g, r, "maps_to", ProjectOf[c])
  BY DEF Collected
<1> DEFINE tcProjects == Targets(g, "maps_to", r)
           contained == (UNION {Targets(g, "contains", p) : p \in tcProjects}) \cap Configs
           configs == {c \in contained : r \in Owners(g, c)}
           below == UNION {Descendants(g, c) : c \in configs}
<1>2. RepositoryImpact(g, r) = {r} \cup tcProjects \cup configs \cup below
  BY DEF RepositoryImpact
<1>3. x \in tcProjects <=> Joined(g, r, "maps_to", x)
  BY <1>1, ChainEnds
<1>4. \A c : c \in configs <=> c \in Configs /\ r \in Owners(g, c)
  <2>1. \A c \in Configs : r \in Owners(g, c) =>
          /\ ProjectOf[c] \in tcProjects
          /\ c \in Targets(g, "contains", ProjectOf[c])
    BY <1>1, ChainEnds
  <2> HIDE DEF tcProjects
  <2>2. \A c \in Configs : r \in Owners(g, c) => c \in contained
    BY <2>1
  <2> HIDE DEF contained
  <2>3. contained \subseteq Configs
    BY DEF contained
  <2> QED BY <2>2, <2>3
<1> HIDE DEF configs
<1>5. \A c \in Configs : \A y : y \in Descendants(g, c) <=> Joined(g, c, "ran_as", y)
  BY <1>1, BelowConfig
<1>6. x \in below <=> \E c \in Configs : r \in Owners(g, c) /\ Joined(g, c, "ran_as", x)
  BY <1>4, <1>5
<1> HIDE DEF tcProjects, below
<1> QED BY <1>2, <1>3, <1>4, <1>6

LEMMA BelowTcProject ==
  ASSUME NEW g, Chain(g), NEW t \in TcProjects
  PROVE  \A x : x \in Descendants(g, t) <=>
           \/ Joined(g, t, "contains", x)
           \/ \E c \in Configs : Joined(g, t, "contains", c) /\ Joined(g, c, "ran_as", x)
<1>1. \A y : Child(g, t, y) <=> Joined(g, t, "contains", y)
  BY ChainIs, KindsDiffer DEF Child
<1>2. \A y : Joined(g, t, "contains", y) => y \in Configs
  BY ChainIs, KindsDiffer
<1>3. \A y \in Configs : \A z : Child(g, y, z) <=> Joined(g, y, "ran_as", z)
  BY ChainIs, KindsDiffer DEF Child
<1>4. \A y \in Configs : \A z : (Joined(g, t, "contains", y) => y # t) /\ (Joined(g, y, "ran_as", z) => z # t)
  BY ChainIs, KindsDiffer
<1> QED BY <1>1, <1>2, <1>3, <1>4, DescendantsAre

LEMMA ColoursAgree ==
  ASSUME NEW g, Collected(g), NEW n \in g.nodes \ Builds
  PROVE  n \in g.branch <=> Impact(g, n) \cap g.outputs # {}
<1>1. /\ Chain(g) /\ g.outputs \subseteq Builds
      /\ \A c \in Configs : /\ Joined(g, ProjectOf[c], "contains", c)
                            /\ Owners(g, c) \subseteq Repos
  BY DEF Collected
<1>2. n \in Projects \cup Repos \cup TcProjects \cup Configs
  BY <1>1 DEF Chain, Ids
<1>3. \A m, x : Joined(g, m, "ran_as", x) => m \in Configs
  BY <1>1, ChainIs
<1>4. CASE n \in Configs
  <2>1. Impact(g, n) = {n} \cup Descendants(g, n)
    BY <1>4, KindsDiffer DEF Impact
  <2>2. \A b \in g.outputs : b \in Impact(g, n) <=> Joined(g, n, "ran_as", b)
    BY <1>1, <1>4, <2>1, BelowConfig, KindsDiffer
  <2>3. n \in g.branch <=> HasOutput(g, n)
    BY <1>1, <1>4, OutputBranchIs, KindsDiffer
  <2> QED BY <2>2, <2>3 DEF HasOutput
<1>5. CASE n \in TcProjects
  <2>1. Impact(g, n) = {n} \cup Descendants(g, n)
    BY <1>5, KindsDiffer DEF Impact
  <2>2. \A c \in Configs : Joined(g, n, "contains", c) <=> n = ProjectOf[c]
    BY <1>1, <1>5, ChainIs, KindsDiffer
  <2>3. \A b \in g.outputs : b \in Impact(g, n) <=>
          \E c \in Configs : n = ProjectOf[c] /\ Joined(g, c, "ran_as", b)
    <3>1. \A b \in g.outputs : b # n /\ ~Joined(g, n, "contains", b)
      BY <1>1, <1>5, ChainIs, KindsDiffer
    <3> QED BY <1>1, <1>5, <2>1, <2>2, <3>1, BelowTcProject
  <2>4. n \in g.branch <=> \E c \in Configs : HasOutput(g, c) /\ n = ProjectOf[c]
    BY <1>1, <1>5, OutputBranchIs, KindsDiffer
  <2> QED BY <2>3, <2>4 DEF HasOutput
<1>6. CASE n \in Repos
  <2>1. Impact(g, n) = RepositoryImpact(g, n)
    BY <1>6, KindsDiffer DEF Impact
  <2>2. \A b \in g.outputs : b \in Impact(g, n) <=>
          \E c \in Configs : n \in Owners(g, c) /\ Joined(g, c, "ran_as", b)
    <3>1. \A b \in g.outputs : b # n /\ ~Joined(g, n, "maps_to", b) /\ b \notin Configs
      BY <1>1, <1>6, ChainIs, KindsDiffer
    <3> QED BY <1>6, <2>1, <3>1, RepositoryImpactIs
  <2>3. n \in g.branch <=> \E c \in Configs : HasOutput(g, c) /\ n \in Owners(g, c)
    BY <1>1, <1>6, OutputBranchIs, KindsDiffer
  <2> QED BY <2>2, <2>3 DEF HasOutput
<1>7. CASE n \in Projects
  <2>1. Impact(g, n) = {n} \cup UNION {RepositoryImpact(g, r) : r \in Targets(g, "contains", n) \cap Repos}
    BY <1>7, KindsDiffer DEF Impact
  <2>2. \A r : r \in Targets(g, "contains", n) \cap Repos <=> r \in Repos /\ Joined(g, n, "contains", r)
    BY <1>1, ChainEnds
  <2>3. \A b \in g.outputs, r \in Repos : b \in RepositoryImpact(g, r) <=>
          \E c \in Configs : r \in Owners(g, c) /\ Joined(g, c, "ran_as", b)
    <3>1. \A b \in g.outputs, r \in Repos : b # r /\ ~Joined(g, r, "maps_to", b) /\ b \notin Configs
      BY <1>1, ChainIs, KindsDiffer
    <3> QED BY <3>1, RepositoryImpactIs
  <2>4. \A b \in g.outputs : b # n
    BY <1>1, <1>7, KindsDiffer
  <2>5. \A b \in g.outputs : b \in Impact(g, n) <=>
          \E r \in Repos : Joined(g, n, "contains", r) /\ b \in RepositoryImpact(g, r)
    BY <2>1, <2>2, <2>4
  <2>6. n \in g.branch <=>
          \E c \in Configs : HasOutput(g, c) /\ \E r \in Owners(g, c) : Joined(g, n, "contains", r)
    BY <1>1, <1>7, OutputBranchIs, KindsDiffer
  <2> QED BY <1>1, <2>3, <2>5, <2>6 DEF HasOutput
<1> QED BY <1>2, <1>4, <1>5, <1>6, <1>7

-----------------------------------------------------------------------------
(* Mapping status, orphans and impact.                                     *)

LEMMA StatusIs ==
  ASSUME NEW g, Collected(g), NEW n \in g.nodes \ Builds
  PROVE  /\ n \in Configs => g.status[n] = ConfigStatus(g.mapping[n])
         /\ n \in Projects =>
              (g.status[n] = "mapped" <=>
                 \E r, t : Joined(g, n, "contains", r) /\ Joined(g, r, "maps_to", t))
         /\ n \in Repos => (g.status[n] = "mapped" <=> \E t : Joined(g, n, "maps_to", t))
<1>1. Chain(g) /\ g.status = MappingStatus(g) /\ g.edges \subseteq Links
  BY DEF Collected, Chain
<1> DEFINE mapsTo == {e \in g.edges : e.relation = "maps_to"}
           mapped == {e.source : e \in mapsTo} \cup {e.target : e \in mapsTo}
           Plain(yes) == IF yes THEN "mapped" ELSE "unmapped"
<1>2. g.status[n] = IF n \in Configs THEN ConfigStatus(g.mapping[n])
                    ELSE IF n \in Projects THEN Plain(Targets(g, "contains", n) \cap mapped # {})
                    ELSE Plain(n \in mapped)
  BY <1>1 DEF MappingStatus
<1>3. \A r : r \in mapped <=> \E t : Joined(g, r, "maps_to", t) \/ Joined(g, t, "maps_to", r)
  <2>1. ASSUME NEW e \in mapsTo PROVE Joined(g, e.source, "maps_to", e.target)
    BY <1>1, LinkIs DEF Joined
  <2>2. ASSUME NEW r, NEW t, Joined(g, r, "maps_to", t)
        PROVE  \E e \in mapsTo : e.source = r /\ e.target = t
    BY <2>2, LinkIs DEF Joined
  <2> HIDE DEF mapsTo
  <2> QED BY <2>1, <2>2
<1> HIDE DEF mapped
<1>4. \A r \in Repos : r \in mapped <=> \E t : Joined(g, r, "maps_to", t)
  BY <1>1, <1>3, ChainIs, KindsDiffer
<1>5. n \in Configs => g.status[n] = ConfigStatus(g.mapping[n])
  BY <1>2
<1>6. ASSUME n \in Projects
      PROVE  g.status[n] = "mapped" <=> \E r, t : Joined(g, n, "contains", r) /\ Joined(g, r, "maps_to", t)
  <2>1. g.status[n] = "mapped" <=> Targets(g, "contains", n) \cap mapped # {}
    BY <1>2, <1>6, KindsDiffer
  <2>2. \A r : r \in Targets(g, "contains", n) <=> Joined(g, n, "contains", r)
    BY <1>1, ChainEnds
  <2>3. \A r : Joined(g, n, "contains", r) => r \in Repos
    BY <1>1, <1>6, ChainIs, KindsDiffer
  <2> QED BY <1>4, <2>1, <2>2, <2>3
<1>7. ASSUME n \in Repos PROVE g.status[n] = "mapped" <=> \E t : Joined(g, n, "maps_to", t)
  <2>1. g.status[n] = "mapped" <=> n \in mapped
    BY <1>2, <1>7, KindsDiffer
  <2> QED BY <1>4, <1>7, <2>1
<1> QED BY <1>5, <1>6, <1>7

LEMMA FactsAgree ==
  ASSUME NEW g, Collected(g), \A c \in Configs : g.mapping[c].state # "legacy"
  PROVE  /\ \A r \in g.nodes \cap (Repos \cup Projects) :
              g.status[r] = "mapped" <=> Impact(g, r) \cap Configs # {}
         /\ OrphanRepositories(g) = {r \in g.nodes \cap Repos : g.status[r] # "mapped"}
         /\ OrphanConfigurations(g) =
              {c \in g.nodes \cap Configs : g.status[c] \in {"unmapped", "unknown"}}
<1>1. /\ Chain(g)
      /\ \A c \in Configs : \A r \in Owners(g, c) : r \in Repos /\ Joined(g, r, "maps_to", ProjectOf[c])
      /\ \A r \in Repos, t \in TcProjects : Joined(g, r, "maps_to", t) =>
           \E c \in Configs : r \in Owners(g, c)
  BY DEF Collected
<1>2. \A r \in Repos : (\E t : Joined(g, r, "maps_to", t)) <=> \E c \in Configs : r \in Owners(g, c)
  BY <1>1, ChainIs
<1>3. \A r \in Repos, c \in Configs : c \in RepositoryImpact(g, r) <=> r \in Owners(g, c)
  <2>1. \A r \in Repos, c \in Configs : \A m : c # r /\ ~Joined(g, r, "maps_to", c) /\ ~Joined(g, m, "ran_as", c)
    BY <1>1, ChainIs, KindsDiffer
  <2> QED BY <2>1, RepositoryImpactIs
<1>4. ASSUME NEW r \in g.nodes \cap Repos
      PROVE  g.status[r] = "mapped" <=> Impact(g, r) \cap Configs # {}
  <2>1. Impact(g, r) = RepositoryImpact(g, r)
    BY <1>4, KindsDiffer DEF Impact
  <2>2. g.status[r] = "mapped" <=> \E t : Joined(g, r, "maps_to", t)
    BY StatusIs, KindsDiffer
  <2> QED BY <1>2, <1>3, <2>1, <2>2
<1>5. ASSUME NEW p \in g.nodes \cap Projects
      PROVE  g.status[p] = "mapped" <=> Impact(g, p) \cap Configs # {}
  <2>1. Impact(g, p) = {p} \cup UNION {RepositoryImpact(g, r) : r \in Targets(g, "contains", p) \cap Repos}
    BY <1>5, KindsDiffer DEF Impact
  <2>2. \A r : r \in Targets(g, "contains", p) \cap Repos <=> r \in Repos /\ Joined(g, p, "contains", r)
    BY <1>1, ChainEnds
  <2>3. \A c \in Configs : c # p
    BY KindsDiffer
  <2>4. \A c \in Configs : c \in Impact(g, p) <=>
          \E r \in Repos : Joined(g, p, "contains", r) /\ r \in Owners(g, c)
    BY <1>3, <2>1, <2>2, <2>3
  <2>5. g.status[p] = "mapped" <=> \E r, t : Joined(g, p, "contains", r) /\ Joined(g, r, "maps_to", t)
    BY StatusIs, KindsDiffer
  <2>6. \A r, t : Joined(g, r, "maps_to", t) => r \in Repos
    BY <1>1, ChainIs
  <2> QED BY <1>2, <2>4, <2>5, <2>6
<1>6. ASSUME NEW r \in g.nodes \cap Repos
      PROVE  Targets(g, "maps_to", r) = {} <=> g.status[r] # "mapped"
  <2>1. g.status[r] = "mapped" <=> \E t : Joined(g, r, "maps_to", t)
    BY StatusIs, KindsDiffer
  <2> QED BY <1>1, <2>1, ChainEnds
<1>7. ASSUME NEW c \in g.nodes \cap Configs
      PROVE  Owners(g, c) = {} <=> g.status[c] \in {"unmapped", "unknown"}
  <2>1. g.status[c] = ConfigStatus(g.mapping[c])
    BY StatusIs, KindsDiffer
  <2>2. CASE g.mapping[c].state = "unavailable"
    <3>1. Owners(g, c) = {}
      BY <1>1, <2>2, OwnersAre
    <3> QED BY <2>1, <2>2, <3>1 DEF ConfigStatus
  <2>3. CASE g.mapping[c].state = "explicit"
    <3>1. Owners(g, c) = g.mapping[c].repos
      <4>1. Owners(g, c) = g.mapping[c].repos \cap Repos \cap g.nodes
        BY <1>1, <2>3, OwnersAre
      <4>2. g.mapping[c].repos \subseteq Repos \cap g.nodes
        BY <2>3 DEF Collected
      <4> QED BY <4>1, <4>2
    <3>2. CASE g.mapping[c].repos = {}
      BY <2>1, <2>3, <3>1, <3>2 DEF ConfigStatus
    <3>3. CASE g.mapping[c].repos # {}
      <4>1. g.status[c] \in {"partial", "mapped"}
        BY <2>1, <2>3, <3>3 DEF ConfigStatus
      <4> QED BY <3>1, <3>3, <4>1
    <3> QED BY <3>2, <3>3
  <2>4. g.mapping[c].state \in {"unavailable", "explicit"}
    BY DEF Collected
  <2> QED BY <2>2, <2>3, <2>4
<1> QED BY <1>4, <1>5, <1>6, <1>7 DEF OrphanRepositories, OrphanConfigurations

-----------------------------------------------------------------------------
(* Subgraphs.                                                              *)

(* The graph g with other nodes and links.                                 *)
With(g, N, E) ==
  [nodes |-> N, edges |-> E, mapping |-> g.mapping, outputs |-> g.outputs,
   failed |-> g.failed, branch |-> g.branch, status |-> g.status]

Replaced(g, N, E) == [g EXCEPT !.nodes = N, !.edges = E]

LEMMA WithIs ==
  ASSUME NEW g, IsGraph(g), NEW N, NEW E
  PROVE  Replaced(g, N, E) = With(g, N, E) /\ IsGraph(With(g, N, E))
<1> DEFINE k == [g EXCEPT !.nodes = N]
<1>1. k = With(g, N, g.edges)
  BY DEF IsGraph, With
<1> HIDE DEF k
<1>2. [k EXCEPT !.edges = E] = With(k, k.nodes, E)
  BY <1>1 DEF With
<1>3. With(k, k.nodes, E) = With(g, N, E)
  BY <1>1 DEF With
<1>4. Replaced(g, N, E) = [k EXCEPT !.edges = E]
  BY DEF k, Replaced
<1>5. IsGraph(With(g, N, E))
  BY DEF IsGraph, With
<1> QED BY <1>2, <1>3, <1>4, <1>5

LEMMA InducedIs ==
  ASSUME NEW g, IsGraph(g), NEW S
  PROVE  LET k == Induced(g, S)
         IN  /\ IsGraph(k) /\ k.nodes = g.nodes \cap S
             /\ k.edges = {e \in g.edges : e.source \in S /\ e.target \in S}
             /\ k.mapping = g.mapping /\ k.outputs = g.outputs /\ k.failed = g.failed
             /\ k.branch = g.branch /\ k.status = g.status
             /\ \A m, r, n : Joined(k, m, r, n) <=> Joined(g, m, r, n) /\ m \in S /\ n \in S
             /\ Chain(g) => Chain(k)
<1> DEFINE k == Induced(g, S)
<1>1. /\ IsGraph(k) /\ k.nodes = g.nodes \cap S
      /\ k.edges = {e \in g.edges : e.source \in S /\ e.target \in S}
      /\ k.mapping = g.mapping /\ k.outputs = g.outputs /\ k.failed = g.failed
      /\ k.branch = g.branch /\ k.status = g.status
  <2> DEFINE N == g.nodes \cap S
             E == {e \in g.edges : e.source \in S /\ e.target \in S}
  <2>1. k = Replaced(g, N, E)
    BY DEF Induced, Replaced
  <2> HIDE DEF k, N, E
  <2>2. Replaced(g, N, E) = With(g, N, E) /\ IsGraph(With(g, N, E))
    BY WithIs
  <2>3. k = With(g, N, E) /\ IsGraph(k)
    BY <2>1, <2>2
  <2> QED BY <2>3 DEF With, N, E
<1> HIDE DEF k
<1>2. \A m, r, n : Joined(k, m, r, n) <=> Joined(g, m, r, n) /\ m \in S /\ n \in S
  BY <1>1, LinkIs DEF Joined
<1>3. ASSUME Chain(g) PROVE Chain(k)
  <2>1. k.nodes \subseteq Ids /\ k.edges \subseteq Links
    BY <1>1, <1>3 DEF Chain
  <2> QED BY <1>1, <1>2, <1>3, <2>1, ChainIs DEF Chain
<1> QED BY <1>1, <1>2, <1>3 DEF k

(* Graphs with equal fields are equal.                                     *)
LEMMA SameGraph ==
  ASSUME NEW g, IsGraph(g), NEW h, IsGraph(h),
         g.nodes = h.nodes, g.edges = h.edges, g.mapping = h.mapping, g.outputs = h.outputs,
         g.failed = h.failed, g.branch = h.branch, g.status = h.status
  PROVE  g = h
BY DEF IsGraph

LEMMA InducedTwice ==
  ASSUME NEW g, IsGraph(g), NEW S, NEW T
  PROVE  Induced(Induced(g, S), T) = Induced(g, S \cap T)
<1> DEFINE k == Induced(g, S)
           l == Induced(k, T)
           h == Induced(g, S \cap T)
<1>1. /\ IsGraph(k) /\ k.nodes = g.nodes \cap S
      /\ k.edges = {e \in g.edges : e.source \in S /\ e.target \in S}
      /\ k.mapping = g.mapping /\ k.outputs = g.outputs /\ k.failed = g.failed
      /\ k.branch = g.branch /\ k.status = g.status
  BY InducedIs
<1> HIDE DEF k
<1>2. /\ IsGraph(l) /\ l.nodes = k.nodes \cap T
      /\ l.edges = {e \in k.edges : e.source \in T /\ e.target \in T}
      /\ l.mapping = k.mapping /\ l.outputs = k.outputs /\ l.failed = k.failed
      /\ l.branch = k.branch /\ l.status = k.status
  BY <1>1, InducedIs
<1>3. /\ IsGraph(h) /\ h.nodes = g.nodes \cap (S \cap T)
      /\ h.edges = {e \in g.edges : e.source \in S \cap T /\ e.target \in S \cap T}
      /\ h.mapping = g.mapping /\ h.outputs = g.outputs /\ h.failed = g.failed
      /\ h.branch = g.branch /\ h.status = g.status
  BY InducedIs
<1> HIDE DEF l, h
<1>4. l.nodes = h.nodes /\ l.edges = h.edges
  BY <1>1, <1>2, <1>3
<1>5. /\ l.mapping = h.mapping /\ l.outputs = h.outputs /\ l.failed = h.failed
      /\ l.branch = h.branch /\ l.status = h.status /\ IsGraph(l) /\ IsGraph(h)
  BY <1>1, <1>2, <1>3
<1>6. l = h
  BY <1>4, <1>5, SameGraph
<1> QED BY <1>6 DEF k, l, h

(* Only nodes of the graph count.                                          *)
LEMMA InducedBySame ==
  ASSUME NEW g, IsGraph(g), Chain(g), NEW S, NEW T, g.nodes \cap S = g.nodes \cap T
  PROVE  Induced(g, S) = Induced(g, T)
<1> DEFINE k == Induced(g, S)
           h == Induced(g, T)
<1>1. /\ IsGraph(k) /\ k.nodes = g.nodes \cap S
      /\ k.edges = {e \in g.edges : e.source \in S /\ e.target \in S}
      /\ k.mapping = g.mapping /\ k.outputs = g.outputs /\ k.failed = g.failed
      /\ k.branch = g.branch /\ k.status = g.status
  BY InducedIs
<1>2. /\ IsGraph(h) /\ h.nodes = g.nodes \cap T
      /\ h.edges = {e \in g.edges : e.source \in T /\ e.target \in T}
      /\ h.mapping = g.mapping /\ h.outputs = g.outputs /\ h.failed = g.failed
      /\ h.branch = g.branch /\ h.status = g.status
  BY InducedIs
<1>3. \A e \in g.edges : e.source \in g.nodes /\ e.target \in g.nodes
  <2> SUFFICES ASSUME NEW e \in g.edges PROVE e.source \in g.nodes /\ e.target \in g.nodes
    OBVIOUS
  <2>1. e \in Links /\ e.relation \in {"contains", "maps_to", "ran_as"}
    BY DEF Chain, Links
  <2>2. Joined(g, e.source, e.relation, e.target)
    BY <2>1, LinkIs DEF Joined
  <2> QED BY <2>1, <2>2, ChainIs
<1> HIDE DEF k, h
<1>4. k.nodes = h.nodes /\ k.edges = h.edges
  <2>1. \A e \in g.edges : e.source \in S /\ e.target \in S <=> e.source \in T /\ e.target \in T
    BY <1>3
  <2> QED BY <1>1, <1>2, <2>1
<1>5. k = h
  BY <1>1, <1>2, <1>4, SameGraph
<1> QED BY <1>5 DEF k, h

LEMMA InducedByAll ==
  ASSUME NEW g, IsGraph(g), Chain(g), NEW S, g.nodes \subseteq S
  PROVE  Induced(g, S) = g
<1> DEFINE k == Induced(g, S)
<1>1. /\ IsGraph(k) /\ k.nodes = g.nodes \cap S
      /\ k.edges = {e \in g.edges : e.source \in S /\ e.target \in S}
      /\ k.mapping = g.mapping /\ k.outputs = g.outputs /\ k.failed = g.failed
      /\ k.branch = g.branch /\ k.status = g.status
  BY InducedIs
<1>2. \A e \in g.edges : e.source \in g.nodes /\ e.target \in g.nodes
  <2> SUFFICES ASSUME NEW e \in g.edges PROVE e.source \in g.nodes /\ e.target \in g.nodes
    OBVIOUS
  <2>1. e \in Links /\ e.relation \in {"contains", "maps_to", "ran_as"}
    BY DEF Chain, Links
  <2>2. Joined(g, e.source, e.relation, e.target)
    BY <2>1, LinkIs DEF Joined
  <2> QED BY <2>1, <2>2, ChainIs
<1> HIDE DEF k
<1>3. k.edges = g.edges /\ k.nodes = g.nodes
  BY <1>1, <1>2
<1>4. k = g
  BY <1>1, <1>3, SameGraph
<1> QED BY <1>4 DEF k

(* A graph in which a configuration comes with its place, and with the     *)
(* links of its owners.                                                    *)
Placed(g) ==
  /\ IsGraph(g) /\ Chain(g)
  /\ \A c \in Configs : g.mapping[c].state \in {"unavailable", "explicit", "legacy"}
  /\ \A c \in Configs \cap g.nodes :
       /\ Joined(g, ProjectOf[c], "contains", c)
       /\ \A r \in Owners(g, c) : r \in Repos \cap g.nodes /\ Joined(g, r, "maps_to", ProjectOf[c])

LEMMA CollectedIsPlaced ==
  ASSUME NEW g, Collected(g)
  PROVE  Placed(g) /\ Configs \subseteq g.nodes
<1>1. Chain(g) /\ \A c \in Configs : Joined(g, ProjectOf[c], "contains", c)
  BY DEF Collected
<1>2. Configs \subseteq g.nodes
  BY <1>1, ChainIs
<1> QED BY <1>2 DEF Collected, Placed

LEMMA InducedIsPlaced ==
  ASSUME NEW g, Placed(g), NEW S, \A c \in Configs \cap g.nodes \cap S : ProjectOf[c] \in S
  PROVE  LET k == Induced(g, S)
         IN  /\ Placed(k)
             /\ \A c \in Configs \cap k.nodes : Owners(k, c) = Owners(g, c) \cap S
<1> DEFINE k == Induced(g, S)
<1>1. /\ IsGraph(k) /\ Chain(k) /\ k.nodes = g.nodes \cap S /\ k.mapping = g.mapping
      /\ \A m, r, n : Joined(k, m, r, n) <=> Joined(g, m, r, n) /\ m \in S /\ n \in S
  BY InducedIs DEF Placed
<1> HIDE DEF k
<1>2. IsGraph(g) /\ Chain(g)
  BY DEF Placed
<1>3. ASSUME NEW c \in Configs \cap k.nodes PROVE Owners(k, c) = Owners(g, c) \cap S
  <2>1. c \in Configs \cap g.nodes \cap S /\ ProjectOf[c] \in S
    BY <1>1
  <2>2. CASE g.mapping[c].state = "unavailable"
    BY <1>1, <1>2, <2>2, OwnersAre
  <2>3. CASE g.mapping[c].state = "explicit"
    <3>1. Owners(g, c) = g.mapping[c].repos \cap Repos \cap g.nodes
      BY <1>2, <2>3, OwnersAre
    <3>2. Owners(k, c) = g.mapping[c].repos \cap Repos \cap k.nodes
      BY <1>1, <2>3, OwnersAre
    <3> QED BY <1>1, <3>1, <3>2
  <2>4. CASE g.mapping[c].state = "legacy"
    <3>1. \A r : r \in Owners(g, c) <=>
            Joined(g, ProjectOf[c], "contains", c) /\ Joined(g, r, "maps_to", ProjectOf[c])
      BY <1>2, <2>4, OwnersAre
    <3>2. \A r : r \in Owners(k, c) <=>
            Joined(k, ProjectOf[c], "contains", c) /\ Joined(k, r, "maps_to", ProjectOf[c])
      BY <1>1, <2>4, OwnersAre
    <3> QED BY <1>1, <2>1, <3>1, <3>2
  <2>5. g.mapping[c].state \in {"unavailable", "explicit", "legacy"}
    BY DEF Placed
  <2> QED BY <2>2, <2>3, <2>4, <2>5
<1>4. ASSUME NEW c \in Configs \cap k.nodes
      PROVE  /\ Joined(k, ProjectOf[c], "contains", c)
             /\ \A r \in Owners(k, c) : r \in Repos \cap k.nodes /\ Joined(k, r, "maps_to", ProjectOf[c])
  <2>1. c \in Configs \cap g.nodes /\ c \in S /\ ProjectOf[c] \in S
    BY <1>1
  <2>2. /\ Joined(g, ProjectOf[c], "contains", c)
        /\ \A r \in Owners(g, c) : r \in Repos \cap g.nodes /\ Joined(g, r, "maps_to", ProjectOf[c])
    BY <2>1 DEF Placed
  <2> QED BY <1>1, <1>3, <2>1, <2>2
<1>5. Placed(k)
  BY <1>1, <1>4 DEF Placed
<1> QED BY <1>3, <1>5 DEF k

-----------------------------------------------------------------------------
(* Pages around repositories.                                              *)

Owned(g, c, R) == Owners(g, c) \cap R # {}

Loaded(g, c, limit) == IF limit = 0 THEN Runs(g, c) ELSE Newest(Runs(g, c), limit)

(* What a page around the repositories of R shows, with so many builds.    *)
Shown(g, R, limit) ==
  {x \in Ids :
     \/ x \in R
     \/ \E r \in R : Joined(g, x, "contains", r) \/ Joined(g, r, "maps_to", x)
     \/ x \in Configs /\ Owned(g, x, R)
     \/ \E c \in Configs : Owned(g, c, R) /\ x \in Loaded(g, c, limit)}

LEMMA LoadedIs ==
  ASSUME NEW g, Chain(g), NEW c, NEW limit \in Nat
  PROVE  /\ Runs(g, c) \in SUBSET Builds /\ Loaded(g, c, limit) \subseteq Runs(g, c)
         /\ Loaded(g, c, 0) = Runs(g, c)
<1>1. Runs(g, c) \in SUBSET Builds
  BY DEF Runs
<1> QED BY <1>1, NewestIs DEF Loaded

LEMMA AroundIs ==
  ASSUME NEW h, Placed(h), NEW R \in SUBSET (Repos \cap h.nodes), NEW x
  PROVE  x \in Around(h, R) <=>
           \/ x \in R
           \/ \E r \in R : Joined(h, x, "contains", r) \/ Joined(h, r, "maps_to", x)
           \/ x \in Configs \cap h.nodes /\ Owned(h, x, R)
           \/ \E c \in Configs \cap h.nodes : Owned(h, c, R) /\ x \in Runs(h, c)
<1> DEFINE linked == R \cup UNION {Sources(h, "contains", r) \cup Targets(h, "maps_to", r) : r \in R}
           contained == UNION {Targets(h, "contains", p) : p \in linked \cap TcProjects}
           configs == {c \in contained \cap Configs : Owners(h, c) \cap R # {}}
           beside == UNION {Sources(h, "contains", c) \cup Runs(h, c) : c \in configs}
<1>1. Around(h, R) = linked \cup configs \cup beside
  BY DEF Around
<1>2. /\ Chain(h)
      /\ \A c \in Configs \cap h.nodes :
           /\ Joined(h, ProjectOf[c], "contains", c)
           /\ \A r \in Owners(h, c) : r \in Repos \cap h.nodes /\ Joined(h, r, "maps_to", ProjectOf[c])
  BY DEF Placed
<1>3. \A y : y \in linked <=>
        y \in R \/ \E r \in R : Joined(h, y, "contains", r) \/ Joined(h, r, "maps_to", y)
  BY <1>2, ChainEnds
<1> HIDE DEF linked
<1>4. \A c : c \in contained <=> \E p \in linked \cap TcProjects : Joined(h, p, "contains", c)
  BY <1>2, ChainEnds
<1> HIDE DEF contained
<1>5. \A c : c \in configs <=> c \in Configs \cap h.nodes /\ Owned(h, c, R)
  <2>1. ASSUME NEW c \in configs PROVE c \in Configs \cap h.nodes /\ Owned(h, c, R)
    BY <1>2, <1>4, ChainIs DEF Owned
  <2>2. ASSUME NEW c \in Configs \cap h.nodes, Owned(h, c, R) PROVE c \in configs
    <3>1. PICK r \in R : r \in Owners(h, c)
      BY <2>2 DEF Owned
    <3>2. Joined(h, r, "maps_to", ProjectOf[c]) /\ Joined(h, ProjectOf[c], "contains", c)
      BY <1>2, <3>1
    <3>3. ProjectOf[c] \in linked \cap TcProjects
      BY <1>3, <3>2, KindsDiffer
    <3>4. c \in contained
      BY <1>4, <3>2, <3>3
    <3> QED BY <2>2, <3>4 DEF Owned
  <2> QED BY <2>1, <2>2
<1> HIDE DEF configs
<1>6. \A y : y \in beside <=> \E c \in configs : Joined(h, y, "contains", c) \/ y \in Runs(h, c)
  BY <1>2, ChainEnds
<1> HIDE DEF beside
<1>7. ASSUME NEW c \in configs, Joined(h, x, "contains", c) PROVE x \in linked
  <2>1. c \in Configs \cap h.nodes /\ Owned(h, c, R)
    BY <1>5
  <2>2. PICK r \in R : r \in Owners(h, c)
    BY <2>1 DEF Owned
  <2>3. Joined(h, r, "maps_to", ProjectOf[c])
    BY <1>2, <2>1, <2>2
  <2>4. x = ProjectOf[c]
    BY <1>2, <1>7, <2>1, ChainIs, KindsDiffer
  <2> QED BY <1>3, <2>3, <2>4
<1> QED BY <1>1, <1>3, <1>5, <1>6, <1>7

(* The page of the whole graph.                                            *)
LEMMA AroundAll ==
  ASSUME NEW g, Collected(g), NEW R \in SUBSET (Repos \cap g.nodes)
  PROVE  Around(g, R) = Shown(g, R, 0)
<1>1. Placed(g) /\ Chain(g) /\ Configs \subseteq g.nodes
  BY CollectedIsPlaced DEF Collected
<1>2. \A c : Loaded(g, c, 0) = Runs(g, c)
  BY DEF Loaded
<1>3. \A x : x \in Around(g, R) <=>
           \/ x \in R
           \/ \E r \in R : Joined(g, x, "contains", r) \/ Joined(g, r, "maps_to", x)
           \/ x \in Configs /\ Owned(g, x, R)
           \/ \E c \in Configs : Owned(g, c, R) /\ x \in Runs(g, c)
  BY <1>1, AroundIs
<1>4. \A x \in Around(g, R) : x \in Ids
  <2>1. \A m, r, n : Joined(g, m, r, n) => m \in Ids /\ n \in Ids
    BY <1>1, EndsAre DEF Chain
  <2>2. \A c, b : b \in Runs(g, c) => b \in Ids
    BY <1>1, <2>1, RunsAre
  <2> QED BY <1>3, <2>1, <2>2 DEF Ids
<1> QED BY <1>2, <1>3, <1>4 DEF Shown

(* The rows loaded through SQL for the same repositories.                  *)
LEMMA SqlConfigsAre ==
  ASSUME NEW g, Collected(g), NEW R \in SUBSET (Repos \cap g.nodes), NEW T,
         \A t : t \in T <=> \E r \in R : Joined(g, r, "maps_to", t)
  PROVE  SqlConfigs(g, T, R) = {c \in Configs : Owned(g, c, R)}
<1> SUFFICES ASSUME NEW c \in Configs
             PROVE  c \in SqlConfigs(g, T, R) <=> Owned(g, c, R)
  BY DEF SqlConfigs
<1>1. /\ Chain(g) /\ Joined(g, ProjectOf[c], "contains", c)
      /\ g.mapping[c].state \in {"unavailable", "explicit", "legacy"}
      /\ g.mapping[c].state = "explicit" => g.mapping[c].repos \subseteq Repos \cap g.nodes
      /\ \A r \in Owners(g, c) : Joined(g, r, "maps_to", ProjectOf[c])
  BY DEF Collected
<1>2. Sources(g, "contains", c) \cap T # {} <=> ProjectOf[c] \in T
  <2>1. \A p : p \in Sources(g, "contains", c) <=> p = ProjectOf[c]
    BY <1>1, ChainEnds, ChainIs, KindsDiffer
  <2> QED BY <2>1
<1>3. Owned(g, c, R) => ProjectOf[c] \in T
  BY <1>1 DEF Owned
<1>4. c \in SqlConfigs(g, T, R) <=> /\ ProjectOf[c] \in T
                                    /\ g.mapping[c].state # "unavailable"
                                    /\ g.mapping[c].state = "explicit" => g.mapping[c].repos \cap R # {}
  BY <1>2 DEF SqlConfigs
<1>5. CASE g.mapping[c].state = "unavailable"
  <2>1. Owners(g, c) = {}
    BY <1>1, <1>5, OwnersAre
  <2> QED BY <1>4, <1>5, <2>1 DEF Owned
<1>6. CASE g.mapping[c].state = "explicit"
  <2>1. Owners(g, c) = g.mapping[c].repos \cap Repos \cap g.nodes
    BY <1>1, <1>6, OwnersAre
  <2>2. Owned(g, c, R) <=> g.mapping[c].repos \cap R # {}
    BY <1>1, <1>6, <2>1 DEF Owned
  <2> QED BY <1>3, <1>4, <1>6, <2>2
<1>7. CASE g.mapping[c].state = "legacy"
  <2>1. \A r : r \in Owners(g, c) <=> Joined(g, r, "maps_to", ProjectOf[c])
    BY <1>1, <1>7, OwnersAre
  <2>2. Owned(g, c, R) <=> ProjectOf[c] \in T
    BY <2>1 DEF Owned
  <2> QED BY <1>4, <1>7, <2>2
<1> QED BY <1>1, <1>5, <1>6, <1>7

LEMMA SqlRowsAre ==
  ASSUME NEW g, Collected(g), NEW R \in SUBSET (Repos \cap g.nodes), NEW limit \in Nat
  PROVE  SqlRows(g, R, limit) = Shown(g, R, limit)
<1> DEFINE related == UNION {Sources(g, "contains", r) \cup Targets(g, "maps_to", r) : r \in R}
           configs == SqlConfigs(g, related \cap TcProjects, R)
           loaded == UNION {Loaded(g, c, limit) : c \in configs}
<1>1. SqlRows(g, R, limit) = R \cup related \cup configs \cup loaded
  BY DEF SqlRows, Loaded
<1>2. Chain(g)
  BY DEF Collected
<1>3. \A x : x \in related <=> \E r \in R : Joined(g, x, "contains", r) \/ Joined(g, r, "maps_to", x)
  BY <1>2, ChainEnds
<1> HIDE DEF related
<1>4. \A t : t \in related \cap TcProjects <=> \E r \in R : Joined(g, r, "maps_to", t)
  BY <1>2, <1>3, ChainIs, KindsDiffer
<1>5. configs = {c \in Configs : Owned(g, c, R)}
  BY <1>4, SqlConfigsAre
<1> HIDE DEF configs
<1>6. \A x : x \in loaded <=> \E c \in configs : x \in Loaded(g, c, limit)
  OBVIOUS
<1> HIDE DEF loaded
<1>7. \A x \in SqlRows(g, R, limit) : x \in Ids
  <2>1. \A m, r, n : Joined(g, m, r, n) => m \in Ids /\ n \in Ids
    BY <1>2, EndsAre DEF Chain
  <2>2. \A c : Loaded(g, c, limit) \subseteq Builds
    BY <1>2, LoadedIs
  <2> QED BY <1>1, <1>3, <1>5, <1>6, <2>1, <2>2 DEF Ids
<1> QED BY <1>1, <1>3, <1>5, <1>6, <1>7 DEF Shown

(* The subgraph of what is shown: its repositories, configurations, owners *)
(* and builds.                                                             *)
LEMMA ShownIs ==
  ASSUME NEW g, Collected(g), NEW R \in SUBSET (Repos \cap g.nodes), NEW limit \in Nat
  PROVE  LET h == Induced(g, Shown(g, R, limit))
         IN  /\ Shown(g, R, limit) \subseteq g.nodes /\ h.nodes = Shown(g, R, limit)
             /\ Placed(h) /\ Repos \cap h.nodes = R
             /\ \A x \in Projects : x \in h.nodes <=> \E r \in R : Joined(g, x, "contains", r)
             /\ \A c \in Configs : c \in h.nodes <=> Owned(g, c, R)
             /\ \A c \in Configs \cap h.nodes :
                  Owners(h, c) = Owners(g, c) \cap R /\ Runs(h, c) = Loaded(g, c, limit)
<1> DEFINE S == Shown(g, R, limit)
           h == Induced(g, S)
<1>1. /\ IsGraph(g) /\ Chain(g) /\ Placed(g) /\ Configs \subseteq g.nodes
      /\ \A c \in Configs : \A r \in Owners(g, c) : Joined(g, r, "maps_to", ProjectOf[c])
  BY CollectedIsPlaced DEF Collected
<1>2. \A c : Loaded(g, c, limit) \subseteq Builds /\ Loaded(g, c, limit) \subseteq Runs(g, c)
  BY <1>1, LoadedIs
<1>3. /\ \A m, n : Joined(g, m, "contains", n) => m \in Projects \cup TcProjects /\ m \in g.nodes
      /\ \A m, n : Joined(g, m, "maps_to", n) => n \in TcProjects /\ n \in g.nodes
      /\ \A c, b : b \in Runs(g, c) => b \in g.nodes /\ c = RunOf[b] /\ Joined(g, c, "ran_as", b)
  BY <1>1, ChainIs, RunsAre
<1>4. \A x : x \in S => x \in g.nodes
  BY <1>1, <1>2, <1>3 DEF Shown
<1>5. Repos \cap S = R
  <2>1. \A x \in R : x \in Ids
    BY DEF Ids
  <2> QED BY <1>2, <1>3, <2>1, KindsDiffer DEF Shown
<1>6. \A c \in Configs : c \in S <=> Owned(g, c, R)
  <2>1. \A c \in Configs : c \in Ids
    BY DEF Ids
  <2> QED BY <1>2, <1>3, <2>1, KindsDiffer DEF Shown
<1>7. \A x \in Projects : x \in S <=> \E r \in R : Joined(g, x, "contains", r)
  <2>1. \A x \in Projects : x \in Ids
    BY DEF Ids
  <2> QED BY <1>2, <1>3, <2>1, KindsDiffer DEF Shown
<1>8. \A c \in Configs \cap g.nodes \cap S : ProjectOf[c] \in S
  <2> SUFFICES ASSUME NEW c \in Configs, Owned(g, c, R) PROVE ProjectOf[c] \in S
    BY <1>6
  <2>1. PICK r \in R : r \in Owners(g, c)
    BY DEF Owned
  <2>2. Joined(g, r, "maps_to", ProjectOf[c])
    BY <1>1, <2>1
  <2>3. ProjectOf[c] \in Ids
    BY KindsDiffer DEF Ids
  <2> QED BY <2>2, <2>3 DEF Shown
<1> HIDE DEF S
<1>9. /\ h.nodes = g.nodes \cap S /\ Chain(h)
      /\ \A m, r, n : Joined(h, m, r, n) <=> Joined(g, m, r, n) /\ m \in S /\ n \in S
  BY <1>1, InducedIs
<1>10. /\ Placed(h)
       /\ \A c \in Configs \cap h.nodes : Owners(h, c) = Owners(g, c) \cap S
  BY <1>1, <1>8, InducedIsPlaced
<1> HIDE DEF h
<1>11. h.nodes = S
  BY <1>4, <1>9
<1>12. ASSUME NEW c \in Configs \cap h.nodes PROVE Owners(h, c) = Owners(g, c) \cap R
  <2>1. Owners(g, c) \subseteq Repos
    BY DEF Collected
  <2> QED BY <1>5, <1>10, <2>1
<1>13. ASSUME NEW c \in Configs \cap h.nodes PROVE Runs(h, c) = Loaded(g, c, limit)
  <2>1. Owned(g, c, R) /\ c \in S
    BY <1>6, <1>11
  <2>2. \A b : b \in Runs(h, c) <=> b \in Runs(g, c) /\ b \in S
    BY <1>1, <1>9, <2>1, RunsAre
  <2>3. \A b \in Loaded(g, c, limit) : b \in S
    <3>1. \A b \in Loaded(g, c, limit) : b \in Ids
      BY <1>2 DEF Ids
    <3> QED BY <2>1, <3>1 DEF S, Shown
  <2>4. ASSUME NEW b \in Runs(g, c), b \in S PROVE b \in Loaded(g, c, limit)
    <3>1. b \in Builds
      BY DEF Runs
    <3>2. PICK d \in Configs : b \in Loaded(g, d, limit)
      BY <1>3, <2>4, <3>1, KindsDiffer DEF S, Shown
    <3>3. d = c
      BY <1>2, <1>3, <3>2
    <3> QED BY <3>2, <3>3
  <2> QED BY <1>2, <2>2, <2>3, <2>4
<1> QED BY <1>4, <1>5, <1>6, <1>7, <1>10, <1>11, <1>12, <1>13 DEF h, S

(* Selecting the page in the rows of a page finds all of them.             *)
LEMMA AroundShown ==
  ASSUME NEW g, Collected(g), NEW R \in SUBSET (Repos \cap g.nodes), NEW limit \in Nat
  PROVE  LET h == Induced(g, Shown(g, R, limit)) IN Around(h, R) = h.nodes
<1> DEFINE h == Induced(g, Shown(g, R, limit))
<1>1. /\ h.nodes = Shown(g, R, limit) /\ Placed(h) /\ Repos \cap h.nodes = R
      /\ \A c \in Configs : c \in h.nodes <=> Owned(g, c, R)
      /\ \A c \in Configs \cap h.nodes :
           Owners(h, c) = Owners(g, c) \cap R /\ Runs(h, c) = Loaded(g, c, limit)
  BY ShownIs
<1>2. \A m, r, n : Joined(h, m, r, n) <=> Joined(g, m, r, n) /\ m \in h.nodes /\ n \in h.nodes
  <2>1. \A m, r, n : Joined(h, m, r, n) <=>
          Joined(g, m, r, n) /\ m \in Shown(g, R, limit) /\ n \in Shown(g, R, limit)
    BY InducedIs DEF Collected
  <2> QED BY <1>1, <2>1
<1> HIDE DEF h
<1>3. \A c \in Configs : Owned(g, c, R) <=> c \in h.nodes /\ Owned(h, c, R)
  BY <1>1 DEF Owned
<1>4. \A x : x \in Around(h, R) <=>
           \/ x \in R
           \/ \E r \in R : Joined(h, x, "contains", r) \/ Joined(h, r, "maps_to", x)
           \/ x \in Configs \cap h.nodes /\ Owned(h, x, R)
           \/ \E c \in Configs \cap h.nodes : Owned(h, c, R) /\ x \in Runs(h, c)
  BY <1>1, AroundIs
<1>5. ASSUME NEW x \in h.nodes PROVE x \in Around(h, R)
  <2>1. \/ x \in R
        \/ \E r \in R : Joined(g, x, "contains", r) \/ Joined(g, r, "maps_to", x)
        \/ x \in Configs /\ Owned(g, x, R)
        \/ \E c \in Configs : Owned(g, c, R) /\ x \in Loaded(g, c, limit)
    BY <1>1 DEF Shown
  <2> QED BY <1>1, <1>2, <1>3, <1>4, <2>1
<1>6. ASSUME NEW x \in Around(h, R) PROVE x \in h.nodes
  <2>1. \A m, n : Joined(h, m, "ran_as", n) => n \in h.nodes
    BY <1>2
  <2>2. \A c, b : b \in Runs(h, c) => b \in h.nodes
    BY <1>1, <2>1, RunsAre DEF Placed
  <2> QED BY <1>1, <1>2, <1>4, <2>2
<1> QED BY <1>5, <1>6 DEF h

-----------------------------------------------------------------------------
(* Filters and the build limit.                                            *)

(* What an answer shows of a page.                                         *)
Out(k, f) == LimitBuilds(FilterGraph(k, f))

KeptBuilds(k) == (k.nodes \ Builds) \cup UNION {Newest(Runs(k, c), BuildLimit) : c \in Configs}

LEMMA LimitIsInduced ==
  ASSUME NEW k
  PROVE  LimitBuilds(k) = Induced(k, KeptBuilds(k))
BY DEF LimitBuilds, Induced, KeptBuilds

(* A part of a graph: some of its nodes, with links between them only.     *)
Part(k, g) == IsGraph(k) /\ Chain(k) /\ k.nodes \subseteq g.nodes

LEMMA PartOfPart ==
  ASSUME NEW g, NEW k, Part(k, g), NEW S, NEW f
  PROVE  Part(Induced(k, S), g) /\ Part(LimitBuilds(k), g) /\ Part(Out(k, f), g)
<1>1. ASSUME NEW h, Part(h, g) PROVE \A T : Part(Induced(h, T), g)
  BY <1>1, InducedIs DEF Part
<1>2. ASSUME NEW h, Part(h, g) PROVE Part(LimitBuilds(h), g)
  BY <1>1, <1>2, LimitIsInduced
<1>3. Part(FilterGraph(k, f), g)
  BY <1>1 DEF FilterGraph
<1> QED BY <1>1, <1>2, <1>3 DEF Out

LEMMA PartLinks ==
  ASSUME NEW g, NEW k, Part(k, g)
  PROVE  \A e \in k.edges : e.source \in k.nodes /\ e.target \in k.nodes
<1> SUFFICES ASSUME NEW e \in k.edges PROVE e.source \in k.nodes /\ e.target \in k.nodes
  OBVIOUS
<1>1. Chain(k)
  BY DEF Part
<1>2. e \in Links /\ e.relation \in {"contains", "maps_to", "ran_as"}
  BY <1>1 DEF Chain, Links
<1>3. Joined(k, e.source, e.relation, e.target)
  BY <1>2, LinkIs DEF Joined
<1> QED BY <1>1, <1>2, <1>3, ChainIs

(* l is k without some builds, but with the newest of each configuration.  *)
Trimmed(k, l) ==
  /\ Part(k, k)
  /\ \E S : l = Induced(k, S)
  /\ l.nodes \ Builds = k.nodes \ Builds
  /\ \A c \in Configs : Newest(Runs(l, c), BuildLimit) = Newest(Runs(k, c), BuildLimit)

LEMMA TrimmedIs ==
  ASSUME NEW k, NEW l, Trimmed(k, l)
  PROVE  /\ IsGraph(k) /\ Chain(k) /\ IsGraph(l) /\ Chain(l) /\ l = Induced(k, l.nodes)
         /\ l.nodes \subseteq k.nodes
         /\ l.mapping = k.mapping /\ l.outputs = k.outputs /\ l.failed = k.failed /\ l.branch = k.branch
         /\ \A m, r, n : Joined(l, m, r, n) <=> Joined(k, m, r, n) /\ m \in l.nodes /\ n \in l.nodes
<1>1. IsGraph(k) /\ Chain(k)
  BY DEF Trimmed, Part
<1>2. PICK S : l = Induced(k, S)
  BY DEF Trimmed
<1>3. /\ IsGraph(l) /\ Chain(l) /\ l.nodes = k.nodes \cap S
      /\ l.mapping = k.mapping /\ l.outputs = k.outputs /\ l.failed = k.failed /\ l.branch = k.branch
      /\ \A m, r, n : Joined(l, m, r, n) <=> Joined(k, m, r, n) /\ m \in S /\ n \in S
  BY <1>1, <1>2, InducedIs
<1>4. l = Induced(k, l.nodes)
  <2>1. k.nodes \cap S = k.nodes \cap l.nodes
    BY <1>3
  <2> QED BY <1>1, <1>2, <2>1, InducedBySame
<1>5. \A m, r, n : Joined(l, m, r, n) <=> Joined(k, m, r, n) /\ m \in l.nodes /\ n \in l.nodes
  <2>1. \A m, r, n : Joined(l, m, r, n) => r \in {"contains", "maps_to", "ran_as"}
    <3>1. l.edges \subseteq Links /\ \A e \in Links : e.relation \in {"contains", "maps_to", "ran_as"}
      BY <1>3 DEF Chain, Links
    <3> QED BY <3>1, LinkIs DEF Joined
  <2>2. \A m, r, n : Joined(l, m, r, n) => m \in l.nodes /\ n \in l.nodes
    BY <1>3, <2>1, ChainIs
  <2> QED BY <1>3, <2>2
<1> QED BY <1>1, <1>3, <1>4, <1>5

(* The limit leaves the same of both.                                      *)
LEMMA TrimmedLimits ==
  ASSUME NEW k, NEW l, Trimmed(k, l)
  PROVE  LimitBuilds(l) = LimitBuilds(k)
<1> DEFINE K == KeptBuilds(k)
<1>1. IsGraph(k) /\ Chain(k) /\ Chain(l) /\ l = Induced(k, l.nodes) /\ l.nodes \subseteq k.nodes
  BY TrimmedIs
<1>2. KeptBuilds(l) = K
  BY DEF KeptBuilds, Trimmed
<1>3. K \subseteq l.nodes
  <2>1. \A c, b : b \in Runs(l, c) => b \in l.nodes
    BY <1>1, RunsAre, ChainIs
  <2>2. \A c : Newest(Runs(l, c), BuildLimit) \subseteq Runs(l, c)
    <3>1. \A c : Runs(l, c) \in SUBSET Builds
      BY DEF Runs
    <3> QED BY <3>1, NewestIs, LimitsAre DEF Limit
  <2>3. KeptBuilds(l) \subseteq l.nodes
    BY <2>1, <2>2 DEF KeptBuilds
  <2> QED BY <1>2, <2>3
<1> HIDE DEF K
<1>4. Induced(Induced(k, l.nodes), K) = Induced(k, l.nodes \cap K)
  BY <1>1, InducedTwice
<1>5. l.nodes \cap K = K
  BY <1>3
<1>6. LimitBuilds(l) = Induced(l, K) /\ LimitBuilds(k) = Induced(k, K)
  BY <1>2, LimitIsInduced DEF K
<1> QED BY <1>1, <1>4, <1>5, <1>6

(* A configuration and its filter, as in filter_graph.                     *)
Scope(k, f) ==
  k.nodes \cap Repos \cap (IF f.project = Unassigned THEN Repos ELSE Targets(k, "contains", f.project))

Passes(k, f, c) ==
  /\ f.targetOnly => c \in k.branch
  /\ f.project # Unassigned => Owners(k, c) \cap Scope(k, f) # {}
  /\ f.tcProject # Unassigned => c \in Targets(k, "contains", f.tcProject)
  /\ f.image # "any" => ((Runs(k, c) \cap k.outputs # {}) <=> f.image = "yes")
  /\ f.failed \/ f.recent => Runs(k, c) \cap VisibleBuilds(k, f) # {}

Passing(k, f) == {c \in k.nodes \cap Configs : Passes(k, f, c)}

ScopedOwners(k, f) == UNION {Owners(k, c) \cap Scope(k, f) : c \in Passing(k, f)}

LEMMA FilteredIs ==
  ASSUME NEW k, Chain(k), NEW f, NEW x
  PROVE  x \in Filtered(k, f) <=>
           \/ x \in Passing(k, f)
           \/ \E c \in Passing(k, f) : Joined(k, x, "contains", c)
           \/ \E c \in Passing(k, f) : x \in Runs(k, c) \cap VisibleBuilds(k, f)
           \/ x \in ScopedOwners(k, f)
           \/ \E r \in ScopedOwners(k, f) : Joined(k, x, "contains", r)
<1> DEFINE around == UNION {Sources(k, "contains", c) \cup (Runs(k, c) \cap VisibleBuilds(k, f)) : c \in Passing(k, f)}
           above == UNION {Sources(k, "contains", r) : r \in ScopedOwners(k, f)}
<1>1. Filtered(k, f) = Passing(k, f) \cup around \cup ScopedOwners(k, f) \cup above
  BY DEF Filtered, Passing, Passes, ScopedOwners, Scope
<1>2. x \in around <=> \E c \in Passing(k, f) : \/ Joined(k, x, "contains", c)
                                                \/ x \in Runs(k, c) \cap VisibleBuilds(k, f)
  BY ChainEnds
<1>3. x \in above <=> \E r \in ScopedOwners(k, f) : Joined(k, x, "contains", r)
  BY ChainEnds
<1> HIDE DEF around, above
<1> QED BY <1>1, <1>2, <1>3

(* The filters that do not look at builds.                                 *)
LEMMA TrimmedOwners ==
  ASSUME NEW k, NEW l, Trimmed(k, l)
  PROVE  /\ \A m, n : (Joined(l, m, "contains", n) <=> Joined(k, m, "contains", n))
                      /\ (Joined(l, m, "maps_to", n) <=> Joined(k, m, "maps_to", n))
         /\ Repos \cap l.nodes = Repos \cap k.nodes /\ Configs \cap l.nodes = Configs \cap k.nodes
         /\ \A c : Owners(l, c) = Owners(k, c)
<1>1. /\ Chain(k) /\ Chain(l) /\ l.mapping = k.mapping
      /\ \A m, r, n : Joined(l, m, r, n) <=> Joined(k, m, r, n) /\ m \in l.nodes /\ n \in l.nodes
      /\ l.nodes \ Builds = k.nodes \ Builds
  BY TrimmedIs DEF Trimmed
<1>2. Repos \cap l.nodes = Repos \cap k.nodes /\ Configs \cap l.nodes = Configs \cap k.nodes
  BY <1>1, KindsDiffer
<1>3. /\ \A m, n : Joined(k, m, "contains", n) => m \in k.nodes \ Builds /\ n \in k.nodes \ Builds
      /\ \A m, n : Joined(k, m, "maps_to", n) => m \in k.nodes \ Builds /\ n \in k.nodes \ Builds
  BY <1>1, ChainIs, KindsDiffer
<1>4. \A m, n : (Joined(l, m, "contains", n) <=> Joined(k, m, "contains", n))
                /\ (Joined(l, m, "maps_to", n) <=> Joined(k, m, "maps_to", n))
  BY <1>1, <1>3
<1>5. \A n : Sources(l, "contains", n) = Sources(k, "contains", n)
             /\ Sources(l, "maps_to", n) = Sources(k, "maps_to", n)
  <2>1. \A r, m, n : /\ m \in Sources(l, r, n) <=> Joined(l, m, r, n)
                     /\ m \in Sources(k, r, n) <=> Joined(k, m, r, n)
    BY <1>1, ChainEnds
  <2>2. \A m, n : /\ m \in Sources(l, "contains", n) <=> m \in Sources(k, "contains", n)
                  /\ m \in Sources(l, "maps_to", n) <=> m \in Sources(k, "maps_to", n)
    BY <1>4, <2>1
  <2> QED BY <2>2
<1>6. \A c : Owners(l, c) = Owners(k, c)
  <2>1. \A c, S : S \cap Repos \cap l.nodes = S \cap Repos \cap k.nodes
    BY <1>2
  <2> QED BY <1>1, <1>5, <2>1 DEF Owners
<1> QED BY <1>2, <1>4, <1>6

LEMMA VisibleIs ==
  ASSUME NEW k, Chain(k), NEW f, ~f.failed, ~f.recent
  PROVE  \A c : Runs(k, c) \cap VisibleBuilds(k, f) = Runs(k, c)
<1>1. \A c, b : b \in Runs(k, c) => b \in k.nodes \cap Builds
  BY RunsAre, ChainIs
<1> QED BY <1>1 DEF VisibleBuilds

LEMMA TrimmedPassing ==
  ASSUME NEW k, NEW l, Trimmed(k, l), NEW f, ~OfBuilds(f)
  PROVE  Passing(l, f) = Passing(k, f) /\ ScopedOwners(l, f) = ScopedOwners(k, f)
<1>1. /\ Chain(k) /\ Chain(l) /\ l.branch = k.branch
      /\ Repos \cap l.nodes = Repos \cap k.nodes /\ Configs \cap l.nodes = Configs \cap k.nodes
      /\ \A c : Owners(l, c) = Owners(k, c)
  BY TrimmedIs, TrimmedOwners
<1>2. ASSUME NEW n PROVE Targets(l, "contains", n) = Targets(k, "contains", n)
  <2>1. \A m : /\ m \in Targets(l, "contains", n) <=> Joined(l, n, "contains", m)
               /\ m \in Targets(k, "contains", n) <=> Joined(k, n, "contains", m)
    BY <1>1, ChainEnds
  <2>2. \A m : m \in Targets(l, "contains", n) <=> m \in Targets(k, "contains", n)
    BY <2>1, TrimmedOwners
  <2> QED BY <2>2
<1>3. Scope(l, f) = Scope(k, f)
  BY <1>1, <1>2 DEF Scope
<1>4. f.image = "any" /\ ~f.failed /\ ~f.recent
  BY DEF OfBuilds
<1>5. \A c : Passes(l, f, c) <=> Passes(k, f, c)
  BY <1>1, <1>2, <1>3, <1>4 DEF Passes
<1>6. Passing(l, f) = Passing(k, f)
  BY <1>1, <1>5 DEF Passing
<1> QED BY <1>1, <1>3, <1>6 DEF ScopedOwners

LEMMA TrimmedFilters ==
  ASSUME NEW k, NEW l, Trimmed(k, l), NEW f, ~OfBuilds(f)
  PROVE  Trimmed(FilterGraph(k, f), FilterGraph(l, f))
<1>1. CASE f = NoFilter
  BY <1>1 DEF FilterGraph
<1>2. CASE f # NoFilter
  <2> DEFINE F == Filtered(k, f)
             G == Filtered(l, f)
             u == Induced(k, F)
             v == Induced(l, G)
  <2>1. FilterGraph(k, f) = u /\ FilterGraph(l, f) = v
    BY <1>2 DEF FilterGraph
  <2>2. /\ IsGraph(k) /\ Chain(k) /\ IsGraph(l) /\ Chain(l) /\ l = Induced(k, l.nodes)
        /\ l.nodes \subseteq k.nodes
        /\ \A m, r, n : Joined(l, m, r, n) <=> Joined(k, m, r, n) /\ m \in l.nodes /\ n \in l.nodes
    BY TrimmedIs
  <2>3. \A c : Runs(k, c) \cap VisibleBuilds(k, f) = Runs(k, c) /\ Runs(l, c) \cap VisibleBuilds(l, f) = Runs(l, c)
    BY <2>2, VisibleIs DEF OfBuilds
  <2>4. \A x : x \in F <=> \/ x \in Passing(k, f)
                           \/ \E c \in Passing(k, f) : Joined(k, x, "contains", c) \/ x \in Runs(k, c)
                           \/ x \in ScopedOwners(k, f)
                           \/ \E r \in ScopedOwners(k, f) : Joined(k, x, "contains", r)
    BY <2>2, <2>3, FilteredIs
  <2>5. \A x : x \in G <=> \/ x \in Passing(k, f)
                           \/ \E c \in Passing(k, f) : Joined(k, x, "contains", c) \/ x \in Runs(l, c)
                           \/ x \in ScopedOwners(k, f)
                           \/ \E r \in ScopedOwners(k, f) : Joined(k, x, "contains", r)
    BY <2>2, <2>3, FilteredIs, TrimmedPassing, TrimmedOwners
  <2> HIDE DEF F, G
  <2>6. \A c, b : b \in Runs(l, c) <=> b \in Runs(k, c) /\ b \in l.nodes
    <3>1. \A c, b : /\ b \in Runs(l, c) <=> Joined(l, c, "ran_as", b)
                    /\ b \in Runs(k, c) <=> Joined(k, c, "ran_as", b)
      BY <2>2, RunsAre
    <3>2. \A c, b : Joined(k, c, "ran_as", b) => c \in Configs /\ c \in k.nodes
      BY <2>2, ChainIs
    <3>3. Configs \cap l.nodes = Configs \cap k.nodes
      BY TrimmedOwners
    <3> QED BY <2>2, <3>1, <3>2, <3>3
  <2>7. G \subseteq F /\ \A x : x \notin Builds => (x \in G <=> x \in F)
    <3>1. \A c, x : x \in Runs(k, c) => x \in Builds
      BY DEF Runs
    <3> QED BY <2>4, <2>5, <2>6, <3>1
  <2>8. /\ IsGraph(u) /\ Chain(u) /\ u.nodes = k.nodes \cap F
        /\ \A m, r, n : Joined(u, m, r, n) <=> Joined(k, m, r, n) /\ m \in F /\ n \in F
    BY <2>2, InducedIs
  <2>9. /\ Chain(v) /\ v.nodes = l.nodes \cap G
        /\ \A m, r, n : Joined(v, m, r, n) <=> Joined(l, m, r, n) /\ m \in G /\ n \in G
    BY <2>2, InducedIs
  <2>10. v = Induced(u, l.nodes \cap G)
    <3>1. v = Induced(k, l.nodes \cap G)
      <4>1. Induced(Induced(k, l.nodes), G) = Induced(k, l.nodes \cap G)
        BY <2>2, InducedTwice
      <4> QED BY <2>2, <4>1
    <3>2. Induced(u, l.nodes \cap G) = Induced(k, F \cap (l.nodes \cap G))
      BY <2>2, InducedTwice
    <3>3. F \cap (l.nodes \cap G) = l.nodes \cap G
      BY <2>7
    <3> QED BY <3>1, <3>2, <3>3
  <2>11. v.nodes \ Builds = u.nodes \ Builds
    <3>1. l.nodes \ Builds = k.nodes \ Builds
      BY DEF Trimmed
    <3> QED BY <2>7, <2>8, <2>9, <3>1
  <2>12. ASSUME NEW c \in Configs PROVE Newest(Runs(v, c), BuildLimit) = Newest(Runs(u, c), BuildLimit)
    <3>1. c \in F <=> c \in G
      BY <2>7, KindsDiffer
    <3>2. CASE c \notin F
      <4>1. Runs(u, c) = {} /\ Runs(v, c) = {}
        BY <2>8, <2>9, <3>1, <3>2, RunsAre
      <4> QED BY <4>1
    <3>3. CASE c \in F
      <4>1. c \in Passing(k, f)
        <5>1. c \notin ScopedOwners(k, f) /\ \A d : c \notin Runs(k, d)
          BY KindsDiffer DEF ScopedOwners, Scope, Runs
        <5>2. \A n : ~Joined(k, c, "contains", n)
          BY <2>2, ChainIs, KindsDiffer
        <5> QED BY <2>4, <3>3, <5>1, <5>2
      <4>2. \A b : b \in Runs(u, c) <=> b \in Runs(k, c)
        <5>1. \A b : /\ b \in Runs(u, c) <=> Joined(u, c, "ran_as", b)
                     /\ b \in Runs(k, c) <=> Joined(k, c, "ran_as", b)
          BY <2>2, <2>8, RunsAre
        <5> QED BY <2>4, <2>8, <3>3, <4>1, <5>1
      <4>3. \A b : b \in Runs(v, c) <=> b \in Runs(l, c)
        <5>1. \A b : /\ b \in Runs(v, c) <=> Joined(v, c, "ran_as", b)
                     /\ b \in Runs(l, c) <=> Joined(l, c, "ran_as", b)
          BY <2>2, <2>9, RunsAre
        <5> QED BY <2>5, <2>9, <3>1, <3>3, <4>1, <5>1
      <4>4. Runs(u, c) = Runs(k, c) /\ Runs(v, c) = Runs(l, c)
        BY <4>2, <4>3
      <4> QED BY <4>4 DEF Trimmed
    <3> QED BY <3>2, <3>3
  <2> HIDE DEF u, v
  <2>13. Trimmed(u, v)
    BY <2>8, <2>10, <2>11, <2>12 DEF Trimmed, Part
  <2> QED BY <2>1, <2>13
<1> QED BY <1>1, <1>2

(* So a page of which SQL loaded the newest builds gives the same answer.  *)
LEMMA LimitedPage ==
  ASSUME NEW g, Collected(g), NEW R \in SUBSET (Repos \cap g.nodes), NEW f, ~OfBuilds(f)
  PROVE  Out(Induced(g, Shown(g, R, BuildLimit)), f) = Out(Induced(g, Shown(g, R, 0)), f)
<1> DEFINE k == Induced(g, Shown(g, R, 0))
           l == Induced(g, Shown(g, R, BuildLimit))
<1>1. BuildLimit \in Nat /\ BuildLimit # 0 /\ 0 \in Nat
  BY LimitsAre DEF Limit
<1>2. /\ k.nodes = Shown(g, R, 0) /\ Placed(k) /\ Repos \cap k.nodes = R
      /\ \A c \in Configs : c \in k.nodes <=> Owned(g, c, R)
      /\ \A c \in Configs \cap k.nodes :
           Owners(k, c) = Owners(g, c) \cap R /\ Runs(k, c) = Loaded(g, c, 0)
  BY <1>1, ShownIs
<1>3. /\ l.nodes = Shown(g, R, BuildLimit) /\ Placed(l) /\ Repos \cap l.nodes = R
      /\ \A c \in Configs : c \in l.nodes <=> Owned(g, c, R)
      /\ \A c \in Configs \cap l.nodes :
           Owners(l, c) = Owners(g, c) \cap R /\ Runs(l, c) = Loaded(g, c, BuildLimit)
  BY <1>1, ShownIs
<1>4. Chain(g) /\ IsGraph(g)
  BY DEF Collected
<1>5. \A c : Loaded(g, c, BuildLimit) \subseteq Loaded(g, c, 0) /\ Loaded(g, c, 0) \subseteq Builds
  BY <1>1, <1>4, LoadedIs
<1>6. Shown(g, R, BuildLimit) \subseteq Shown(g, R, 0)
  BY <1>5 DEF Shown
<1>7. Shown(g, R, BuildLimit) \ Builds = Shown(g, R, 0) \ Builds
  BY <1>5 DEF Shown
<1>8. l = Induced(k, l.nodes)
  <2>1. Induced(k, l.nodes) = Induced(g, Shown(g, R, 0) \cap l.nodes)
    BY <1>4, InducedTwice
  <2>2. Shown(g, R, 0) \cap l.nodes = Shown(g, R, BuildLimit)
    BY <1>3, <1>6
  <2> QED BY <2>1, <2>2
<1> HIDE DEF k, l
<1>9. ASSUME NEW c \in Configs PROVE Newest(Runs(l, c), BuildLimit) = Newest(Runs(k, c), BuildLimit)
  <2>1. CASE Owned(g, c, R)
    <3>1. Runs(k, c) = Runs(g, c) /\ Runs(l, c) = Newest(Runs(g, c), BuildLimit)
      BY <1>1, <1>2, <1>3, <2>1 DEF Loaded
    <3>2. Runs(g, c) \in SUBSET Builds
      BY <1>1, <1>4, LoadedIs
    <3> QED BY <1>1, <3>1, <3>2, NewestIs
  <2>2. CASE ~Owned(g, c, R)
    <3>1. Chain(k) /\ Chain(l)
      BY <1>2, <1>3 DEF Placed
    <3>2. Runs(k, c) = {} /\ Runs(l, c) = {}
      BY <1>2, <1>3, <2>2, <3>1, RunsAre, ChainIs
    <3> QED BY <3>2
  <2> QED BY <2>1, <2>2
<1>10. Trimmed(k, l)
  BY <1>2, <1>3, <1>7, <1>8, <1>9 DEF Trimmed, Part, Placed
<1>11. Trimmed(FilterGraph(k, f), FilterGraph(l, f))
  BY <1>10, TrimmedFilters
<1>12. Out(l, f) = Out(k, f)
  BY <1>11, TrimmedLimits DEF Out
<1> QED BY <1>12 DEF k, l

-----------------------------------------------------------------------------
(* Answers.                                                                *)

LEMMA PageOnto ==
  ASSUME NEW k, NEW h, NEW matches, NEW mode, NEW total, NEW offset
  PROVE  Onto(Page(k, matches, mode, total, offset), h) = Page(h, matches, mode, total, offset)
<1> DEFINE p == Page(k, matches, mode, total, offset)
           r == [p EXCEPT !.nodes = h.nodes]
<1>1. r = [nodes |-> h.nodes, edges |-> k.edges, matches |-> matches, mode |-> mode,
           offset |-> offset, next |-> NextOffset(total, offset)]
  BY DEF Page
<1>2. Onto(p, h) = [r EXCEPT !.edges = h.edges]
  BY DEF Onto
<1> HIDE DEF r
<1>3. [r EXCEPT !.edges = h.edges] = Page(h, matches, mode, total, offset)
  BY <1>1 DEF Page
<1> QED BY <1>2, <1>3

Moved(p, offset, next) == [p EXCEPT !.offset = offset, !.next = next]

LEMMA PageMoved ==
  ASSUME NEW k, NEW matches, NEW mode, NEW total, NEW offset, NEW n, NEW o
  PROVE  Moved(Page(k, matches, mode, n, o), offset, NextOffset(total, offset))
           = Page(k, matches, mode, total, offset)
<1> DEFINE p == Page(k, matches, mode, n, o)
           r == [p EXCEPT !.offset = offset]
<1>1. r = [nodes |-> k.nodes, edges |-> k.edges, matches |-> matches, mode |-> mode,
           offset |-> offset, next |-> NextOffset(n, o)]
  BY DEF Page
<1> HIDE DEF r
<1>2. [r EXCEPT !.next = NextOffset(total, offset)] = Page(k, matches, mode, total, offset)
  BY <1>1 DEF Page
<1>3. Moved(p, offset, NextOffset(total, offset)) = [r EXCEPT !.next = NextOffset(total, offset)]
  BY DEF Moved, r
<1> QED BY <1>2, <1>3

LEMMA PageWhole ==
  ASSUME NEW g, IsGraph(g), NEW S, NEW matches, NEW mode, NEW total, NEW offset
  PROVE  Whole(g, Page(Induced(g, S), matches, mode, total, offset)) = Induced(g, S)
<1> DEFINE k == Induced(g, S)
           p == Page(k, matches, mode, total, offset)
<1>1. /\ IsGraph(k) /\ k.mapping = g.mapping /\ k.outputs = g.outputs /\ k.failed = g.failed
      /\ k.branch = g.branch /\ k.status = g.status
  BY InducedIs
<1> HIDE DEF k
<1>2. p.nodes = k.nodes /\ p.edges = k.edges
  BY DEF Page
<1> HIDE DEF p
<1>3. Whole(g, p) = Replaced(g, p.nodes, p.edges)
  BY DEF Whole, Replaced
<1>4. Replaced(g, p.nodes, p.edges) = With(g, p.nodes, p.edges)
  BY WithIs
<1>5. With(g, p.nodes, p.edges) = k
  BY <1>1, <1>2 DEF With, IsGraph
<1> QED BY <1>3, <1>4, <1>5 DEF p, k

LEMMA FinishedIs ==
  ASSUME NEW g, IsGraph(g), NEW S, NEW matches, NEW mode, NEW total, NEW offset, NEW f
  PROVE  Finished(g, Page(Induced(g, S), matches, mode, total, offset), f)
           = Page(Out(Induced(g, S), f), matches, mode, total, offset)
BY PageWhole, PageOnto DEF Finished, Out

(* The map: the first repositories of the projects of the page.            *)
FirstRepos(g, p) == Elements(First(Sorted(Targets(g, "contains", p) \cap Repos), RepoLimit))

ProjectRepos(g, offset) ==
  UNION {FirstRepos(g, p) : p \in Elements(Slice(Sorted(Projects \cap g.nodes), offset))}

LEMMA FirstReposAre ==
  ASSUME NEW g, Collected(g), NEW p \in Projects \cap g.nodes
  PROVE  /\ FirstRepos(g, p) # {} /\ FirstRepos(g, p) \subseteq Repos \cap g.nodes
         /\ \A r \in FirstRepos(g, p) : Joined(g, p, "contains", r)
<1> DEFINE S == Targets(g, "contains", p) \cap Repos
           s == Sorted(S)
<1>1. Chain(g) /\ \E r \in Repos : Joined(g, p, "contains", r)
  BY DEF Collected
<1>2. \A r : r \in S <=> r \in Repos /\ Joined(g, p, "contains", r)
  BY <1>1, ChainEnds
<1>3. S \in SUBSET Ids /\ S # {}
  BY <1>1, <1>2 DEF Ids
<1> HIDE DEF S
<1>4. s \in Seq(Ids) /\ Elements(s) = S
  BY <1>3, SortedIs
<1> HIDE DEF s
<1>5. Len(s) \in Nat /\ Len(s) # 0
  <2>1. Len(s) = 0 => Elements(s) = {}
    BY DEF Elements
  <2> QED BY <1>3, <1>4, <2>1
<1> DEFINE t == First(s, RepoLimit)
<1>6. Len(t) \in Nat /\ Len(t) # 0 /\ Elements(t) \subseteq S
  <2>1. RepoLimit \in Nat /\ RepoLimit # 0
    BY LimitsAre DEF Limit
  <2>2. /\ Len(t) = IF RepoLimit <= Len(s) THEN RepoLimit ELSE Len(s)
        /\ Elements(t) \subseteq Elements(s)
    BY <1>4, <2>1, FirstIs
  <2> HIDE DEF t
  <2> QED BY <1>4, <1>5, <2>1, <2>2
<1> HIDE DEF t
<1>7. t[1] \in Elements(t)
  <2>1. 1 \in 1..Len(t)
    BY <1>6
  <2> QED BY <2>1 DEF Elements
<1>8. FirstRepos(g, p) = Elements(t)
  BY DEF FirstRepos, t, s, S
<1> QED BY <1>1, <1>2, <1>6, <1>7, <1>8, ChainIs

LEMMA ProjectReply ==
  ASSUME NEW g, Collected(g), NEW f, ~f.issues, NEW offset \in Nat
  PROVE  LET R == ProjectRepos(g, offset)
             list == Sorted(Projects \cap g.nodes)
             k == Induced(g, Shown(g, R, 0))
         IN  /\ R \in SUBSET (Repos \cap g.nodes)
             /\ Projects \cap k.nodes = Elements(Slice(list, offset))
             /\ GraphReply(g, NoQuery, f, offset) = Page(Out(k, f), {}, "projects", Len(list), offset)
<1> DEFINE R == ProjectRepos(g, offset)
           list == Sorted(Projects \cap g.nodes)
           page == Elements(Slice(list, offset))
           k == Induced(g, Shown(g, R, 0))
<1>1. Projects \cap g.nodes \in SUBSET Ids
  BY DEF Ids
<1>2. page \subseteq Projects \cap g.nodes
  BY <1>1, SortedPage
<1> HIDE DEF page, list
<1>3. \A r : r \in R <=> \E p \in page : r \in FirstRepos(g, p)
  BY DEF ProjectRepos, page, list
<1>4. R \in SUBSET (Repos \cap g.nodes)
  BY <1>2, <1>3, FirstReposAre
<1>5. Projects \cap k.nodes = page
  <2>1. \A x \in Projects : x \in k.nodes <=> \E r \in R : Joined(g, x, "contains", r)
    BY <1>4, ShownIs
  <2> HIDE DEF k, R
  <2>2. ASSUME NEW p \in page PROVE p \in Projects /\ p \in k.nodes
    BY <1>2, <1>3, <2>1, FirstReposAre
  <2>3. ASSUME NEW x \in Projects, x \in k.nodes PROVE x \in page
    <3>1. PICK r \in R : Joined(g, x, "contains", r)
      BY <2>1, <2>3
    <3>2. PICK p \in page : r \in FirstRepos(g, p)
      BY <1>3, <3>1
    <3>3. Joined(g, p, "contains", r)
      BY <1>2, <3>2, FirstReposAre
    <3>4. Chain(g) /\ r \in Repos
      BY <1>4 DEF Collected
    <3>5. x = HomeOf[r] /\ p = HomeOf[r]
      BY <3>1, <3>3, <3>4, ChainIs, KindsDiffer
    <3> QED BY <3>5
  <2> QED BY <2>2, <2>3
<1>6. Around(g, R) = Shown(g, R, 0)
  BY <1>4, AroundAll
<1>7. SelectVisiblePage(g, NoQuery, offset) = Page(k, {}, "projects", Len(list), offset)
  <2>1. ProjectPage(g, offset) = Page(Induced(g, Around(g, R)), {}, "projects", Len(list), offset)
    BY DEF ProjectPage, ProjectRepos, FirstRepos, list
  <2> QED BY <1>6, <2>1 DEF SelectVisiblePage
<1> HIDE DEF R
<1>8. GraphReply(g, NoQuery, f, offset) = Finished(g, SelectVisiblePage(g, NoQuery, offset), f)
  BY DEF GraphReply
<1>9. GraphReply(g, NoQuery, f, offset) = Page(Out(k, f), {}, "projects", Len(list), offset)
  BY <1>7, <1>8, FinishedIs DEF Collected
<1> QED BY <1>4, <1>5, <1>9 DEF page, list, R

LEMMA MatchesAre ==
  ASSUME NEW q \in Queries, q # NoQuery
  PROVE  Matches[q] \subseteq Ids
BY GraphQueriesAssumption

(* A page of a search for repositories, read from the whole graph and      *)
(* through SQL.                                                            *)
LEMMA WholePage ==
  ASSUME NEW g, Collected(g), NEW q \in Queries, q # NoQuery, NEW offset \in Nat,
         RepositoryMatches(g, q) # {}
  PROVE  LET list == Sorted(RepositoryMatches(g, q))
             R == Elements(Slice(list, offset))
         IN  /\ R \in SUBSET (Repos \cap g.nodes) /\ R \subseteq Matches[q]
             /\ SelectVisiblePage(g, q, offset)
                  = Page(Induced(g, Shown(g, R, 0)), R, "repositories", Len(list), offset)
<1> DEFINE list == Sorted(RepositoryMatches(g, q))
           R == Elements(Slice(list, offset))
<1>1. RepositoryMatches(g, q) \in SUBSET Ids
  BY DEF RepositoryMatches, Ids
<1>2. R \subseteq RepositoryMatches(g, q)
  BY <1>1, SortedPage
<1>3. R \in SUBSET (Repos \cap g.nodes) /\ R \subseteq Matches[q]
  BY <1>2 DEF RepositoryMatches
<1>4. SelectVisiblePage(g, q, offset) = Page(Induced(g, Around(g, R)), R, "repositories", Len(list), offset)
  BY DEF SelectVisiblePage, RepositoryPage
<1> HIDE DEF R
<1>5. Around(g, R) = Shown(g, R, 0)
  BY <1>3, AroundAll
<1> QED BY <1>3, <1>4, <1>5 DEF R

LEMMA SqlPage ==
  ASSUME NEW g, Collected(g), NEW q \in Queries, q # NoQuery, NEW offset \in Nat,
         RepositoryMatches(g, q) # {}, NEW limit \in Nat
  PROVE  LET list == Sorted(RepositoryMatches(g, q))
             R == Elements(Slice(list, offset))
         IN  R # {} => RepositorySearch(g, q, offset, limit)
                         = Page(Induced(g, Shown(g, R, limit)), R, "repositories", Len(list), offset)
<1> DEFINE list == Sorted(RepositoryMatches(g, q))
           R == Elements(Slice(list, offset))
           rows == Induced(g, Shown(g, R, limit))
<1> SUFFICES ASSUME R # {}
             PROVE  RepositorySearch(g, q, offset, limit) = Page(rows, R, "repositories", Len(list), offset)
  OBVIOUS
<1>1. /\ R \in SUBSET (Repos \cap g.nodes) /\ R \subseteq Matches[q]
      /\ Slice(Sorted(R), 0) = Slice(list, offset)
  <2>1. RepositoryMatches(g, q) \in SUBSET Ids
    BY DEF RepositoryMatches, Ids
  <2> QED BY <2>1, SortedPage, WholePage
<1>2. RepositorySearch(g, q, offset, limit) =
        Moved(SelectVisiblePage(Induced(g, SqlRows(g, R, limit)), q, 0), offset, NextOffset(Len(list), offset))
  BY DEF RepositorySearch, Moved
<1> HIDE DEF R
<1>3. SqlRows(g, R, limit) = Shown(g, R, limit)
  BY <1>1, SqlRowsAre
<1>4. Placed(rows) /\ Repos \cap rows.nodes = R /\ Around(rows, R) = rows.nodes
  <2>1. R \in SUBSET (Repos \cap g.nodes)
    BY <1>1
  <2>2. Placed(rows) /\ Repos \cap rows.nodes = R
    BY <2>1, ShownIs
  <2>3. Around(rows, R) = rows.nodes
    BY <2>1, AroundShown
  <2> QED BY <2>2, <2>3
<1> HIDE DEF rows
<1>5. RepositoryMatches(rows, q) = R
  BY <1>1, <1>4 DEF RepositoryMatches
<1>6. Elements(Slice(Sorted(R), 0)) = R
  BY <1>1 DEF R
<1>7. SelectVisiblePage(rows, q, 0)
        = Page(Induced(rows, Around(rows, R)), R, "repositories", Len(Sorted(R)), 0)
  BY <1>5, <1>6 DEF SelectVisiblePage, RepositoryPage
<1>8. Induced(rows, rows.nodes) = rows
  BY <1>4, InducedByAll DEF Placed
<1>9. SelectVisiblePage(rows, q, 0) = Page(rows, R, "repositories", Len(Sorted(R)), 0)
  BY <1>4, <1>7, <1>8
<1>10. RepositorySearch(g, q, offset, limit) =
         Moved(Page(rows, R, "repositories", Len(Sorted(R)), 0), offset, NextOffset(Len(list), offset))
  BY <1>2, <1>3, <1>9 DEF rows
<1> QED BY <1>10, PageMoved DEF rows, R

LEMMA RepositoryReply ==
  ASSUME NEW g, Collected(g), NEW q \in Queries, q # NoQuery, NEW offset \in Nat,
         RepositoryMatches(g, q) # {}, NEW f, ~f.issues
  PROVE  LET list == Sorted(RepositoryMatches(g, q))
             R == Elements(Slice(list, offset))
         IN  R # {} =>
               /\ GraphReply(g, q, f, offset) =
                    Page(Out(Induced(g, Shown(g, R, 0)), f), R, "repositories", Len(list), offset)
               /\ GraphReply(g, q, f, offset) = Finished(g, SelectVisiblePage(g, q, offset), f)
<1> DEFINE list == Sorted(RepositoryMatches(g, q))
           R == Elements(Slice(list, offset))
           limit == SqlBuildLimit(f)
           answer == Page(Out(Induced(g, Shown(g, R, 0)), f), R, "repositories", Len(list), offset)
<1> SUFFICES ASSUME R # {}
             PROVE  /\ GraphReply(g, q, f, offset) = answer
                    /\ Finished(g, SelectVisiblePage(g, q, offset), f) = answer
  OBVIOUS
<1>1. R \in SUBSET (Repos \cap g.nodes) /\ IsGraph(g)
  BY WholePage DEF Collected
<1>2. limit \in Nat /\ BuildLimit \in Nat /\ limit = IF OfBuilds(f) THEN 0 ELSE BuildLimit
  BY LimitsAre DEF Limit, SqlBuildLimit
<1>3. SelectVisiblePage(g, q, offset) = Page(Induced(g, Shown(g, R, 0)), R, "repositories", Len(list), offset)
  BY WholePage
<1>4. RepositorySearch(g, q, offset, limit) =
        Page(Induced(g, Shown(g, R, limit)), R, "repositories", Len(list), offset)
  <2> HIDE DEF limit
  <2> QED BY <1>2, SqlPage
<1>5. GraphReply(g, q, f, offset) = Finished(g, RepositorySearch(g, q, offset, limit), f)
  BY DEF GraphReply
<1> HIDE DEF R, list, limit
<1>6. Out(Induced(g, Shown(g, R, limit)), f) = Out(Induced(g, Shown(g, R, 0)), f)
  BY <1>1, <1>2, LimitedPage
<1>7. GraphReply(g, q, f, offset) =
        Page(Out(Induced(g, Shown(g, R, limit)), f), R, "repositories", Len(list), offset)
  BY <1>1, <1>4, <1>5, FinishedIs
<1>8. Finished(g, SelectVisiblePage(g, q, offset), f) = answer
  BY <1>1, <1>3, FinishedIs
<1> QED BY <1>6, <1>7, <1>8

(* A page beyond the last match, asked for by a cursor that a scan has made *)
(* stale.                                                                  *)
LEMMA EmptyReply ==
  ASSUME NEW g, Collected(g), NEW q \in Queries, q # NoQuery, NEW offset \in Nat,
         RepositoryMatches(g, q) # {}, NEW f, ~f.issues
  PROVE  LET list == Sorted(RepositoryMatches(g, q))
         IN  Elements(Slice(list, offset)) = {} =>
               \E k : Part(k, g) /\ GraphReply(g, q, f, offset) = Page(k, {}, "repositories", Len(list), offset)
<1> DEFINE list == Sorted(RepositoryMatches(g, q))
           limit == SqlBuildLimit(f)
           none == Induced(g, Shown(g, {}, limit))
           walk == ConnectedLineage(none, {})
<1> SUFFICES ASSUME Elements(Slice(list, offset)) = {}
             PROVE  \E k : /\ Part(k, g)
                           /\ GraphReply(g, q, f, offset) = Page(k, {}, "repositories", Len(list), offset)
  OBVIOUS
<1>1. IsGraph(g) /\ Part(g, g) /\ {} \in SUBSET (Repos \cap g.nodes)
  BY DEF Collected, Part
<1>2. limit \in Nat
  BY LimitsAre DEF Limit, SqlBuildLimit
<1> HIDE DEF limit
<1>3. none.nodes = {}
  <2>1. Shown(g, {}, limit) = {}
    BY DEF Shown, Owned
  <2>2. none.nodes = g.nodes \cap Shown(g, {}, limit)
    BY <1>1, InducedIs
  <2> HIDE DEF none
  <2> QED BY <2>1, <2>2
<1>4. SqlRows(g, {}, limit) = Shown(g, {}, limit)
  BY <1>1, <1>2, SqlRowsAre
<1>5. RepositorySearch(g, q, offset, limit) = Moved(SelectVisiblePage(none, q, 0), offset, NextOffset(Len(list), offset))
  BY <1>4 DEF RepositorySearch, Moved
<1> DEFINE found == Sorted(none.nodes \cap Matches[q])
<1> HIDE DEF none, list
<1>6. Elements(Slice(found, 0)) = {}
  <2>1. {} \in SUBSET Ids /\ none.nodes \cap Matches[q] = {}
    BY <1>3
  <2>2. found = Sorted({})
    BY <2>1
  <2> HIDE DEF found
  <2>3. Elements(Slice(Sorted({}), 0)) \subseteq {}
    BY <2>1, SortedPage
  <2> QED BY <2>2, <2>3
<1>7. SelectVisiblePage(none, q, 0) = Page(Induced(none, walk), {}, "repositories", Len(found), 0)
  <2>1. RepositoryMatches(none, q) = {}
    BY <1>3 DEF RepositoryMatches
  <2> QED BY <1>6, <2>1 DEF SelectVisiblePage, GeneralPage
<1> HIDE DEF found, walk
<1>8. RepositorySearch(g, q, offset, limit) = Page(Induced(none, walk), {}, "repositories", Len(list), offset)
  BY <1>5, <1>7, PageMoved
<1> DEFINE S == Shown(g, {}, limit) \cap walk
<1>9. Induced(none, walk) = Induced(g, S)
  BY <1>1, InducedTwice DEF none
<1>10. GraphReply(g, q, f, offset) = Finished(g, RepositorySearch(g, q, offset, limit), f)
  BY DEF GraphReply, limit
<1> HIDE DEF S
<1>11. GraphReply(g, q, f, offset) = Page(Out(Induced(g, S), f), {}, "repositories", Len(list), offset)
  BY <1>1, <1>8, <1>9, <1>10, FinishedIs
<1>12. Part(Out(Induced(g, S), f), g)
  <2>1. Part(Induced(g, S), g)
    BY <1>1, PartOfPart
  <2> QED BY <2>1, PartOfPart
<1> QED BY <1>11, <1>12 DEF list

(* The list of what is not mapped.                                         *)
LEMMA IssueReply ==
  ASSUME NEW g, Collected(g), NEW q, NEW offset \in Nat, NEW f, f.issues
  PROVE  LET list == Sorted(IssueRoots(g))
         IN  \E k : /\ Part(k, g)
                    /\ GraphReply(g, q, f, offset) =
                         Page(k, Elements(Slice(list, offset)), "mapping_issues", Len(list), offset)
<1> DEFINE unmapped == {n \in g.nodes \cap (Repos \cup TcProjects \cup Configs) : g.status[n] # "mapped"}
           U == unmapped \cup Containers(g, unmapped)
           m == Induced(g, U)
           list == Sorted(IssueRoots(g))
           M == Elements(Slice(list, offset))
           V == M \cup Containers(m, M)
<1>1. IsGraph(g) /\ Part(g, g)
  BY DEF Collected, Part
<1>2. MappingIssues(g) = m
  BY DEF MappingIssues
<1>3. \A n \in IssueRoots(g) : n \in U
  BY DEF IssueRoots
<1> HIDE DEF U
<1>4. m.nodes = g.nodes \cap U /\ m.status = g.status
  BY <1>1, InducedIs
<1> HIDE DEF m
<1>5. IssueRoots(m) = IssueRoots(g)
  BY <1>3, <1>4 DEF IssueRoots
<1> DEFINE page == Page(Induced(m, V), M, "mapping_issues", Len(list), offset)
<1>6. IssuePage(MappingIssues(g), offset) = page
  BY <1>2, <1>5 DEF IssuePage
<1>7. GraphReply(g, q, f, offset) = Onto(page, LimitBuilds(Whole(g, page)))
  BY <1>6 DEF GraphReply
<1> HIDE DEF M, V, list
<1>8. Induced(m, V) = Induced(g, U \cap V)
  BY <1>1, InducedTwice DEF m
<1>9. Whole(g, page) = Induced(g, U \cap V)
  BY <1>1, <1>8, PageWhole
<1>10. GraphReply(g, q, f, offset) =
         Page(LimitBuilds(Induced(g, U \cap V)), M, "mapping_issues", Len(list), offset)
  <2>1. \A h : Onto(page, h) = Page(h, M, "mapping_issues", Len(list), offset)
    BY PageOnto
  <2> HIDE DEF page
  <2> QED BY <1>7, <1>9, <2>1
<1>11. Part(LimitBuilds(Induced(g, U \cap V)), g)
  <2>1. Part(Induced(g, U \cap V), g)
    BY <1>1, PartOfPart
  <2> QED BY <2>1, PartOfPart
<1> QED BY <1>10, <1>11 DEF M, list

(* What a page lists, and from which candidates.                           *)
Sought(g, q, f) ==
  IF f.issues THEN IssueRoots(g)
  ELSE IF q = NoQuery THEN g.nodes \cap Projects
  ELSE IF RepositoryMatches(g, q) # {} THEN RepositoryMatches(g, q)
  ELSE g.nodes \cap Matches[q]

LEMMA SoughtIs ==
  ASSUME NEW g, Collected(g), NEW q \in Queries, NEW f
  PROVE  Sought(g, q, f) \in SUBSET Ids
<1>1. g.nodes \subseteq Ids
  BY DEF Collected, Chain
<1> QED BY <1>1 DEF Sought, IssueRoots, RepositoryMatches

LEMMA ReplyIs ==
  ASSUME NEW g, Collected(g), NEW q \in Queries, NEW f, f.issues \in BOOLEAN, NEW offset \in Nat
  PROVE  LET list == Sorted(Sought(g, q, f))
             mode == IF f.issues THEN "mapping_issues" ELSE IF q = NoQuery THEN "projects" ELSE "repositories"
             M == IF mode = "projects" THEN {} ELSE Elements(Slice(list, offset))
         IN  \E k : Part(k, g) /\ GraphReply(g, q, f, offset) = Page(k, M, mode, Len(list), offset)
<1>1. CASE f.issues
  <2>1. Sought(g, q, f) = IssueRoots(g)
    BY <1>1 DEF Sought
  <2> QED BY <1>1, <2>1, IssueReply
<1>2. CASE ~f.issues /\ q = NoQuery
  <2> DEFINE k == Induced(g, Shown(g, ProjectRepos(g, offset), 0))
             list == Sorted(Projects \cap g.nodes)
  <2>1. Sought(g, q, f) = Projects \cap g.nodes
    BY <1>2 DEF Sought
  <2>2. GraphReply(g, q, f, offset) = Page(Out(k, f), {}, "projects", Len(list), offset)
    BY <1>2, ProjectReply
  <2>3. Part(Out(k, f), g)
    <3>1. Part(g, g)
      BY DEF Collected, Part
    <3>2. Part(k, g)
      BY <3>1, PartOfPart
    <3> HIDE DEF k
    <3> QED BY <3>2, PartOfPart
  <2> HIDE DEF k
  <2> QED BY <1>2, <2>1, <2>2, <2>3
<1>3. CASE ~f.issues /\ q # NoQuery /\ RepositoryMatches(g, q) # {}
  <2> DEFINE list == Sorted(RepositoryMatches(g, q))
             R == Elements(Slice(list, offset))
             k == Induced(g, Shown(g, R, 0))
  <2>1. Sought(g, q, f) = RepositoryMatches(g, q)
    BY <1>3 DEF Sought
  <2>2. CASE R = {}
    BY <1>3, <2>1, <2>2, EmptyReply
  <2>3. CASE R # {}
    <3>1. GraphReply(g, q, f, offset) = Page(Out(k, f), R, "repositories", Len(list), offset)
      BY <1>3, <2>3, RepositoryReply
    <3>2. Part(Out(k, f), g)
      <4>1. Part(g, g)
        BY DEF Collected, Part
      <4>2. Part(k, g)
        BY <4>1, PartOfPart
      <4> HIDE DEF k
      <4> QED BY <4>2, PartOfPart
    <3> HIDE DEF k
    <3> QED BY <1>3, <2>1, <3>1, <3>2
  <2> QED BY <2>2, <2>3
<1>4. CASE ~f.issues /\ q # NoQuery /\ RepositoryMatches(g, q) = {}
  <2> DEFINE list == Sorted(g.nodes \cap Matches[q])
             M == Elements(Slice(list, offset))
             S == ConnectedLineage(g, M)
  <2>1. Sought(g, q, f) = g.nodes \cap Matches[q]
    BY <1>4 DEF Sought
  <2>2. IsGraph(g) /\ Part(g, g)
    BY DEF Collected, Part
  <2>3. SelectVisiblePage(g, q, offset) = Page(Induced(g, S), M, "repositories", Len(list), offset)
    BY <1>4 DEF SelectVisiblePage, GeneralPage
  <2>4. GraphReply(g, q, f, offset) = Finished(g, SelectVisiblePage(g, q, offset), f)
    BY <1>4 DEF GraphReply
  <2> HIDE DEF S, M, list
  <2>5. GraphReply(g, q, f, offset) = Page(Out(Induced(g, S), f), M, "repositories", Len(list), offset)
    BY <2>2, <2>3, <2>4, FinishedIs
  <2>6. Part(Out(Induced(g, S), f), g)
    <3>1. Part(Induced(g, S), g)
      BY <2>2, PartOfPart
    <3> QED BY <3>1, PartOfPart
  <2> QED BY <1>4, <2>1, <2>5, <2>6 DEF M, list
<1> QED BY <1>1, <1>2, <1>3, <1>4

-----------------------------------------------------------------------------
(* What an answer around repositories shows.                               *)

LEMMA PassingIs ==
  ASSUME NEW k, Chain(k), NEW f, NEW c \in Configs
  PROVE  c \in Filtered(k, f) <=> c \in Passing(k, f)
<1>1. c \notin ScopedOwners(k, f) /\ \A d : c \notin Runs(k, d)
  BY KindsDiffer DEF ScopedOwners, Scope, Runs
<1>2. \A n : ~Joined(k, c, "contains", n)
  BY ChainIs, KindsDiffer
<1> QED BY <1>1, <1>2, FilteredIs

(* What an answer shows besides builds is what the filter leaves.          *)
LEMMA OutIs ==
  ASSUME NEW k, IsGraph(k), Chain(k), NEW f
  PROVE  LET S == IF f = NoFilter THEN k.nodes ELSE Filtered(k, f)
             u == Induced(k, S)
         IN  /\ IsGraph(u) /\ Chain(u) /\ u.nodes = k.nodes \cap S
             /\ Out(k, f).nodes = u.nodes \cap KeptBuilds(u)
             /\ \A x : x \notin Builds => (x \in Out(k, f).nodes <=> x \in k.nodes /\ x \in S)
<1> DEFINE S == IF f = NoFilter THEN k.nodes ELSE Filtered(k, f)
           u == Induced(k, S)
<1>1. FilterGraph(k, f) = u
  <2>1. CASE f = NoFilter
    <3>1. Induced(k, k.nodes) = k
      BY InducedByAll
    <3> QED BY <2>1, <3>1 DEF FilterGraph
  <2>2. CASE f # NoFilter
    BY <2>2 DEF FilterGraph
  <2> QED BY <2>1, <2>2
<1> HIDE DEF S
<1>2. IsGraph(u) /\ Chain(u) /\ u.nodes = k.nodes \cap S
  BY InducedIs
<1> HIDE DEF u
<1>3. Out(k, f) = Induced(u, KeptBuilds(u))
  BY <1>1, LimitIsInduced DEF Out
<1>4. Out(k, f).nodes = u.nodes \cap KeptBuilds(u)
  BY <1>2, <1>3, InducedIs
<1>5. ASSUME NEW x, x \notin Builds PROVE x \in Out(k, f).nodes <=> x \in k.nodes /\ x \in S
  <2>1. x \in u.nodes => x \in KeptBuilds(u)
    BY <1>5 DEF KeptBuilds
  <2> QED BY <1>2, <1>4, <2>1
<1> QED BY <1>2, <1>4, <1>5 DEF u, S

LEMMA OwnShown ==
  ASSUME NEW g, Collected(g), NEW R \in SUBSET (Repos \cap g.nodes), NEW f, NEW c \in Configs
  PROVE  LET h == Out(Induced(g, Shown(g, R, 0)), f)
         IN  /\ c \in h.nodes => Owners(g, c) \cap h.nodes # {}
             /\ f = NoFilter /\ Owners(g, c) \cap h.nodes # {} => c \in h.nodes
<1> DEFINE k == Induced(g, Shown(g, R, 0))
           h == Out(k, f)
<1>1. /\ Placed(k) /\ Repos \cap k.nodes = R
      /\ c \in k.nodes <=> Owned(g, c, R)
      /\ c \in k.nodes => Owners(k, c) = Owners(g, c) \cap R
  <2>1. Placed(k) /\ Repos \cap k.nodes = R
    BY ShownIs
  <2>2. \A d \in Configs : d \in k.nodes <=> Owned(g, d, R)
    BY ShownIs
  <2>3. \A d \in Configs \cap k.nodes : Owners(k, d) = Owners(g, d) \cap R
    BY ShownIs
  <2> HIDE DEF k
  <2> QED BY <2>1, <2>2, <2>3
<1> HIDE DEF k
<1>2. IsGraph(k) /\ Chain(k)
  BY <1>1 DEF Placed
<1>3. \A x : x \notin Builds =>
        (x \in h.nodes <=> x \in k.nodes /\ (f = NoFilter \/ x \in Filtered(k, f)))
  BY <1>2, OutIs
<1>4. /\ c \notin Builds /\ \A r \in Repos : r \notin Builds
      /\ Owners(g, c) \subseteq Repos
  BY KindsDiffer DEF Collected
<1> HIDE DEF h
<1>5. CASE f = NoFilter
  <2>1. c \in h.nodes <=> Owned(g, c, R)
    BY <1>1, <1>3, <1>4, <1>5
  <2>2. Owners(g, c) \cap h.nodes = Owners(g, c) \cap R
    BY <1>1, <1>3, <1>4, <1>5
  <2>3. /\ c \in h.nodes => Owners(g, c) \cap h.nodes # {}
        /\ Owners(g, c) \cap h.nodes # {} => c \in h.nodes
    BY <2>1, <2>2 DEF Owned
  <2> QED BY <2>3 DEF h, k
<1>6. ASSUME f # NoFilter, c \in h.nodes PROVE Owners(g, c) \cap h.nodes # {}
  <2>1. c \in k.nodes /\ c \in Passing(k, f)
    BY <1>2, <1>3, <1>4, <1>6, PassingIs
  <2>2. Owners(k, c) = Owners(g, c) \cap R /\ Owners(k, c) # {}
    BY <1>1, <2>1 DEF Owned
  <2>3. PICK r \in Owners(k, c) : r \in Scope(k, f)
    <3>1. CASE f.project # Unassigned
      BY <2>1, <3>1 DEF Passing, Passes
    <3>2. CASE f.project = Unassigned
      BY <1>1, <2>2, <3>2 DEF Scope
    <3> QED BY <3>1, <3>2
  <2>4. r \in ScopedOwners(k, f)
    BY <2>1, <2>3 DEF ScopedOwners
  <2>5. r \in Filtered(k, f)
    BY <1>2, <2>4, FilteredIs
  <2> QED BY <1>1, <1>3, <1>4, <2>2, <2>3, <2>5
<1> QED BY <1>5, <1>6 DEF h, k

(* The filters that look at builds only, or at images only.                *)
OnlyOfBuilds(f) == f = [NoFilter EXCEPT !.failed = f.failed, !.recent = f.recent]
OnlyOfImages(f) == f.image # "any" /\ f = [NoFilter EXCEPT !.image = f.image]

LEMMA HistoryShown ==
  ASSUME NEW g, Collected(g), NEW R \in SUBSET (Repos \cap g.nodes), NEW f,
         NEW c \in Configs, Owned(g, c, R)
  PROVE  LET h == Out(Induced(g, Shown(g, R, 0)), f)
         IN  /\ OnlyOfBuilds(f) =>
                  Newest(Runs(g, c) \cap VisibleBuilds(g, f), BuildLimit) \subseteq h.nodes
             /\ OnlyOfImages(f) =>
                  (c \in h.nodes <=> (f.image = "yes" <=> Runs(g, c) \cap g.outputs # {}))
<1> DEFINE k == Induced(g, Shown(g, R, 0))
           h == Out(k, f)
           S == IF f = NoFilter THEN k.nodes ELSE Filtered(k, f)
           u == Induced(k, S)
<1>1. /\ Placed(k) /\ Repos \cap k.nodes = R /\ c \in k.nodes
      /\ Runs(k, c) = Loaded(g, c, 0)
  BY ShownIs
<1>2. IsGraph(g) /\ Chain(g) /\ Loaded(g, c, 0) = Runs(g, c) /\ Runs(g, c) \in SUBSET Builds
  BY LoadedIs DEF Collected
<1>3. k.outputs = g.outputs /\ k.failed = g.failed
  BY <1>2, InducedIs
<1> HIDE DEF k
<1>4. IsGraph(k) /\ Chain(k) /\ Runs(k, c) = Runs(g, c)
  BY <1>1, <1>2 DEF Placed
<1>5. /\ Chain(u) /\ u.nodes = k.nodes \cap S /\ h.nodes = u.nodes \cap KeptBuilds(u)
      /\ \A x : x \notin Builds => (x \in h.nodes <=> x \in k.nodes /\ x \in S)
  BY <1>4, OutIs
<1>6. \A m, r, n : Joined(u, m, r, n) <=> Joined(k, m, r, n) /\ m \in S /\ n \in S
  BY <1>4, InducedIs
<1> DEFINE V == Runs(g, c) \cap VisibleBuilds(g, f)
<1>7. Runs(k, c) \cap VisibleBuilds(k, f) = V
  <2>1. \A b \in Runs(g, c) : b \in g.nodes /\ b \in k.nodes /\ b \in Builds
    BY <1>2, <1>4, RunsAre, ChainIs
  <2> QED BY <1>3, <1>4, <2>1 DEF VisibleBuilds
<1> HIDE DEF S, u, h
<1>8. ASSUME OnlyOfBuilds(f), V # {}
      PROVE  c \in S /\ \A b : b \in Runs(u, c) <=> b \in V
  <2>1. /\ ~f.targetOnly /\ f.project = Unassigned /\ f.tcProject = Unassigned /\ f.image = "any"
    BY <1>8 DEF OnlyOfBuilds, NoFilter
  <2>2. \A b : b \in Runs(u, c) <=> b \in Runs(k, c) /\ c \in S /\ b \in S
    BY <1>4, <1>5, <1>6, RunsAre
  <2>3. CASE f = NoFilter
    <3>1. \A b \in Runs(k, c) : b \in k.nodes
      BY <1>4, RunsAre, ChainIs
    <3>2. ~f.failed /\ ~f.recent
      BY <2>3 DEF NoFilter
    <3>3. V = Runs(k, c)
      BY <1>4, <1>7, <3>2, VisibleIs
    <3> QED BY <1>1, <2>2, <2>3, <3>1, <3>3 DEF S
  <2>4. CASE f # NoFilter
    <3>1. c \in Passing(k, f)
      BY <1>1, <1>7, <1>8, <2>1 DEF Passing, Passes
    <3>2. c \in S
      BY <1>4, <2>4, <3>1, PassingIs DEF S
    <3>3. \A b \in V : b \in S
      BY <1>4, <1>7, <2>4, <3>1, FilteredIs DEF S
    <3>4. ASSUME NEW b \in Runs(k, c), b \in S PROVE b \in V
      <4>1. b \in Builds
        BY DEF Runs
      <4>2. /\ b \notin Passing(k, f) /\ b \notin ScopedOwners(k, f)
            /\ \A n : ~Joined(k, b, "contains", n)
        BY <1>4, <4>1, ChainIs, KindsDiffer DEF Passing, ScopedOwners, Scope
      <4>3. b \in VisibleBuilds(k, f)
        BY <1>4, <2>4, <3>4, <4>2, FilteredIs DEF S
      <4> QED BY <1>7, <4>3
    <3> QED BY <1>7, <2>2, <3>2, <3>3, <3>4
  <2> QED BY <2>3, <2>4
<1>9. ASSUME OnlyOfBuilds(f)
      PROVE  Newest(V, BuildLimit) \subseteq h.nodes
  <2>1. V \in SUBSET Builds /\ BuildLimit \in Nat
    BY <1>2, LimitsAre DEF Limit
  <2>2. Newest(V, BuildLimit) \subseteq V
    BY <2>1, NewestIs
  <2>3. CASE V # {}
    <3>1. Runs(u, c) = V
      BY <1>8, <1>9, <2>3
    <3>2. \A b \in V : b \in u.nodes
      BY <1>5, <3>1, RunsAre, ChainIs
    <3>3. Newest(V, BuildLimit) \subseteq KeptBuilds(u)
      BY <3>1 DEF KeptBuilds
    <3> QED BY <1>5, <2>2, <3>2, <3>3
  <2> QED BY <2>2, <2>3
<1>10. ASSUME OnlyOfImages(f)
       PROVE  c \in h.nodes <=> (f.image = "yes" <=> Runs(g, c) \cap g.outputs # {})
  <2>1. /\ ~f.targetOnly /\ f.project = Unassigned /\ f.tcProject = Unassigned
        /\ ~f.failed /\ ~f.recent /\ f.image # "any"
    BY <1>10 DEF OnlyOfImages, NoFilter
  <2>2. f # NoFilter
    BY <2>1 DEF NoFilter
  <2>3. c \in h.nodes <=> c \in Passing(k, f)
    BY <1>1, <1>4, <1>5, <2>2, PassingIs, KindsDiffer DEF S
  <2>4. c \in Passing(k, f) <=> ((Runs(k, c) \cap k.outputs # {}) <=> f.image = "yes")
    BY <1>1, <1>10, <2>1 DEF Passing, Passes
  <2> QED BY <1>3, <1>4, <2>3, <2>4
<1> QED BY <1>9, <1>10 DEF h, k

-----------------------------------------------------------------------------
(* Following the cursor.                                                   *)

IsFilter(f) == f \in Filters \cup {NoFilter}

LEMMA FilterIs ==
  ASSUME NEW f, IsFilter(f)
  PROVE  f.issues \in BOOLEAN
<1>1. CASE f = NoFilter
  BY <1>1 DEF NoFilter
<1>2. CASE f \in Filters
  <2>1. f \in [project : Projects \cup {Unassigned}, tcProject : TcProjects \cup {Unassigned},
               targetOnly : BOOLEAN, image : {"any", "yes", "no"},
               failed : BOOLEAN, recent : BOOLEAN, issues : BOOLEAN]
    BY <1>2, BrowseAssumption
  <2> QED BY <2>1
<1> QED BY <1>1, <1>2 DEF IsFilter

LEMMA NextIs ==
  ASSUME NEW total \in Nat, NEW offset \in Nat
  PROVE  NextOffset(total, offset) \in Nat
BY LimitsAre DEF Limit, NextOffset

(* An answer shows nodes of the graph and links between them, and lists    *)
(* candidates.                                                             *)
LEMMA ReplyShows ==
  ASSUME NEW g, Collected(g), NEW q \in Queries, NEW f, IsFilter(f), NEW offset \in Nat
  PROVE  LET r == GraphReply(g, q, f, offset)
             list == Sorted(Sought(g, q, f))
         IN  /\ r.nodes \subseteq g.nodes
             /\ \A e \in r.edges : e.source \in r.nodes /\ e.target \in r.nodes
             /\ r.offset = offset /\ r.next = NextOffset(Len(list), offset) /\ r.next \in Nat
             /\ r.mode = IF f.issues THEN "mapping_issues" ELSE IF q = NoQuery THEN "projects" ELSE "repositories"
             /\ r.matches = IF r.mode = "projects" THEN {} ELSE Elements(Slice(list, offset))
             /\ Listed(r) \in Seq(Ids)
<1> DEFINE list == Sorted(Sought(g, q, f))
           mode == IF f.issues THEN "mapping_issues" ELSE IF q = NoQuery THEN "projects" ELSE "repositories"
           M == IF mode = "projects" THEN {} ELSE Elements(Slice(list, offset))
           r == GraphReply(g, q, f, offset)
<1>1. PICK k : Part(k, g) /\ r = Page(k, M, mode, Len(list), offset)
  BY FilterIs, ReplyIs
<1>2. Sought(g, q, f) \in SUBSET Ids
  BY SoughtIs
<1>3. list \in Seq(Ids) /\ Elements(Slice(list, offset)) \subseteq Sought(g, q, f)
  BY <1>2, SortedIs, SortedPage
<1> HIDE DEF list, mode
<1>4. M \subseteq Ids
  BY <1>2, <1>3
<1> HIDE DEF M, r
<1>5. /\ r.nodes = k.nodes /\ r.edges = k.edges /\ r.matches = M /\ r.mode = mode
      /\ r.offset = offset /\ r.next = NextOffset(Len(list), offset)
  BY <1>1 DEF Page
<1>6. r.next \in Nat
  BY <1>3, <1>5, NextIs
<1>7. k.nodes \subseteq g.nodes /\ \A e \in k.edges : e.source \in k.nodes /\ e.target \in k.nodes
  BY <1>1, PartLinks DEF Part
<1>8. Listed(r) \in Seq(Ids)
  <2>1. r.nodes \cap Projects \in SUBSET Ids /\ r.matches \in SUBSET Ids
    BY <1>4, <1>5 DEF Ids
  <2>2. Sorted(r.nodes \cap Projects) \in Seq(Ids) /\ Sorted(r.matches) \in Seq(Ids)
    BY <2>1, SortedIs
  <2> QED BY <2>2 DEF Listed
<1> QED BY <1>5, <1>6, <1>7, <1>8 DEF r, M, mode, list

(* Without a filter, or for the issues, it lists its slice of them.        *)
LEMMA ReplyLists ==
  ASSUME NEW g, Collected(g), NEW q \in Queries, NEW f, IsFilter(f), f = NoFilter \/ f.issues,
         NEW offset \in Nat
  PROVE  Listed(GraphReply(g, q, f, offset)) = Slice(Sorted(Sought(g, q, f)), offset)
<1> DEFINE list == Sorted(Sought(g, q, f))
           page == Slice(list, offset)
           r == GraphReply(g, q, f, offset)
<1>1. Sorted(Elements(page)) = page
  BY SoughtIs, SortedPage
<1>2. /\ r.mode = IF f.issues THEN "mapping_issues" ELSE IF q = NoQuery THEN "projects" ELSE "repositories"
      /\ r.matches = IF r.mode = "projects" THEN {} ELSE Elements(page)
  BY ReplyShows
<1> HIDE DEF page, r
<1>3. CASE r.mode # "projects"
  BY <1>1, <1>2, <1>3 DEF Listed, r, page
<1>4. CASE r.mode = "projects"
  <2> DEFINE R == ProjectRepos(g, offset)
             k == Induced(g, Shown(g, R, 0))
             projects == Sorted(Projects \cap g.nodes)
  <2>1. ~f.issues /\ q = NoQuery /\ f = NoFilter
    BY <1>2, <1>4
  <2>2. /\ R \in SUBSET (Repos \cap g.nodes)
        /\ Projects \cap k.nodes = Elements(Slice(projects, offset))
        /\ GraphReply(g, NoQuery, f, offset) = Page(Out(k, f), {}, "projects", Len(projects), offset)
    BY <2>1, ProjectReply
  <2>3. Sought(g, q, f) = Projects \cap g.nodes
    BY <2>1 DEF Sought
  <2>4. IsGraph(k) /\ Chain(k)
    BY InducedIs DEF Collected
  <2> HIDE DEF k, R
  <2>5. Out(k, f).nodes \cap Projects = k.nodes \cap Projects
    <3>1. \A x : x \notin Builds => (x \in Out(k, f).nodes <=> x \in k.nodes /\ (f = NoFilter \/ x \in Filtered(k, f)))
      BY <2>4, OutIs
    <3> QED BY <2>1, <3>1, KindsDiffer
  <2>6. r.nodes = Out(k, f).nodes
    BY <2>1, <2>2 DEF Page, r
  <2>7. Listed(r) = Sorted(r.nodes \cap Projects)
    BY <1>4 DEF Listed
  <2>8. r.nodes \cap Projects = Elements(page)
    BY <2>2, <2>3, <2>5, <2>6 DEF page
  <2> QED BY <1>1, <2>7, <2>8 DEF r, page
<1> QED BY <1>3, <1>4

(* The answers around repositories: the map, and a search that names some. *)
LEMMA AnswersAround ==
  ASSUME NEW g, Collected(g), NEW q \in Queries, NEW f, IsFilter(f), NEW offset \in Nat,
         NEW r, r = GraphReply(g, q, f, offset),
         r.mode = "projects" \/ (r.mode = "repositories" /\ r.matches \cap Repos # {})
  PROVE  \E R \in SUBSET (Repos \cap g.nodes) :
           /\ r.nodes = Out(Induced(g, Shown(g, R, 0)), f).nodes
           /\ r.mode = "repositories" => r.matches = R
<1>1. /\ r.mode = IF f.issues THEN "mapping_issues" ELSE IF q = NoQuery THEN "projects" ELSE "repositories"
      /\ r.matches = IF r.mode = "projects" THEN {} ELSE Elements(Slice(Sorted(Sought(g, q, f)), offset))
  BY ReplyShows
<1>2. CASE r.mode = "projects"
  <2> DEFINE R == ProjectRepos(g, offset)
  <2>1. ~f.issues /\ q = NoQuery
    BY <1>1, <1>2
  <2>2. R \in SUBSET (Repos \cap g.nodes)
    BY <2>1, ProjectReply
  <2>3. r = Page(Out(Induced(g, Shown(g, R, 0)), f), {}, "projects", Len(Sorted(Projects \cap g.nodes)), offset)
    BY <2>1, ProjectReply
  <2> HIDE DEF R
  <2>4. r.nodes = Out(Induced(g, Shown(g, R, 0)), f).nodes
    BY <2>3 DEF Page
  <2> QED BY <1>2, <2>2, <2>4
<1>3. CASE r.mode = "repositories"
  <2> DEFINE R == Elements(Slice(Sorted(RepositoryMatches(g, q)), offset))
  <2>1. ~f.issues /\ q # NoQuery
    BY <1>1, <1>3
  <2>2. RepositoryMatches(g, q) # {}
    <3> SUFFICES ASSUME RepositoryMatches(g, q) = {} PROVE FALSE
      OBVIOUS
    <3>1. Sought(g, q, f) = g.nodes \cap Matches[q]
      BY <2>1 DEF Sought
    <3>2. Elements(Slice(Sorted(Sought(g, q, f)), offset)) \subseteq Sought(g, q, f)
      BY SoughtIs, SortedPage
    <3> QED BY <1>1, <1>3, <3>1, <3>2 DEF RepositoryMatches
  <2>3. r.matches = R
    BY <1>1, <1>3, <2>1, <2>2 DEF Sought
  <2>4. R # {}
    BY <1>3, <2>3
  <2>5. R \in SUBSET (Repos \cap g.nodes)
    BY <2>1, <2>2, WholePage
  <2>6. r = Page(Out(Induced(g, Shown(g, R, 0)), f), R, "repositories", Len(Sorted(RepositoryMatches(g, q))), offset)
    BY <2>1, <2>2, <2>4, RepositoryReply
  <2> HIDE DEF R
  <2>7. r.nodes = Out(Induced(g, Shown(g, R, 0)), f).nodes
    BY <2>6 DEF Page
  <2> QED BY <2>3, <2>5, <2>7
<1> QED BY <1>2, <1>3

(* The pages up to some offset were seen, and the cursor points behind them. *)
Reached(list, s, c) ==
  \E offset \in Nat : /\ offset <= Len(list)
                      /\ s = First(list, offset + PageLimit)
                      /\ c = NextOffset(Len(list), offset)

(* The invariant: the last answer is one about the saved graph, and while  *)
(* no scan replaces it the pages followed so far are the first of a list.  *)
Answered ==
  \/ reply = NoReply
  \/ \E offset \in Nat : reply = GraphReply(graph, request.query, request.filter, offset)

BrowseInv ==
  /\ Collected(graph)
  /\ request.query \in Queries /\ IsFilter(request.filter)
  /\ cursor \in Nat /\ steady \in BOOLEAN /\ seen \in Seq(Ids)
  /\ Answered
  /\ steady /\ (request.filter = NoFilter \/ request.filter.issues) =>
       Reached(Sorted(Sought(graph, request.query, request.filter)), seen, cursor)

LEMMA CandidatesAre == Candidates = Sought(graph, request.query, request.filter)
BY DEF Candidates, Sought

LEMMA BrowseInit == Init => BrowseInv
<1> SUFFICES ASSUME Init PROVE BrowseInv
  OBVIOUS
<1>1. Collected(graph)
  BY CollectedIs DEF Init, Graphs
<1>2. request.query = NoQuery /\ request.filter = NoFilter
  BY DEF Init
<1>3. NoQuery \in Queries
  BY GraphQueriesAssumption
<1>4. cursor = 0 /\ reply = NoReply /\ seen = <<>> /\ steady = FALSE
  BY DEF Init
<1>5. cursor \in Nat /\ steady \in BOOLEAN /\ seen \in Seq(Ids)
  <2>1. cursor \in Nat /\ seen \in Seq(Ids)
    BY <1>4
  <2>2. steady \in BOOLEAN
    BY <1>4
  <2> QED BY <2>1, <2>2
<1>6. IsFilter(request.filter)
  BY <1>2 DEF IsFilter
<1> QED BY <1>1, <1>2, <1>3, <1>4, <1>5, <1>6 DEF BrowseInv, Answered

LEMMA FirstNone ==
  ASSUME NEW T, NEW s \in Seq(T)
  PROVE  First(s, 0) = <<>>
<1> DEFINE none == First(s, 0)
<1>1. none \in Seq(T) /\ Len(none) = 0
  <2>1. Len(none) = IF 0 <= Len(s) THEN 0 ELSE Len(s)
    BY FirstIs
  <2>2. none \in Seq(T)
    BY FirstIs
  <2> HIDE DEF none
  <2> QED BY <2>1, <2>2
<1> HIDE DEF none
<1>2. none = <<>>
  BY <1>1
<1> QED BY <1>2 DEF none

(* A question at an offset that the pages before it have reached.          *)
LEMMA AnswerStep ==
  ASSUME Collected(graph), NEW q \in Queries, NEW f, IsFilter(f), NEW offset \in Nat,
         NEW before \in Seq(Ids), Answer(GraphReply(graph, q, f, offset), before)
  PROVE  LET list == Sorted(Sought(graph, q, f))
         IN  /\ cursor' \in Nat /\ seen' \in Seq(Ids)
             /\ (f = NoFilter \/ f.issues) /\ offset <= Len(list) /\ before = First(list, offset) =>
                  Reached(list, seen', cursor')
<1> DEFINE list == Sorted(Sought(graph, q, f))
           r == GraphReply(graph, q, f, offset)
<1>1. /\ r.next = NextOffset(Len(list), offset) /\ r.next \in Nat
      /\ Listed(r) \in Seq(Ids)
  BY ReplyShows
<1>2. f = NoFilter \/ f.issues => Listed(r) = Slice(list, offset)
  BY ReplyLists
<1>3. cursor' = r.next /\ seen' = before \o Listed(r)
  BY DEF Answer
<1>4. list \in Seq(Ids)
  BY SoughtIs, SortedIs
<1> HIDE DEF list, r
<1>5. cursor' \in Nat /\ seen' \in Seq(Ids)
  BY <1>1, <1>3
<1>6. ASSUME f = NoFilter \/ f.issues, offset <= Len(list), before = First(list, offset)
      PROVE  Reached(list, seen', cursor')
  <2>1. seen' = First(list, offset + PageLimit)
    BY <1>2, <1>3, <1>4, <1>6, PagesJoin
  <2> QED BY <1>1, <1>3, <1>6, <2>1 DEF Reached
<1> QED BY <1>5, <1>6 DEF list

LEMMA AskKeeps ==
  ASSUME BrowseInv, Ask
  PROVE  BrowseInv'
<1>1. PICK q \in Queries, f \in Filters :
        /\ Answer(GraphReply(graph, q, f, 0), <<>>)
        /\ request' = [query |-> q, filter |-> f]
        /\ steady' = TRUE /\ graph' = graph
  BY DEF Ask
<1> DEFINE list == Sorted(Sought(graph, q, f))
<1>2. Collected(graph) /\ IsFilter(f) /\ 0 \in Nat /\ <<>> \in Seq(Ids)
  BY DEF BrowseInv, IsFilter
<1>3. list \in Seq(Ids)
  BY <1>2, SoughtIs, SortedIs
<1>4. 0 <= Len(list) /\ First(list, 0) = <<>>
  BY <1>3, FirstNone
<1>5. /\ cursor' \in Nat /\ seen' \in Seq(Ids)
      /\ f = NoFilter \/ f.issues => Reached(list, seen', cursor')
  BY <1>1, <1>2, <1>4, AnswerStep
<1> HIDE DEF list
<1>6. request'.query = q /\ request'.filter = f
  BY <1>1
<1>7. reply' = GraphReply(graph', request'.query, request'.filter, 0)
  BY <1>1, <1>6 DEF Answer
<1> QED BY <1>1, <1>2, <1>5, <1>6, <1>7 DEF BrowseInv, Answered, list

LEMMA MoreKeeps ==
  ASSUME BrowseInv, More
  PROVE  BrowseInv'
<1> DEFINE q == request.query
           f == request.filter
           list == Sorted(Sought(graph, q, f))
           before == IF steady THEN seen ELSE <<>>
<1>1. /\ cursor # 0 /\ Answer(GraphReply(graph, q, f, cursor), before)
      /\ graph' = graph /\ request' = request /\ steady' = steady
  BY DEF More
<1>2. /\ Collected(graph) /\ q \in Queries /\ IsFilter(f) /\ cursor \in Nat
      /\ before \in Seq(Ids) /\ steady \in BOOLEAN
  BY DEF BrowseInv
<1>3. list \in Seq(Ids)
  BY <1>2, SoughtIs, SortedIs
<1>4. steady /\ (f = NoFilter \/ f.issues) => Reached(list, seen, cursor)
  BY DEF BrowseInv
<1>5. steady => before = seen
  OBVIOUS
<1> HIDE DEF q, f, list, before
<1>6. steady /\ (f = NoFilter \/ f.issues) => cursor <= Len(list) /\ before = First(list, cursor)
  <2> SUFFICES ASSUME steady, f = NoFilter \/ f.issues
               PROVE  cursor <= Len(list) /\ before = First(list, cursor)
    OBVIOUS
  <2>1. PICK offset \in Nat : /\ seen = First(list, offset + PageLimit)
                              /\ cursor = NextOffset(Len(list), offset)
    BY <1>4 DEF Reached
  <2>2. cursor = offset + PageLimit /\ offset + PageLimit < Len(list)
    BY <1>1, <2>1 DEF NextOffset
  <2>3. PageLimit \in Nat /\ Len(list) \in Nat
    BY <1>3, LimitsAre DEF Limit
  <2> QED BY <1>5, <2>1, <2>2, <2>3
<1>7. /\ cursor' \in Nat /\ seen' \in Seq(Ids)
      /\ (f = NoFilter \/ f.issues) /\ cursor <= Len(list) /\ before = First(list, cursor) =>
           Reached(list, seen', cursor')
  BY <1>1, <1>2, AnswerStep DEF list
<1>8. reply' = GraphReply(graph', request'.query, request'.filter, cursor)
  BY <1>1 DEF Answer, q, f
<1> QED BY <1>1, <1>2, <1>6, <1>7, <1>8 DEF BrowseInv, Answered, q, f, list

LEMMA ScanKeeps ==
  ASSUME BrowseInv, Scan
  PROVE  BrowseInv'
<1>1. Collected(graph')
  BY CollectedIs DEF Scan, Graphs
<1>2. request' = request /\ cursor' = cursor /\ reply' = NoReply /\ seen' = <<>> /\ steady' = FALSE
  BY DEF Scan
<1>3. (request.query \in Queries)' /\ IsFilter(request.filter)' /\ (cursor \in Nat)' /\ (seen \in Seq(Ids))'
  BY <1>2 DEF BrowseInv
<1>4. steady' \in BOOLEAN /\ ~steady'
  BY <1>2
<1> QED BY <1>1, <1>2, <1>3, <1>4 DEF BrowseInv, Answered

LEMMA StutterKeeps ==
  ASSUME BrowseInv, UNCHANGED vars
  PROVE  BrowseInv'
<1>1. /\ graph' = graph /\ request' = request /\ cursor' = cursor
      /\ reply' = reply /\ seen' = seen /\ steady' = steady
  BY DEF vars
<1>2. /\ Collected(graph) /\ request.query \in Queries /\ IsFilter(request.filter)
      /\ cursor \in Nat /\ steady \in BOOLEAN /\ seen \in Seq(Ids)
      /\ steady /\ (request.filter = NoFilter \/ request.filter.issues) =>
           Reached(Sorted(Sought(graph, request.query, request.filter)), seen, cursor)
  BY DEF BrowseInv
<1>3. reply = NoReply \/ \E offset \in Nat : reply = GraphReply(graph, request.query, request.filter, offset)
  BY DEF BrowseInv, Answered
<1> QED BY <1>1, <1>2, <1>3 DEF BrowseInv, Answered

(* The inductive invariant of a reader and the scans behind.               *)
THEOREM BrowseInvariant == Spec => []BrowseInv
<1>1. ASSUME BrowseInv, [Next]_vars PROVE BrowseInv'
  <2>1. CASE UNCHANGED vars
    BY <1>1, <2>1, StutterKeeps
  <2> QED BY <1>1, <2>1, AskKeeps, MoreKeeps, ScanKeeps DEF Next
<1> QED BY <1>1, BrowseInit, PTL DEF Spec

-----------------------------------------------------------------------------
(* What every reader sees.                                                 *)

(* Types: an answer never links to a node it leaves out (the nodes and     *)
(* edges that the graph endpoint returns, which the browser draws).        *)
THEOREM BrowseTypes == Spec => []TypeOK
<1>1. ASSUME BrowseInv PROVE TypeOK
  <2>1. /\ Collected(graph) /\ request.query \in Queries /\ IsFilter(request.filter)
        /\ cursor \in Nat /\ steady \in BOOLEAN /\ seen \in Seq(Ids)
    BY <1>1 DEF BrowseInv
  <2>2. graph.nodes \subseteq Ids /\ graph.edges \subseteq Links
    BY <2>1 DEF Collected, Chain
  <2>3. Elements(seen) \subseteq Ids
    BY <2>1, ElementsAre
  <2>4. reply.nodes \subseteq graph.nodes /\ \A e \in reply.edges : {e.source, e.target} \subseteq reply.nodes
    <3>1. CASE reply = NoReply
      BY <3>1 DEF NoReply
    <3>2. ASSUME NEW offset \in Nat, reply = GraphReply(graph, request.query, request.filter, offset)
          PROVE  reply.nodes \subseteq graph.nodes /\ \A e \in reply.edges : {e.source, e.target} \subseteq reply.nodes
      <4>1. /\ reply.nodes \subseteq graph.nodes
            /\ \A e \in reply.edges : e.source \in reply.nodes /\ e.target \in reply.nodes
        BY <2>1, <3>2, ReplyShows
      <4> QED BY <4>1
    <3> QED BY <1>1, <3>1, <3>2 DEF BrowseInv, Answered
  <2> QED BY <2>1, <2>2, <2>3, <2>4 DEF TypeOK, IsFilter
<1> QED BY <1>1, BrowseInvariant, PTL

(* Following the cursors lists every candidate once, in order, up to the   *)
(* last page (select_visible_page, repository_search and                   *)
(* paginate_mapping_issues: offset, limit and nextCursor).                 *)
THEOREM PagesDoPartition == Spec => []PagesPartition
<1>1. ASSUME BrowseInv PROVE PagesPartition
  <2> DEFINE list == Sorted(Candidates)
  <2> SUFFICES ASSUME steady, request.filter = NoFilter \/ request.filter.issues
               PROVE  seen = First(list, Len(seen)) /\ (cursor = 0 => Elements(seen) = Candidates)
    BY DEF PagesPartition
  <2>1. Reached(list, seen, cursor)
    BY <1>1, CandidatesAre DEF BrowseInv
  <2>2. Candidates \in SUBSET Ids
    BY <1>1, CandidatesAre, SoughtIs DEF BrowseInv
  <2>3. list \in Seq(Ids) /\ Elements(list) = Candidates
    BY <2>2, SortedIs
  <2> HIDE DEF list
  <2>4. PICK offset \in Nat : /\ seen = First(list, offset + PageLimit)
                              /\ cursor = NextOffset(Len(list), offset)
    BY <2>1 DEF Reached
  <2> DEFINE upto == offset + PageLimit
             n == IF upto <= Len(list) THEN upto ELSE Len(list)
  <2>5. upto \in Nat /\ upto # 0 /\ Len(list) \in Nat
    BY <2>3, LimitsAre DEF Limit
  <2>6. seen = SubSeq(list, 1, n) /\ Len(seen) = n
    BY <2>3, <2>4, <2>5, FirstIs
  <2>7. n \in Nat /\ n <= Len(list) /\ (n = Len(list) \/ upto < Len(list))
    BY <2>5
  <2>8. cursor = 0 => n = Len(list)
    BY <2>4, <2>5, <2>7 DEF NextOffset
  <2> HIDE DEF n, upto
  <2>9. First(list, n) = SubSeq(list, 1, n)
    BY <2>3, <2>7, FirstIs
  <2>10. n = Len(list) => seen = list
    BY <2>3, <2>6
  <2> QED BY <2>3, <2>6, <2>8, <2>9, <2>10
<1> QED BY <1>1, BrowseInvariant, PTL

(* A page loaded through SQL is the page computed from the whole graph     *)
(* (repository_search of graph_queries.py, select_visible_page of          *)
(* subgraph.py).                                                           *)
THEOREM SqlSearchesAgree == Spec => []SqlSearchAgrees
<1>1. ASSUME BrowseInv PROVE SqlSearchAgrees
  <2> DEFINE q == request.query
             f == request.filter
             R(o) == Elements(Slice(Sorted(RepositoryMatches(graph, q)), o))
  <2> SUFFICES ASSUME reply.mode = "repositories", reply.matches # {}
               PROVE  reply = Finished(graph, SelectVisiblePage(graph, q, reply.offset), f)
    BY DEF SqlSearchAgrees
  <2>1. Collected(graph) /\ q \in Queries /\ IsFilter(f)
    BY <1>1 DEF BrowseInv
  <2>2. PICK o \in Nat : reply = GraphReply(graph, q, f, o)
    BY <1>1 DEF BrowseInv, Answered, NoReply
  <2> HIDE DEF q, f
  <2>3. /\ reply.offset = o /\ ~f.issues /\ q # NoQuery
        /\ reply.matches = Elements(Slice(Sorted(Sought(graph, q, f)), o))
    BY <2>1, <2>2, ReplyShows
  <2>4. CASE RepositoryMatches(graph, q) # {}
    <3>1. R(o) # {}
      BY <2>3, <2>4 DEF Sought
    <3> QED BY <2>1, <2>2, <2>3, <2>4, <3>1, RepositoryReply
  <2>5. CASE RepositoryMatches(graph, q) = {}
    BY <2>2, <2>3, <2>5 DEF GraphReply
  <2> QED BY <2>4, <2>5
<1> QED BY <1>1, BrowseInvariant, PTL

(* On the map and on a search, the configurations shown are those of the   *)
(* repositories shown (select_visible_page, filter_graph).                 *)
THEOREM ConfigurationsAreOwn == Spec => []OwnConfigurationsOnly
<1>1. ASSUME BrowseInv PROVE OwnConfigurationsOnly
  <2> DEFINE q == request.query
             f == request.filter
  <2> SUFFICES ASSUME reply.mode = "projects" \/ (reply.mode = "repositories" /\ reply.matches \cap Repos # {}),
                      NEW c \in graph.nodes \cap Configs
               PROVE  /\ c \in reply.nodes => Owners(graph, c) \cap reply.nodes # {}
                      /\ f = NoFilter /\ Owners(graph, c) \cap reply.nodes # {} => c \in reply.nodes
    BY DEF OwnConfigurationsOnly
  <2>1. Collected(graph) /\ q \in Queries /\ IsFilter(f)
    BY <1>1 DEF BrowseInv
  <2>2. PICK o \in Nat : reply = GraphReply(graph, q, f, o)
    BY <1>1 DEF BrowseInv, Answered, NoReply
  <2> HIDE DEF q, f
  <2>3. PICK R \in SUBSET (Repos \cap graph.nodes) :
          reply.nodes = Out(Induced(graph, Shown(graph, R, 0)), f).nodes
    BY <2>1, <2>2, AnswersAround
  <2> QED BY <2>1, <2>3, OwnShown
<1> QED BY <1>1, BrowseInvariant, PTL

(* A filter on builds looks at the whole history (the graph endpoint asks  *)
(* SQL for all builds before such a filter, filter_graph,                  *)
(* limit_builds_per_configuration).                                        *)
THEOREM MatchingHistoryIsShown == Spec => []MatchingHistoryShown
<1>1. ASSUME BrowseInv PROVE MatchingHistoryShown
  <2> DEFINE q == request.query
             f == request.filter
  <2> SUFFICES ASSUME NEW r \in reply.matches \cap Repos,
                      NEW c \in graph.nodes \cap Configs, r \in Owners(graph, c),
                      OnlyOfBuilds(f) \/ OnlyOfImages(f)
               PROVE  /\ OnlyOfBuilds(f) =>
                           Newest(Runs(graph, c) \cap VisibleBuilds(graph, f), BuildLimit) \subseteq reply.nodes
                      /\ OnlyOfImages(f) =>
                           (c \in reply.nodes <=> (f.image = "yes" <=> Runs(graph, c) \cap graph.outputs # {}))
    BY DEF MatchingHistoryShown, OnlyOfBuilds, OnlyOfImages
  <2>1. Collected(graph) /\ q \in Queries /\ IsFilter(f)
    BY <1>1 DEF BrowseInv
  <2>2. PICK o \in Nat : reply = GraphReply(graph, q, f, o)
    BY <1>1 DEF BrowseInv, Answered, NoReply
  <2>3. ~f.issues
    BY DEF OnlyOfBuilds, OnlyOfImages, NoFilter
  <2> HIDE DEF q, f
  <2>4. reply.mode = "repositories"
    BY <2>1, <2>2, <2>3, ReplyShows
  <2>5. PICK R \in SUBSET (Repos \cap graph.nodes) :
          /\ reply.nodes = Out(Induced(graph, Shown(graph, R, 0)), f).nodes
          /\ reply.matches = R
    BY <2>1, <2>2, <2>4, AnswersAround
  <2>6. Owned(graph, c, R)
    BY <2>5 DEF Owned
  <2> QED BY <2>1, <2>5, <2>6, HistoryShown
<1> QED BY <1>1, BrowseInvariant, PTL

(* A node is on the branch of an output exactly when its impact contains a *)
(* build with outputs (annotate_visual_state, impact_report).              *)
THEOREM ColoursAreImpact == Spec => []ColourIsImpact
<1>1. ASSUME BrowseInv PROVE ColourIsImpact
  BY <1>1, ColoursAgree DEF BrowseInv, ColourIsImpact
<1> QED BY <1>1, BrowseInvariant, PTL

(* The mapping status, the orphans and the impact agree on what is mapped  *)
(* (annotate_mapping_quality, graph_insights, impact_report).              *)
THEOREM MappingFactsDoAgree == Spec => []MappingFactsAgree
<1>1. ASSUME BrowseInv PROVE MappingFactsAgree
  BY <1>1, FactsAgree DEF BrowseInv, MappingFactsAgree
<1> QED BY <1>1, BrowseInvariant, PTL
=============================================================================
