--------------------------- MODULE ProvidersProofs ---------------------------
(* Proofs about what a scan reads from the providers, for any listings,    *)
(* revisions, page sizes, failures and changes upstream.                   *)
EXTENDS Providers, FiniteSetTheorems, SequenceTheorems, WellFoundedInduction, TLAPS

-----------------------------------------------------------------------------
(* Numbers, sequences and functions.                                       *)

LEMMA LeastNumber ==
  ASSUME NEW S \in SUBSET Nat, S # {}
  PROVE  \E m \in S : \A k \in S : m <= k
<1>1. PICK m \in S : \A k \in S : <<k, m>> \notin OpToRel(<, Nat)
  BY WFMin, NatLessThanWellFounded
<1>2. \A k \in S : ~(k < m)
  BY <1>1 DEF OpToRel
<1>3. \A k \in S : k \in Nat
  OBVIOUS
<1> QED BY <1>2, <1>3

(* Induction up to a bound, over a set.                                    *)
LEMMA Stepwise ==
  ASSUME NEW n \in Nat, NEW S, 0 \in S, \A k \in 1..n : k - 1 \in S => k \in S
  PROVE  \A k \in 0..n : k \in S
<1> DEFINE missing == {k \in 0..n : k \notin S}
<1>1. SUFFICES ASSUME missing # {} PROVE FALSE
  OBVIOUS
<1>2. PICK m \in missing : \A k \in missing : m <= k
  <2>1. missing \in SUBSET Nat
    OBVIOUS
  <2> HIDE DEF missing
  <2> QED BY <1>1, <2>1, LeastNumber
<1>3. m \in 1..n /\ m - 1 \in 0..n
  BY <1>2
<1>4. m - 1 \notin missing
  BY <1>2, <1>3
<1> QED BY <1>2, <1>3, <1>4

LEMMA LesserIs ==
  ASSUME NEW a \in Nat, NEW b \in Nat
  PROVE  Min({a, b}) \in Nat /\ Min({a, b}) \in {a, b} /\ Min({a, b}) <= a /\ Min({a, b}) <= b
BY DEF Min

(* What a page holds.                                                      *)
LEMMA CutIs ==
  ASSUME NEW T, NEW s \in Seq(T), NEW at \in Nat, NEW n \in Nat
  PROVE  /\ Cut(s, at, n) \in Seq(T) /\ Len(Cut(s, at, n)) \in 0..n
         /\ \A k \in 1..Len(s) :
              at < k /\ k <= at + n => /\ k - at \in 1..Len(Cut(s, at, n))
                                       /\ Cut(s, at, n)[k - at] = s[k]
         /\ at + n >= Len(s) => \A k \in 1..Len(s) : k <= at + Len(Cut(s, at, n)) \/ k <= at
<1> DEFINE m == Min({at + n, Len(s)})
           page == SubSeq(s, at + 1, m)
<1>1. Len(s) \in Nat /\ at + n \in Nat
  OBVIOUS
<1>2. m \in Nat /\ m \in {at + n, Len(s)} /\ m <= at + n /\ m <= Len(s)
  BY <1>1, LesserIs
<1> HIDE DEF m
<1>3. /\ page \in Seq(T)
      /\ Len(page) = IF at + 1 <= m THEN m - at ELSE 0
      /\ \A j \in 1..Len(page) : page[j] = s[at + j]
  BY <1>1, <1>2
<1>4. Cut(s, at, n) = page
  BY DEF Cut, m
<1> HIDE DEF page
<1>5. Len(page) \in 0..n
  BY <1>1, <1>2, <1>3
<1>6. ASSUME NEW k \in 1..Len(s), at < k, k <= at + n
      PROVE  k - at \in 1..Len(page) /\ page[k - at] = s[k]
  <2>1. k <= m
    BY <1>1, <1>2, <1>6
  <2>2. k - at \in 1..Len(page) /\ at + (k - at) = k
    BY <1>1, <1>2, <1>3, <1>6, <2>1
  <2> QED BY <1>3, <2>2
<1>7. ASSUME at + n >= Len(s), NEW k \in 1..Len(s)
      PROVE  k <= at + Len(page) \/ k <= at
  BY <1>1, <1>2, <1>3, <1>7
<1> QED BY <1>3, <1>4, <1>5, <1>6, <1>7

LEMMA ConcatOf ==
  ASSUME NEW T, NEW s \in Seq(T), NEW t \in Seq(T)
  PROVE  /\ s \o t \in Seq(T) /\ Len(s) \in Nat /\ Len(t) \in Nat /\ Len(s \o t) = Len(s) + Len(t)
         /\ \A i \in 1..Len(s) : i \in 1..Len(s \o t) /\ (s \o t)[i] = s[i]
         /\ \A i \in 1..Len(t) : Len(s) + i \in 1..Len(s \o t) /\ (s \o t)[Len(s) + i] = t[i]
         /\ \A i \in 1..Len(s \o t) : i \in 1..Len(s) \/ \E j \in 1..Len(t) : i = Len(s) + j
<1>1. Len(s) \in Nat /\ Len(t) \in Nat
  OBVIOUS
<1>2. /\ s \o t \in Seq(T) /\ Len(s \o t) = Len(s) + Len(t)
      /\ \A i \in 1..Len(s) + Len(t) : (s \o t)[i] = IF i <= Len(s) THEN s[i] ELSE t[i - Len(s)]
  BY ConcatProperties
<1>3. \A i \in 1..Len(s) : i \in 1..Len(s \o t) /\ (s \o t)[i] = s[i]
  BY <1>1, <1>2
<1>4. ASSUME NEW i \in 1..Len(t)
      PROVE  Len(s) + i \in 1..Len(s \o t) /\ (s \o t)[Len(s) + i] = t[i]
  <2>1. Len(s) + i \in 1..Len(s) + Len(t) /\ ~(Len(s) + i <= Len(s)) /\ (Len(s) + i) - Len(s) = i
    BY <1>1
  <2> QED BY <1>2, <2>1
<1>5. ASSUME NEW i \in 1..Len(s \o t), i \notin 1..Len(s)
      PROVE  \E j \in 1..Len(t) : i = Len(s) + j
  <2>1. i - Len(s) \in 1..Len(t) /\ i = Len(s) + (i - Len(s))
    BY <1>1, <1>2, <1>5
  <2> QED BY <2>1
<1> QED BY <1>1, <1>2, <1>3, <1>4, <1>5

LEMMA WithIs ==
  ASSUME NEW g, NEW f
  PROVE  /\ DOMAIN With(g, f) = DOMAIN g \cup DOMAIN f
         /\ \A x \in DOMAIN f : With(g, f)[x] = f[x]
         /\ \A x \in DOMAIN g \ DOMAIN f : With(g, f)[x] = g[x]
BY DEF With

(* Every element of a finite set is in the sequence made of it.            *)
LEMMA SequenceOfSet ==
  ASSUME NEW S, IsFiniteSet(S)
  PROVE  /\ SetToSeq(S) \in Seq(S)
         /\ \A x \in S : \E k \in 1..Len(SetToSeq(S)) : SetToSeq(S)[k] = x
<1> DEFINE n == Cardinality(S)
           f == SetToSeq(S)
<1>1. n \in Nat /\ ExistsBijection(1..n, S)
  BY FS_CardinalityType, FS_NatBijection, FS_CountingElements, FS_NatSurjection
<1>2. \E g \in [1..n -> S] : IsInjective(g)
  BY <1>1 DEF ExistsBijection, Bijection, Injection, Surjection, IsInjective
<1>3. f \in [1..n -> S] /\ IsInjective(f)
  BY <1>2 DEF SetToSeq
<1>4. f \in Injection(1..n, S)
  BY <1>3 DEF IsInjective, Injection
<1>5. IsFiniteSet(1..n) /\ Cardinality(1..n) = n
  BY <1>1, FS_Interval, FS_CountingElements, FS_CardinalityType
<1> HIDE DEF n, f
<1>6. f \in Surjection(1..n, S)
  BY <1>4, <1>5, FS_Injection DEF n
<1>7. \A x \in S : \E k \in 1..n : f[k] = x
  BY <1>6 DEF Surjection
<1>8. f \in [1..n -> S]
  BY <1>4 DEF Injection
<1>9. f \in Seq(S) /\ Len(f) = n
  BY <1>1, <1>8
<1> QED BY <1>7, <1>9 DEF f

-----------------------------------------------------------------------------
(* What a request for a project lists.                                     *)

(* Belongs, for a kind d of listing.                                       *)
OfScope(d, i, s) == s = "all" \/ Home[i] = s \/ (d = "teamcity" /\ s = "P")

(* The entries for s among the first n, from those among the first n - 1.  *)
Nth(d, l, s, f, n) ==
  CASE n = 0 -> <<>>
    [] n # 0 /\ OfScope(d, l[n], s) -> Append(f[n - 1], l[n])
    [] OTHER -> f[n - 1]

Chosen(d, l, s) == CHOOSE f : f = [n \in 0..Len(l) |-> Nth(d, l, s, f, n)]

LEMMA EntriesChosen ==
  ASSUME NEW s
  PROVE  Entries(s) = Chosen(kind, listing, s)[Len(listing)]
BY DEF Entries, Chosen, Nth, Belongs, OfScope

(* Recursion over the entries has a solution.                              *)
LEMMA Collectable ==
  ASSUME NEW l, Len(l) \in Nat, NEW s, NEW d
  PROVE  \E f : f = [n \in 0..Len(l) |-> Nth(d, l, s, f, n)]
<1> DEFINE Upto(m) == \E f : /\ f = [n \in 0..Len(l) |-> f[n]]
                             /\ \A n \in 0..m : f[n] = Nth(d, l, s, f, n)
           S == {m \in 0..Len(l) : Upto(m)}
<1>1. Upto(0)
  <2> DEFINE f == [n \in 0..Len(l) |-> <<>>]
  <2>1. f = [n \in 0..Len(l) |-> f[n]] /\ f[0] = Nth(d, l, s, f, 0)
    BY DEF Nth
  <2> HIDE DEF f
  <2>2. \A n \in 0..0 : f[n] = Nth(d, l, s, f, n)
    BY <2>1
  <2> QED BY <2>1, <2>2
<1>2. ASSUME NEW m \in 1..Len(l), Upto(m - 1) PROVE Upto(m)
  <2>1. PICK f : /\ f = [n \in 0..Len(l) |-> f[n]]
                 /\ \A n \in 0..m - 1 : f[n] = Nth(d, l, s, f, n)
    BY <1>2
  <2> DEFINE x == Nth(d, l, s, f, m)
             g == [n \in 0..Len(l) |-> IF n = m THEN x ELSE f[n]]
  <2> HIDE DEF x
  <2>2. g = [n \in 0..Len(l) |-> g[n]] /\ g[m] = x
    OBVIOUS
  <2>3. \A n \in 0..m - 1 : g[n] = f[n]
    OBVIOUS
  <2> HIDE DEF g
  <2>4. ASSUME NEW n \in 0..m PROVE Nth(d, l, s, g, n) = Nth(d, l, s, f, n)
    <3>1. n = 0 \/ n - 1 \in 0..m - 1
      OBVIOUS
    <3>2. n = 0 \/ g[n - 1] = f[n - 1]
      BY <2>3, <3>1
    <3> QED BY <3>2 DEF Nth
  <2>5. ASSUME NEW n \in 0..m PROVE g[n] = Nth(d, l, s, g, n)
    <3>1. CASE n = m
      BY <2>2, <2>4, <3>1 DEF x
    <3>2. CASE n \in 0..m - 1
      BY <2>1, <2>3, <2>4, <3>2
    <3> QED BY <3>1, <3>2
  <2> QED BY <2>2, <2>5
<1> HIDE DEF Upto
<1>3. 0 \in S /\ \A m \in 1..Len(l) : m - 1 \in S => m \in S
  BY <1>1, <1>2
<1>4. Len(l) \in S
  <2> HIDE DEF S
  <2>1. \A m \in 0..Len(l) : m \in S
    BY <1>3, Stepwise
  <2> QED BY <2>1
<1>5. PICK f : /\ f = [n \in 0..Len(l) |-> f[n]]
               /\ \A n \in 0..Len(l) : f[n] = Nth(d, l, s, f, n)
  BY <1>4 DEF Upto
<1>6. f = [n \in 0..Len(l) |-> Nth(d, l, s, f, n)]
  BY <1>5
<1> QED BY <1>6

LEMMA ChosenIs ==
  ASSUME NEW T, NEW l \in Seq(T), NEW s, NEW d
  PROVE  /\ Chosen(d, l, s)[0] = <<>>
         /\ \A n \in 1..Len(l) :
              Chosen(d, l, s)[n] = IF OfScope(d, l[n], s) THEN Append(Chosen(d, l, s)[n - 1], l[n])
                                                    ELSE Chosen(d, l, s)[n - 1]
         /\ \A n \in 0..Len(l) : Chosen(d, l, s)[n] \in Seq(T)
<1> DEFINE c == Chosen(d, l, s)
<1>1. Len(l) \in Nat
  OBVIOUS
<1>2. c = [n \in 0..Len(l) |-> Nth(d, l, s, c, n)]
  BY <1>1, Collectable DEF Chosen
<1> HIDE DEF c
<1>3. /\ c[0] = <<>>
      /\ \A n \in 1..Len(l) : c[n] = IF OfScope(d, l[n], s) THEN Append(c[n - 1], l[n]) ELSE c[n - 1]
  <2>1. \A n \in 0..Len(l) : c[n] = Nth(d, l, s, c, n)
    BY <1>2
  <2>2. \A n \in 1..Len(l) : n \in 0..Len(l) /\ n # 0
    BY <1>1
  <2> QED BY <1>1, <2>1, <2>2 DEF Nth
<1> DEFINE S == {n \in 0..Len(l) : c[n] \in Seq(T)}
<1>4. 0 \in S
  <2>1. 0 \in 0..Len(l) /\ <<>> \in Seq(T)
    BY <1>1
  <2> QED BY <1>3, <2>1
<1>5. ASSUME NEW n \in 1..Len(l), n - 1 \in S PROVE n \in S
  <2>1. l[n] \in T /\ c[n - 1] \in Seq(T) /\ n \in 0..Len(l)
    BY <1>5
  <2>2. Append(c[n - 1], l[n]) \in Seq(T)
    BY <2>1
  <2>3. c[n] \in Seq(T)
    BY <1>3, <2>1, <2>2
  <2> QED BY <2>1, <2>3
<1>6. \A n \in 0..Len(l) : n \in S
  <2> HIDE DEF S
  <2> QED BY <1>1, <1>4, <1>5, Stepwise
<1> QED BY <1>3, <1>6 DEF c

(* How many of the first n entries a request for s lists.                  *)
Rank(d, l, s, n) == Len(Chosen(d, l, s)[n])

LEMMA RankIs ==
  ASSUME NEW l \in Seq(Items), NEW s, NEW d
  PROVE  /\ Rank(d, l, s, 0) = 0
         /\ \A n \in 0..Len(l) : Rank(d, l, s, n) \in Nat
         /\ \A n \in 1..Len(l) :
              /\ n - 1 \in 0..Len(l)
              /\ Rank(d, l, s, n) = IF OfScope(d, l[n], s) THEN Rank(d, l, s, n - 1) + 1 ELSE Rank(d, l, s, n - 1)
<1> DEFINE c == Chosen(d, l, s)
<1>1. /\ c[0] = <<>>
      /\ \A n \in 1..Len(l) : c[n] = IF OfScope(d, l[n], s) THEN Append(c[n - 1], l[n]) ELSE c[n - 1]
      /\ \A n \in 0..Len(l) : c[n] \in Seq(Items)
  BY ChosenIs
<1> HIDE DEF c
<1>2. \A n \in 1..Len(l) : n - 1 \in 0..Len(l) /\ l[n] \in Items
  OBVIOUS
<1>3. ASSUME NEW n \in 1..Len(l)
      PROVE  Len(c[n]) = IF OfScope(d, l[n], s) THEN Len(c[n - 1]) + 1 ELSE Len(c[n - 1])
  <2>1. c[n - 1] \in Seq(Items) /\ l[n] \in Items
    BY <1>1, <1>2
  <2>2. Len(Append(c[n - 1], l[n])) = Len(c[n - 1]) + 1
    BY <2>1
  <2>3. c[n] = IF OfScope(d, l[n], s) THEN Append(c[n - 1], l[n]) ELSE c[n - 1]
    BY <1>1
  <2> QED BY <2>2, <2>3
<1>4. Len(c[0]) = 0 /\ \A n \in 0..Len(l) : Len(c[n]) \in Nat
  BY <1>1
<1> QED BY <1>2, <1>3, <1>4 DEF Rank, c

Counts(d, l, s) ==
  /\ Rank(d, l, s, 0) = 0
  /\ \A n \in 0..Len(l) : Rank(d, l, s, n) \in Nat
  /\ \A n \in 1..Len(l) :
       Rank(d, l, s, n) = IF OfScope(d, l[n], s) THEN Rank(d, l, s, n - 1) + 1 ELSE Rank(d, l, s, n - 1)

LEMMA RanksCount ==
  ASSUME NEW l \in Seq(Items), NEW s, NEW d
  PROVE  Counts(d, l, s)
BY RankIs DEF Counts

(* Ranks grow, and the entry at a rank is the one that has it.             *)
LEMMA RankGrows ==
  ASSUME NEW l \in Seq(Items), NEW s, NEW d, NEW m \in 0..Len(l), NEW n \in 0..Len(l), m <= n
  PROVE  /\ Rank(d, l, s, m) <= Rank(d, l, s, n)
         /\ \A k \in 1..Rank(d, l, s, m) : Chosen(d, l, s)[n][k] = Chosen(d, l, s)[m][k]
<1> DEFINE c == Chosen(d, l, s)
           S == {j \in 0..Len(l) - m :
                   /\ Len(c[m]) <= Len(c[m + j])
                   /\ \A k \in 1..Len(c[m]) : c[m + j][k] = c[m][k]}
<1>1. /\ \A j \in 1..Len(l) : c[j] = IF OfScope(d, l[j], s) THEN Append(c[j - 1], l[j]) ELSE c[j - 1]
      /\ \A j \in 0..Len(l) : c[j] \in Seq(Items)
  BY ChosenIs
<1> HIDE DEF c
<1>2. Len(l) - m \in Nat /\ n - m \in 0..Len(l) - m
  OBVIOUS
<1>3. 0 \in S
  BY <1>1, <1>2
<1>4. ASSUME NEW j \in 1..Len(l) - m, j - 1 \in S PROVE j \in S
  <2> DEFINE a == c[m + (j - 1)]  b == c[m + j]  x == l[m + j]
  <2>1. m + j \in 1..Len(l) /\ (m + j) - 1 = m + (j - 1) /\ m + (j - 1) \in 0..Len(l)
    BY <1>2
  <2>2. b = Append(a, x) \/ b = a
    BY <1>1, <2>1
  <2>3. a \in Seq(Items) /\ x \in Items /\ c[m] \in Seq(Items)
    BY <1>1, <2>1
  <2>4. Len(c[m]) <= Len(a) /\ \A k \in 1..Len(c[m]) : a[k] = c[m][k]
    BY <1>4
  <2> HIDE DEF a, b, x
  <2>5. Len(a) <= Len(b) /\ \A k \in 1..Len(a) : b[k] = a[k]
    BY <2>2, <2>3
  <2>6. Len(a) \in Nat /\ Len(b) \in Nat /\ Len(c[m]) \in Nat
    BY <2>2, <2>3
  <2>7. Len(c[m]) <= Len(b) /\ \A k \in 1..Len(c[m]) : b[k] = c[m][k]
    BY <2>4, <2>5, <2>6
  <2> QED BY <1>2, <2>7 DEF b
<1>5. n - m \in S
  <2> HIDE DEF S
  <2> QED BY <1>2, <1>3, <1>4, Stepwise
<1>6. m + (n - m) = n
  OBVIOUS
<1> QED BY <1>5, <1>6 DEF Rank, c

LEMMA RankOfEntry ==
  ASSUME NEW l \in Seq(Items), NEW s, NEW d, NEW n \in 1..Len(l), OfScope(d, l[n], s)
  PROVE  /\ Rank(d, l, s, n) \in 1..Len(Chosen(d, l, s)[Len(l)])
         /\ Chosen(d, l, s)[Len(l)][Rank(d, l, s, n)] = l[n]
         /\ \A m \in 1..Len(l) : OfScope(d, l[m], s) /\ Rank(d, l, s, m) = Rank(d, l, s, n) => m = n
<1> DEFINE c == Chosen(d, l, s)
<1>1. n - 1 \in 0..Len(l) /\ Len(l) \in 0..Len(l) /\ n \in 0..Len(l) /\ n <= Len(l) /\ l[n] \in Items
  OBVIOUS
<1>2. Rank(d, l, s, n) = Rank(d, l, s, n - 1) + 1 /\ Rank(d, l, s, n - 1) \in Nat
  BY <1>1, RankIs
<1>3. Rank(d, l, s, n) <= Rank(d, l, s, Len(l)) /\ Rank(d, l, s, Len(l)) \in Nat
  BY <1>1, RankGrows, RankIs
<1>4. c[n] = Append(c[n - 1], l[n]) /\ c[n - 1] \in Seq(Items)
  BY <1>1, ChosenIs
<1> HIDE DEF c
<1>5. c[n][Rank(d, l, s, n)] = l[n]
  <2>1. Rank(d, l, s, n - 1) = Len(c[n - 1])
    BY DEF Rank, c
  <2> QED BY <1>1, <1>2, <1>4, <2>1
<1>6. c[Len(l)][Rank(d, l, s, n)] = c[n][Rank(d, l, s, n)]
  <2>1. \A k \in 1..Rank(d, l, s, n) : c[Len(l)][k] = c[n][k]
    BY <1>1, RankGrows DEF c
  <2> QED BY <1>2, <2>1
<1>7. ASSUME NEW m \in 1..Len(l), OfScope(d, l[m], s), Rank(d, l, s, m) = Rank(d, l, s, n), m # n PROVE FALSE
  <2>1. CASE m < n
    <3>1. m \in 0..Len(l) /\ m <= n - 1
      BY <2>1
    <3>2. Rank(d, l, s, m) <= Rank(d, l, s, n - 1) /\ Rank(d, l, s, m) \in Nat
      BY <1>1, <3>1, RankGrows, RankIs
    <3> QED BY <1>2, <1>7, <3>2
  <2>2. CASE n < m
    <3>1. m - 1 \in 0..Len(l) /\ n <= m - 1
      BY <2>2
    <3>2. Rank(d, l, s, n) <= Rank(d, l, s, m - 1) /\ Rank(d, l, s, m) = Rank(d, l, s, m - 1) + 1
          /\ Rank(d, l, s, m - 1) \in Nat
      BY <1>1, <1>7, <3>1, RankGrows, RankIs
    <3> QED BY <1>2, <1>7, <3>2
  <2> QED BY <1>7, <2>1, <2>2
<1> QED BY <1>2, <1>3, <1>5, <1>6, <1>7 DEF Rank, c

(* An entry that comes moves later ones back.                              *)
LEMMA InsertIs ==
  ASSUME NEW T, NEW l \in Seq(T), NEW x \in T, NEW q \in 1..Len(l) + 1
  PROVE  /\ InsertAt(l, q, x) \in Seq(T) /\ Len(InsertAt(l, q, x)) = Len(l) + 1
         /\ InsertAt(l, q, x)[q] = x
         /\ \A n \in 1..Len(l) : /\ n < q => InsertAt(l, q, x)[n] = l[n]
                                 /\ n >= q => InsertAt(l, q, x)[n + 1] = l[n]
<1> DEFINE a == SubSeq(l, 1, q - 1)
           b == SubSeq(l, q, Len(l))
           c == a \o <<x>>
<1>1. Len(l) \in Nat /\ q \in Nat
  OBVIOUS
<1>2. a \in Seq(T) /\ Len(a) = q - 1 /\ \A n \in 1..q - 1 : a[n] = l[n]
  BY <1>1
<1>3. /\ b \in Seq(T) /\ Len(b) = (Len(l) - q) + 1
      /\ \A n \in 1..Len(b) : b[n] = l[q + (n - 1)]
  BY <1>1
<1> HIDE DEF a, b
<1>4. c \in Seq(T) /\ Len(c) = q /\ c[q] = x /\ \A n \in 1..q - 1 : c[n] = a[n]
  BY <1>1, <1>2
<1> HIDE DEF c
<1>5. /\ c \o b \in Seq(T) /\ Len(c \o b) = Len(l) + 1
      /\ \A n \in 1..q : (c \o b)[n] = c[n]
      /\ \A n \in 1..Len(b) : (c \o b)[q + n] = b[n]
  <2>1. /\ c \o b \in Seq(T) /\ Len(c \o b) = Len(c) + Len(b)
        /\ \A n \in 1..Len(c) : (c \o b)[n] = c[n]
        /\ \A n \in 1..Len(b) : (c \o b)[Len(c) + n] = b[n]
    <3>1. c \in Seq(T) /\ b \in Seq(T)
      BY <1>3, <1>4
    <3> QED BY <3>1, ConcatOf
  <2>2. Len(c) + Len(b) = Len(l) + 1
    BY <1>1, <1>3, <1>4
  <2> QED BY <1>4, <2>1, <2>2
<1>6. InsertAt(l, q, x) = c \o b
  BY DEF InsertAt, a, b, c
<1>7. ASSUME NEW n \in 1..Len(l), n >= q PROVE (c \o b)[n + 1] = l[n]
  <2>1. (n - q) + 1 \in 1..Len(b) /\ q + ((n - q) + 1) = n + 1 /\ q + (((n - q) + 1) - 1) = n
    BY <1>1, <1>3, <1>7
  <2> QED BY <1>3, <1>5, <2>1
<1>8. ASSUME NEW n \in 1..Len(l), n < q PROVE (c \o b)[n] = l[n]
  <2>1. n \in 1..q - 1 /\ n \in 1..q
    BY <1>1, <1>8
  <2> QED BY <1>2, <1>4, <1>5, <2>1
<1>9. (c \o b)[q] = x
  BY <1>1, <1>4, <1>5
<1> HIDE DEF c
<1> QED BY <1>5, <1>6, <1>7, <1>8, <1>9

(* One that goes moves them forward.                                       *)
LEMMA RemoveIs ==
  ASSUME NEW T, NEW l \in Seq(T), NEW q \in 1..Len(l)
  PROVE  /\ RemoveAt(l, q) \in Seq(T) /\ Len(RemoveAt(l, q)) = Len(l) - 1
         /\ \A n \in 1..Len(l) : /\ n < q => RemoveAt(l, q)[n] = l[n]
                                 /\ n > q => RemoveAt(l, q)[n - 1] = l[n]
<1> DEFINE a == SubSeq(l, 1, q - 1)
           b == SubSeq(l, q + 1, Len(l))
<1>1. Len(l) \in Nat /\ q \in Nat
  OBVIOUS
<1>2. a \in Seq(T) /\ Len(a) = q - 1 /\ \A n \in 1..q - 1 : a[n] = l[n]
  BY <1>1
<1>3. b \in Seq(T) /\ Len(b) = Len(l) - q /\ \A n \in 1..Len(b) : b[n] = l[q + n]
  BY <1>1
<1> HIDE DEF a, b
<1>4. /\ a \o b \in Seq(T) /\ Len(a \o b) = Len(l) - 1
      /\ \A n \in 1..q - 1 : (a \o b)[n] = a[n]
      /\ \A n \in 1..Len(b) : (a \o b)[(q - 1) + n] = b[n]
  <2>1. /\ a \o b \in Seq(T) /\ Len(a \o b) = Len(a) + Len(b)
        /\ \A n \in 1..Len(a) : (a \o b)[n] = a[n]
        /\ \A n \in 1..Len(b) : (a \o b)[Len(a) + n] = b[n]
    <3>1. a \in Seq(T) /\ b \in Seq(T)
      BY <1>2, <1>3
    <3>2. a \o b \in Seq(T) /\ Len(a \o b) = Len(a) + Len(b)
      BY <3>1, ConcatOf
    <3>3. \A n \in 1..Len(a) : (a \o b)[n] = a[n]
      BY <3>1, ConcatOf
    <3>4. \A n \in 1..Len(b) : (a \o b)[Len(a) + n] = b[n]
      BY <3>1, ConcatOf
    <3> QED BY <3>2, <3>3, <3>4
  <2>2. Len(a) + Len(b) = Len(l) - 1
    BY <1>1, <1>2, <1>3
  <2> QED BY <1>2, <2>1, <2>2
<1>5. RemoveAt(l, q) = a \o b
  BY DEF RemoveAt, a, b
<1>6. ASSUME NEW n \in 1..Len(l), n > q PROVE (a \o b)[n - 1] = l[n]
  <2>1. n - q \in 1..Len(b) /\ (q - 1) + (n - q) = n - 1 /\ q + (n - q) = n
    BY <1>1, <1>3, <1>6
  <2> QED BY <1>3, <1>4, <2>1
<1>7. ASSUME NEW n \in 1..Len(l), n < q PROVE (a \o b)[n] = l[n]
  BY <1>1, <1>2, <1>4, <1>7
<1> QED BY <1>4, <1>5, <1>6, <1>7

LEMMA RankAfterInsert ==
  ASSUME NEW l \in Seq(Items), NEW x \in Items, NEW q \in 1..Len(l) + 1, NEW s, NEW d, NEW n \in 0..Len(l)
  PROVE  /\ n < q => Rank(d, InsertAt(l, q, x), s, n) = Rank(d, l, s, n)
         /\ n >= q => Rank(d, InsertAt(l, q, x), s, n + 1) >= Rank(d, l, s, n)
<1> DEFINE k == InsertAt(l, q, x)
           a == [i \in 0..Len(l) |-> Rank(d, l, s, i)]
           b == [i \in 0..Len(l) + 1 |-> Rank(d, k, s, i)]
           S == {i \in 0..Len(l) : (i < q => b[i] = a[i]) /\ (i >= q => b[i + 1] >= a[i])}
<1>1. /\ k \in Seq(Items) /\ Len(k) = Len(l) + 1
      /\ \A i \in 1..Len(l) : (i < q => k[i] = l[i]) /\ (i >= q => k[i + 1] = l[i])
  BY InsertIs
<1> HIDE DEF k
<1>2. /\ a[0] = 0 /\ \A i \in 0..Len(l) : a[i] \in Nat
      /\ \A i \in 1..Len(l) : a[i] = IF OfScope(d, l[i], s) THEN a[i - 1] + 1 ELSE a[i - 1]
  BY RankIs
<1>3. /\ b[0] = 0 /\ \A i \in 0..Len(l) + 1 : b[i] \in Nat
      /\ \A i \in 1..Len(l) + 1 : b[i] = IF OfScope(d, k[i], s) THEN b[i - 1] + 1 ELSE b[i - 1]
  <2>1. /\ Rank(d, k, s, 0) = 0
        /\ \A i \in 0..Len(k) : Rank(d, k, s, i) \in Nat
        /\ \A i \in 1..Len(k) :
             Rank(d, k, s, i) = IF OfScope(d, k[i], s) THEN Rank(d, k, s, i - 1) + 1 ELSE Rank(d, k, s, i - 1)
    <3>1. k \in Seq(Items)
      BY <1>1
    <3>2. Counts(d, k, s)
      BY <3>1, RanksCount
    <3> QED BY <3>2 DEF Counts
  <2> QED BY <1>1, <2>1
<1> HIDE DEF a, b
<1>4. 0 \in S
  BY <1>2, <1>3
<1>5. ASSUME NEW i \in 1..Len(l), i - 1 \in S PROVE i \in S
  <2>1. i - 1 \in 0..Len(l) /\ i \in 0..Len(l) /\ i \in 1..Len(l) + 1 /\ i + 1 \in 1..Len(l) + 1
    OBVIOUS
  <2>2. a[i] = IF OfScope(d, l[i], s) THEN a[i - 1] + 1 ELSE a[i - 1]
    BY <1>2
  <2>3. /\ b[i] = IF OfScope(d, k[i], s) THEN b[i - 1] + 1 ELSE b[i - 1]
        /\ b[i + 1] = IF OfScope(d, k[i + 1], s) THEN b[i] + 1 ELSE b[i]
        /\ b[i] \in Nat /\ b[i - 1] \in Nat /\ a[i - 1] \in Nat
    BY <1>2, <1>3, <2>1
  <2>4. CASE i < q
    <3>1. b[i - 1] = a[i - 1] /\ k[i] = l[i]
      BY <1>1, <1>5, <2>4
    <3>2. b[i] = a[i]
      BY <2>2, <2>3, <3>1
    <3> QED BY <2>1, <2>4, <3>2
  <2>5. CASE i >= q
    <3>1. k[i + 1] = l[i] /\ b[i] >= a[i - 1]
      <4>1. CASE i = q
        <5>1. b[i - 1] = a[i - 1]
          BY <1>5, <4>1
        <5>2. b[i] >= b[i - 1]
          BY <2>3
        <5> QED BY <1>1, <2>5, <5>1, <5>2
      <4>2. CASE i > q
        <5>1. i - 1 >= q /\ (i - 1) + 1 = i
          BY <4>2
        <5> QED BY <1>1, <1>5, <2>5, <5>1
      <4> QED BY <2>5, <4>1, <4>2
    <3>2. b[i + 1] >= a[i]
      <4>1. CASE OfScope(d, l[i], s)
        <5>1. a[i] = a[i - 1] + 1
          BY <2>2, <4>1
        <5>2. b[i + 1] = b[i] + 1
          BY <2>3, <3>1, <4>1
        <5>3. b[i] >= a[i - 1] /\ b[i] \in Nat /\ a[i - 1] \in Nat
          BY <2>3, <3>1
        <5> QED BY <5>1, <5>2, <5>3
      <4>2. CASE ~OfScope(d, l[i], s)
        <5>1. a[i] = a[i - 1]
          BY <2>2, <4>2
        <5>2. b[i + 1] = b[i]
          BY <2>3, <3>1, <4>2
        <5>3. b[i] >= a[i - 1]
          BY <3>1
        <5> QED BY <5>1, <5>2, <5>3
      <4> QED BY <4>1, <4>2
    <3> QED BY <2>1, <2>5, <3>2
  <2> QED BY <2>4, <2>5
<1>6. n \in S
  <2> HIDE DEF S
  <2>1. \A i \in 0..Len(l) : i \in S
    <3>1. Len(l) \in Nat
      OBVIOUS
    <3> QED BY <1>4, <1>5, <3>1, Stepwise
  <2> QED BY <2>1
<1>7. n \in 0..Len(l) + 1 /\ n + 1 \in 0..Len(l) + 1
  OBVIOUS
<1> QED BY <1>6, <1>7 DEF a, b, k

LEMMA RankAfterRemove ==
  ASSUME NEW l \in Seq(Items), NEW q \in 1..Len(l), NEW s, NEW d, NEW n \in 1..Len(l)
  PROVE  /\ n < q => Rank(d, RemoveAt(l, q), s, n) = Rank(d, l, s, n)
         /\ n >= q => Rank(d, RemoveAt(l, q), s, n - 1) >= Rank(d, l, s, n) - 1
<1> DEFINE k == RemoveAt(l, q)
           a == [i \in 0..Len(l) |-> Rank(d, l, s, i)]
           b == [i \in 0..Len(l) - 1 |-> Rank(d, k, s, i)]
           S == {i \in 0..Len(l) : (i < q => b[i] = a[i]) /\ (i >= q => b[i - 1] >= a[i] - 1)}
<1>1. /\ k \in Seq(Items) /\ Len(k) = Len(l) - 1
      /\ \A i \in 1..Len(l) : (i < q => k[i] = l[i]) /\ (i > q => k[i - 1] = l[i])
  BY RemoveIs
<1> HIDE DEF k
<1>2. /\ a[0] = 0 /\ \A i \in 0..Len(l) : a[i] \in Nat
      /\ \A i \in 1..Len(l) : a[i] = IF OfScope(d, l[i], s) THEN a[i - 1] + 1 ELSE a[i - 1]
  BY RankIs
<1>3. /\ b[0] = 0 /\ \A i \in 0..Len(l) - 1 : b[i] \in Nat
      /\ \A i \in 1..Len(l) - 1 : b[i] = IF OfScope(d, k[i], s) THEN b[i - 1] + 1 ELSE b[i - 1]
  <2>1. /\ Rank(d, k, s, 0) = 0
        /\ \A i \in 0..Len(k) : Rank(d, k, s, i) \in Nat
        /\ \A i \in 1..Len(k) :
             Rank(d, k, s, i) = IF OfScope(d, k[i], s) THEN Rank(d, k, s, i - 1) + 1 ELSE Rank(d, k, s, i - 1)
    <3>1. k \in Seq(Items)
      BY <1>1
    <3>2. Counts(d, k, s)
      BY <3>1, RanksCount
    <3> QED BY <3>2 DEF Counts
  <2>2. /\ Rank(d, k, s, 0) = 0
        /\ \A i \in 0..Len(l) - 1 : Rank(d, k, s, i) \in Nat
        /\ \A i \in 1..Len(l) - 1 :
             Rank(d, k, s, i) = IF OfScope(d, k[i], s) THEN Rank(d, k, s, i - 1) + 1 ELSE Rank(d, k, s, i - 1)
    BY <1>1, <2>1
  <2>3. 0 \in 0..Len(l) - 1
    OBVIOUS
  <2>4. \A i \in 1..Len(l) - 1 : i \in 0..Len(l) - 1 /\ i - 1 \in 0..Len(l) - 1
    OBVIOUS
  <2>5. \A i \in 0..Len(l) - 1 : b[i] = Rank(d, k, s, i)
    OBVIOUS
  <2> HIDE DEF b
  <2> QED BY <2>2, <2>3, <2>4, <2>5
<1> HIDE DEF a, b
<1>4. 0 \in S
  BY <1>2, <1>3
<1>5. ASSUME NEW i \in 1..Len(l), i - 1 \in S PROVE i \in S
  <2>1. i - 1 \in 0..Len(l) /\ i \in 0..Len(l) /\ i - 1 \in 0..Len(l) - 1
    OBVIOUS
  <2>2. /\ a[i] = IF OfScope(d, l[i], s) THEN a[i - 1] + 1 ELSE a[i - 1]
        /\ a[i] \in Nat /\ a[i - 1] \in Nat /\ b[i - 1] \in Nat
    BY <1>2, <1>3, <2>1
  <2>3. CASE i < q
    <3>1. b[i - 1] = a[i - 1] /\ k[i] = l[i] /\ i \in 1..Len(l) - 1
      BY <1>1, <1>5, <2>3
    <3>2. b[i] = a[i]
      BY <1>3, <2>2, <3>1
    <3> QED BY <2>1, <2>3, <3>2
  <2>4. CASE i = q
    <3>1. b[i - 1] = a[i - 1]
      BY <1>5, <2>4
    <3>2. b[i - 1] >= a[i] - 1
      BY <2>2, <3>1
    <3> QED BY <2>1, <2>4, <3>2
  <2>5. CASE i > q
    <3>1. k[i - 1] = l[i] /\ i - 1 \in 1..Len(l) - 1 /\ i - 1 >= q
      BY <1>1, <2>5
    <3>2. b[(i - 1) - 1] >= a[i - 1] - 1 /\ (i - 1) - 1 \in 0..Len(l) - 1
      BY <1>5, <3>1
    <3>3. b[i - 1] = IF OfScope(d, l[i], s) THEN b[(i - 1) - 1] + 1 ELSE b[(i - 1) - 1]
      BY <1>3, <3>1
    <3>4. b[(i - 1) - 1] \in Nat
      BY <1>3, <3>2
    <3>5. b[i - 1] >= a[i] - 1
      <4>1. CASE OfScope(d, l[i], s)
        <5>1. a[i] = a[i - 1] + 1
          BY <2>2, <4>1
        <5>2. b[i - 1] = b[(i - 1) - 1] + 1
          BY <3>3, <4>1
        <5>3. /\ b[(i - 1) - 1] >= a[i - 1] - 1
              /\ b[(i - 1) - 1] \in Nat /\ a[i - 1] \in Nat
          BY <2>2, <3>2, <3>4
        <5> QED BY <5>1, <5>2, <5>3
      <4>2. CASE ~OfScope(d, l[i], s)
        <5>1. a[i] = a[i - 1]
          BY <2>2, <4>2
        <5>2. b[i - 1] = b[(i - 1) - 1]
          BY <3>3, <4>2
        <5>3. b[(i - 1) - 1] >= a[i - 1] - 1
          BY <3>2
        <5> QED BY <5>1, <5>2, <5>3
      <4> QED BY <4>1, <4>2
    <3> QED BY <2>1, <2>5, <3>5
  <2> QED BY <2>3, <2>4, <2>5
<1>6. n \in S
  <2> HIDE DEF S
  <2>1. \A i \in 0..Len(l) : i \in S
    <3>1. Len(l) \in Nat
      OBVIOUS
    <3> QED BY <1>4, <1>5, <3>1, Stepwise
  <2> QED BY <2>1
<1>7. n \in 0..Len(l) /\ n - 1 \in 0..Len(l) - 1 /\ (n < q => n \in 0..Len(l) - 1)
  OBVIOUS
<1> QED BY <1>6, <1>7 DEF a, b, k

-----------------------------------------------------------------------------
(* The inductive invariant, of the servers and of a scan.                  *)

Phases == {"idle", "page", "default", "branches", "sources", "done", "failed"}
Lists == {"page", "default", "branches"}

Revisions == UNION {[D -> Nat] : D \in SUBSET Items}

ScanRecord ==
  [phase : Phases, scope : Nat, at : Nat, visited : SUBSET Nat, last : BOOLEAN, next : Nat,
   tries : 0..(Attempts - 1), ask : Seq(Items), branch : Nat, got : Revisions,
   index : SUBSET Paths, read : SUBSET (Items \X Paths), sources : SUBSET (Items \X Paths \X Nat),
   complete : BOOLEAN, scans : Nat]

PastRecord ==
  [kept : SUBSET Items, removals : Nat, base : [Items -> Nat], gone : SUBSET Items,
   dropped : SUBSET Items]

(* Branches are only pushed to, and what was there all the time is there.  *)
EnvInv ==
  /\ kind \in Kinds
  /\ listing \in Seq(Items) /\ IsInjective(listing)
  /\ head \in [Items -> Nat] /\ crowded \in SUBSET Items
  /\ past \in PastRecord
  /\ past.kept \subseteq Listed
  /\ \A i \in Items : past.base[i] <= head[i]

(* The files of a commit, as its index lists them.                         *)
TreeOf(v) == SetToSeq({p \in Paths : InTree(p, v)})

(* A cache entry holds the files of its revisions, all of those of         *)
(* repositories that never vanished.                                       *)
StoredInv ==
  \A k \in DOMAIN stored :
    /\ stored[k] \in SUBSET (Items \X Paths \X Nat)
    /\ \A i \in DOMAIN k : k[i] # 0
    /\ \A x \in stored[k] : x[1] \in DOMAIN k /\ x[3] = k[x[1]]
    /\ \A i \in DOMAIN k \ past.gone, p \in Paths :
         InTree(p, k[i]) => <<i, p, k[i]>> \in stored[k]

PhaseInv(s) ==
  /\ s \in ScanRecord
  /\ s.scope \in DOMAIN Scopes
  /\ s.phase \in {"default", "branches"} => s.ask # <<>> /\ kind = "datacenter"
  /\ s.phase \in Lists => s.index = {} /\ s.read = {} /\ s.sources = {} /\ s.complete
  /\ s.phase = "sources" => Reads /\ s.complete
  /\ DOMAIN s.got \subseteq Listed \cup past.gone

(* While branches are paged through, the default branch is still to come.  *)
RevisionInv(s) ==
  kind = "datacenter" =>
    /\ \A i \in DOMAIN s.got : s.got[i] = 0 => past.base[i] = 0 \/ i \in past.dropped
    /\ s.phase = "branches" =>
         \/ past.base[Head(s.ask)] = 0 \/ Head(s.ask) \in past.dropped
         \/ s.branch < Len(Branches(Head(s.ask)))

Asked(s, i) == \E k \in 1..Len(s.ask) : s.ask[k] = i

(* What has been read of the sources, and what is still to be read.        *)
SourceInv(s) ==
  Reads /\ s.phase \in {"sources", "done"} /\ s.complete =>
    /\ \A x \in s.sources :
         /\ x[1] \in Linked \cap DOMAIN s.got
         /\ IF s.got[x[1]] # 0 THEN x[3] = s.got[x[1]] ELSE x[3] >= past.base[x[1]]
    /\ \A i \in (Linked \cap DOMAIN s.got) \ past.gone, p \in Paths :
         s.got[i] # 0 /\ InTree(p, s.got[i]) =>
           \/ <<i, p, s.got[i]>> \in s.sources
           \/ s.phase = "sources" /\ (<<i, p>> \in s.read \/ Asked(s, i))
    /\ s.phase = "sources" =>
         /\ \A r \in s.read : r[1] \in Linked \cap DOMAIN s.got
         /\ \A i \in Items : Asked(s, i) => i \in Readable(s)
         /\ kind = "datacenter" /\ s.ask # <<>> =>
              \A k \in 1..Len(TreeOf(s.got[Head(s.ask)])) :
                k <= s.at => TreeOf(s.got[Head(s.ask)])[k] \in s.index

(* i is listed by a later request of the scan.                             *)
Behind(i, scope, at, more) ==
  \E c \in DOMAIN Scopes :
    /\ Belongs(i, Scopes[c])
    /\ \/ c > scope
       \/ /\ c = scope /\ more
          /\ \E n \in 1..Len(listing) : listing[n] = i /\ Rank(kind, listing, Scopes[c], n) > at

Waits(s, i) ==
  \/ s.phase = "page" /\ Behind(i, s.scope, s.at, TRUE)
  \/ s.phase \in {"default", "branches"} /\ (Asked(s, i) \/ Behind(i, s.scope, s.next, ~s.last))

(* Each entry that vanished moved at most one that is missed.              *)
MissInv(s) ==
  s.phase \notin {"idle", "failed"} =>
    \E X \in SUBSET Items :
      /\ Cardinality(X) <= past.removals
      /\ \A i \in past.kept : i \in DOMAIN s.got \cup X \/ Waits(s, i)

ScanInv(s) == PhaseInv(s) /\ RevisionInv(s) /\ SourceInv(s) /\ MissInv(s)

IInv == EnvInv /\ StoredInv /\ ScanInv(scan)

-----------------------------------------------------------------------------
(* Steps of the servers.                                                   *)

LEMMA ListedIs ==
  ASSUME EnvInv
  PROVE  /\ Len(listing) \in Nat /\ DOMAIN listing = 1..Len(listing)
         /\ Listed \in SUBSET Items /\ listing \in Seq(Listed)
         /\ \A j : j \in Listed <=> \E n \in 1..Len(listing) : listing[n] = j
<1>1. listing \in Seq(Items)
  BY DEF EnvInv
<1> QED BY <1>1 DEF Listed

(* Where an entry is found after one has come.                             *)
Found(j, d, l, s, at) == \E n \in 1..Len(l) : l[n] = j /\ Rank(d, l, s, n) > at

LEMMA AppearIs ==
  ASSUME EnvInv, NEW i \in Items, Appear(i)
  PROVE  /\ listing' \in Seq(Items) /\ IsInjective(listing') /\ Listed \subseteq Listed'
         /\ UNCHANGED <<kind, stuck, hashes, stored, scan, head, crowded, past>>
         /\ \A j, s : \A at \in Nat :
              Found(j, kind, listing, s, at) => Found(j, kind, listing', s, at)
<1>1. /\ i \notin Listed /\ UNCHANGED <<kind, stuck, hashes, stored, scan, head, crowded, past>>
  BY DEF Appear, Change
<1>2. PICK q \in 1..Len(listing) + 1 : listing' = InsertAt(listing, q, i)
  <2>1. PICK q \in 1..(IF kind = "builds" THEN 1 ELSE Len(listing) + 1) : listing' = InsertAt(listing, q, i)
    BY DEF Appear
  <2>2. q \in 1..Len(listing) + 1
    BY <2>1, ListedIs
  <2> QED BY <2>1, <2>2
<1> DEFINE l == listing  m == listing'
<1>3. /\ l \in Seq(Items) /\ Len(l) \in Nat /\ IsInjective(l) /\ i \in Items
      /\ \A n \in 1..Len(l) : l[n] # i
  BY <1>1, ListedIs DEF EnvInv
<1>4. m = InsertAt(l, q, i)
  BY <1>2
<1> HIDE DEF l, m
<1>5. /\ m \in Seq(Items) /\ Len(m) = Len(l) + 1 /\ m[q] = i
      /\ \A n \in 1..Len(l) : (n < q => m[n] = l[n]) /\ (n >= q => m[n + 1] = l[n])
  <2>1. q \in 1..Len(l) + 1
    BY <1>2 DEF l
  <2>2. l \in Seq(Items) /\ i \in Items /\ q \in 1..Len(l) + 1
    BY <1>3, <2>1
  <2>3. /\ InsertAt(l, q, i) \in Seq(Items) /\ Len(InsertAt(l, q, i)) = Len(l) + 1
        /\ InsertAt(l, q, i)[q] = i
        /\ \A n \in 1..Len(l) : /\ n < q => InsertAt(l, q, i)[n] = l[n]
                                /\ n >= q => InsertAt(l, q, i)[n + 1] = l[n]
    BY <2>2, InsertIs
  <2> QED BY <1>4, <2>3
<1>6. IsInjective(m)
  <2> DEFINE Back(n) == IF n < q THEN n ELSE n - 1
  <2>1. ASSUME NEW n \in 1..Len(m), n # q PROVE Back(n) \in 1..Len(l) /\ m[n] = l[Back(n)]
    <3>1. q \in Nat /\ Len(m) = Len(l) + 1 /\ q \in 1..Len(l) + 1
      BY <1>2, <1>5 DEF l
    <3>2. CASE n < q
      BY <1>3, <1>5, <3>1, <3>2
    <3>3. CASE n > q
      <4>1. n - 1 \in 1..Len(l) /\ n - 1 >= q /\ (n - 1) + 1 = n
        BY <1>3, <3>1, <3>3
      <4> QED BY <1>5, <3>1, <3>3, <4>1
    <3> QED BY <2>1, <3>1, <3>2, <3>3
  <2>2. ASSUME NEW a \in 1..Len(m), NEW b \in 1..Len(m), m[a] = m[b] PROVE a = b
    <3>1. CASE a = q \/ b = q
      <4>1. CASE a = q /\ b # q
        BY <1>3, <1>5, <2>1, <2>2, <4>1
      <4>2. CASE b = q /\ a # q
        BY <1>3, <1>5, <2>1, <2>2, <4>2
      <4> QED BY <3>1, <4>1, <4>2
    <3>2. CASE a # q /\ b # q
      <4>1. Back(a) = Back(b)
        <5>1. Back(a) \in 1..Len(l) /\ Back(b) \in 1..Len(l) /\ l[Back(a)] = l[Back(b)]
          BY <2>1, <2>2, <3>2
        <5> HIDE DEF Back
        <5> QED BY <1>3, <5>1 DEF IsInjective
      <4> QED BY <1>2, <3>2, <4>1
    <3> QED BY <3>1, <3>2
  <2> QED BY <1>5, <2>2 DEF IsInjective
<1>7. Listed \subseteq Listed'
  <2> SUFFICES ASSUME NEW n \in 1..Len(l) PROVE l[n] \in {m[k] : k \in DOMAIN m}
    BY ListedIs DEF Listed, l, m
  <2>1. n \in 1..Len(m) /\ n + 1 \in 1..Len(m) /\ (l[n] = m[n] \/ l[n] = m[n + 1])
    BY <1>2, <1>3, <1>5
  <2> QED BY <1>5, <2>1
<1>8. ASSUME NEW j, NEW s, NEW at \in Nat, Found(j, kind, l, s, at)
      PROVE  Found(j, kind, m, s, at)
  <2>1. PICK n \in 1..Len(l) : l[n] = j /\ Rank(kind, l, s, n) > at
    BY <1>8 DEF Found
  <2>2. n \in 0..Len(l) /\ q \in 1..Len(l) + 1 /\ n \in 1..Len(m) /\ n + 1 \in 1..Len(m)
    BY <1>2, <1>3, <1>5 DEF l
  <2>3. /\ n < q => Rank(kind, m, s, n) = Rank(kind, l, s, n)
        /\ n >= q => Rank(kind, m, s, n + 1) >= Rank(kind, l, s, n)
    BY <1>3, <1>4, <2>2, RankAfterInsert
  <2>4. Rank(kind, l, s, n) \in Nat /\ Rank(kind, m, s, n) \in Nat /\ Rank(kind, m, s, n + 1) \in Nat
    <3>1. l \in Seq(Items) /\ m \in Seq(Items) /\ n \in 0..Len(l) /\ n \in 0..Len(m) /\ n + 1 \in 0..Len(m)
      BY <1>3, <1>5, <2>2
    <3>2. Rank(kind, l, s, n) \in Nat
      BY <3>1, RankIs
    <3>3. Rank(kind, m, s, n) \in Nat /\ Rank(kind, m, s, n + 1) \in Nat
      BY <3>1, RankIs
    <3> QED BY <3>2, <3>3
  <2>5. CASE n < q
    BY <1>5, <2>1, <2>2, <2>3, <2>5 DEF Found
  <2>6. CASE n >= q
    <3>1. m[n + 1] = j /\ Rank(kind, m, s, n + 1) > at
      BY <1>5, <2>1, <2>3, <2>4, <2>6
    <3> QED BY <2>2, <3>1 DEF Found
  <2> QED BY <2>2, <2>5, <2>6
<1> QED BY <1>1, <1>5, <1>6, <1>7, <1>8 DEF l, m

(* One that goes moves at most one entry before an offset.                 *)
LEMMA VanishIs ==
  ASSUME EnvInv, NEW i \in Items, Vanish(i)
  PROVE  /\ listing' \in Seq(Items) /\ IsInjective(listing') /\ Listed \ {i} \subseteq Listed'
         /\ UNCHANGED <<kind, stuck, hashes, stored, scan, head, crowded>>
         /\ past' = [past EXCEPT !.kept = @ \ {i}, !.removals = @ + 1, !.gone = @ \cup {i}]
         /\ \A s : \A at \in Nat : \E y \in Items : \A j :
              OfScope(kind, j, s) /\ Found(j, kind, listing, s, at) =>
                j \in {i, y} \/ Found(j, kind, listing', s, at)
<1>1. /\ UNCHANGED <<kind, stuck, hashes, stored, scan, head, crowded>>
      /\ past' = [past EXCEPT !.kept = @ \ {i}, !.removals = @ + 1, !.gone = @ \cup {i}]
  BY DEF Vanish, Change
<1>2. PICK q \in 1..Len(listing) : listing[q] = i /\ listing' = RemoveAt(listing, q)
  BY ListedIs DEF Vanish
<1> DEFINE l == listing  m == listing'
<1>3. l \in Seq(Items) /\ Len(l) \in Nat /\ IsInjective(l) /\ l[q] = i /\ q \in 1..Len(l)
  BY <1>2, ListedIs DEF EnvInv
<1>4. m = RemoveAt(l, q)
  BY <1>2
<1> HIDE DEF l, m
<1>5. /\ m \in Seq(Items) /\ Len(m) = Len(l) - 1
      /\ \A n \in 1..Len(l) : (n < q => m[n] = l[n]) /\ (n > q => m[n - 1] = l[n])
  <2>1. /\ RemoveAt(l, q) \in Seq(Items) /\ Len(RemoveAt(l, q)) = Len(l) - 1
        /\ \A n \in 1..Len(l) : /\ n < q => RemoveAt(l, q)[n] = l[n]
                                /\ n > q => RemoveAt(l, q)[n - 1] = l[n]
    BY <1>3, RemoveIs
  <2> QED BY <1>4, <2>1
<1>6. IsInjective(m)
  <2> DEFINE From(n) == IF n < q THEN n ELSE n + 1
  <2>1. ASSUME NEW n \in 1..Len(m) PROVE From(n) \in 1..Len(l) /\ m[n] = l[From(n)]
    <3>1. Len(m) = Len(l) - 1 /\ q \in 1..Len(l)
      BY <1>3, <1>5
    <3>2. CASE n < q
      BY <1>3, <1>5, <3>1, <3>2
    <3>3. CASE n >= q
      <4>1. n + 1 \in 1..Len(l) /\ n + 1 > q /\ (n + 1) - 1 = n
        BY <1>3, <3>1, <3>3
      <4> QED BY <1>5, <3>1, <3>3, <4>1
    <3> QED BY <1>3, <3>2, <3>3
  <2>2. ASSUME NEW a \in 1..Len(m), NEW b \in 1..Len(m), m[a] = m[b] PROVE a = b
    <3>1. From(a) = From(b)
      <4>1. From(a) \in 1..Len(l) /\ From(b) \in 1..Len(l) /\ l[From(a)] = l[From(b)]
        BY <2>1, <2>2
      <4> HIDE DEF From
      <4> QED BY <1>3, <4>1 DEF IsInjective
    <3> QED BY <1>3, <3>1
  <2> QED BY <1>5, <2>2 DEF IsInjective
<1>7. Listed \ {i} \subseteq Listed'
  <2> SUFFICES ASSUME NEW n \in 1..Len(l), l[n] # i PROVE l[n] \in {m[k] : k \in DOMAIN m}
    BY ListedIs DEF Listed, l, m
  <2>1. n < q \/ n > q
    BY <1>3
  <2>2. CASE n < q
    <3>1. n \in 1..Len(m) /\ l[n] = m[n]
      BY <1>3, <1>5, <2>2
    <3> QED BY <1>5, <3>1
  <2>3. CASE n > q
    <3>1. n - 1 \in 1..Len(m) /\ l[n] = m[n - 1]
      BY <1>3, <1>5, <2>3
    <3> QED BY <1>5, <3>1
  <2> QED BY <2>1, <2>2, <2>3
<1>8. ASSUME NEW s, NEW at \in Nat
      PROVE  \E y \in Items : \A j :
               OfScope(kind, j, s) /\ Found(j, kind, l, s, at) => j \in {i, y} \/ Found(j, kind, m, s, at)
  <2> DEFINE Due(n) == n \in 1..Len(l) /\ OfScope(kind, l[n], s) /\ Rank(kind, l, s, n) = at + 1
  <2>1. \E y \in Items : \A n : Due(n) => l[n] = y
    <3>1. CASE \E n : Due(n)
      <4>1. PICK n : Due(n)
        BY <3>1
      <4>2. \A k \in 1..Len(l) : OfScope(kind, l[k], s) /\ Rank(kind, l, s, k) = Rank(kind, l, s, n) => k = n
        <5>1. l \in Seq(Items) /\ n \in 1..Len(l) /\ OfScope(kind, l[n], s)
          BY <1>3, <4>1
        <5> HIDE DEF Due
        <5> QED BY <5>1, RankOfEntry
      <4>3. l[n] \in Items
        BY <1>3, <4>1
      <4>4. \A k : Due(k) => k = n
        BY <4>1, <4>2
      <4> HIDE DEF Due
      <4> QED BY <4>3, <4>4
    <3>2. CASE ~ \E n : Due(n)
      BY <3>2
    <3> QED BY <3>1, <3>2
  <2>2. PICK y \in Items : \A n : Due(n) => l[n] = y
    <3> HIDE DEF Due
    <3> QED BY <2>1
  <2>3. ASSUME NEW j, OfScope(kind, j, s), Found(j, kind, l, s, at), j # i, j # y
        PROVE  Found(j, kind, m, s, at)
    <3>1. PICK n \in 1..Len(l) : l[n] = j /\ Rank(kind, l, s, n) > at
      BY <2>3 DEF Found
    <3>2. Rank(kind, l, s, n) # at + 1
      BY <2>2, <2>3, <3>1
    <3>3. n # q
      BY <1>3, <2>3, <3>1
    <3>4. Rank(kind, l, s, n) \in Nat
      <4>1. Counts(kind, l, s) /\ n \in 0..Len(l)
        BY <1>3, RanksCount
      <4> QED BY <4>1 DEF Counts
    <3>5. /\ n < q => Rank(kind, m, s, n) = Rank(kind, l, s, n)
          /\ n >= q => Rank(kind, m, s, n - 1) >= Rank(kind, l, s, n) - 1
      <4>1. /\ n < q => Rank(kind, RemoveAt(l, q), s, n) = Rank(kind, l, s, n)
            /\ n >= q => Rank(kind, RemoveAt(l, q), s, n - 1) >= Rank(kind, l, s, n) - 1
        BY <1>3, RankAfterRemove
      <4> QED BY <1>4, <4>1
    <3>6. CASE n < q
      <4>1. n \in 1..Len(m) /\ m[n] = j
        BY <1>3, <1>5, <3>1, <3>6
      <4> QED BY <3>1, <3>5, <3>6, <4>1 DEF Found
    <3>7. CASE n > q
      <4>1. n - 1 \in 1..Len(m) /\ m[n - 1] = j
        BY <1>3, <1>5, <3>1, <3>7
      <4>2. Rank(kind, m, s, n - 1) > at
        <5>1. Rank(kind, m, s, n - 1) \in Nat
          <6>1. Counts(kind, m, s) /\ n - 1 \in 0..Len(m)
            BY <1>5, <4>1, RanksCount
          <6> QED BY <6>1 DEF Counts
        <5> QED BY <1>3, <3>1, <3>2, <3>4, <3>5, <3>7, <5>1
      <4> QED BY <4>1, <4>2 DEF Found
    <3> QED BY <1>3, <3>3, <3>6, <3>7
  <2> HIDE DEF Due
  <2> QED BY <2>2, <2>3
<1> QED BY <1>1, <1>5, <1>6, <1>7, <1>8 DEF l, m

LEMMA OfScopeIs ==
  ASSUME NEW j, NEW s
  PROVE  OfScope(kind, j, s) <=> Belongs(j, s)
BY DEF OfScope, Belongs

(* The offset from which the scan goes on in the listing.                  *)
Here(s) == IF s.phase = "page" THEN s.at ELSE s.next

LEMMA StillWaits ==
  ASSUME UNCHANGED <<kind, scan>>, NEW j, Waits(scan, j),
         LET s == Scopes[scan.scope] IN
           OfScope(kind, j, s) /\ Found(j, kind, listing, s, Here(scan)) => Found(j, kind, listing', s, Here(scan))
  PROVE  Waits(scan, j)'
<1>1. ASSUME NEW more \in BOOLEAN, Behind(j, scan.scope, Here(scan), more)
      PROVE  Behind(j, scan.scope, Here(scan), more)'
  <2>1. PICK c \in DOMAIN Scopes :
          /\ Belongs(j, Scopes[c])
          /\ \/ c > scan.scope
             \/ c = scan.scope /\ more /\ Found(j, kind, listing, Scopes[c], Here(scan))
    BY <1>1 DEF Behind, Found
  <2>2. OfScope(kind, j, Scopes[c])
    BY <2>1, OfScopeIs
  <2>3. c > scan.scope \/ (c = scan.scope /\ more /\ Found(j, kind, listing', Scopes[c], Here(scan)))
    BY <2>1, <2>2
  <2>4. c \in DOMAIN Scopes' /\ Scopes' = Scopes /\ Belongs(j, Scopes[c])' /\ scan' = scan
    BY <2>1 DEF Scopes, Belongs
  <2> QED BY <2>3, <2>4 DEF Behind, Found, Here
<1>2. CASE scan.phase = "page" /\ Behind(j, scan.scope, scan.at, TRUE)
  <2>1. Behind(j, scan.scope, Here(scan), TRUE)'
    BY <1>1, <1>2 DEF Here
  <2> QED BY <1>2, <2>1 DEF Waits, Here
<1>3. CASE scan.phase \in {"default", "branches"} /\ Behind(j, scan.scope, scan.next, ~scan.last)
  <2>1. Behind(j, scan.scope, Here(scan), ~scan.last)'
    BY <1>1, <1>3 DEF Here
  <2> QED BY <1>3, <2>1 DEF Waits, Here
<1>4. CASE scan.phase \in {"default", "branches"} /\ Asked(scan, j)
  BY <1>4 DEF Waits, Asked
<1> QED BY <1>2, <1>3, <1>4 DEF Waits

LEMMA BranchesIs ==
  ASSUME NEW i
  PROVE  /\ Len(Branches(i)) = (IF i \in crowded THEN 1 ELSE 0) + (IF head[i] # 0 THEN 1 ELSE 0)
         /\ Len(Branches(i))' = (IF i \in crowded' THEN 1 ELSE 0) + (IF head'[i] # 0 THEN 1 ELSE 0)
BY DEF Branches

(* What happens upstream leaves the invariant of the scan.                 *)
LEMMA Upstream ==
  ASSUME IInv, EnvInv', UNCHANGED <<kind, scan, stored>>,
         Listed \cup past.gone \subseteq (Listed \cup past.gone)',
         past'.base = past.base, past.gone \subseteq past'.gone, past.dropped \subseteq past'.dropped,
         \A i : i \in past'.dropped \/ Len(Branches(i)) <= Len(Branches(i))',
         MissInv(scan)'
  PROVE  IInv'
<1> USE DEF IInv, ScanInv
<1>1. StoredInv'
  BY DEF StoredInv
<1>2. PhaseInv(scan)'
  BY DEF PhaseInv, Reads, Scopes
<1>3. RevisionInv(scan)'
  <2>1. \A i : Len(Branches(i)) \in Nat /\ Len(Branches(i))' \in Nat
    BY BranchesIs
  <2>2. scan.branch \in Nat
    BY DEF PhaseInv, ScanRecord
  <2> SUFFICES ASSUME kind = "datacenter" PROVE RevisionInv(scan)'
    BY DEF RevisionInv
  <2>3. \A i \in DOMAIN scan.got : scan.got[i] = 0 => past'.base[i] = 0 \/ i \in past'.dropped
    BY DEF RevisionInv
  <2>4. ASSUME scan.phase = "branches"
        PROVE  \/ past'.base[Head(scan.ask)] = 0 \/ Head(scan.ask) \in past'.dropped
               \/ scan.branch < Len(Branches(Head(scan.ask)))'
    BY <2>1, <2>2, <2>4 DEF RevisionInv
  <2> QED BY <2>3, <2>4 DEF RevisionInv
<1>4. SourceInv(scan)'
  <2> SUFFICES ASSUME Reads, scan.phase \in {"sources", "done"}, scan.complete PROVE SourceInv(scan)'
    BY DEF SourceInv, Reads
  <2>1. \A i : (i \in Readable(scan))' <=> i \in Readable(scan)
    BY DEF Readable, Key
  <2> QED BY <2>1 DEF SourceInv, Reads, Asked, TreeOf, InTree
<1> QED BY <1>1, <1>2, <1>3, <1>4

LEMMA AppearStep ==
  ASSUME IInv, NEW i \in Items, Appear(i)
  PROVE  IInv'
<1>1. EnvInv /\ PhaseInv(scan) /\ MissInv(scan)
  BY DEF IInv, ScanInv
<1>2. /\ listing' \in Seq(Items) /\ IsInjective(listing') /\ Listed \subseteq Listed'
      /\ UNCHANGED <<kind, stuck, hashes, stored, scan, head, crowded, past>>
      /\ \A j, s : \A at \in Nat : Found(j, kind, listing, s, at) => Found(j, kind, listing', s, at)
  BY <1>1, AppearIs
<1>3. EnvInv'
  BY <1>1, <1>2 DEF EnvInv
<1>4. Here(scan) \in Nat
  BY <1>1 DEF PhaseInv, ScanRecord, Here
<1>5. \A j : Waits(scan, j) => Waits(scan, j)'
  BY <1>2, <1>4, StillWaits
<1>6. MissInv(scan)'
  BY <1>1, <1>2, <1>5 DEF MissInv
<1>7. \A j : Branches(j)' = Branches(j)
  BY <1>2 DEF Branches
<1>8. \A j : Len(Branches(j)) <= Len(Branches(j))'
  BY <1>7, BranchesIs
<1> QED BY <1>2, <1>3, <1>6, <1>8, Upstream

LEMMA PushStep ==
  ASSUME IInv, NEW i \in Items, Push(i)
  PROVE  IInv'
<1>1. EnvInv /\ PhaseInv(scan) /\ MissInv(scan)
  BY DEF IInv, ScanInv
<1>2. /\ UNCHANGED <<kind, stored, scan, listing, crowded, past>>
      /\ head' = [head EXCEPT ![i] = @ + 1] /\ head \in [Items -> Nat]
  BY <1>1 DEF Push, Change, EnvInv
<1>3. head' \in [Items -> Nat] /\ \A j \in Items : head[j] <= head'[j] /\ head[j] \in Nat
  BY <1>2
<1>4. EnvInv'
  <2>1. \A j \in Items : past'.base[j] <= head'[j]
    BY <1>1, <1>2, <1>3 DEF EnvInv, PastRecord
  <2> QED BY <1>1, <1>2, <1>3, <2>1 DEF EnvInv, Listed
<1>5. \A j : Waits(scan, j) => Waits(scan, j)'
  BY <1>2, StillWaits
<1>6. MissInv(scan)'
  BY <1>1, <1>2, <1>5 DEF MissInv
<1>7. ASSUME NEW j PROVE Len(Branches(j)) <= Len(Branches(j))'
  <2>1. head[j] # 0 => head'[j] # 0
    BY <1>2, <1>3
  <2>2. Len(Branches(j))' = (IF j \in crowded' THEN 1 ELSE 0) + (IF head'[j] # 0 THEN 1 ELSE 0)
    BY BranchesIs
  <2> QED BY <1>2, <2>1, <2>2, BranchesIs
<1> QED BY <1>2, <1>4, <1>6, <1>7, Upstream DEF Listed

LEMMA DropBranchStep ==
  ASSUME IInv, NEW i \in Items, DropBranch(i)
  PROVE  IInv'
<1>1. EnvInv /\ PhaseInv(scan) /\ MissInv(scan)
  BY DEF IInv, ScanInv
<1>2. /\ UNCHANGED <<kind, stored, scan, listing, head>>
      /\ crowded' = crowded \ {i}
      /\ past' = [past EXCEPT !.dropped = @ \cup {i}]
  BY DEF DropBranch, Change
<1>3. /\ past' \in PastRecord /\ past'.kept = past.kept /\ past'.removals = past.removals
      /\ past'.base = past.base /\ past'.gone = past.gone /\ past'.dropped = past.dropped \cup {i}
  BY <1>1, <1>2 DEF EnvInv, PastRecord
<1>4. EnvInv'
  BY <1>1, <1>2, <1>3 DEF EnvInv, Listed
<1>5. \A j : Waits(scan, j) => Waits(scan, j)'
  BY <1>2, StillWaits
<1>6. MissInv(scan)'
  BY <1>1, <1>2, <1>3, <1>5 DEF MissInv
<1>7. ASSUME NEW j, j # i PROVE Len(Branches(j)) <= Len(Branches(j))'
  <2>1. Len(Branches(j))' = (IF j \in crowded' THEN 1 ELSE 0) + (IF head'[j] # 0 THEN 1 ELSE 0)
    BY BranchesIs
  <2> QED BY <1>2, <1>7, <2>1, BranchesIs
<1> QED BY <1>2, <1>3, <1>4, <1>6, <1>7, Upstream DEF Listed

LEMMA VanishStep ==
  ASSUME IInv, NEW i \in Items, Vanish(i)
  PROVE  IInv'
<1>1. EnvInv /\ PhaseInv(scan) /\ MissInv(scan)
  BY DEF IInv, ScanInv
<1>2. /\ listing' \in Seq(Items) /\ IsInjective(listing') /\ Listed \ {i} \subseteq Listed'
      /\ UNCHANGED <<kind, stuck, hashes, stored, scan, head, crowded>>
      /\ past' = [past EXCEPT !.kept = @ \ {i}, !.removals = @ + 1, !.gone = @ \cup {i}]
      /\ \A s : \A at \in Nat : \E y \in Items : \A j :
           OfScope(kind, j, s) /\ Found(j, kind, listing, s, at) =>
             j \in {i, y} \/ Found(j, kind, listing', s, at)
  BY <1>1, VanishIs
<1>3. /\ past' \in PastRecord /\ past'.kept = past.kept \ {i} /\ past'.removals = past.removals + 1
      /\ past'.base = past.base /\ past'.gone = past.gone \cup {i} /\ past'.dropped = past.dropped
      /\ past.removals \in Nat
  <2>1. past \in PastRecord
    BY <1>1 DEF EnvInv
  <2>2. /\ past'.kept = past.kept \ {i} /\ past'.removals = past.removals + 1
        /\ past'.base = past.base /\ past'.gone = past.gone \cup {i} /\ past'.dropped = past.dropped
        /\ past.removals \in Nat
    BY <1>2, <2>1 DEF PastRecord
  <2>3. past.kept \ {i} \in SUBSET Items /\ past.gone \cup {i} \in SUBSET Items /\ past.removals + 1 \in Nat
    BY <2>1 DEF PastRecord
  <2>4. past' \in PastRecord
    BY <1>2, <2>1, <2>3 DEF PastRecord
  <2> QED BY <2>2, <2>4
<1>4. EnvInv'
  BY <1>1, <1>2, <1>3 DEF EnvInv
<1>5. Here(scan) \in Nat
  BY <1>1 DEF PhaseInv, ScanRecord, Here
<1>6. PICK y \in Items : \A j :
        OfScope(kind, j, Scopes[scan.scope]) /\ Found(j, kind, listing, Scopes[scan.scope], Here(scan)) =>
          j \in {i, y} \/ Found(j, kind, listing', Scopes[scan.scope], Here(scan))
  BY <1>2, <1>5
<1>7. \A j : Waits(scan, j) /\ j \notin {i, y} => Waits(scan, j)'
  BY <1>2, <1>6, StillWaits
<1>8. MissInv(scan)'
  <2> SUFFICES ASSUME scan.phase \notin {"idle", "failed"} PROVE MissInv(scan)'
    BY <1>2 DEF MissInv
  <2>1. PICK X \in SUBSET Items :
          /\ Cardinality(X) <= past.removals
          /\ \A j \in past.kept : j \in DOMAIN scan.got \cup X \/ Waits(scan, j)
    BY <1>1 DEF MissInv
  <2>2. IsFiniteSet(X)
    BY ProviderAssumption, FS_Subset
  <2>3. Cardinality(X \cup {y}) <= past.removals + 1
    <3>1. Cardinality(X) \in Nat
      BY <2>2, FS_CardinalityType
    <3>2. Cardinality(X \cup {y}) = IF y \in X THEN Cardinality(X) ELSE Cardinality(X) + 1
      BY <2>2, FS_AddElement
    <3> QED BY <1>3, <2>1, <3>1, <3>2
  <2>4. \A j \in past'.kept : j \in DOMAIN scan.got \cup (X \cup {y}) \/ Waits(scan, j)'
    BY <1>3, <1>7, <2>1
  <2> QED BY <1>2, <1>3, <2>3, <2>4 DEF MissInv
<1>9. \A j : Branches(j)' = Branches(j)
  BY <1>2 DEF Branches
<1>10. \A j : Len(Branches(j)) <= Len(Branches(j))'
  BY <1>9, BranchesIs
<1> QED BY <1>2, <1>3, <1>4, <1>8, <1>10, Upstream

-----------------------------------------------------------------------------
(* Steps of the scan.                                                      *)

LEMMA RevisionsIs ==
  ASSUME NEW g
  PROVE  g \in Revisions <=>
           g = [x \in DOMAIN g |-> g[x]] /\ DOMAIN g \subseteq Items /\ \A x \in DOMAIN g : g[x] \in Nat
<1>1. ASSUME g \in Revisions
      PROVE  g = [x \in DOMAIN g |-> g[x]] /\ DOMAIN g \subseteq Items /\ \A x \in DOMAIN g : g[x] \in Nat
  <2>1. PICK D \in SUBSET Items : g \in [D -> Nat]
    BY <1>1 DEF Revisions
  <2> QED BY <2>1
<1>2. ASSUME g = [x \in DOMAIN g |-> g[x]], DOMAIN g \in SUBSET Items, \A x \in DOMAIN g : g[x] \in Nat
      PROVE  g \in Revisions
  <2>1. g \in [DOMAIN g -> Nat]
    BY <1>2
  <2> QED BY <1>2, <2>1 DEF Revisions
<1> QED BY <1>1, <1>2

LEMMA WithRevisions ==
  ASSUME NEW g \in Revisions, NEW f \in Revisions
  PROVE  With(g, f) \in Revisions
<1>1. /\ DOMAIN g \subseteq Items /\ \A x \in DOMAIN g : g[x] \in Nat
      /\ DOMAIN f \subseteq Items /\ \A x \in DOMAIN f : f[x] \in Nat
  BY RevisionsIs
<1>2. DOMAIN With(g, f) = DOMAIN g \cup DOMAIN f
  BY WithIs
<1>3. With(g, f) = [x \in DOMAIN With(g, f) |-> With(g, f)[x]]
  BY DEF With
<1>4. \A x \in DOMAIN With(g, f) : With(g, f)[x] \in Nat
  <2> SUFFICES ASSUME NEW x \in DOMAIN With(g, f) PROVE With(g, f)[x] \in Nat
    OBVIOUS
  <2>1. CASE x \in DOMAIN f
    <3>1. With(g, f)[x] = f[x]
      BY <2>1 DEF With
    <3> QED BY <1>1, <2>1, <3>1
  <2>2. CASE x \notin DOMAIN f
    <3>1. x \in DOMAIN g \ DOMAIN f
      BY <1>2, <2>2
    <3>2. With(g, f)[x] = g[x]
      BY <3>1 DEF With
    <3> QED BY <1>1, <3>1, <3>2
  <2> QED BY <2>1, <2>2
<1> QED BY <1>1, <1>2, <1>3, <1>4, RevisionsIs

LEMMA ScopesAre ==
  /\ Len(Scopes) \in {1, 2} /\ DOMAIN Scopes = 1..Len(Scopes)
  /\ \A i \in Items : \E c \in DOMAIN Scopes : Belongs(i, Scopes[c])
<1>1. CASE kind \in {"datacenter", "teamcity"}
  <2>1. Scopes = <<"P", "Q">>
    BY <1>1 DEF Scopes
  <2>2. \A i \in Items : Home[i] \in {"P", "Q"}
    BY ProviderAssumption
  <2> QED BY <2>1, <2>2 DEF Belongs
<1>2. CASE kind \notin {"datacenter", "teamcity"}
  <2>1. Scopes = <<"all">>
    BY <1>2 DEF Scopes
  <2> QED BY <2>1 DEF Belongs
<1> QED BY <1>1, <1>2

(* A step of the scan sees the servers as they are.                        *)
LEMMA Carry ==
  ASSUME EnvInv, ScanInv(scan'), UNCHANGED <<server, past>>
  PROVE  EnvInv' /\ ScanInv(scan)'
<1>1. /\ UNCHANGED <<kind, stuck, hashes, listing, head, crowded, changes, past>>
      /\ Listed' = Listed /\ Scopes' = Scopes /\ Reads' = Reads
  BY DEF server, Listed, Scopes, Reads
<1>2. EnvInv'
  BY <1>1 DEF EnvInv
<1>3. PhaseInv(scan)' /\ RevisionInv(scan)'
  BY <1>1 DEF ScanInv, PhaseInv, RevisionInv, Branches
<1>4. SourceInv(scan)'
  BY <1>1 DEF ScanInv, SourceInv, Readable, Key, Asked, TreeOf, InTree
<1>5. MissInv(scan)'
  BY <1>1 DEF ScanInv, MissInv, Waits, Asked, Behind, Belongs
<1> QED BY <1>2, <1>3, <1>4, <1>5 DEF ScanInv

(* A scan that gives up.                                                   *)
LEMMA FailedIs ==
  ASSUME ScanInv(scan)
  PROVE  ScanInv(Failed)
<1> DEFINE f == Failed
<1>1. /\ f \in ScanRecord /\ f.phase = "failed" /\ f.scope = scan.scope /\ f.got = scan.got
  BY DEF Failed, ScanInv, PhaseInv, ScanRecord, Phases
<1> HIDE DEF f
<1>2. PhaseInv(f)
  BY <1>1 DEF ScanInv, PhaseInv, Lists
<1>3. RevisionInv(f)
  BY <1>1 DEF ScanInv, RevisionInv
<1>4. SourceInv(f) /\ MissInv(f)
  BY <1>1 DEF SourceInv, MissInv
<1> QED BY <1>2, <1>3, <1>4 DEF ScanInv, f

LEMMA UnavailableIs ==
  ASSUME ScanInv(scan), scan.phase = "sources"
  PROVE  ScanInv(Unavailable)
<1> DEFINE f == Unavailable
<1>1. /\ f \in ScanRecord /\ f.phase = "done" /\ f.scope = scan.scope /\ f.got = scan.got
      /\ f.complete = FALSE
  BY DEF Unavailable, ScanInv, PhaseInv, ScanRecord, Phases
<1> HIDE DEF f
<1>2. PhaseInv(f)
  BY <1>1 DEF ScanInv, PhaseInv, Lists
<1>3. RevisionInv(f)
  BY <1>1 DEF ScanInv, RevisionInv
<1>4. SourceInv(f)
  BY <1>1 DEF SourceInv
<1>5. MissInv(f)
  BY <1>1 DEF ScanInv, MissInv, Waits
<1> QED BY <1>2, <1>3, <1>4, <1>5 DEF ScanInv, f

LEMMA GivesUpIs ==
  ASSUME ScanInv(scan)
  PROVE  ScanInv(GivesUp)
BY FailedIs, UnavailableIs DEF GivesUp

LEMMA RetryIs ==
  ASSUME ScanInv(scan), scan.tries + 1 < Attempts
  PROVE  ScanInv([scan EXCEPT !.tries = @ + 1])
<1> DEFINE f == [scan EXCEPT !.tries = @ + 1]
<1>1. scan \in ScanRecord /\ scan.tries + 1 \in 0..(Attempts - 1)
  <2>1. scan \in ScanRecord
    BY DEF ScanInv, PhaseInv
  <2>2. scan.tries \in 0..(Attempts - 1)
    BY <2>1 DEF ScanRecord
  <2>3. Attempts \in Nat
    BY ProviderAssumption
  <2> QED BY <2>1, <2>2, <2>3
<1>2. /\ f \in ScanRecord /\ f.phase = scan.phase /\ f.scope = scan.scope /\ f.got = scan.got
      /\ f.at = scan.at /\ f.next = scan.next /\ f.last = scan.last /\ f.ask = scan.ask
      /\ f.branch = scan.branch /\ f.index = scan.index /\ f.read = scan.read
      /\ f.sources = scan.sources /\ f.complete = scan.complete
  BY <1>1 DEF ScanRecord
<1> HIDE DEF f
<1>3. PhaseInv(f)
  BY <1>2 DEF ScanInv, PhaseInv
<1>4. RevisionInv(f)
  BY <1>2 DEF ScanInv, RevisionInv
<1>5. SourceInv(f)
  BY <1>2 DEF ScanInv, SourceInv, Asked, Readable, Key
<1>6. MissInv(f)
  <2>1. \A i : Waits(f, i) <=> Waits(scan, i)
    BY <1>2 DEF Waits, Asked
  <2> QED BY <1>2, <2>1 DEF ScanInv, MissInv
<1> QED BY <1>3, <1>4, <1>5, <1>6 DEF ScanInv, f

-----------------------------------------------------------------------------
(* From page to page.                                                      *)

(* A page is used up: what is still to be listed is behind it.             *)
Between(s) ==
  /\ s \in ScanRecord /\ s.scope \in DOMAIN Scopes
  /\ s.index = {} /\ s.read = {} /\ s.sources = {} /\ s.complete
  /\ DOMAIN s.got \subseteq Listed \cup past.gone
  /\ kind = "datacenter" =>
       \A i \in DOMAIN s.got : s.got[i] = 0 => past.base[i] = 0 \/ i \in past.dropped
  /\ \E X \in SUBSET Items :
       /\ Cardinality(X) <= past.removals
       /\ \A i \in past.kept : i \in DOMAIN s.got \cup X \/ Behind(i, s.scope, s.next, ~s.last)

LEMMA LinkedIs ==
  ASSUME NEW s \in ScanRecord
  PROVE  /\ DOMAIN Key(s) = Linked \cap DOMAIN s.got
         /\ \A i \in DOMAIN Key(s) : Key(s)[i] = s.got[i]
         /\ Readable(s) \in SUBSET Items /\ IsFiniteSet(Readable(s))
         /\ \A i : i \in Readable(s) <=>
              i \in Linked \cap DOMAIN s.got /\ (kind = "cloud" \/ s.got[i] # 0)
<1>1. DOMAIN Key(s) = Linked \cap DOMAIN s.got /\ \A i \in DOMAIN Key(s) : Key(s)[i] = s.got[i]
  BY DEF Key
<1>2. s.got \in Revisions
  BY DEF ScanRecord
<1>3. DOMAIN s.got \subseteq Items
  BY <1>2, RevisionsIs
<1>4. Readable(s) \in SUBSET Items
  BY <1>1, <1>3 DEF Readable
<1>5. IsFiniteSet(Readable(s))
  BY <1>4, ProviderAssumption, FS_Subset
<1> QED BY <1>1, <1>4, <1>5 DEF Readable

LEMMA SourcesIs ==
  ASSUME EnvInv, StoredInv, NEW s, Between(s),
         NEW X \in SUBSET Items, Cardinality(X) <= past.removals, past.kept \subseteq DOMAIN s.got \cup X
  PROVE  ScanInv(Sources(s))
<1> DEFINE t == Sources(s)
<1>1. s \in ScanRecord /\ s.scope \in DOMAIN Scopes
  BY DEF Between
<1>2. ASSUME NEW f \in ScanRecord, f.phase \in {"sources", "done"}, f.scope = s.scope, f.got = s.got,
             f.phase = "sources" => Reads /\ f.complete
      PROVE  PhaseInv(f) /\ RevisionInv(f) /\ MissInv(f)
  <2>1. PhaseInv(f)
    BY <1>1, <1>2 DEF PhaseInv, Between, Lists
  <2>2. RevisionInv(f)
    BY <1>2 DEF RevisionInv, Between
  <2>3. MissInv(f)
    BY <1>2 DEF MissInv
  <2> QED BY <2>1, <2>2, <2>3
<1>3. CASE ~Reads
  <2>1. t = [s EXCEPT !.phase = "done"]
    BY <1>3 DEF Sources
  <2>2. t \in ScanRecord /\ t.phase = "done" /\ t.scope = s.scope /\ t.got = s.got
    BY <1>1, <2>1 DEF ScanRecord, Phases
  <2> HIDE DEF t
  <2>3. SourceInv(t)
    BY <1>3 DEF SourceInv
  <2> QED BY <1>2, <2>2, <2>3 DEF ScanInv, t
<1>4. CASE Reads /\ Cacheable(s) /\ Key(s) \in DOMAIN stored
  <2>1. t = [s EXCEPT !.phase = "done", !.sources = stored[Key(s)]]
    BY <1>4 DEF Sources
  <2>2. stored[Key(s)] \in SUBSET (Items \X Paths \X Nat)
    BY <1>4 DEF StoredInv
  <2>3. t \in ScanRecord /\ t.phase = "done" /\ t.scope = s.scope /\ t.got = s.got
        /\ t.sources = stored[Key(s)]
    BY <1>1, <2>1, <2>2 DEF ScanRecord, Phases
  <2> HIDE DEF t
  <2>4. /\ DOMAIN Key(s) = Linked \cap DOMAIN s.got
        /\ \A i \in DOMAIN Key(s) : Key(s)[i] = s.got[i]
    BY <1>1, LinkedIs
  <2>5. /\ \A i \in DOMAIN Key(s) : Key(s)[i] # 0
        /\ \A x \in stored[Key(s)] : x[1] \in DOMAIN Key(s) /\ x[3] = Key(s)[x[1]]
        /\ \A i \in DOMAIN Key(s) \ past.gone, p \in Paths :
             InTree(p, Key(s)[i]) => <<i, p, Key(s)[i]>> \in stored[Key(s)]
    BY <1>4 DEF StoredInv
  <2>6. SourceInv(t)
    <3>1. \A x \in t.sources :
            /\ x[1] \in Linked \cap DOMAIN t.got
            /\ IF t.got[x[1]] # 0 THEN x[3] = t.got[x[1]] ELSE x[3] >= past.base[x[1]]
      BY <2>3, <2>4, <2>5
    <3>2. \A i \in (Linked \cap DOMAIN t.got) \ past.gone, p \in Paths :
            InTree(p, t.got[i]) => <<i, p, t.got[i]>> \in t.sources
      BY <2>3, <2>4, <2>5
    <3> QED BY <2>3, <3>1, <3>2 DEF SourceInv
  <2> QED BY <1>2, <2>3, <2>6 DEF ScanInv, t
<1>5. CASE Reads /\ ~(Cacheable(s) /\ Key(s) \in DOMAIN stored)
  <2> DEFINE q == SetToSeq(Readable(s))
  <2>1. t = [s EXCEPT !.phase = "sources", !.ask = q, !.at = 0]
    BY <1>5 DEF Sources
  <2>2. /\ Readable(s) \in SUBSET Items /\ IsFiniteSet(Readable(s))
        /\ \A i : i \in Readable(s) <=>
             i \in Linked \cap DOMAIN s.got /\ (kind = "cloud" \/ s.got[i] # 0)
    BY <1>1, LinkedIs
  <2>3. q \in Seq(Readable(s)) /\ \A i \in Readable(s) : \E k \in 1..Len(q) : q[k] = i
    BY <2>2, SequenceOfSet
  <2> HIDE DEF q
  <2>4. q \in Seq(Items) /\ \A k \in 1..Len(q) : q[k] \in Readable(s)
    BY <2>2, <2>3
  <2>5. /\ t \in ScanRecord /\ t.phase = "sources" /\ t.scope = s.scope /\ t.got = s.got
        /\ t.sources = {} /\ t.read = {} /\ t.ask = q /\ t.at = 0 /\ t.complete
    <3>1. s.sources = {} /\ s.read = {} /\ s.complete
      BY DEF Between
    <3>2. t \in ScanRecord
      <4>1. "sources" \in Phases
        BY DEF Phases
      <4> DEFINE a == [s EXCEPT !.phase = "sources"]
                 b == [a EXCEPT !.ask = q]
      <4>2. a \in ScanRecord
        BY <1>1, <4>1 DEF ScanRecord
      <4>3. b \in ScanRecord
        <5> HIDE DEF a
        <5> QED BY <2>4, <4>2 DEF ScanRecord
      <4>4. [b EXCEPT !.at = 0] \in ScanRecord
        <5> HIDE DEF b
        <5> QED BY <4>3 DEF ScanRecord
      <4> QED BY <2>1, <4>4
    <3>3. /\ t.phase = "sources" /\ t.scope = s.scope /\ t.got = s.got
          /\ t.sources = s.sources /\ t.read = s.read /\ t.ask = q /\ t.at = 0 /\ t.complete = s.complete
      BY <1>1, <2>1 DEF ScanRecord
    <3> QED BY <3>1, <3>2, <3>3
  <2> HIDE DEF t
  <2>6. SourceInv(t)
    <3>1. \A i \in (Linked \cap DOMAIN t.got) : t.got[i] # 0 => Asked(t, i)
      BY <2>2, <2>3, <2>5 DEF Asked
    <3>2. \A i \in Items : Asked(t, i) => i \in Readable(t)
      <4>1. \A i : i \in Readable(t) <=> i \in Readable(s)
        BY <2>5 DEF Readable, Key
      <4> QED BY <2>4, <2>5, <4>1 DEF Asked
    <3>3. \A k \in 1..Len(TreeOf(t.got[Head(t.ask)])) : ~(k <= t.at)
      BY <2>5
    <3> QED BY <2>5, <3>1, <3>2, <3>3 DEF SourceInv
  <2> QED BY <1>2, <1>5, <2>5, <2>6 DEF ScanInv, t
<1> QED BY <1>3, <1>4, <1>5

LEMMA BehindIs ==
  ASSUME EnvInv, NEW i \in Listed, NEW c \in DOMAIN Scopes, Belongs(i, Scopes[c])
  PROVE  Behind(i, c, 0, TRUE)
<1>1. PICK n \in 1..Len(listing) : listing[n] = i
  BY ListedIs
<1>2. listing \in Seq(Items)
  BY DEF EnvInv
<1>3. Rank(kind, listing, Scopes[c], n) > 0
  <2>1. Counts(kind, listing, Scopes[c])
    BY <1>2, RanksCount
  <2>2. OfScope(kind, listing[n], Scopes[c])
    BY <1>1, OfScopeIs
  <2>3. n - 1 \in 0..Len(listing)
    BY <1>2
  <2> QED BY <2>1, <2>2, <2>3 DEF Counts
<1> QED BY <1>1, <1>3 DEF Behind

LEMMA TurnIs ==
  ASSUME EnvInv, StoredInv, ScanInv(scan), NEW s, Between(s)
  PROVE  ScanInv(Turn(s))
<1> DEFINE t == Turn(s)
<1>1. s \in ScanRecord /\ s.scope \in DOMAIN Scopes
  BY DEF Between
<1>2. PICK X \in SUBSET Items :
        /\ Cardinality(X) <= past.removals
        /\ \A i \in past.kept : i \in DOMAIN s.got \cup X \/ Behind(i, s.scope, s.next, ~s.last)
  BY DEF Between
<1>3. s.last \in BOOLEAN /\ s.scope \in 1..Len(Scopes) /\ Len(Scopes) \in Nat
  <2>1. Len(Scopes) \in Nat /\ DOMAIN Scopes = 1..Len(Scopes)
    BY ScopesAre
  <2> QED BY <1>1, <2>1 DEF ScanRecord
<1>4. ASSUME NEW f \in ScanRecord, f.phase = "page", f.scope \in DOMAIN Scopes, f.got = s.got,
             f.index = s.index, f.read = s.read, f.sources = s.sources, f.complete = s.complete,
             \A i \in past.kept : Behind(i, s.scope, s.next, ~s.last) => Behind(i, f.scope, f.at, TRUE)
      PROVE  ScanInv(f)
  <2>1. PhaseInv(f)
    BY <1>4 DEF PhaseInv, Between, Lists
  <2>2. RevisionInv(f)
    BY <1>4 DEF RevisionInv, Between
  <2>3. SourceInv(f)
    BY <1>4 DEF SourceInv
  <2>4. MissInv(f)
    BY <1>2, <1>4 DEF MissInv, Waits
  <2> QED BY <2>1, <2>2, <2>3, <2>4 DEF ScanInv
<1>5. CASE s.last /\ s.scope < Len(Scopes)
  <2>1. t = [s EXCEPT !.scope = @ + 1, !.at = 0, !.visited = {}, !.phase = "page"]
    BY <1>5 DEF Turn
  <2>2. /\ t \in ScanRecord /\ t.phase = "page" /\ t.scope = s.scope + 1 /\ t.got = s.got /\ t.at = 0
        /\ t.index = s.index /\ t.read = s.read /\ t.sources = s.sources /\ t.complete = s.complete
    <3>1. t \in ScanRecord
      <4>1. "page" \in Phases /\ s.scope + 1 \in Nat
        BY <1>1 DEF Phases, ScanRecord
      <4> DEFINE a == [s EXCEPT !.scope = @ + 1]
                   b == [a EXCEPT !.at = 0]
                   d == [b EXCEPT !.visited = {}]
      <4>3. a \in ScanRecord
        BY <1>1, <4>1 DEF ScanRecord
      <4>4. b \in ScanRecord
        <5> HIDE DEF a
        <5> QED BY <4>3 DEF ScanRecord
      <4>5. d \in ScanRecord
        <5> HIDE DEF a, b
        <5> QED BY <4>4 DEF ScanRecord
      <4>6. [d EXCEPT !.phase = "page"] \in ScanRecord
        <5> HIDE DEF d
        <5> QED BY <4>1, <4>5 DEF ScanRecord
      <4> QED BY <2>1, <4>6
    <3>2. /\ t.phase = "page" /\ t.scope = s.scope + 1 /\ t.got = s.got /\ t.at = 0
          /\ t.index = s.index /\ t.read = s.read /\ t.sources = s.sources /\ t.complete = s.complete
      BY <1>1, <2>1 DEF ScanRecord
    <3> QED BY <3>1, <3>2
  <2> HIDE DEF t
  <2>3. t.scope \in DOMAIN Scopes
    BY <1>3, <1>5, <2>2, ScopesAre
  <2>4. ASSUME NEW i \in past.kept, Behind(i, s.scope, s.next, FALSE)
        PROVE  Behind(i, t.scope, t.at, TRUE)
    <3>1. PICK c \in DOMAIN Scopes : Belongs(i, Scopes[c]) /\ c > s.scope
      BY <2>4 DEF Behind
    <3>2. c \in Nat
      BY <3>1, ScopesAre
    <3>3. CASE c > t.scope
      BY <3>1, <3>3 DEF Behind
    <3>4. CASE c = t.scope
      <4>1. i \in Listed
        BY DEF EnvInv
      <4> QED BY <2>2, <3>1, <3>4, <4>1, BehindIs
    <3>5. c > t.scope \/ c = t.scope
      BY <1>3, <2>2, <3>1, <3>2
    <3> QED BY <3>3, <3>4, <3>5
  <2> QED BY <1>4, <1>5, <2>2, <2>3, <2>4 DEF t
<1>6. CASE s.last /\ s.scope = Len(Scopes)
  <2>1. t = Sources(s)
    BY <1>3, <1>6 DEF Turn
  <2>2. \A i : ~Behind(i, s.scope, s.next, FALSE)
    BY <1>3, <1>6, ScopesAre DEF Behind
  <2>3. past.kept \subseteq DOMAIN s.got \cup X
    BY <1>2, <1>6, <2>2
  <2> QED BY <1>2, <2>1, <2>3, SourcesIs
<1>7. CASE ~s.last /\ Repeats(s)
  <2>1. t = Failed
    BY <1>7 DEF Turn
  <2> QED BY <2>1, FailedIs
<1>8. CASE ~s.last /\ ~Repeats(s)
  <2>1. t = [s EXCEPT !.at = s.next, !.visited = @ \cup {s.at}, !.phase = "page"]
    BY <1>8 DEF Turn
  <2>2. /\ t \in ScanRecord /\ t.phase = "page" /\ t.scope = s.scope /\ t.got = s.got /\ t.at = s.next
        /\ t.index = s.index /\ t.read = s.read /\ t.sources = s.sources /\ t.complete = s.complete
    <3>1. t \in ScanRecord
      <4>1. "page" \in Phases /\ s.scope + 1 \in Nat /\ s.at \in Nat /\ s.next \in Nat /\ s.visited \cup {s.at} \in SUBSET Nat
        BY <1>1 DEF Phases, ScanRecord
      <4> QED BY <1>1, <2>1, <4>1 DEF ScanRecord
    <3>2. /\ t.phase = "page" /\ t.scope = s.scope /\ t.got = s.got /\ t.at = s.next
          /\ t.index = s.index /\ t.read = s.read /\ t.sources = s.sources /\ t.complete = s.complete
      BY <1>1, <2>1 DEF ScanRecord
    <3> QED BY <3>1, <3>2
  <2> HIDE DEF t
  <2> QED BY <1>1, <1>4, <1>8, <2>2 DEF t
<1> QED BY <1>3, <1>5, <1>6, <1>7, <1>8

LEMMA EntriesAre ==
  ASSUME EnvInv, NEW s
  PROVE  Entries(s) \in Seq(Items) /\ Entries(s) \in Seq(Listed)
<1>1. listing \in Seq(Items) /\ listing \in Seq(Listed) /\ Len(listing) \in 0..Len(listing)
  BY ListedIs DEF EnvInv
<1>2. Chosen(kind, listing, s)[Len(listing)] \in Seq(Items)
  BY <1>1, ChosenIs
<1>3. Chosen(kind, listing, s)[Len(listing)] \in Seq(Listed)
  <2> DEFINE L == Listed  l == listing
  <2>1. l \in Seq(L) /\ Len(l) \in 0..Len(l)
    BY <1>1
  <2> HIDE DEF L, l
  <2>2. \A n \in 0..Len(l) : Chosen(kind, l, s)[n] \in Seq(L)
    BY <2>1, ChosenIs
  <2>3. Chosen(kind, l, s)[Len(l)] \in Seq(L)
    BY <2>1, <2>2
  <2> QED BY <2>3 DEF L, l
<1> QED BY <1>2, <1>3, EntriesChosen

(* A page brings an entry that is still to come, or leaves it to the next. *)
LEMMA PageCovers ==
  ASSUME EnvInv, NEW s, NEW at \in Nat, NEW n \in Nat \ {0}, NEW i,
         Belongs(i, s), Found(i, kind, listing, s, at),
         i \notin ToSet(Cut(Entries(s), at, n))
  PROVE  /\ at + n < Len(Entries(s)) /\ Cut(Entries(s), at, n) # <<>>
         /\ Found(i, kind, listing, s, at + Len(Cut(Entries(s), at, n)))
<1> DEFINE e == Entries(s)
           page == Cut(e, at, n)
<1>1. listing \in Seq(Items) /\ e \in Seq(Items)
  BY EntriesAre DEF EnvInv
<1>2. PICK m \in 1..Len(listing) : listing[m] = i /\ Rank(kind, listing, s, m) > at
  BY DEF Found
<1> DEFINE r == Rank(kind, listing, s, m)
<1>3. r \in 1..Len(e) /\ e[r] = i
  <2>1. OfScope(kind, listing[m], s)
    BY <1>2, OfScopeIs
  <2>2. /\ r \in 1..Len(Chosen(kind, listing, s)[Len(listing)])
        /\ Chosen(kind, listing, s)[Len(listing)][r] = listing[m]
    BY <1>1, <2>1, RankOfEntry
  <2>3. e = Chosen(kind, listing, s)[Len(listing)]
    BY EntriesChosen
  <2> QED BY <1>2, <2>2, <2>3
<1>4. r > at
  BY <1>2
<1> HIDE DEF e, r
<1>5. /\ page \in Seq(Items) /\ Len(page) \in 0..n
      /\ \A k \in 1..Len(e) : at < k /\ k <= at + n => k - at \in 1..Len(page) /\ page[k - at] = e[k]
  <2>1. n \in Nat
    OBVIOUS
  <2> HIDE DEF page
  <2>2. /\ Cut(e, at, n) \in Seq(Items) /\ Len(Cut(e, at, n)) \in 0..n
        /\ \A k \in 1..Len(e) :
             at < k /\ k <= at + n => /\ k - at \in 1..Len(Cut(e, at, n))
                                      /\ Cut(e, at, n)[k - at] = e[k]
    BY <1>1, <2>1, CutIs
  <2> QED BY <2>2 DEF page
<1>6. i \notin ToSet(page)
  BY DEF e
<1> HIDE DEF page
<1>7. ~(r <= at + n)
  <2> SUFFICES ASSUME r <= at + n PROVE FALSE
    OBVIOUS
  <2>1. r - at \in 1..Len(page) /\ page[r - at] = i
    BY <1>3, <1>4, <1>5
  <2>2. r - at \in DOMAIN page
    BY <1>5, <2>1
  <2> QED BY <1>6, <2>1, <2>2 DEF ToSet
<1>8. Len(e) \in Nat /\ at + n < Len(e)
  BY <1>1, <1>3, <1>7
<1>9. page # <<>>
  <2>1. at + 1 \in 1..Len(e) /\ at < at + 1 /\ at + 1 <= at + n
    BY <1>8
  <2>2. (at + 1) - at \in 1..Len(page)
    BY <1>5, <2>1
  <2> QED BY <1>5, <2>2
<1>10. r > at + Len(page)
  BY <1>3, <1>5, <1>7
<1>11. Found(i, kind, listing, s, at + Len(page))
  BY <1>2, <1>10 DEF Found, r
<1> QED BY <1>8, <1>9, <1>11 DEF e, page

(* A page is read.                                                         *)
LEMMA PageStep ==
  ASSUME IInv, Page
  PROVE  ScanInv(scan')
<1>1. EnvInv /\ StoredInv /\ ScanInv(scan) /\ PhaseInv(scan) /\ RevisionInv(scan) /\ MissInv(scan)
  BY DEF IInv, ScanInv
<1>2. PICK n \in 1..PageSize :
        LET entries == Entries(Scopes[scan.scope])
            page == Cut(entries, scan.at, n)
            more == scan.at + n < Len(entries)
            found == [i \in ToSet(page) |-> IF kind = "cloud" /\ hashes THEN head[i] ELSE 0]
            read == [scan EXCEPT !.tries = 0, !.last = LastPage(page, more),
                                 !.next = IF stuck THEN scan.at
                                          ELSE scan.at + Len(page)]
        IN  scan' = IF kind = "datacenter" /\ page # <<>>
                    THEN [read EXCEPT !.ask = page, !.phase = "default"]
                    ELSE Turn(Noted(read, found))
  BY DEF Page
<1> DEFINE scope == Scopes[scan.scope]
           entries == Entries(scope)
           page == Cut(entries, scan.at, n)
           more == scan.at + n < Len(entries)
           found == [i \in ToSet(page) |-> IF kind = "cloud" /\ hashes THEN head[i] ELSE 0]
           last == LastPage(page, more)
           next == IF stuck THEN scan.at ELSE scan.at + Len(page)
           read == [scan EXCEPT !.tries = 0, !.last = last, !.next = next]
           asking == [read EXCEPT !.ask = page, !.phase = "default"]
           noted == Noted(read, found)
<1>3. scan' = IF kind = "datacenter" /\ page # <<>> THEN asking ELSE Turn(noted)
  BY <1>2
<1>4. /\ scan \in ScanRecord /\ scan.phase = "page" /\ scan.at \in Nat /\ n \in Nat \ {0}
      /\ scan.scope \in DOMAIN Scopes /\ scan.got \in Revisions
      /\ scan.index = {} /\ scan.read = {} /\ scan.sources = {} /\ scan.complete
      /\ DOMAIN scan.got \subseteq Listed \cup past.gone
  <2>1. n \in Nat \ {0}
    <3>1. PageSize \in Nat
      BY ProviderAssumption
    <3> QED BY <3>1
  <2>2. scan \in ScanRecord /\ scan.phase = "page" /\ scan.scope \in DOMAIN Scopes
        /\ DOMAIN scan.got \subseteq Listed \cup past.gone
    BY <1>1 DEF Page, PhaseInv
  <2>3. scan.at \in Nat /\ scan.got \in Revisions
    BY <2>2 DEF ScanRecord
  <2>4. scan.index = {} /\ scan.read = {} /\ scan.sources = {} /\ scan.complete
    BY <1>1, <2>2 DEF PhaseInv, Lists
  <2> QED BY <2>1, <2>2, <2>3, <2>4
<1>5. page \in Seq(Items) /\ page \in Seq(Listed)
  <2>1. entries \in Seq(Items) /\ entries \in Seq(Listed)
    BY <1>1, EntriesAre
  <2> DEFINE L == Listed  at == scan.at
  <2>2. entries \in Seq(L) /\ at \in Nat /\ n \in Nat
    BY <1>4, <2>1
  <2> HIDE DEF entries, L, at
  <2>3. Cut(entries, at, n) \in Seq(Items)
    BY <2>1, <2>2, CutIs
  <2>4. Cut(entries, at, n) \in Seq(L)
    BY <2>2, CutIs
  <2> QED BY <2>3, <2>4 DEF L, at
<1>6. ToSet(page) \subseteq Items /\ ToSet(page) \subseteq Listed
  BY <1>5 DEF ToSet
<1>7. last \in BOOLEAN /\ next \in Nat
  <2>1. Len(page) \in Nat
    BY <1>5
  <2> HIDE DEF page, more
  <2>2. last \in BOOLEAN
    BY DEF LastPage, more
  <2> QED BY <1>4, <2>1, <2>2
<1>8. PICK X \in SUBSET Items :
        /\ Cardinality(X) <= past.removals
        /\ \A i \in past.kept :
             i \in DOMAIN scan.got \cup X \cup ToSet(page) \/ Behind(i, scan.scope, next, ~last)
  <2>1. PICK X \in SUBSET Items :
          /\ Cardinality(X) <= past.removals
          /\ \A i \in past.kept : i \in DOMAIN scan.got \cup X \/ Behind(i, scan.scope, scan.at, TRUE)
    BY <1>1, <1>4 DEF MissInv, Waits
  <2>2. ASSUME NEW i, Behind(i, scan.scope, scan.at, TRUE), i \notin ToSet(page)
        PROVE  Behind(i, scan.scope, next, ~last)
    <3>1. PICK c \in DOMAIN Scopes :
            /\ Belongs(i, Scopes[c])
            /\ c > scan.scope \/ (c = scan.scope /\ Found(i, kind, listing, Scopes[c], scan.at))
      BY <2>2 DEF Behind, Found
    <3>2. CASE c > scan.scope
      BY <3>1, <3>2 DEF Behind
    <3>3. CASE c = scan.scope /\ Found(i, kind, listing, Scopes[c], scan.at)
      <4>1. Belongs(i, scope) /\ Found(i, kind, listing, scope, scan.at)
        BY <3>1, <3>3
      <4>2. more /\ page # <<>> /\ Found(i, kind, listing, scope, scan.at + Len(page))
        <5> HIDE DEF scope
        <5> QED BY <1>1, <1>4, <2>2, <4>1, PageCovers
      <4>3. ~last
        BY <4>2 DEF LastPage
      <4>4. Found(i, kind, listing, scope, next)
        BY <4>1, <4>2
      <4> QED BY <3>1, <3>3, <4>3, <4>4 DEF Behind, Found
    <3> QED BY <3>1, <3>2, <3>3
  <2> QED BY <2>1, <2>2
<1> HIDE DEF scope, entries, page, more, last, next
<1>9. /\ read \in ScanRecord /\ read.phase = "page" /\ read.scope = scan.scope /\ read.got = scan.got
      /\ read.last = last /\ read.next = next /\ read.index = {} /\ read.read = {}
      /\ read.sources = {} /\ read.complete
  <2>1. read \in ScanRecord
    <3>1. 0 \in 0..(Attempts - 1)
      BY ProviderAssumption
    <3> DEFINE a == [scan EXCEPT !.tries = 0]
               b == [a EXCEPT !.last = last]
    <3>2. a \in ScanRecord
      BY <1>4, <3>1 DEF ScanRecord
    <3>3. b \in ScanRecord
      <4> HIDE DEF a
      <4> QED BY <1>7, <3>2 DEF ScanRecord
    <3>4. [b EXCEPT !.next = next] \in ScanRecord
      <4> HIDE DEF b
      <4> QED BY <1>7, <3>3 DEF ScanRecord
    <3> QED BY <3>4
  <2>2. /\ read.phase = scan.phase /\ read.scope = scan.scope /\ read.got = scan.got
        /\ read.last = last /\ read.next = next /\ read.index = scan.index /\ read.read = scan.read
        /\ read.sources = scan.sources /\ read.complete = scan.complete
    BY <1>4 DEF ScanRecord
  <2> QED BY <1>4, <2>1, <2>2
<1> HIDE DEF read
<1>10. CASE kind = "datacenter" /\ page # <<>>
  <2>1. asking \in ScanRecord
    <3>1. "default" \in Phases
      BY DEF Phases
    <3> DEFINE a == [read EXCEPT !.ask = page]
    <3>2. a \in ScanRecord
      BY <1>5, <1>9 DEF ScanRecord
    <3>3. [a EXCEPT !.phase = "default"] \in ScanRecord
      <4> HIDE DEF a
      <4> QED BY <3>1, <3>2 DEF ScanRecord
    <3> QED BY <3>3
  <2>2. /\ asking.phase = "default" /\ asking.scope = scan.scope /\ asking.got = scan.got
        /\ asking.last = last /\ asking.next = next /\ asking.index = {} /\ asking.read = {}
        /\ asking.sources = {} /\ asking.complete /\ asking.ask = page
    BY <1>9 DEF ScanRecord
  <2> HIDE DEF asking
  <2>3. PhaseInv(asking)
    BY <1>4, <1>10, <2>1, <2>2 DEF PhaseInv
  <2>4. RevisionInv(asking)
    BY <1>1, <2>2 DEF RevisionInv
  <2>5. SourceInv(asking)
    BY <2>2 DEF SourceInv
  <2>6. MissInv(asking)
    <3>1. \A i \in ToSet(page) : Asked(asking, i)
      <4>1. DOMAIN page = 1..Len(page)
        BY <1>5
      <4> QED BY <2>2, <4>1 DEF Asked, ToSet
    <3> QED BY <1>8, <2>2, <3>1 DEF MissInv, Waits
  <2> QED BY <1>3, <1>10, <2>3, <2>4, <2>5, <2>6 DEF ScanInv
<1>11. CASE ~(kind = "datacenter" /\ page # <<>>)
  <2>1. found \in Revisions /\ DOMAIN found = ToSet(page)
    <3>1. DOMAIN found = ToSet(page)
      OBVIOUS
    <3>2. \A i \in ToSet(page) : found[i] \in Nat
      BY <1>1, <1>6 DEF EnvInv
    <3>3. found = [x \in DOMAIN found |-> found[x]]
      BY <3>1
    <3> HIDE DEF found
    <3> QED BY <1>6, <3>1, <3>2, <3>3, RevisionsIs
  <2> HIDE DEF found
  <2>2. noted = [read EXCEPT !.got = With(scan.got, found)]
    BY <1>9 DEF Noted
  <2>3. With(scan.got, found) \in Revisions
    BY <1>4, <2>1, WithRevisions
  <2>4. /\ noted \in ScanRecord /\ noted.scope = scan.scope /\ noted.got = With(scan.got, found)
        /\ noted.last = last /\ noted.next = next /\ noted.index = {} /\ noted.read = {}
        /\ noted.sources = {} /\ noted.complete
    BY <1>9, <2>2, <2>3 DEF ScanRecord
  <2> HIDE DEF noted
  <2>5. DOMAIN noted.got = DOMAIN scan.got \cup ToSet(page)
    <3>1. DOMAIN With(scan.got, found) = DOMAIN scan.got \cup DOMAIN found
      BY WithIs
    <3> QED BY <2>1, <2>4, <3>1
  <2>6. kind = "datacenter" => \A i \in DOMAIN noted.got : i \in DOMAIN scan.got /\ noted.got[i] = scan.got[i]
    <3> SUFFICES ASSUME kind = "datacenter" PROVE \A i \in DOMAIN noted.got : i \in DOMAIN scan.got /\ noted.got[i] = scan.got[i]
      OBVIOUS
    <3>1. ToSet(page) = {}
      BY <1>11 DEF ToSet
    <3> QED BY <2>1, <2>4, <2>5, <3>1 DEF With
  <2>7. Between(noted)
    <3>1. kind = "datacenter" =>
            \A i \in DOMAIN noted.got : noted.got[i] = 0 => past.base[i] = 0 \/ i \in past.dropped
      BY <1>1, <2>6 DEF RevisionInv
    <3>2. DOMAIN noted.got \subseteq Listed \cup past.gone
      BY <1>4, <1>6, <2>5
    <3>3. \A i \in past.kept : i \in DOMAIN noted.got \cup X \/ Behind(i, noted.scope, noted.next, ~noted.last)
      BY <1>8, <2>4, <2>5
    <3> QED BY <1>4, <1>8, <2>4, <3>1, <3>2, <3>3 DEF Between
  <2>8. scan' = Turn(noted)
    BY <1>3, <1>11
  <2> QED BY <1>1, <2>7, <2>8, TurnIs
<1> QED BY <1>10, <1>11

-----------------------------------------------------------------------------
(* Revisions of Data Center.                                               *)

LEMMA HeadAndTail ==
  ASSUME NEW T, NEW q \in Seq(T), q # <<>>
  PROVE  /\ Head(q) \in T /\ Tail(q) \in Seq(T)
         /\ \A k \in 1..Len(q) : q[k] = Head(q) \/ \E j \in 1..Len(Tail(q)) : Tail(q)[j] = q[k]
         /\ \A j \in 1..Len(Tail(q)) : \E k \in 1..Len(q) : q[k] = Tail(q)[j]
         /\ \E k \in 1..Len(q) : q[k] = Head(q)
<1>1. /\ Head(q) \in T /\ Tail(q) \in Seq(T) /\ Len(q) \in Nat \ {0} /\ Head(q) = q[1]
      /\ Len(Tail(q)) = Len(q) - 1 /\ \A j \in 1..Len(Tail(q)) : Tail(q)[j] = q[j + 1]
  BY HeadTailProperties, EmptySeq
<1>2. ASSUME NEW k \in 1..Len(q), q[k] # Head(q)
      PROVE  \E j \in 1..Len(Tail(q)) : Tail(q)[j] = q[k]
  <2>1. k # 1
    BY <1>1, <1>2
  <2>2. k - 1 \in 1..Len(Tail(q)) /\ (k - 1) + 1 = k
    BY <1>1, <2>1
  <2>3. Tail(q)[k - 1] = q[k]
    BY <1>1, <2>2
  <2> QED BY <2>2, <2>3
<1>3. ASSUME NEW j \in 1..Len(Tail(q))
      PROVE  \E k \in 1..Len(q) : q[k] = Tail(q)[j]
  <2>1. j + 1 \in 1..Len(q)
    BY <1>1
  <2> QED BY <1>1, <2>1
<1>4. 1 \in 1..Len(q)
  BY <1>1
<1> QED BY <1>1, <1>2, <1>3, <1>4

LEMMA RevisionIs ==
  ASSUME EnvInv, StoredInv, ScanInv(scan), scan.phase = "branches", Head(scan.ask) \in Listed,
         NEW v \in Nat, v = 0 => past.base[Head(scan.ask)] = 0 \/ Head(scan.ask) \in past.dropped
  PROVE  ScanInv(Revision(v))
<1> DEFINE h == Head(scan.ask)
           found == [i \in {h} |-> v]
           got == With(scan.got, found)
           noted == Noted(scan, found)
           s == [noted EXCEPT !.tries = 0, !.ask = Tail(@), !.phase = "default"]
<1>1. /\ scan \in ScanRecord /\ scan.scope \in DOMAIN Scopes /\ scan.ask # <<>> /\ kind = "datacenter"
      /\ DOMAIN scan.got \subseteq Listed \cup past.gone
      /\ scan.index = {} /\ scan.read = {} /\ scan.sources = {} /\ scan.complete
      /\ scan.ask \in Seq(Items) /\ scan.got \in Revisions /\ scan.last \in BOOLEAN
  <2>1. /\ scan \in ScanRecord /\ scan.scope \in DOMAIN Scopes /\ scan.ask # <<>> /\ kind = "datacenter"
        /\ DOMAIN scan.got \subseteq Listed \cup past.gone
        /\ scan.index = {} /\ scan.read = {} /\ scan.sources = {} /\ scan.complete
    BY DEF ScanInv, PhaseInv, Lists
  <2> QED BY <2>1 DEF ScanRecord
<1>2. /\ h \in Items /\ Tail(scan.ask) \in Seq(Items)
      /\ \A i : Asked(scan, i) => i = h \/ \E j \in 1..Len(Tail(scan.ask)) : Tail(scan.ask)[j] = i
  <2> DEFINE q == scan.ask
  <2>1. q \in Seq(Items) /\ q # <<>>
    BY <1>1
  <2> HIDE DEF q
  <2>2. /\ Head(q) \in Items /\ Tail(q) \in Seq(Items)
        /\ \A k \in 1..Len(q) : q[k] = Head(q) \/ \E j \in 1..Len(Tail(q)) : Tail(q)[j] = q[k]
    BY <2>1, HeadAndTail
  <2> QED BY <2>2 DEF Asked, q
<1>3. found \in Revisions /\ DOMAIN found = {h} /\ found[h] = v
  <2>1. DOMAIN found = {h} /\ found[h] = v /\ found = [x \in DOMAIN found |-> found[x]]
    OBVIOUS
  <2> HIDE DEF found
  <2> QED BY <1>2, <2>1, RevisionsIs
<1>4. got \in Revisions
  <2> HIDE DEF found
  <2> QED BY <1>1, <1>3, WithRevisions
<1>5. /\ DOMAIN got = DOMAIN scan.got \cup {h}
      /\ \A i \in DOMAIN got : got[i] = IF i = h THEN v ELSE scan.got[i]
  <2> HIDE DEF found
  <2> QED BY <1>3 DEF With
<1>6. noted = [scan EXCEPT !.got = got]
  BY DEF Noted
<1> HIDE DEF got, h
<1>7. /\ noted \in ScanRecord /\ noted.phase = "branches" /\ noted.scope = scan.scope /\ noted.got = got
      /\ noted.last = scan.last /\ noted.next = scan.next /\ noted.ask = scan.ask
      /\ noted.index = {} /\ noted.read = {} /\ noted.sources = {} /\ noted.complete
  BY <1>1, <1>4, <1>6 DEF ScanRecord
<1> HIDE DEF noted
<1>8. /\ s \in ScanRecord /\ s.phase = "default" /\ s.scope = scan.scope /\ s.got = got
      /\ s.last = scan.last /\ s.next = scan.next /\ s.ask = Tail(scan.ask)
      /\ s.index = {} /\ s.read = {} /\ s.sources = {} /\ s.complete
  <2>1. s \in ScanRecord
    <3>1. 0 \in 0..(Attempts - 1) /\ "default" \in Phases
      BY ProviderAssumption DEF Phases
    <3> DEFINE a == [noted EXCEPT !.tries = 0]
               b == [a EXCEPT !.ask = Tail(scan.ask)]
    <3>2. a \in ScanRecord
      BY <1>7, <3>1 DEF ScanRecord
    <3>3. b \in ScanRecord
      <4> HIDE DEF a
      <4> QED BY <1>2, <3>2 DEF ScanRecord
    <3>4. [b EXCEPT !.phase = "default"] \in ScanRecord
      <4> HIDE DEF b
      <4> QED BY <3>1, <3>3 DEF ScanRecord
    <3> QED BY <1>7, <3>4
  <2> QED BY <1>7, <2>1 DEF ScanRecord
<1>9. Revision(v) = IF s.ask = <<>> THEN Turn(s) ELSE s
  BY DEF Revision, noted, h
<1> HIDE DEF s
<1>10. \A i \in DOMAIN got : got[i] = 0 => past.base[i] = 0 \/ i \in past.dropped
  <2>1. \A i \in DOMAIN scan.got : scan.got[i] = 0 => past.base[i] = 0 \/ i \in past.dropped
    BY <1>1 DEF ScanInv, RevisionInv
  <2>2. v = 0 => past.base[h] = 0 \/ h \in past.dropped
    BY DEF h
  <2> QED BY <1>5, <2>1, <2>2
<1>11. DOMAIN got \subseteq Listed \cup past.gone
  BY <1>1, <1>5 DEF h
<1>12. PICK X \in SUBSET Items :
         /\ Cardinality(X) <= past.removals
         /\ \A i \in past.kept :
              \/ i \in DOMAIN got \cup X \/ Asked(s, i)
              \/ Behind(i, scan.scope, scan.next, ~scan.last)
  <2>1. PICK X \in SUBSET Items :
          /\ Cardinality(X) <= past.removals
          /\ \A i \in past.kept :
               \/ i \in DOMAIN scan.got \cup X \/ Asked(scan, i)
               \/ Behind(i, scan.scope, scan.next, ~scan.last)
    BY DEF ScanInv, MissInv, Waits
  <2>2. \A i : Asked(scan, i) => i \in DOMAIN got \/ Asked(s, i)
    <3>1. \A i : Asked(s, i) <=> \E j \in 1..Len(Tail(scan.ask)) : Tail(scan.ask)[j] = i
      BY <1>8 DEF Asked
    <3> QED BY <1>2, <1>5, <3>1
  <2> QED BY <1>5, <2>1, <2>2
<1>13. CASE s.ask = <<>>
  <2>1. \A i : ~Asked(s, i)
    BY <1>13 DEF Asked
  <2>2. Between(s)
    BY <1>1, <1>8, <1>10, <1>11, <1>12, <2>1 DEF Between
  <2> QED BY <1>9, <1>13, <2>2, TurnIs
<1>14. CASE s.ask # <<>>
  <2>1. PhaseInv(s)
    BY <1>1, <1>8, <1>11, <1>14 DEF PhaseInv
  <2>2. RevisionInv(s)
    BY <1>8, <1>10 DEF RevisionInv
  <2>3. SourceInv(s)
    BY <1>8 DEF SourceInv
  <2>4. MissInv(s)
    BY <1>8, <1>12 DEF MissInv, Waits
  <2> QED BY <1>9, <1>14, <2>1, <2>2, <2>3, <2>4 DEF ScanInv
<1> QED BY <1>13, <1>14

LEMMA DefaultBranchStep ==
  ASSUME IInv, DefaultBranch
  PROVE  ScanInv(scan')
<1>1. EnvInv /\ ScanInv(scan) /\ scan.phase = "default"
  BY DEF IInv, DefaultBranch
<1>2. CASE Head(scan.ask) \notin Listed
  <2>1. scan' = Failed
    BY <1>2 DEF DefaultBranch
  <2> QED BY <1>1, <2>1, FailedIs
<1>3. CASE Head(scan.ask) \in Listed
  <2> DEFINE s == [scan EXCEPT !.tries = 0, !.phase = "branches", !.branch = 0]
  <2>1. scan' = s
    BY <1>3 DEF DefaultBranch
  <2>2. scan \in ScanRecord
    BY <1>1 DEF ScanInv, PhaseInv
  <2>3. s \in ScanRecord
    <3>1. 0 \in 0..(Attempts - 1) /\ "branches" \in Phases
      BY ProviderAssumption DEF Phases
    <3> DEFINE a == [scan EXCEPT !.tries = 0]
               b == [a EXCEPT !.phase = "branches"]
    <3>2. a \in ScanRecord
      BY <2>2, <3>1 DEF ScanRecord
    <3>3. b \in ScanRecord
      <4> HIDE DEF a
      <4> QED BY <3>1, <3>2 DEF ScanRecord
    <3>4. [b EXCEPT !.branch = 0] \in ScanRecord
      <4> HIDE DEF b
      <4> QED BY <3>3 DEF ScanRecord
    <3> QED BY <3>4
  <2>4. /\ s.phase = "branches" /\ s.scope = scan.scope /\ s.got = scan.got /\ s.branch = 0
        /\ s.last = scan.last /\ s.next = scan.next /\ s.ask = scan.ask /\ s.index = scan.index
        /\ s.read = scan.read /\ s.sources = scan.sources /\ s.complete = scan.complete
    BY <2>2 DEF ScanRecord
  <2> HIDE DEF s
  <2>5. PhaseInv(s)
    BY <1>1, <2>3, <2>4 DEF ScanInv, PhaseInv, Lists
  <2>6. RevisionInv(s)
    <3> DEFINE h == Head(scan.ask)
    <3>1. h \in Items /\ past.base[h] \in Nat /\ head[h] \in Nat /\ past.base[h] <= head[h]
      <4>1. h \in Items
        BY <1>1, <1>3, ListedIs
      <4>2. past.base \in [Items -> Nat] /\ head \in [Items -> Nat]
        BY <1>1 DEF EnvInv, PastRecord
      <4> QED BY <1>1, <4>1, <4>2 DEF EnvInv
    <3>2. past.base[h] = 0 \/ 0 < Len(Branches(h))
      <4>1. past.base[h] # 0 => head[h] # 0
        BY <3>1
      <4> QED BY <4>1, BranchesIs
    <3> QED BY <1>1, <2>4, <3>2 DEF ScanInv, RevisionInv
  <2>7. SourceInv(s)
    BY <2>4 DEF SourceInv
  <2>8. MissInv(s)
    <3>1. \A i : Waits(s, i) <=> Waits(scan, i)
      BY <1>1, <2>4 DEF Waits, Asked
    <3> QED BY <1>1, <2>4, <3>1 DEF ScanInv, MissInv
  <2> QED BY <2>1, <2>5, <2>6, <2>7, <2>8 DEF ScanInv
<1> QED BY <1>2, <1>3

LEMMA BranchPageStep ==
  ASSUME IInv, BranchPage
  PROVE  ScanInv(scan')
<1>1. EnvInv /\ StoredInv /\ ScanInv(scan) /\ scan.phase = "branches"
  BY DEF IInv, BranchPage
<1> DEFINE i == Head(scan.ask)
<1>2. PICK n \in 1..PageSize :
        LET seen == "default" \in ToSet(Cut(Branches(i), scan.branch, n))
        IN  scan' = CASE i \notin Listed -> Failed
                      [] i \in Listed /\ seen -> Revision(head[i])
                      [] i \in Listed /\ ~seen /\ scan.branch + n >= Len(Branches(i)) -> Revision(0)
                      [] OTHER -> NextBranches(n)
  BY DEF BranchPage
<1> DEFINE page == Cut(Branches(i), scan.branch, n)
<1>3. /\ scan \in ScanRecord /\ scan.branch \in Nat /\ kind = "datacenter" /\ scan.complete
      /\ scan.index = {} /\ scan.read = {} /\ scan.sources = {}
  <2>1. /\ scan \in ScanRecord /\ kind = "datacenter" /\ scan.complete
        /\ scan.index = {} /\ scan.read = {} /\ scan.sources = {}
    BY <1>1 DEF ScanInv, PhaseInv, Lists
  <2> QED BY <2>1 DEF ScanRecord
<1>4. n \in Nat \ {0}
  <2>1. PageSize \in Nat
    BY ProviderAssumption
  <2> QED BY <2>1
<1>5. Len(Branches(i)) \in Nat
  BY BranchesIs
<1>6. i \in Listed => i \in Items /\ past.base[i] \in Nat /\ head[i] \in Nat /\ past.base[i] <= head[i]
  <2> SUFFICES ASSUME i \in Listed
               PROVE  i \in Items /\ past.base[i] \in Nat /\ head[i] \in Nat /\ past.base[i] <= head[i]
    OBVIOUS
  <2>1. i \in Items
    BY <1>1, ListedIs
  <2>2. past.base \in [Items -> Nat] /\ head \in [Items -> Nat]
    BY <1>1 DEF EnvInv, PastRecord
  <2> QED BY <1>1, <2>1, <2>2 DEF EnvInv
<1>7. past.base[i] = 0 \/ i \in past.dropped \/ scan.branch < Len(Branches(i))
  BY <1>1, <1>3 DEF ScanInv, RevisionInv
<1>8. ASSUME i \in Listed, scan.branch < Len(Branches(i)), head[i] # 0, scan.branch + n >= Len(Branches(i))
      PROVE  "default" \in ToSet(page)
  <2> DEFINE b == Branches(i)  at == scan.branch
  <2>1. b \in Seq({"other", "default"}) /\ Len(b) \in Nat \ {0} /\ b[Len(b)] = "default"
    <3>0. /\ <<"other", "default">> \in Seq({"other", "default"}) /\ Len(<<"other", "default">>) = 2
          /\ <<"default">> \in Seq({"other", "default"}) /\ Len(<<"default">>) = 1
      OBVIOUS
    <3>1. CASE i \in crowded
      <4>1. b = <<"other">> \o <<"default">>
        BY <1>8, <3>1 DEF Branches
      <4>2. b = <<"other", "default">>
        BY <4>1
      <4> HIDE DEF b
      <4> QED BY <3>0, <4>2
    <3>2. CASE i \notin crowded
      <4>1. b = <<>> \o <<"default">>
        BY <1>8, <3>2 DEF Branches
      <4>2. b = <<"default">>
        BY <4>1
      <4> HIDE DEF b
      <4> QED BY <3>0, <4>2
    <3> QED BY <3>1, <3>2
  <2>2. Len(b) \in 1..Len(b) /\ at < Len(b) /\ Len(b) <= at + n /\ at \in Nat
    BY <1>3, <1>8, <2>1
  <2> HIDE DEF b, at
  <2>3. /\ Cut(b, at, n) \in Seq({"other", "default"})
        /\ \A k \in 1..Len(b) :
             at < k /\ k <= at + n => k - at \in 1..Len(Cut(b, at, n)) /\ Cut(b, at, n)[k - at] = b[k]
    <3>1. b \in Seq({"other", "default"}) /\ at \in Nat /\ n \in Nat
      BY <1>4, <2>1, <2>2
    <3> QED BY <3>1, CutIs
  <2>4. Len(b) - at \in DOMAIN Cut(b, at, n) /\ Cut(b, at, n)[Len(b) - at] = "default"
    BY <2>1, <2>2, <2>3
  <2> QED BY <2>4 DEF ToSet, b, at
<1> HIDE DEF page
<1>9. CASE i \notin Listed
  <2>1. scan' = Failed
    BY <1>2, <1>9
  <2> QED BY <1>1, <2>1, FailedIs
<1>10. CASE i \in Listed /\ "default" \in ToSet(page)
  <2>1. scan' = Revision(head[i])
    BY <1>2, <1>10 DEF page
  <2>2. head[i] = 0 => past.base[i] = 0
    BY <1>6, <1>10
  <2> QED BY <1>1, <1>6, <1>10, <2>1, <2>2, RevisionIs
<1>11. CASE i \in Listed /\ "default" \notin ToSet(page) /\ scan.branch + n >= Len(Branches(i))
  <2>1. scan' = Revision(0)
    BY <1>2, <1>11 DEF page
  <2>2. past.base[i] = 0 \/ i \in past.dropped
    <3> SUFFICES ASSUME past.base[i] # 0, i \notin past.dropped PROVE FALSE
      OBVIOUS
    <3>1. head[i] # 0
      BY <1>6, <1>11
    <3>2. scan.branch < Len(Branches(i))
      BY <1>7
    <3> QED BY <1>8, <1>11, <3>1, <3>2
  <2> QED BY <1>1, <1>11, <2>1, <2>2, RevisionIs
<1>12. CASE i \in Listed /\ "default" \notin ToSet(page) /\ ~(scan.branch + n >= Len(Branches(i)))
  <2>1. scan' = NextBranches(n)
    BY <1>2, <1>12 DEF page
  <2>2. CASE stuck
    BY <1>1, <2>1, <2>2, FailedIs DEF NextBranches
  <2>3. CASE ~stuck
    <3> DEFINE s == [scan EXCEPT !.tries = 0, !.branch = @ + n]
    <3>1. scan' = s
      BY <2>1, <2>3 DEF NextBranches
    <3>2. s \in ScanRecord
      <4>1. 0 \in 0..(Attempts - 1) /\ scan.branch + n \in Nat
        BY <1>3, <1>4, ProviderAssumption
      <4> DEFINE a == [scan EXCEPT !.tries = 0]
      <4>2. a \in ScanRecord /\ a.branch = scan.branch
        BY <1>3, <4>1 DEF ScanRecord
      <4>3. [a EXCEPT !.branch = scan.branch + n] \in ScanRecord
        <5> HIDE DEF a
        <5> QED BY <4>1, <4>2 DEF ScanRecord
      <4> QED BY <4>3
    <3>3. /\ s.phase = scan.phase /\ s.scope = scan.scope /\ s.got = scan.got /\ s.branch = scan.branch + n
          /\ s.last = scan.last /\ s.next = scan.next /\ s.ask = scan.ask /\ s.index = scan.index
          /\ s.read = scan.read /\ s.sources = scan.sources /\ s.complete = scan.complete
      BY <1>3 DEF ScanRecord
    <3> HIDE DEF s
    <3>4. PhaseInv(s)
      BY <1>1, <3>2, <3>3 DEF ScanInv, PhaseInv
    <3>5. RevisionInv(s)
      <4>1. s.branch < Len(Branches(i))
        BY <1>3, <1>4, <1>5, <1>12, <3>3
      <4> QED BY <1>1, <3>3, <4>1 DEF ScanInv, RevisionInv
    <3>6. SourceInv(s)
      BY <1>1, <3>3 DEF SourceInv
    <3>7. MissInv(s)
      <4>1. \A j : Waits(s, j) <=> Waits(scan, j)
        BY <1>1, <3>3 DEF Waits, Asked
      <4> QED BY <1>1, <3>3, <4>1 DEF ScanInv, MissInv
    <3> QED BY <3>1, <3>4, <3>5, <3>6, <3>7 DEF ScanInv
  <2> QED BY <2>2, <2>3
<1> QED BY <1>9, <1>10, <1>11, <1>12

-----------------------------------------------------------------------------
(* Sources.                                                                *)

(* What a step of the sources leaves alone.                                *)
LEMMA SourceStep ==
  ASSUME EnvInv, ScanInv(scan), scan.phase = "sources", NEW s \in ScanRecord,
         s.phase \in {"sources", "done"}, s.scope = scan.scope, s.got = scan.got,
         s.complete = scan.complete, SourceInv(s)
  PROVE  ScanInv(s)
<1>1. PhaseInv(s)
  BY DEF ScanInv, PhaseInv, Lists
<1>2. RevisionInv(s)
  BY DEF ScanInv, RevisionInv
<1>3. MissInv(s)
  BY DEF ScanInv, MissInv, Waits
<1> QED BY <1>1, <1>2, <1>3 DEF ScanInv

(* The invariant of the sources, in a scan that reads them.                *)
LEMMA Reading ==
  ASSUME ScanInv(scan), scan.phase = "sources"
  PROVE  /\ scan \in ScanRecord /\ Reads /\ scan.complete
         /\ scan.ask \in Seq(Items) /\ scan.at \in Nat /\ scan.got \in Revisions
         /\ scan.index \in SUBSET Paths /\ scan.read \in SUBSET (Items \X Paths)
         /\ scan.sources \in SUBSET (Items \X Paths \X Nat)
         /\ DOMAIN scan.got \subseteq Listed \cup past.gone
         /\ \A x \in scan.sources :
              /\ x[1] \in Linked \cap DOMAIN scan.got
              /\ IF scan.got[x[1]] # 0 THEN x[3] = scan.got[x[1]] ELSE x[3] >= past.base[x[1]]
         /\ \A i \in (Linked \cap DOMAIN scan.got) \ past.gone, p \in Paths :
              scan.got[i] # 0 /\ InTree(p, scan.got[i]) =>
                <<i, p, scan.got[i]>> \in scan.sources \/ <<i, p>> \in scan.read \/ Asked(scan, i)
         /\ \A r \in scan.read : r[1] \in Linked \cap DOMAIN scan.got
         /\ \A i \in Items : Asked(scan, i) =>
              i \in Linked \cap DOMAIN scan.got /\ (kind = "cloud" \/ scan.got[i] # 0)
         /\ kind = "datacenter" /\ scan.ask # <<>> =>
              \A k \in 1..Len(TreeOf(scan.got[Head(scan.ask)])) :
                k <= scan.at => TreeOf(scan.got[Head(scan.ask)])[k] \in scan.index
<1>1. scan \in ScanRecord /\ Reads /\ scan.complete /\ DOMAIN scan.got \subseteq Listed \cup past.gone
  BY DEF ScanInv, PhaseInv
<1>2. /\ scan.ask \in Seq(Items) /\ scan.at \in Nat /\ scan.got \in Revisions
      /\ scan.index \in SUBSET Paths /\ scan.read \in SUBSET (Items \X Paths)
      /\ scan.sources \in SUBSET (Items \X Paths \X Nat)
  BY <1>1 DEF ScanRecord
<1>3. \A i : i \in Readable(scan) <=>
        i \in Linked \cap DOMAIN scan.got /\ (kind = "cloud" \/ scan.got[i] # 0)
  BY <1>1, LinkedIs
<1>4. SourceInv(scan)
  BY DEF ScanInv
<1> QED BY <1>1, <1>2, <1>3, <1>4 DEF SourceInv

LEMMA AskedIs ==
  ASSUME NEW s \in ScanRecord, s.ask # <<>>, NEW t, t.ask = Tail(s.ask)
  PROVE  /\ Head(s.ask) \in Items /\ Asked(s, Head(s.ask))
         /\ \A i : Asked(s, i) => i = Head(s.ask) \/ Asked(t, i)
         /\ \A i : Asked(t, i) => Asked(s, i)
         /\ Tail(s.ask) \in Seq(Items)
<1> DEFINE q == s.ask
<1>1. q \in Seq(Items) /\ q # <<>>
  BY DEF ScanRecord
<1>2. t.ask = Tail(q)
  OBVIOUS
<1> HIDE DEF q
<1>3. /\ Head(q) \in Items /\ Tail(q) \in Seq(Items)
      /\ \A k \in 1..Len(q) : q[k] = Head(q) \/ \E j \in 1..Len(Tail(q)) : Tail(q)[j] = q[k]
      /\ \A j \in 1..Len(Tail(q)) : \E k \in 1..Len(q) : q[k] = Tail(q)[j]
      /\ \E k \in 1..Len(q) : q[k] = Head(q)
  BY <1>1, HeadAndTail
<1>4. \A i : Asked(s, i) <=> \E k \in 1..Len(q) : q[k] = i
  BY DEF Asked, q
<1>5. \A i : Asked(t, i) <=> \E k \in 1..Len(Tail(q)) : Tail(q)[k] = i
  BY <1>2 DEF Asked
<1> QED BY <1>3, <1>4, <1>5 DEF q

LEMMA TreeIs ==
  ASSUME NEW v
  PROVE  /\ TreeOf(v) \in Seq(Paths) /\ Len(TreeOf(v)) \in Nat
         /\ \A p \in Paths : InTree(p, v) => \E k \in 1..Len(TreeOf(v)) : TreeOf(v)[k] = p
<1> DEFINE S == {p \in Paths : InTree(p, v)}
<1>1. IsFiniteSet(S) /\ S \subseteq Paths
  BY ProviderAssumption, FS_Subset
<1> HIDE DEF S
<1>2. SetToSeq(S) \in Seq(S) /\ \A p \in S : \E k \in 1..Len(SetToSeq(S)) : SetToSeq(S)[k] = p
  BY <1>1, SequenceOfSet
<1>3. SetToSeq(S) \in Seq(Paths) /\ Len(SetToSeq(S)) \in Nat
  BY <1>1, <1>2
<1> QED BY <1>2, <1>3 DEF TreeOf, S

LEMMA IndexStep ==
  ASSUME IInv, Index
  PROVE  ScanInv(scan')
<1>1. EnvInv /\ ScanInv(scan) /\ scan.phase = "sources" /\ kind = "datacenter" /\ scan.ask # <<>>
      /\ scan.read = {}
  BY DEF IInv, Index
<1> DEFINE i == Head(scan.ask)
<1>2. PICK n \in 1..PageSize :
        LET page == Cut(Tree(i), scan.at, n)
            read == [scan EXCEPT !.tries = 0, !.at = @ + n, !.index = @ \cup ToSet(page)]
        IN  scan' = CASE i \notin Listed -> Unavailable
                      [] i \in Listed /\ scan.at + n >= Len(Tree(i)) ->
                           [read EXCEPT !.ask = Tail(@), !.at = 0, !.index = {},
                                        !.read = {i} \X read.index]
                      [] i \in Listed /\ scan.at + n < Len(Tree(i)) /\ stuck -> Unavailable
                      [] OTHER -> read
  BY DEF Index
<1>3. /\ scan \in ScanRecord /\ Reads /\ scan.complete
      /\ scan.at \in Nat /\ scan.got \in Revisions /\ scan.index \in SUBSET Paths
      /\ i \in Items /\ Asked(scan, i)
  <2>1. scan \in ScanRecord /\ Reads /\ scan.complete
        /\ scan.at \in Nat /\ scan.got \in Revisions /\ scan.index \in SUBSET Paths
    BY <1>1, Reading
  <2>2. i \in Items /\ Asked(scan, i)
    <3> DEFINE t == [scan EXCEPT !.ask = Tail(@)]
    <3>1. t.ask = Tail(scan.ask)
      BY <2>1 DEF ScanRecord
    <3> HIDE DEF t
    <3> QED BY <1>1, <2>1, <3>1, AskedIs
  <2> QED BY <2>1, <2>2
<1>4. i \in Linked \cap DOMAIN scan.got /\ scan.got[i] # 0
  BY <1>1, <1>3, Reading
<1> DEFINE tree == TreeOf(scan.got[i])
           page == Cut(tree, scan.at, n)
           index == scan.index \cup ToSet(page)
           read == [scan EXCEPT !.tries = 0, !.at = @ + n, !.index = index]
           found == [read EXCEPT !.ask = Tail(@), !.at = 0, !.index = {}, !.read = {i} \X index]
<1>5. Tree(i) = tree
  BY <1>4 DEF Tree, Commit, TreeOf
<1>6. tree \in Seq(Paths) /\ Len(tree) \in Nat
      /\ \A p \in Paths : InTree(p, scan.got[i]) => \E k \in 1..Len(tree) : tree[k] = p
  BY TreeIs
<1>7. n \in Nat \ {0}
  <2>1. PageSize \in Nat
    BY ProviderAssumption
  <2> QED BY <2>1
<1>8. \A k \in 1..Len(tree) : k <= scan.at => tree[k] \in scan.index
  BY <1>1, Reading
<1> HIDE DEF tree
<1>9. /\ page \in Seq(Paths)
      /\ \A k \in 1..Len(tree) : k <= scan.at + n => tree[k] \in index
  <2> DEFINE at == scan.at
  <2>1. tree \in Seq(Paths) /\ at \in Nat /\ n \in Nat
    BY <1>3, <1>6, <1>7
  <2> HIDE DEF at
  <2>2. /\ Cut(tree, at, n) \in Seq(Paths)
        /\ \A k \in 1..Len(tree) :
             at < k /\ k <= at + n => /\ k - at \in 1..Len(Cut(tree, at, n))
                                      /\ Cut(tree, at, n)[k - at] = tree[k]
    BY <2>1, CutIs
  <2>3. page = Cut(tree, at, n)
    BY DEF at
  <2> HIDE DEF page
  <2>4. ASSUME NEW k \in 1..Len(tree), k <= at + n PROVE tree[k] \in index
    <3>1. CASE k <= at
      BY <1>8, <3>1 DEF at
    <3>2. CASE at < k
      <4>1. k - at \in DOMAIN page /\ page[k - at] = tree[k]
        BY <2>2, <2>3, <2>4, <3>2
      <4> QED BY <4>1 DEF ToSet
    <3> QED BY <1>6, <2>1, <3>1, <3>2
  <2> QED BY <2>2, <2>3, <2>4 DEF at
<1>10. index \in SUBSET Paths
  BY <1>3, <1>9 DEF ToSet
<1> HIDE DEF page
<1>11. scan' = CASE i \notin Listed -> Unavailable
                 [] i \in Listed /\ scan.at + n >= Len(tree) -> found
                 [] i \in Listed /\ scan.at + n < Len(tree) /\ stuck -> Unavailable
                 [] OTHER -> read
  <2>1. [scan EXCEPT !.tries = 0, !.at = @ + n, !.index = @ \cup ToSet(page)] = read
    OBVIOUS
  <2>2. read.index = index
    BY <1>3 DEF ScanRecord
  <2> QED BY <1>2, <1>5, <2>1, <2>2 DEF page
<1> HIDE DEF index
<1>12. /\ read \in ScanRecord /\ read.phase = "sources" /\ read.scope = scan.scope
       /\ read.got = scan.got /\ read.complete = scan.complete /\ read.ask = scan.ask
       /\ read.at = scan.at + n /\ read.index = index /\ read.read = {} /\ read.sources = scan.sources
  <2>1. read \in ScanRecord
    <3>1. 0 \in 0..(Attempts - 1) /\ scan.at + n \in Nat
      BY <1>3, <1>7, ProviderAssumption
    <3> DEFINE a == [scan EXCEPT !.tries = 0]
               b == [a EXCEPT !.at = scan.at + n]
    <3>2. a \in ScanRecord
      BY <1>3, <3>1 DEF ScanRecord
    <3>3. b \in ScanRecord
      <4> HIDE DEF a
      <4> QED BY <3>1, <3>2 DEF ScanRecord
    <3>4. [b EXCEPT !.index = index] \in ScanRecord
      <4> HIDE DEF b
      <4> QED BY <1>10, <3>3 DEF ScanRecord
    <3> QED BY <3>4
  <2> QED BY <1>1, <1>3, <2>1 DEF ScanRecord
<1> HIDE DEF read
<1>13. CASE i \notin Listed \/ (scan.at + n < Len(tree) /\ stuck)
  <2>1. ~(i \in Listed /\ scan.at + n >= Len(tree))
    BY <1>3, <1>6, <1>7, <1>13
  <2>2. scan' = Unavailable
    BY <1>11, <1>13, <2>1
  <2> QED BY <1>1, <2>2, UnavailableIs
<1>14. CASE i \in Listed /\ scan.at + n >= Len(tree)
  <2>1. scan' = found
    BY <1>3, <1>6, <1>7, <1>11, <1>14
  <2>2. /\ found \in ScanRecord /\ found.phase = "sources" /\ found.scope = scan.scope
        /\ found.got = scan.got /\ found.complete = scan.complete /\ found.ask = Tail(scan.ask)
        /\ found.at = 0 /\ found.read = {i} \X index /\ found.sources = scan.sources
    <3>1. Tail(scan.ask) \in Seq(Items)
      <4>1. scan.ask \in Seq(Items)
        BY <1>3 DEF ScanRecord
      <4> DEFINE q == scan.ask
      <4>2. q \in Seq(Items) /\ q # <<>>
        BY <1>1, <4>1
      <4> HIDE DEF q
      <4>3. Tail(q) \in Seq(Items)
        BY <4>2, HeadAndTail
      <4> QED BY <4>3 DEF q
    <3>2. {i} \X index \in SUBSET (Items \X Paths)
      BY <1>3, <1>10
    <3>3. found \in ScanRecord
      <4> DEFINE a == [read EXCEPT !.ask = Tail(scan.ask)]
                 b == [a EXCEPT !.at = 0]
                 d == [b EXCEPT !.index = {}]
      <4>1. a \in ScanRecord
        BY <1>12, <3>1 DEF ScanRecord
      <4>2. b \in ScanRecord
        <5> HIDE DEF a
        <5> QED BY <4>1 DEF ScanRecord
      <4>3. d \in ScanRecord
        <5> HIDE DEF b
        <5> QED BY <4>2 DEF ScanRecord
      <4>4. [d EXCEPT !.read = {i} \X index] \in ScanRecord
        <5> HIDE DEF d
        <5> QED BY <3>2, <4>3 DEF ScanRecord
      <4> QED BY <1>12, <4>4
    <3>4. /\ found.phase = read.phase /\ found.scope = read.scope
          /\ found.got = read.got /\ found.complete = read.complete /\ found.ask = Tail(read.ask)
          /\ found.at = 0 /\ found.read = {i} \X index /\ found.sources = read.sources
      BY <1>12 DEF ScanRecord
    <3> QED BY <1>12, <3>3, <3>4
  <2> HIDE DEF found
  <2>3. /\ \A j : Asked(scan, j) => j = i \/ Asked(found, j)
        /\ \A j : Asked(found, j) => Asked(scan, j)
    BY <1>1, <1>3, <2>2, AskedIs
  <2>4. SourceInv(found)
    <3>1. \A j \in (Linked \cap DOMAIN scan.got) \ past.gone, p \in Paths :
            scan.got[j] # 0 /\ InTree(p, scan.got[j]) =>
              <<j, p, scan.got[j]>> \in scan.sources \/ <<j, p>> \in found.read \/ Asked(found, j)
      <4> SUFFICES ASSUME NEW j \in (Linked \cap DOMAIN scan.got) \ past.gone, NEW p \in Paths,
                          scan.got[j] # 0, InTree(p, scan.got[j])
                   PROVE  <<j, p, scan.got[j]>> \in scan.sources \/ <<j, p>> \in found.read \/ Asked(found, j)
        OBVIOUS
      <4>1. <<j, p, scan.got[j]>> \in scan.sources \/ Asked(scan, j)
        BY <1>1, Reading
      <4>2. ASSUME j = i PROVE <<j, p>> \in found.read
        <5>1. PICK k \in 1..Len(tree) : tree[k] = p
          BY <1>6, <4>2
        <5>2. k <= scan.at + n
          BY <1>3, <1>6, <1>7, <1>14
        <5>3. p \in index
          BY <1>9, <5>1, <5>2
        <5> QED BY <2>2, <4>2, <5>3
      <4> QED BY <2>3, <4>1, <4>2
    <3>2. \A j \in Items : Asked(found, j) => j \in Readable(found)
      <4>1. \A j : j \in Readable(found) <=>
              j \in Linked \cap DOMAIN found.got /\ (kind = "cloud" \/ found.got[j] # 0)
        BY <2>2, LinkedIs
      <4>2. \A j \in Items : Asked(scan, j) =>
              j \in Linked \cap DOMAIN scan.got /\ (kind = "cloud" \/ scan.got[j] # 0)
        BY <1>1, Reading
      <4> QED BY <2>2, <2>3, <4>1, <4>2
    <3>3. \A k \in 1..Len(TreeOf(found.got[Head(found.ask)])) : ~(k <= found.at)
      BY <2>2
    <3>4. \A x \in found.sources :
            /\ x[1] \in Linked \cap DOMAIN found.got
            /\ IF found.got[x[1]] # 0 THEN x[3] = found.got[x[1]] ELSE x[3] >= past.base[x[1]]
      <4>1. \A x \in scan.sources :
              /\ x[1] \in Linked \cap DOMAIN scan.got
              /\ IF scan.got[x[1]] # 0 THEN x[3] = scan.got[x[1]] ELSE x[3] >= past.base[x[1]]
        BY <1>1, Reading
      <4> QED BY <2>2, <4>1
    <3>5. \A r \in found.read : r[1] \in Linked \cap DOMAIN found.got
      BY <1>4, <2>2
    <3> QED BY <2>2, <3>1, <3>2, <3>3, <3>4, <3>5 DEF SourceInv
  <2> QED BY <1>1, <2>1, <2>2, <2>4, SourceStep
<1>15. CASE i \in Listed /\ scan.at + n < Len(tree) /\ ~stuck
  <2>1. scan' = read
    BY <1>3, <1>6, <1>7, <1>11, <1>15
  <2>2. SourceInv(read)
    <3>1. \A j : Asked(read, j) <=> Asked(scan, j)
      BY <1>12 DEF Asked
    <3>2. \A j : j \in Readable(read) <=> j \in Readable(scan)
      BY <1>12 DEF Readable, Key
    <3>3. SourceInv(scan)
      BY <1>1 DEF ScanInv
    <3>4. \A k \in 1..Len(tree) : k <= read.at => tree[k] \in read.index
      BY <1>9, <1>12
    <3>5. tree = TreeOf(read.got[Head(read.ask)])
      BY <1>12 DEF tree
    <3> QED BY <1>1, <1>3, <1>12, <3>1, <3>2, <3>3, <3>4, <3>5 DEF SourceInv
  <2> QED BY <1>1, <1>12, <2>1, <2>2, SourceStep
<1> QED BY <1>3, <1>6, <1>7, <1>13, <1>14, <1>15

LEMMA NoIndexStep ==
  ASSUME IInv, NoIndex
  PROVE  ScanInv(scan')
<1>1. EnvInv /\ ScanInv(scan) /\ scan.phase = "sources" /\ kind = "cloud" /\ scan.ask # <<>>
      /\ scan.read = {}
  BY DEF IInv, NoIndex
<1> DEFINE i == Head(scan.ask)
           s == [scan EXCEPT !.ask = Tail(@), !.read = {i} \X Paths]
<1>2. scan' = s
  BY DEF NoIndex
<1>3. scan \in ScanRecord /\ Reads
  BY <1>1, Reading
<1>4. i \in Items /\ Asked(scan, i) /\ Tail(scan.ask) \in Seq(Items)
  <2> DEFINE t == [scan EXCEPT !.ask = Tail(@)]
  <2>1. t.ask = Tail(scan.ask)
    BY <1>3 DEF ScanRecord
  <2> HIDE DEF t
  <2> QED BY <1>1, <1>3, <2>1, AskedIs
<1>5. i \in Linked \cap DOMAIN scan.got
  BY <1>1, <1>4, Reading
<1>6. /\ s \in ScanRecord /\ s.phase = "sources" /\ s.scope = scan.scope
      /\ s.got = scan.got /\ s.complete = scan.complete /\ s.ask = Tail(scan.ask)
      /\ s.read = {i} \X Paths /\ s.sources = scan.sources
  <2>1. {i} \X Paths \in SUBSET (Items \X Paths)
    BY <1>4
  <2>2. s \in ScanRecord
    <3> DEFINE a == [scan EXCEPT !.ask = Tail(@)]
    <3>1. a \in ScanRecord
      BY <1>3, <1>4 DEF ScanRecord
    <3>2. [a EXCEPT !.read = {i} \X Paths] \in ScanRecord
      <4> HIDE DEF a
      <4> QED BY <2>1, <3>1 DEF ScanRecord
    <3> QED BY <3>2
  <2>3. /\ s.phase = scan.phase /\ s.scope = scan.scope
        /\ s.got = scan.got /\ s.complete = scan.complete /\ s.ask = Tail(scan.ask)
        /\ s.read = {i} \X Paths /\ s.sources = scan.sources
    BY <1>3 DEF ScanRecord
  <2> QED BY <1>1, <2>2, <2>3
<1> HIDE DEF s
<1>7. /\ \A j : Asked(scan, j) => j = i \/ Asked(s, j)
      /\ \A j : Asked(s, j) => Asked(scan, j)
  BY <1>1, <1>3, <1>6, AskedIs
<1>8. SourceInv(s)
  <2>1. \A j \in (Linked \cap DOMAIN scan.got) \ past.gone, p \in Paths :
          scan.got[j] # 0 /\ InTree(p, scan.got[j]) =>
            <<j, p, scan.got[j]>> \in scan.sources \/ <<j, p>> \in s.read \/ Asked(s, j)
    <3> SUFFICES ASSUME NEW j \in (Linked \cap DOMAIN scan.got) \ past.gone, NEW p \in Paths,
                        scan.got[j] # 0, InTree(p, scan.got[j])
                 PROVE  <<j, p, scan.got[j]>> \in scan.sources \/ <<j, p>> \in s.read \/ Asked(s, j)
      OBVIOUS
    <3>1. <<j, p, scan.got[j]>> \in scan.sources \/ Asked(scan, j)
      BY <1>1, Reading
    <3>2. j = i => <<j, p>> \in s.read
      BY <1>6
    <3> QED BY <1>7, <3>1, <3>2
  <2>2. \A j \in Items : Asked(s, j) => j \in Readable(s)
    <3>1. \A j : j \in Readable(s) <=>
            j \in Linked \cap DOMAIN s.got /\ (kind = "cloud" \/ s.got[j] # 0)
      BY <1>6, LinkedIs
    <3>2. \A j \in Items : Asked(scan, j) =>
            j \in Linked \cap DOMAIN scan.got /\ (kind = "cloud" \/ scan.got[j] # 0)
      BY <1>1, Reading
    <3> QED BY <1>6, <1>7, <3>1, <3>2
  <2>3. \A x \in scan.sources :
          /\ x[1] \in Linked \cap DOMAIN scan.got
          /\ IF scan.got[x[1]] # 0 THEN x[3] = scan.got[x[1]] ELSE x[3] >= past.base[x[1]]
    BY <1>1, Reading
  <2>4. \A r \in s.read : r[1] \in Linked \cap DOMAIN s.got
    BY <1>5, <1>6
  <2>5. kind # "datacenter"
    BY <1>1
  <2> QED BY <1>6, <2>1, <2>2, <2>3, <2>4, <2>5 DEF SourceInv
<1> QED BY <1>1, <1>2, <1>6, <1>8, SourceStep

LEMMA TextStep ==
  ASSUME IInv, Text
  PROVE  ScanInv(scan')
<1>1. EnvInv /\ ScanInv(scan) /\ scan.phase = "sources"
  BY DEF IInv, Text
<1>2. PICK r \in scan.read :
        scan' = [scan EXCEPT !.read = @ \ {r},
                             !.sources = @ \cup IF r[1] \in Listed /\ InTree(r[2], Commit(r[1]))
                                               THEN {<<r[1], r[2], Commit(r[1])>>} ELSE {}]
  BY DEF Text
<1>3. /\ scan \in ScanRecord /\ Reads /\ scan.complete /\ scan.got \in Revisions
      /\ scan.read \in SUBSET (Items \X Paths) /\ scan.sources \in SUBSET (Items \X Paths \X Nat)
      /\ DOMAIN scan.got \subseteq Listed \cup past.gone
      /\ r[1] \in Linked \cap DOMAIN scan.got
  BY <1>1, Reading
<1> DEFINE c == Commit(r[1])
           text == IF r[1] \in Listed /\ InTree(r[2], c) THEN {<<r[1], r[2], c>>} ELSE {}
           s == [scan EXCEPT !.read = @ \ {r}, !.sources = @ \cup text]
<1>4. r \in Items \X Paths /\ r = <<r[1], r[2]>>
  BY <1>3
<1>5. /\ c \in Nat
      /\ scan.got[r[1]] # 0 => c = scan.got[r[1]]
      /\ scan.got[r[1]] = 0 => c >= past.base[r[1]]
  <2>1. scan.got[r[1]] \in Nat
    <3>1. \A x \in DOMAIN scan.got : scan.got[x] \in Nat
      BY <1>3, RevisionsIs
    <3> QED BY <1>3, <3>1
  <2>2. head[r[1]] \in Nat /\ past.base[r[1]] \in Nat /\ past.base[r[1]] <= head[r[1]]
    <3>1. past.base \in [Items -> Nat] /\ head \in [Items -> Nat] /\ r[1] \in Items
      BY <1>1, <1>4 DEF EnvInv, PastRecord
    <3> QED BY <1>1, <3>1 DEF EnvInv
  <2> QED BY <2>1, <2>2 DEF Commit
<1>6. scan' = s
  BY <1>2
<1> HIDE DEF c
<1>7. text \in SUBSET (Items \X Paths \X Nat)
  BY <1>4, <1>5
<1>8. \A x \in text : x[1] = r[1] /\ x[3] = c
  OBVIOUS
<1>9. r[1] \in Listed /\ InTree(r[2], c) => <<r[1], r[2], c>> \in text
  OBVIOUS
<1> HIDE DEF text
<1>10. /\ s \in ScanRecord /\ s.phase = "sources" /\ s.scope = scan.scope /\ s.at = scan.at
       /\ s.got = scan.got /\ s.complete = scan.complete /\ s.ask = scan.ask /\ s.index = scan.index
       /\ s.read = scan.read \ {r} /\ s.sources = scan.sources \cup text
  <2>1. scan.read \ {r} \in SUBSET (Items \X Paths) /\ scan.sources \cup text \in SUBSET (Items \X Paths \X Nat)
    BY <1>3, <1>7
  <2>2. s \in ScanRecord
    <3> DEFINE a == [scan EXCEPT !.read = @ \ {r}]
    <3>1. a \in ScanRecord
      BY <1>3, <2>1 DEF ScanRecord
    <3>2. [a EXCEPT !.sources = scan.sources \cup text] \in ScanRecord
      <4> HIDE DEF a
      <4> QED BY <2>1, <3>1 DEF ScanRecord
    <3> QED BY <3>2
  <2>3. /\ s.phase = scan.phase /\ s.scope = scan.scope /\ s.at = scan.at
        /\ s.got = scan.got /\ s.complete = scan.complete /\ s.ask = scan.ask /\ s.index = scan.index
        /\ s.read = scan.read \ {r} /\ s.sources = scan.sources \cup text
    BY <1>3 DEF ScanRecord
  <2> QED BY <1>1, <2>2, <2>3
<1> HIDE DEF s
<1>11. SourceInv(s)
  <2>1. \A j : Asked(s, j) <=> Asked(scan, j)
    BY <1>10 DEF Asked
  <2>2. \A x \in s.sources :
          /\ x[1] \in Linked \cap DOMAIN s.got
          /\ IF s.got[x[1]] # 0 THEN x[3] = s.got[x[1]] ELSE x[3] >= past.base[x[1]]
    <3>1. \A x \in scan.sources :
            /\ x[1] \in Linked \cap DOMAIN scan.got
            /\ IF scan.got[x[1]] # 0 THEN x[3] = scan.got[x[1]] ELSE x[3] >= past.base[x[1]]
      BY <1>1, Reading
    <3> QED BY <1>3, <1>5, <1>8, <1>10, <3>1
  <2>3. \A j \in (Linked \cap DOMAIN s.got) \ past.gone, p \in Paths :
          s.got[j] # 0 /\ InTree(p, s.got[j]) =>
            <<j, p, s.got[j]>> \in s.sources \/ <<j, p>> \in s.read \/ Asked(s, j)
    <3> SUFFICES ASSUME NEW j \in (Linked \cap DOMAIN scan.got) \ past.gone, NEW p \in Paths,
                        scan.got[j] # 0, InTree(p, scan.got[j])
                 PROVE  <<j, p, scan.got[j]>> \in s.sources \/ <<j, p>> \in s.read \/ Asked(s, j)
      BY <1>10
    <3>1. <<j, p, scan.got[j]>> \in scan.sources \/ <<j, p>> \in scan.read \/ Asked(scan, j)
      BY <1>1, Reading
    <3>2. CASE <<j, p>> = r
      <4>1. j = r[1] /\ p = r[2]
        BY <3>2
      <4>2. j \in Listed /\ c = scan.got[j]
        BY <1>3, <1>5, <4>1
      <4> QED BY <1>9, <1>10, <4>1, <4>2
    <3>3. CASE <<j, p>> # r
      BY <1>10, <2>1, <3>1, <3>3
    <3> QED BY <3>2, <3>3
  <2>4. \A j \in Items : Asked(s, j) => j \in Readable(s)
    <3>1. \A j : j \in Readable(s) <=>
            j \in Linked \cap DOMAIN s.got /\ (kind = "cloud" \/ s.got[j] # 0)
      BY <1>10, LinkedIs
    <3>2. \A j \in Items : Asked(scan, j) =>
            j \in Linked \cap DOMAIN scan.got /\ (kind = "cloud" \/ scan.got[j] # 0)
      BY <1>1, Reading
    <3> QED BY <1>10, <2>1, <3>1, <3>2
  <2>5. \A x \in s.read : x[1] \in Linked \cap DOMAIN s.got
    <3>1. \A x \in scan.read : x[1] \in Linked \cap DOMAIN scan.got
      BY <1>1, Reading
    <3> QED BY <1>10, <3>1
  <2>6. kind = "datacenter" /\ s.ask # <<>> =>
          \A k \in 1..Len(TreeOf(s.got[Head(s.ask)])) :
            k <= s.at => TreeOf(s.got[Head(s.ask)])[k] \in s.index
    <3>1. kind = "datacenter" /\ scan.ask # <<>> =>
            \A k \in 1..Len(TreeOf(scan.got[Head(scan.ask)])) :
              k <= scan.at => TreeOf(scan.got[Head(scan.ask)])[k] \in scan.index
      BY <1>1, Reading
    <3> QED BY <1>10, <3>1
  <2> QED BY <1>10, <2>2, <2>3, <2>4, <2>5, <2>6 DEF SourceInv
<1> QED BY <1>1, <1>3, <1>6, <1>10, <1>11, SourceStep

LEMMA StoreStep ==
  ASSUME IInv, Store
  PROVE  ScanInv(scan') /\ StoredInv'
<1>1. EnvInv /\ StoredInv /\ ScanInv(scan) /\ scan.phase = "sources" /\ scan.ask = <<>> /\ scan.read = {}
      /\ UNCHANGED past
  BY DEF IInv, Store
<1> DEFINE s == [scan EXCEPT !.phase = "done"]
<1>2. scan' = s
  BY DEF Store
<1>3. /\ scan \in ScanRecord /\ Reads /\ scan.complete
      /\ scan.sources \in SUBSET (Items \X Paths \X Nat)
  BY <1>1, Reading
<1>4. /\ s \in ScanRecord /\ s.phase = "done" /\ s.scope = scan.scope
      /\ s.got = scan.got /\ s.complete = scan.complete /\ s.sources = scan.sources
  BY <1>3 DEF ScanRecord, Phases
<1> HIDE DEF s
<1>5. /\ \A x \in scan.sources :
           /\ x[1] \in Linked \cap DOMAIN scan.got
           /\ IF scan.got[x[1]] # 0 THEN x[3] = scan.got[x[1]] ELSE x[3] >= past.base[x[1]]
      /\ \A i \in (Linked \cap DOMAIN scan.got) \ past.gone, p \in Paths :
           scan.got[i] # 0 /\ InTree(p, scan.got[i]) => <<i, p, scan.got[i]>> \in scan.sources
  <2>1. \A i : ~Asked(scan, i)
    BY <1>1 DEF Asked
  <2>2. \A x \in scan.sources :
           /\ x[1] \in Linked \cap DOMAIN scan.got
           /\ IF scan.got[x[1]] # 0 THEN x[3] = scan.got[x[1]] ELSE x[3] >= past.base[x[1]]
    BY <1>1, Reading
  <2>3. \A i \in (Linked \cap DOMAIN scan.got) \ past.gone, p \in Paths :
          scan.got[i] # 0 /\ InTree(p, scan.got[i]) =>
            <<i, p, scan.got[i]>> \in scan.sources \/ <<i, p>> \in scan.read \/ Asked(scan, i)
    BY <1>1, Reading
  <2> QED BY <1>1, <2>1, <2>2, <2>3
<1>6. SourceInv(s)
  BY <1>4, <1>5 DEF SourceInv
<1>7. StoredInv'
  <2>1. CASE ~Cacheable(scan)
    <3>1. stored' = stored
      BY <2>1 DEF Store
    <3> QED BY <1>1, <3>1 DEF StoredInv
  <2>2. CASE Cacheable(scan)
    <3> DEFINE key == Key(scan)
               f == [k \in {key} |-> scan.sources]
    <3>1. stored' = With(stored, f)
      BY <2>2 DEF Store
    <3>2. /\ DOMAIN key = Linked \cap DOMAIN scan.got
          /\ \A i \in DOMAIN key : key[i] = scan.got[i]
      BY <1>3, LinkedIs
    <3>3. \A i \in DOMAIN key : key[i] # 0
      BY <2>2 DEF Cacheable
    <3> HIDE DEF key
    <3>4. DOMAIN f = {key} /\ f[key] = scan.sources
      OBVIOUS
    <3> HIDE DEF f
    <3>5. ASSUME NEW k \in DOMAIN stored'
          PROVE  (k = key /\ stored'[k] = scan.sources) \/ (k \in DOMAIN stored /\ stored'[k] = stored[k])
      BY <3>1, <3>4, <3>5 DEF With
    <3>6. \A x \in scan.sources : x[1] \in DOMAIN key /\ x[3] = key[x[1]]
      BY <1>5, <3>2, <3>3
    <3>7. \A i \in DOMAIN key \ past.gone, p \in Paths :
            InTree(p, key[i]) => <<i, p, key[i]>> \in scan.sources
      BY <1>5, <3>2, <3>3
    <3> SUFFICES ASSUME NEW k \in DOMAIN stored'
                 PROVE  /\ stored'[k] \in SUBSET (Items \X Paths \X Nat)
                        /\ \A i \in DOMAIN k : k[i] # 0
                        /\ \A x \in stored'[k] : x[1] \in DOMAIN k /\ x[3] = k[x[1]]
                        /\ \A i \in DOMAIN k \ past.gone, p \in Paths :
                             InTree(p, k[i]) => <<i, p, k[i]>> \in stored'[k]
      BY <1>1 DEF StoredInv, InTree
    <3>8. CASE k = key /\ stored'[k] = scan.sources
      BY <1>3, <3>3, <3>6, <3>7, <3>8
    <3>9. CASE k \in DOMAIN stored /\ stored'[k] = stored[k]
      BY <1>1, <3>9 DEF StoredInv
    <3> QED BY <3>5, <3>8, <3>9
  <2> QED BY <2>1, <2>2
<1> QED BY <1>1, <1>2, <1>4, <1>6, <1>7, SourceStep

-----------------------------------------------------------------------------
(* The invariant is inductive.                                             *)

LEMMA BlankIs ==
  /\ Blank \in ScanRecord /\ Blank.phase = "idle" /\ Blank.scope = 1 /\ Blank.at = 0
  /\ Blank.got = <<>> /\ DOMAIN Blank.got = {} /\ Blank.index = {} /\ Blank.read = {}
  /\ Blank.sources = {} /\ Blank.complete
<1>1. Blank.got \in Revisions
  <2>1. <<>> \in [{} -> Nat]
    OBVIOUS
  <2> QED BY <2>1 DEF Blank, Revisions
<1>2. 0 \in 0..(Attempts - 1) /\ "idle" \in Phases /\ <<>> \in Seq(Items) /\ 1 \in Nat /\ 0 \in Nat
  BY ProviderAssumption DEF Phases
<1>3. Blank \in ScanRecord
  BY <1>1, <1>2 DEF Blank, ScanRecord
<1> QED BY <1>3 DEF Blank

LEMMA FirstState ==
  ASSUME Init
  PROVE  IInv
<1>1. /\ listing = FirstListing /\ head = FirstHeads /\ kind \in Kinds
      /\ stored = <<>> /\ scan = Blank /\ crowded \in SUBSET Items
      /\ past = [kept |-> {}, removals |-> 0, base |-> FirstHeads, gone |-> {}, dropped |-> {}]
  BY ProviderAssumption DEF Init
<1>2. past \in PastRecord /\ past.kept = {} /\ past.base = FirstHeads
  BY <1>1, ProviderAssumption DEF PastRecord
<1>3. EnvInv
  <2>1. \A i \in Items : past.base[i] <= head[i]
    <3>1. FirstHeads \in [Items -> Nat]
      BY ProviderAssumption
    <3> QED BY <1>1, <1>2, <3>1
  <2> QED BY <1>1, <1>2, <2>1, ProviderAssumption DEF EnvInv
<1>4. StoredInv
  BY <1>1 DEF StoredInv
<1>5. PhaseInv(scan)
  <2>1. 1 \in DOMAIN Scopes
    BY ScopesAre
  <2> QED BY <1>1, <2>1, BlankIs DEF PhaseInv, Lists
<1>6. RevisionInv(scan) /\ SourceInv(scan) /\ MissInv(scan)
  BY <1>1, BlankIs DEF RevisionInv, SourceInv, MissInv
<1> QED BY <1>3, <1>4, <1>5, <1>6 DEF IInv, ScanInv

LEMMA BeginStep ==
  ASSUME IInv, Begin
  PROVE  IInv'
<1>1. EnvInv /\ StoredInv /\ PhaseInv(scan)
  BY DEF IInv, ScanInv
<1> DEFINE s == [Blank EXCEPT !.phase = "page", !.scans = scan.scans + 1]
<1>2. /\ scan' = s /\ UNCHANGED <<kind, listing, head, crowded, stored>>
      /\ past' = [past EXCEPT !.kept = Listed, !.removals = 0, !.base = head, !.dropped = {}]
  BY DEF Begin, server
<1>3. s \in ScanRecord
  <2>1. scan.scans + 1 \in Nat
    BY <1>1 DEF PhaseInv, ScanRecord
  <2> DEFINE a == [Blank EXCEPT !.phase = "page"]
  <2>2. a \in ScanRecord
    BY BlankIs DEF ScanRecord, Phases
  <2>3. [a EXCEPT !.scans = scan.scans + 1] \in ScanRecord
    <3> HIDE DEF a
    <3> QED BY <2>1, <2>2 DEF ScanRecord
  <2> QED BY <2>3
<1>4. /\ s.phase = "page" /\ s.scope = 1 /\ s.at = 0 /\ s.got = Blank.got /\ s.index = {} /\ s.read = {}
      /\ s.sources = {} /\ s.complete /\ DOMAIN s.got = {}
  <2>1. /\ s.phase = "page" /\ s.scope = Blank.scope /\ s.at = Blank.at /\ s.got = Blank.got
        /\ s.index = Blank.index /\ s.read = Blank.read
        /\ s.sources = Blank.sources /\ s.complete = Blank.complete
    BY BlankIs DEF ScanRecord
  <2> QED BY <2>1, BlankIs
<1> HIDE DEF s
<1>5. /\ past' \in PastRecord /\ past'.kept = Listed /\ past'.removals = 0
      /\ past'.base = head /\ past'.gone = past.gone
  <2>1. past \in PastRecord /\ Listed \in SUBSET Items /\ head \in [Items -> Nat]
    BY <1>1, ListedIs DEF EnvInv
  <2> QED BY <1>2, <2>1 DEF PastRecord
<1>6. Listed' = Listed /\ Scopes' = Scopes
  BY <1>2 DEF Listed, Scopes
<1>7. EnvInv'
  <2>1. \A i \in Items : past'.base[i] <= head'[i]
    <3>1. head \in [Items -> Nat]
      BY <1>1 DEF EnvInv
    <3> QED BY <1>2, <1>5, <3>1
  <2> QED BY <1>1, <1>2, <1>5, <1>6, <2>1 DEF EnvInv
<1>8. StoredInv'
  BY <1>1, <1>2, <1>5 DEF StoredInv, InTree
<1>9. PhaseInv(scan)'
  <2>1. 1 \in DOMAIN Scopes
    BY ScopesAre
  <2> QED BY <1>2, <1>3, <1>4, <1>6, <2>1 DEF PhaseInv
<1>10. RevisionInv(scan)' /\ SourceInv(scan)'
  BY <1>2, <1>4 DEF RevisionInv, SourceInv
<1>11. MissInv(scan)'
  <2>1. ASSUME NEW i \in Listed PROVE Waits(scan, i)'
    <3>1. PICK c \in DOMAIN Scopes : Belongs(i, Scopes[c])
      BY <1>1, ListedIs, ScopesAre
    <3>2. Behind(i, c, 0, TRUE)
      BY <1>1, <3>1, BehindIs
    <3>3. c \in Nat /\ c >= 1
      BY <3>1, ScopesAre
    <3>4. Behind(i, 1, 0, TRUE)
      <4>1. CASE c = 1
        BY <3>2, <4>1
      <4>2. CASE c > 1
        BY <3>1, <4>2 DEF Behind
      <4>3. c = 1 \/ c > 1
        BY <3>3
      <4> QED BY <4>1, <4>2, <4>3
    <3>5. Behind(i, 1, 0, TRUE)'
      BY <1>2, <1>6, <3>4 DEF Behind, Belongs
    <3> QED BY <1>2, <1>4, <3>5 DEF Waits
  <2>2. Cardinality({}) <= past'.removals
    BY <1>5, FS_EmptySet
  <2> QED BY <1>2, <1>4, <1>5, <2>1, <2>2 DEF MissInv
<1> QED BY <1>7, <1>8, <1>9, <1>10, <1>11 DEF IInv, ScanInv

LEMMA OtherScanSteps ==
  ASSUME IInv, Page \/ DefaultBranch \/ BranchPage \/ Index \/ NoIndex \/ Text \/ Fails \/ Refused
  PROVE  IInv'
<1>1. EnvInv /\ StoredInv /\ ScanInv(scan)
  BY DEF IInv
<1>2. UNCHANGED <<server, past>> /\ UNCHANGED stored
  BY DEF Page, DefaultBranch, BranchPage, Index, NoIndex, Text, Fails, Refused
<1>3. ScanInv(scan')
  <2>1. CASE Page
    BY <2>1, PageStep
  <2>2. CASE DefaultBranch
    BY <2>2, DefaultBranchStep
  <2>3. CASE BranchPage
    BY <2>3, BranchPageStep
  <2>4. CASE Index
    BY <2>4, IndexStep
  <2>5. CASE NoIndex
    BY <2>5, NoIndexStep
  <2>6. CASE Text
    BY <2>6, TextStep
  <2>7. CASE Fails
    BY <1>1, <2>7, GivesUpIs, RetryIs DEF Fails
  <2>8. CASE Refused
    BY <1>1, <2>8, GivesUpIs DEF Refused
  <2> QED BY <2>1, <2>2, <2>3, <2>4, <2>5, <2>6, <2>7, <2>8
<1>4. EnvInv' /\ ScanInv(scan)'
  BY <1>1, <1>2, <1>3, Carry
<1>5. StoredInv'
  BY <1>1, <1>2 DEF StoredInv, InTree
<1> QED BY <1>4, <1>5 DEF IInv

LEMMA Inductive ==
  ASSUME IInv, [Next]_vars
  PROVE  IInv'
<1>1. EnvInv /\ StoredInv /\ ScanInv(scan)
  BY DEF IInv
<1>2. CASE Begin
  BY <1>2, BeginStep
<1>3. CASE Page \/ DefaultBranch \/ BranchPage \/ Index \/ NoIndex \/ Text \/ Fails \/ Refused
  BY <1>3, OtherScanSteps
<1>4. CASE Store
  <2>1. ScanInv(scan') /\ StoredInv'
    BY <1>4, StoreStep
  <2>2. UNCHANGED <<server, past>>
    BY <1>4 DEF Store
  <2> QED BY <1>1, <2>1, <2>2, Carry DEF IInv
<1>5. CASE Forget
  <2>1. UNCHANGED <<server, past>> /\ scan' = scan /\ stored' = <<>>
    BY <1>5 DEF Forget
  <2>2. StoredInv'
    BY <2>1 DEF StoredInv
  <2> QED BY <1>1, <2>1, <2>2, Carry DEF IInv
<1>6. CASE \E i \in Items : Appear(i)
  BY <1>6, AppearStep
<1>7. CASE \E i \in Items : Vanish(i)
  BY <1>7, VanishStep
<1>8. CASE \E i \in Items : Push(i)
  BY <1>8, PushStep
<1>9. CASE \E i \in Items : DropBranch(i)
  BY <1>9, DropBranchStep
<1>10. CASE UNCHANGED vars
  <2>1. UNCHANGED <<server, past>> /\ scan' = scan /\ stored' = stored
    BY <1>10 DEF vars
  <2>2. StoredInv'
    BY <1>1, <2>1 DEF StoredInv, InTree
  <2> QED BY <1>1, <2>1, <2>2, Carry DEF IInv
<1> QED BY <1>2, <1>3, <1>4, <1>5, <1>6, <1>7, <1>8, <1>9, <1>10 DEF Next, Quiet

-----------------------------------------------------------------------------
(* Theorems.                                                               *)

(* Whatever happens upstream and whichever requests fail, the listing, the *)
(* revisions and the sources that a scan has read are as IInv says.        *)
THEOREM ProvidersInvariant == Spec => []IInv
<1>1. Init => IInv
  BY FirstState
<1>2. IInv /\ [Next]_vars => IInv'
  BY Inductive
<1> QED BY <1>1, <1>2, PTL DEF Spec

(* Variables have their types in every reachable state.                    *)
THEOREM ProvidersTypes == Spec => []TypeOK
<1>1. IInv => TypeOK
  <2> SUFFICES ASSUME IInv PROVE TypeOK
    OBVIOUS
  <2>1. EnvInv /\ PhaseInv(scan)
    BY DEF IInv, ScanInv
  <2>2. scan.got \in Revisions /\ scan.tries \in 0..(Attempts - 1)
    BY <2>1 DEF PhaseInv, ScanRecord
  <2>3. DOMAIN scan.got \subseteq Items
    BY <2>2, RevisionsIs
  <2> QED BY <2>1, <2>2, <2>3 DEF TypeOK, EnvInv, PhaseInv
<1> QED BY <1>1, ProvidersInvariant, PTL

(* A listing that was read to its end misses at most as many of the        *)
(* entries that were listed all the time as others vanished meanwhile      *)
(* (collectors.py: repositories, build_types, builds).                     *)
THEOREM ListingsMissOnlyMoved == Spec => []ListingMissesOnlyMoved
<1>1. IInv => ListingMissesOnlyMoved
  <2> SUFFICES ASSUME IInv, scan.phase \in {"sources", "done"}
               PROVE  Cardinality(past.kept \ DOMAIN scan.got) <= past.removals
    BY DEF ListingMissesOnlyMoved
  <2>1. PICK X \in SUBSET Items :
          /\ Cardinality(X) <= past.removals
          /\ \A i \in past.kept : i \in DOMAIN scan.got \cup X
    BY DEF IInv, ScanInv, MissInv, Waits
  <2>2. past.removals \in Nat
    BY DEF IInv, EnvInv, PastRecord
  <2>3. IsFiniteSet(X)
    BY ProviderAssumption, FS_Subset
  <2>4. past.kept \ DOMAIN scan.got \subseteq X
    BY <2>1
  <2>5. Cardinality(past.kept \ DOMAIN scan.got) <= Cardinality(X)
    BY <2>3, <2>4, FS_Subset
  <2>6. Cardinality(X) \in Nat /\ Cardinality(past.kept \ DOMAIN scan.got) \in Nat
    BY <2>3, <2>4, FS_Subset, FS_CardinalityType
  <2> QED BY <2>1, <2>2, <2>5, <2>6
<1> QED BY <1>1, ProvidersInvariant, PTL

(* Data Center: no repository is recorded without a commit while its       *)
(* default branch has one and every branch stays (default_revision).       *)
THEOREM RevisionsNotOverlooked == Spec => []RevisionOverlooked
<1>1. IInv => RevisionOverlooked
  BY DEF IInv, ScanInv, RevisionInv, RevisionOverlooked
<1> QED BY <1>1, ProvidersInvariant, PTL

(* Sources are those of the revisions in the graph, whether they were read *)
(* now or by an earlier scan (product_sources and the source cache).       *)
THEOREM SourcesAreOfRevision == Spec => []SourcesOfRevision
<1>1. IInv => SourcesOfRevision
  <2> SUFFICES ASSUME IInv, scan.phase = "done", scan.complete, Reads PROVE SourcesOfRevision
    BY DEF SourcesOfRevision
  <2>1. SourceInv(scan)
    BY DEF IInv, ScanInv
  <2> QED BY <2>1 DEF SourceInv, SourcesOfRevision
<1> QED BY <1>1, ProvidersInvariant, PTL
=============================================================================
