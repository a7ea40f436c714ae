---------------------------- MODULE TrendsProofs ----------------------------
(***************************************************************************)
(* Proofs about Trends for any index, lookback and thresholds.             *)
(***************************************************************************)
EXTENDS Trends, FiniteSetTheorems, SequenceTheorems, TLAPS

(* Sorting a finite set.  An order is given as a set of pairs. *)

StrictOrder(S, before) ==
  /\ \A i \in S : <<i, i>> \notin before
  /\ \A i, j, l \in S : <<i, j>> \in before /\ <<j, l>> \in before => <<i, l>> \in before
  /\ \A i, j \in S : i # j => <<i, j>> \in before \/ <<j, i>> \in before

Before(S, before, i) == {j \in S : <<j, i>> \in before}

LEMMA Initial ==
  ASSUME NEW n \in Nat
  PROVE  IsFiniteSet(1..n) /\ Cardinality(1..n) = n
<1>1. IsFiniteSet(1..n) /\ Cardinality(1..n) = IF 1 > n THEN 0 ELSE n - 1 + 1
  BY FS_Interval
<1> QED
  BY <1>1

\* Of two members the one that comes first has fewer members before it.
LEMMA RankMonotonic ==
  ASSUME NEW S, IsFiniteSet(S), NEW before, StrictOrder(S, before),
         NEW i \in S, NEW j \in S, <<i, j>> \in before
  PROVE  /\ Cardinality(Before(S, before, i)) \in Nat
         /\ Cardinality(Before(S, before, j)) \in Nat
         /\ Cardinality(Before(S, before, i)) < Cardinality(Before(S, before, j))
<1> DEFINE I == Before(S, before, i)
           J == Before(S, before, j)
<1>1. I \subseteq J /\ i \in J /\ i \notin I /\ J \subseteq S
  BY DEF StrictOrder, Before
<1> HIDE DEF I, J
<1>2. IsFiniteSet(J)
  BY <1>1, FS_Subset
<1>3. IsFiniteSet(I) /\ Cardinality(I) <= Cardinality(J) /\ Cardinality(I) # Cardinality(J)
  BY <1>1, <1>2, FS_Subset
<1>4. Cardinality(I) \in Nat /\ Cardinality(J) \in Nat
  BY <1>2, <1>3, FS_CardinalityType
<1>5. Cardinality(I) < Cardinality(J)
  BY <1>3, <1>4
<1> QED
  BY <1>4, <1>5 DEF I, J

\* The number of members before it tells a member, and every number below the
\* cardinality is that of a member.
LEMMA RankBijective ==
  ASSUME NEW S, IsFiniteSet(S), NEW before, StrictOrder(S, before)
  PROVE  /\ Cardinality(S) \in Nat
         /\ \A i \in S : Cardinality(Before(S, before, i)) \in 0..Cardinality(S) - 1
         /\ \A i, j \in S :
              Cardinality(Before(S, before, i)) = Cardinality(Before(S, before, j)) => i = j
         /\ \A n \in 1..Cardinality(S) :
              \E i \in S : Cardinality(Before(S, before, i)) = n - 1
<1> DEFINE N == Cardinality(S)
           rank == [i \in S |-> Cardinality(Before(S, before, i)) + 1]
<1>1. N \in Nat
  BY FS_CardinalityType
<1>2. ASSUME NEW i \in S
      PROVE  Cardinality(Before(S, before, i)) \in 0..N - 1
  <2>1. Before(S, before, i) \subseteq S /\ i \notin Before(S, before, i)
    BY DEF StrictOrder, Before
  <2>2. /\ IsFiniteSet(Before(S, before, i))
        /\ Cardinality(Before(S, before, i)) <= N
        /\ Cardinality(Before(S, before, i)) # N
    BY <2>1, FS_Subset
  <2>3. Cardinality(Before(S, before, i)) \in Nat
    BY <2>2, FS_CardinalityType
  <2> HIDE DEF N
  <2> QED
    BY <1>1, <2>2, <2>3
<1>3. ASSUME NEW i \in S, NEW j \in S,
             Cardinality(Before(S, before, i)) = Cardinality(Before(S, before, j))
      PROVE  i = j
  <2>1. ~(<<i, j>> \in before) /\ ~(<<j, i>> \in before)
    BY <1>3, RankMonotonic
  <2> QED
    BY <2>1 DEF StrictOrder
<1>4. rank \in Injection(S, 1..N)
  <2>1. rank \in [S -> 1..N]
    <3>1. ASSUME NEW i \in S PROVE Cardinality(Before(S, before, i)) + 1 \in 1..N
      <4> HIDE DEF N
      <4> QED BY <1>1, <1>2
    <3> QED
      BY <3>1
  <2>2. ASSUME NEW i \in S, NEW j \in S, rank[i] = rank[j]
        PROVE  i = j
    <3>1. Cardinality(Before(S, before, i)) \in Int /\ Cardinality(Before(S, before, j)) \in Int
      BY <1>1, <1>2
    <3> QED
      BY <1>3, <2>2, <3>1
  <2> QED
    BY <2>1, <2>2 DEF Injection, IsInjective
<1>5. rank \in Surjection(S, 1..N)
  BY <1>1, <1>4, Initial, FS_Injection
<1>6. ASSUME NEW n \in 1..N
      PROVE  \E i \in S : Cardinality(Before(S, before, i)) = n - 1
  <2>1. PICK i \in S : rank[i] = n
    BY <1>5 DEF Surjection
  <2>2. Cardinality(Before(S, before, i)) \in Int
    BY <1>1, <1>2
  <2> QED
    BY <2>1, <2>2
<1> QED
  BY <1>1, <1>2, <1>3, <1>6

LEMMA InOrderFunction ==
  ASSUME NEW S, NEW before
  PROVE  /\ InOrder(S, before) = [n \in 1..Cardinality(S) |-> InOrder(S, before)[n]]
         /\ \A n \in 1..Cardinality(S) :
              InOrder(S, before)[n]
                = CHOOSE i \in S : Cardinality(Before(S, before, i)) = n - 1
<1> DEFINE member(n) == CHOOSE i \in S : Cardinality(Before(S, before, i)) = n - 1
<1>1. InOrder(S, before) = [n \in 1..Cardinality(S) |-> member(n)]
  BY DEF InOrder, Before
<1> SUFFICES /\ InOrder(S, before) = [n \in 1..Cardinality(S) |-> InOrder(S, before)[n]]
             /\ \A n \in 1..Cardinality(S) : InOrder(S, before)[n] = member(n)
  OBVIOUS
<1> HIDE DEF member
<1> QED
  BY <1>1

\* InOrder lists every member once, in the order.
LEMMA InOrderSorts ==
  ASSUME NEW S, IsFiniteSet(S), NEW before, StrictOrder(S, before)
  PROVE  /\ Cardinality(S) \in Nat
         /\ InOrder(S, before) \in [1..Cardinality(S) -> S]
         /\ \A i \in S : \E n \in 1..Cardinality(S) : InOrder(S, before)[n] = i
         /\ \A m, n \in 1..Cardinality(S) :
              m < n <=> <<InOrder(S, before)[m], InOrder(S, before)[n]>> \in before
<1> DEFINE N == Cardinality(S)
           order == InOrder(S, before)
           rank(i) == Cardinality(Before(S, before, i))
<1>1. N \in Nat
  BY FS_CardinalityType
<1>2. ASSUME NEW n \in 1..N
      PROVE  order[n] \in S /\ rank(order[n]) = n - 1
  <2>1. order[n] = CHOOSE i \in S : rank(i) = n - 1
    BY InOrderFunction
  <2>2. \E i \in S : rank(i) = n - 1
    BY RankBijective
  <2> QED
    BY <2>1, <2>2
<1>3. order \in [1..N -> S]
  <2>1. order = [n \in 1..N |-> order[n]]
    BY InOrderFunction
  <2> HIDE DEF N
  <2> QED
    BY <1>2, <2>1
<1>4. ASSUME NEW i \in S
      PROVE  \E n \in 1..N : order[n] = i
  <2>1. rank(i) \in 0..N - 1
    BY RankBijective
  <2>2. PICK n \in 1..N : rank(i) = n - 1
    <3> HIDE DEF N, rank
    <3> DEFINE n == rank(i) + 1
    <3>1. n \in 1..N /\ rank(i) = n - 1
      BY <1>1, <2>1
    <3> HIDE DEF n
    <3> QED
      BY <3>1
  <2>3. order[n] \in S /\ rank(order[n]) = n - 1
    BY <1>2
  <2>4. order[n] = i
    BY <2>2, <2>3, RankBijective
  <2> QED
    BY <2>4
<1>5. ASSUME NEW m \in 1..N, NEW n \in 1..N
      PROVE  m < n <=> <<order[m], order[n]>> \in before
  <2>1. /\ order[m] \in S /\ rank(order[m]) = m - 1
        /\ order[n] \in S /\ rank(order[n]) = n - 1
    BY <1>2
  <2>2. <<order[m], order[n]>> \in before => m - 1 < n - 1
    BY <2>1, RankMonotonic
  <2>3. <<order[n], order[m]>> \in before => n - 1 < m - 1
    BY <2>1, RankMonotonic
  <2>4. m # n => order[m] # order[n]
    BY <2>1
  <2>5. m \in Int /\ n \in Int
    BY <1>1
  <2>6. order[m] # order[n] => <<order[m], order[n]>> \in before \/ <<order[n], order[m]>> \in before
    BY <2>1 DEF StrictOrder
  <2> HIDE DEF order, rank
  <2> QED
    BY <2>2, <2>3, <2>4, <2>5, <2>6
<1> QED
  BY <1>1, <1>3, <1>4, <1>5

\* There is one way only to list the members in the order.
LEMMA InOrderUnique ==
  ASSUME NEW S, IsFiniteSet(S), NEW before, StrictOrder(S, before),
         NEW f \in [1..Cardinality(S) -> S],
         \A m, n \in 1..Cardinality(S) : m < n => <<f[m], f[n]>> \in before
  PROVE  InOrder(S, before) = f
<1> DEFINE N == Cardinality(S)
           rank(i) == Cardinality(Before(S, before, i))
<1>1. N \in Nat
  BY FS_CardinalityType
<1>2. \A m, n \in 1..N : f[m] = f[n] => m = n
  <2> SUFFICES ASSUME NEW m \in 1..N, NEW n \in 1..N, m # n
               PROVE  f[m] # f[n]
    OBVIOUS
  <2>1. m < n \/ n < m
    BY <1>1
  <2> QED
    BY <2>1 DEF StrictOrder
<1>3. f \in Injection(1..N, S)
  BY <1>2 DEF Injection, IsInjective
<1>4. f \in Surjection(1..N, S)
  BY <1>1, <1>3, Initial, FS_Injection
<1>5. ASSUME NEW n \in 1..N
      PROVE  rank(f[n]) = n - 1
  <2> DEFINE g == [m \in 1..n - 1 |-> f[m]]
  <2>1. n - 1 \in Nat /\ 1..n - 1 \subseteq 1..N /\ \A m \in 1..n - 1 : m < n
    BY <1>1
  <2>2. ASSUME NEW j \in Before(S, before, f[n])
        PROVE  \E m \in 1..n - 1 : f[m] = j
    <3>1. j \in S /\ <<j, f[n]>> \in before
      BY DEF Before
    <3>2. PICK m \in 1..N : f[m] = j
      BY <1>4, <3>1 DEF Surjection
    <3>3. ~(n < m)
      <4> SUFFICES ASSUME n < m PROVE FALSE
        OBVIOUS
      <4>1. <<f[n], f[m]>> \in before
        OBVIOUS
      <4> QED
        BY <3>1, <3>2, <4>1 DEF StrictOrder
    <3>4. m # n
      BY <3>1, <3>2 DEF StrictOrder
    <3>5. m \in 1..n - 1
      BY <1>1, <3>3, <3>4
    <3> QED
      BY <3>2, <3>5
  <2>3. \A m \in 1..n - 1 : f[m] \in Before(S, before, f[n])
    BY <2>1 DEF Before
  <2>4. g \in Bijection(1..n - 1, Before(S, before, f[n]))
    BY <1>2, <2>1, <2>2, <2>3 DEF Bijection, Injection, Surjection, IsInjective
  <2>5. Cardinality(1..n - 1) = n - 1 /\ IsFiniteSet(1..n - 1)
    BY <2>1, Initial
  <2> QED
    BY <2>4, <2>5, FS_Bijection DEF ExistsBijection
<1>6. ASSUME NEW n \in 1..N
      PROVE  InOrder(S, before)[n] = f[n]
  <2>1. InOrder(S, before)[n] = CHOOSE i \in S : rank(i) = n - 1
    BY InOrderFunction
  <2>2. \A i \in S : rank(i) = n - 1 => i = f[n]
    BY <1>5, RankBijective
  <2>3. f[n] \in S /\ rank(f[n]) = n - 1
    BY <1>5
  <2> HIDE DEF rank
  <2>4. (CHOOSE i \in S : rank(i) = n - 1) \in S /\ rank(CHOOSE i \in S : rank(i) = n - 1) = n - 1
    BY <2>3
  <2> QED
    BY <2>1, <2>2, <2>4
<1>7. InOrder(S, before) = [n \in 1..N |-> InOrder(S, before)[n]]
  BY InOrderFunction
<1>8. f = [n \in 1..N |-> f[n]]
  OBVIOUS
<1> QED
  BY <1>6, <1>7, <1>8

\* Two sets that a function maps onto each other and that keeps the order are
\* listed alike.
LEMMA InOrderMapped ==
  ASSUME NEW S, IsFiniteSet(S), NEW before, StrictOrder(S, before),
         NEW T, IsFiniteSet(T), NEW first, StrictOrder(T, first),
         NEW p \in [T -> S],
         \A i \in S : \E t \in T : p[t] = i,
         \A t, u \in T : <<t, u>> \in first => <<p[t], p[u]>> \in before
  PROVE  /\ Cardinality(T) = Cardinality(S)
         /\ \A n \in 1..Cardinality(S) : InOrder(S, before)[n] = p[InOrder(T, first)[n]]
<1>1. ASSUME NEW t \in T, NEW u \in T, p[t] = p[u]
      PROVE  t = u
  BY <1>1 DEF StrictOrder
<1>2. p \in Bijection(T, S)
  BY <1>1 DEF Bijection, Injection, Surjection, IsInjective
<1>3. Cardinality(T) = Cardinality(S)
  BY <1>2, FS_Bijection DEF ExistsBijection
<1> DEFINE f == [n \in 1..Cardinality(S) |-> p[InOrder(T, first)[n]]]
<1>4. /\ InOrder(T, first) \in [1..Cardinality(S) -> T]
      /\ \A m, n \in 1..Cardinality(S) :
           m < n => <<InOrder(T, first)[m], InOrder(T, first)[n]>> \in first
  BY <1>3, InOrderSorts
<1>5. f \in [1..Cardinality(S) -> S]
  BY <1>4
<1>6. \A m, n \in 1..Cardinality(S) : m < n => <<f[m], f[n]>> \in before
  BY <1>4
<1> HIDE DEF f
<1>7. InOrder(S, before) = f
  BY <1>5, <1>6, InOrderUnique
<1> QED
  BY <1>3, <1>7 DEF f

-----------------------------------------------------------------------------
(* The two orders, and what Keep keeps. *)

LEMMA LowerOrder ==
  ASSUME NEW S \in SUBSET Int
  PROVE  StrictOrder(S, Lower(S))
BY DEF StrictOrder, Lower

Entry == [key : Key, week : Week, value : Value \union {Missing}]

LEMMA LogFacts ==
  ASSUME NEW log \in Seq(Entry)
  PROVE  /\ DOMAIN log \subseteq Int
         /\ IsFiniteSet(DOMAIN log)
         /\ \A i \in DOMAIN log : log[i] \in Entry /\ log[i].week \in Int
<1>1. Len(log) \in Nat /\ DOMAIN log = 1..Len(log) /\ \A i \in DOMAIN log : log[i] \in Entry
  OBVIOUS
<1>2. IsFiniteSet(1..Len(log))
  BY <1>1, Initial
<1>3. \A e \in Entry : e.week \in Int
  <2> SUFFICES ASSUME NEW e \in Entry
               PROVE  e.week \in Int
    OBVIOUS
  <2>1. e.week \in Week
    BY DEF Entry
  <2>2. Week \subseteq Int
    BY TrendsAssumption
  <2> QED
    BY <2>1, <2>2
<1> QED
  BY <1>1, <1>2, <1>3

LEMMA OldestOrder ==
  ASSUME NEW log \in Seq(Entry), NEW S \in SUBSET DOMAIN log
  PROVE  StrictOrder(S, OldestFirst(log, S))
<1>1. \A i \in S : i \in Int /\ log[i].week \in Int
  BY LogFacts
<1>2. \A i \in S : <<i, i>> \notin OldestFirst(log, S)
  BY <1>1 DEF OldestFirst
<1>3. ASSUME NEW i \in S, NEW j \in S, NEW l \in S,
             <<i, j>> \in OldestFirst(log, S), <<j, l>> \in OldestFirst(log, S)
      PROVE  <<i, l>> \in OldestFirst(log, S)
  BY <1>1, <1>3 DEF OldestFirst
<1>4. ASSUME NEW i \in S, NEW j \in S, i # j
      PROVE  <<i, j>> \in OldestFirst(log, S) \/ <<j, i>> \in OldestFirst(log, S)
  BY <1>1, <1>4 DEF OldestFirst
<1> QED
  BY <1>2, <1>3, <1>4 DEF StrictOrder

\* Positions keep their order, and every position of S is kept.
LEMMA KeepFacts ==
  ASSUME NEW seq, NEW S \in SUBSET Int, IsFiniteSet(S)
  PROVE  /\ Cardinality(S) \in Nat
         /\ DOMAIN Keep(seq, S) = 1..Cardinality(S)
         /\ Len(Keep(seq, S)) = Cardinality(S)
         /\ InOrder(S, Lower(S)) \in [1..Cardinality(S) -> S]
         /\ \A n \in 1..Cardinality(S) : Keep(seq, S)[n] = seq[InOrder(S, Lower(S))[n]]
         /\ \A i \in S : \E n \in 1..Cardinality(S) : InOrder(S, Lower(S))[n] = i
         /\ \A m, n \in 1..Cardinality(S) :
              m < n <=> InOrder(S, Lower(S))[m] < InOrder(S, Lower(S))[n]
<1> DEFINE order == InOrder(S, Lower(S))
<1>1. /\ Cardinality(S) \in Nat
      /\ order \in [1..Cardinality(S) -> S]
      /\ \A i \in S : \E n \in 1..Cardinality(S) : order[n] = i
      /\ \A m, n \in 1..Cardinality(S) : m < n <=> <<order[m], order[n]>> \in Lower(S)
  BY LowerOrder, InOrderSorts
<1>2. Keep(seq, S) = [n \in 1..Cardinality(S) |-> seq[order[n]]]
  BY DEF Keep
<1> HIDE DEF order
<1>3. \A m, n \in 1..Cardinality(S) : <<order[m], order[n]>> \in Lower(S) <=> order[m] < order[n]
  BY <1>1 DEF Lower
<1>4. DOMAIN Keep(seq, S) = 1..Cardinality(S) /\ Len(Keep(seq, S)) = Cardinality(S)
  BY <1>1, <1>2
<1> QED
  BY <1>1, <1>2, <1>3, <1>4 DEF order

LEMMA KeepType ==
  ASSUME NEW seq, NEW S \in SUBSET Int, IsFiniteSet(S), NEW T, \A i \in S : seq[i] \in T
  PROVE  Keep(seq, S) \in Seq(T)
<1> DEFINE order == InOrder(S, Lower(S))
<1>1. Cardinality(S) \in Nat /\ order \in [1..Cardinality(S) -> S]
  BY KeepFacts
<1>2. Keep(seq, S) = [n \in 1..Cardinality(S) |-> seq[order[n]]]
  BY DEF Keep
<1> HIDE DEF order
<1>3. \A n \in 1..Cardinality(S) : seq[order[n]] \in T
  BY <1>1
<1>4. [n \in 1..Cardinality(S) |-> seq[order[n]]] \in [1..Cardinality(S) -> T]
  BY <1>3
<1> QED
  BY <1>1, <1>2, <1>4

-----------------------------------------------------------------------------
(* Labels and counts. *)

\* The last MinConsecutive steps that are not flat are all counted, since no
\* step after the first of them goes against them.
LEMMA TrailingEnough ==
  ASSUME NEW T, NEW seq \in Seq(T), NEW d, d # "flat", Sustained(seq, d)
  PROVE  TrailingCount(seq, d) >= MinConsecutive
<1> DEFINE S == {i \in DOMAIN seq : seq[i] # "flat"}
           order == InOrder(S, Lower(S))
           N == Cardinality(S)
           counted == {i \in DOMAIN seq :
                         seq[i] = d /\ \A j \in i..Len(seq) : seq[j] \in {d, "flat"}}
           last == N - MinConsecutive + 1..N
<1>1. Len(seq) \in Nat /\ DOMAIN seq = 1..Len(seq) /\ MinConsecutive \in Nat
  BY TrendsAssumption
<1>2. S \in SUBSET Int /\ IsFiniteSet(DOMAIN seq) /\ IsFiniteSet(S) /\ S \subseteq DOMAIN seq
  BY <1>1, Initial, FS_Subset
<1>3. /\ N \in Nat
      /\ Len(NonFlat(seq)) = N
      /\ order \in [1..N -> S]
      /\ \A n \in 1..N : NonFlat(seq)[n] = seq[order[n]]
      /\ \A i \in S : \E n \in 1..N : order[n] = i
      /\ \A m, n \in 1..N : m < n <=> order[m] < order[n]
  <2>1. NonFlat(seq) = Keep(seq, S)
    BY DEF NonFlat
  <2> HIDE DEF S
  <2> QED
    BY <1>2, <2>1, KeepFacts
<1>4. N >= MinConsecutive /\ \A n \in last : NonFlat(seq)[n] = d
  BY <1>3 DEF Sustained
<1> HIDE DEF order, N
<1>5. last \subseteq 1..N
  BY <1>1, <1>3, <1>4
<1>6. ASSUME NEW n \in last
      PROVE  order[n] \in counted
  <2>1. n \in 1..N /\ order[n] \in S /\ seq[order[n]] = d
    BY <1>3, <1>4, <1>5
  <2>2. ASSUME NEW j \in order[n]..Len(seq), seq[j] # "flat"
        PROVE  seq[j] = d
    <3>1. j \in S /\ j \in Int /\ order[n] \in Int /\ order[n] <= j
      BY <1>1, <1>2, <2>1, <2>2
    <3>2. PICK m \in 1..N : order[m] = j
      BY <1>3, <3>1
    <3>3. ~(m < n)
      BY <1>3, <2>1, <3>1, <3>2
    <3>4. m \in last
      BY <1>1, <1>3, <2>1, <3>3
    <3> QED
      BY <1>3, <1>4, <1>5, <3>2, <3>4
  <2>3. \A j \in order[n]..Len(seq) : seq[j] \in {d, "flat"}
    BY <2>2
  <2> QED
    BY <1>2, <2>1, <2>3
<1> DEFINE f == [n \in last |-> order[n]]
<1>7. f \in Injection(last, counted)
  <2>1. f \in [last -> counted]
    BY <1>6
  <2>2. ASSUME NEW m \in last, NEW n \in last, f[m] = f[n]
        PROVE  m = n
    <3>1. m \in 1..N /\ n \in 1..N /\ order[m] = order[n] /\ order[m] \in Int
      BY <1>2, <1>3, <1>5, <2>2
    <3>2. ~(m < n) /\ ~(n < m)
      BY <1>3, <3>1
    <3> QED
      BY <1>3, <3>1, <3>2
  <2> QED
    BY <2>1, <2>2 DEF Injection, IsInjective
<1>8. IsFiniteSet(counted)
  <2>1. counted \subseteq DOMAIN seq
    OBVIOUS
  <2> QED
    BY <1>2, <2>1, FS_Subset
<1>9. Cardinality(last) = MinConsecutive
  <2>1. N - MinConsecutive + 1 \in Int /\ N \in Int
    BY <1>1, <1>3
  <2>2. Cardinality(last) = IF N - MinConsecutive + 1 > N THEN 0 ELSE N - (N - MinConsecutive + 1) + 1
    BY <2>1, FS_Interval
  <2> QED
    BY <1>1, <1>3, <2>2
<1>10. Cardinality(last) <= Cardinality(counted)
  BY <1>7, <1>8, FS_Injection
<1>11. TrailingCount(seq, d) = Cardinality(counted) /\ Cardinality(counted) \in Nat
  BY <1>8, FS_CardinalityType DEF TrailingCount
<1> QED
  BY <1>1, <1>9, <1>10, <1>11

\* The label tells which steps are the last (_classify).
LEMMA LabelSustained ==
  ASSUME NEW seq, NEW points
  PROVE  LET t == Classify(seq, points) IN
           /\ t.label = "rising" => Sustained(seq, "up") /\ t.consecutive = TrailingCount(seq, "up")
           /\ t.label = "falling" => Sustained(seq, "down") /\ t.consecutive = TrailingCount(seq, "down")
           /\ t.label = "recovering" => Recovers(seq)
BY DEF Classify, Result

\* What History is made of.
LEMMA HistoryFacts ==
  ASSUME NEW log \in Seq(Entry), NEW k, NEW before
  PROVE  LET S == Resolved(log, k, before)
             order == InOrder(S, OldestFirst(log, S))
             h == History(log, k, before)
         IN /\ S \in SUBSET DOMAIN log /\ IsFiniteSet(S)
            /\ Cardinality(S) \in Nat
            /\ Len(h) = Cardinality(S) /\ DOMAIN h = 1..Cardinality(S)
            /\ order \in [1..Cardinality(S) -> S]
            /\ \A i \in S : \E n \in 1..Cardinality(S) : order[n] = i
            /\ \A m, n \in 1..Cardinality(S) : m < n <=> <<order[m], order[n]>> \in OldestFirst(log, S)
            /\ \A n \in 1..Cardinality(S) :
                 h[n] = [week |-> log[order[n]].week, value |-> log[order[n]].value]
<1> DEFINE S == Resolved(log, k, before)
           order == InOrder(S, OldestFirst(log, S))
           h == History(log, k, before)
<1>1. S \in SUBSET DOMAIN log
  BY DEF Resolved, Lookback, Candidates
<1>2. h = [n \in 1..Cardinality(S) |->
             [week |-> log[order[n]].week, value |-> log[order[n]].value]]
  BY DEF History
<1> HIDE DEF S
<1>3. IsFiniteSet(S)
  BY <1>1, LogFacts, FS_Subset
<1>4. StrictOrder(S, OldestFirst(log, S))
  BY <1>1, OldestOrder
<1>5. /\ Cardinality(S) \in Nat
      /\ order \in [1..Cardinality(S) -> S]
      /\ \A i \in S : \E n \in 1..Cardinality(S) : order[n] = i
      /\ \A m, n \in 1..Cardinality(S) : m < n <=> <<order[m], order[n]>> \in OldestFirst(log, S)
  BY <1>3, <1>4, InOrderSorts
<1> HIDE DEF order, h
<1>6. /\ Len(h) = Cardinality(S) /\ DOMAIN h = 1..Cardinality(S)
      /\ \A n \in 1..Cardinality(S) :
           h[n] = [week |-> log[order[n]].week, value |-> log[order[n]].value]
  BY <1>2, <1>5
<1> QED
  BY <1>1, <1>3, <1>5, <1>6 DEF S, order, h

\* Every point of a history has a value.
LEMMA HistoryValues ==
  ASSUME NEW log \in Seq(Entry), NEW k, NEW before,
         NEW n \in 1..Len(History(log, k, before))
  PROVE  History(log, k, before)[n].value \in Value
<1> DEFINE S == Resolved(log, k, before)
           order == InOrder(S, OldestFirst(log, S))
<1>1. /\ order[n] \in S
      /\ History(log, k, before)[n].value = log[order[n]].value
  <2>1. /\ Len(History(log, k, before)) = Cardinality(S)
        /\ order \in [1..Cardinality(S) -> S]
        /\ \A m \in 1..Cardinality(S) :
             History(log, k, before)[m] = [week |-> log[order[m]].week, value |-> log[order[m]].value]
    BY HistoryFacts
  <2> HIDE DEF S, order
  <2>2. History(log, k, before)[n] = [week |-> log[order[n]].week, value |-> log[order[n]].value]
    BY <2>1
  <2> QED
    BY <2>1, <2>2
<1>2. order[n] \in DOMAIN log /\ log[order[n]].value # Missing
  BY <1>1 DEF Resolved, Lookback, Candidates
<1>3. log[order[n]] \in Entry
  BY <1>2, LogFacts
<1> HIDE DEF order
<1> QED
  BY <1>1, <1>2, <1>3 DEF Entry

\* The steps of a history: one for each value but the first, after one that is
\* not 0.
LEMMA DirectionsFacts ==
  ASSUME NEW h, Len(h) \in Nat
  PROVE  /\ Directions(h) \in Seq({"up", "down", "flat"})
         /\ \A m \in DOMAIN Directions(h) :
              \E n \in 1..Len(h) - 1 :
                h[n].value # 0 /\ Directions(h)[m] = Direction(h[n].value, h[n + 1].value)
<1> DEFINE step == [n \in 1..Len(h) - 1 |-> Direction(h[n].value, h[n + 1].value)]
           S == {n \in 1..Len(h) - 1 : h[n].value # 0}
           order == InOrder(S, Lower(S))
<1>1. Directions(h) = Keep(step, S)
  BY DEF Directions
<1>2. S \in SUBSET Int /\ IsFiniteSet(S)
  <2>1. IsFiniteSet(1..Len(h) - 1)
    BY FS_Interval
  <2>2. S \subseteq 1..Len(h) - 1
    OBVIOUS
  <2> QED
    BY <2>1, <2>2, FS_Subset
<1>3. \A i \in S : step[i] \in {"up", "down", "flat"}
  BY DEF Direction
<1>4. \A i \in S : i \in 1..Len(h) - 1 /\ h[i].value # 0 /\ step[i] = Direction(h[i].value, h[i + 1].value)
  OBVIOUS
<1> HIDE DEF step, S
<1>5. Keep(step, S) \in Seq({"up", "down", "flat"})
  BY <1>2, <1>3, KeepType
<1>6. \A m \in DOMAIN Keep(step, S) : order[m] \in S /\ Keep(step, S)[m] = step[order[m]]
  BY <1>2, KeepFacts
<1> HIDE DEF order
<1> QED
  BY <1>1, <1>4, <1>5, <1>6

\* Where no week was run twice, the steps that are counted lead to so many weeks.
LEMMA StepsAreWeeks ==
  ASSUME NEW h, Len(h) \in Nat, DOMAIN h = 1..Len(h), RunOnce(h), NEW d
  PROVE  TrailingCount(Directions(h), d) = Cardinality(WeeksMoved(h, d))
<1> DEFINE way(n) == Direction(h[n].value, h[n + 1].value)
           step == [n \in 1..Len(h) - 1 |-> way(n)]
           S == {n \in 1..Len(h) - 1 : h[n].value # 0}
           order == InOrder(S, Lower(S))
           N == Cardinality(S)
           seq == Directions(h)
           counted == {i \in DOMAIN seq :
                         seq[i] = d /\ \A j \in i..Len(seq) : seq[j] \in {d, "flat"}}
<1>1. S \in SUBSET Int /\ IsFiniteSet(S) /\ S \subseteq 1..Len(h) - 1
  <2>1. IsFiniteSet(1..Len(h) - 1)
    BY FS_Interval
  <2>2. S \subseteq 1..Len(h) - 1
    OBVIOUS
  <2> QED
    BY <2>1, <2>2, FS_Subset
<1>2. seq = Keep(step, S)
  BY DEF Directions
<1>3. \A n \in S : step[n] = way(n)
  OBVIOUS
<1>4. LastSteps(h, d) = {n \in S : way(n) = d /\ \A m \in S : m >= n => way(m) \in {d, "flat"}}
  BY DEF LastSteps
<1>5. \A n \in S : n \in Int /\ n + 1 \in DOMAIN h
  OBVIOUS
<1> HIDE DEF S, step, way, seq
<1>6. /\ N \in Nat /\ DOMAIN seq = 1..N /\ Len(seq) = N
      /\ order \in [1..N -> S]
      /\ \A n \in 1..N : seq[n] = step[order[n]]
      /\ \A i \in S : \E n \in 1..N : order[n] = i
      /\ \A m, n \in 1..N : m < n <=> order[m] < order[n]
  BY <1>1, <1>2, KeepFacts
<1> HIDE DEF order, N
<1>7. ASSUME NEW i \in counted
      PROVE  order[i] \in LastSteps(h, d)
  <2>1. i \in 1..N /\ order[i] \in S /\ way(order[i]) = d
    BY <1>3, <1>6
  <2>2. ASSUME NEW m \in S, m >= order[i]
        PROVE  way(m) \in {d, "flat"}
    <3>1. PICK j \in 1..N : order[j] = m
      BY <1>6
    <3>2. ~(j < i)
      BY <1>5, <1>6, <2>1, <2>2, <3>1
    <3>3. j \in i..Len(seq)
      BY <1>6, <2>1, <3>2
    <3> QED
      BY <1>3, <1>6, <3>1, <3>3
  <2> QED
    BY <1>4, <2>1, <2>2
<1>8. ASSUME NEW n \in LastSteps(h, d)
      PROVE  \E i \in counted : order[i] = n
  <2>1. n \in S /\ way(n) = d /\ \A m \in S : m >= n => way(m) \in {d, "flat"}
    BY <1>4
  <2>2. PICK i \in 1..N : order[i] = n
    BY <1>6, <2>1
  <2>3. ASSUME NEW j \in i..Len(seq)
        PROVE  seq[j] \in {d, "flat"}
    <3>1. j \in 1..N /\ ~(j < i)
      BY <1>6, <2>2
    <3>2. order[j] \in S /\ order[j] \in Int /\ order[i] \in Int /\ ~(order[j] < order[i])
      BY <1>5, <1>6, <2>1, <2>2, <3>1
    <3>3. order[j] >= n
      BY <2>2, <3>2
    <3> QED
      BY <1>3, <1>6, <2>1, <3>1, <3>2, <3>3
  <2>4. seq[i] = d
    BY <1>3, <1>6, <2>1, <2>2
  <2> QED
    BY <1>6, <2>2, <2>3, <2>4
<1> DEFINE f == [i \in counted |-> h[order[i] + 1].week]
<1>9. f \in [counted -> WeeksMoved(h, d)]
  BY <1>7 DEF WeeksMoved
<1>10. \A w \in WeeksMoved(h, d) : \E i \in counted : f[i] = w
  <2> SUFFICES ASSUME NEW n \in LastSteps(h, d)
               PROVE  \E i \in counted : f[i] = h[n + 1].week
    BY DEF WeeksMoved
  <2>1. PICK i \in counted : order[i] = n
    BY <1>8
  <2> QED
    BY <2>1
<1>11. ASSUME NEW i \in counted, NEW j \in counted, f[i] = f[j]
       PROVE  i = j
  <2>1. i \in 1..N /\ j \in 1..N /\ order[i] \in S /\ order[j] \in S
    BY <1>6
  <2>2. order[i] + 1 = order[j] + 1
    BY <1>5, <1>11, <2>1 DEF RunOnce
  <2>3. order[i] = order[j] /\ order[i] \in Int
    BY <1>5, <2>1, <2>2
  <2>4. ~(i < j) /\ ~(j < i)
    BY <1>6, <2>1, <2>3
  <2> QED
    BY <1>6, <2>1, <2>4
<1>12. IsFiniteSet(counted)
  <2>1. counted \subseteq 1..N
    BY <1>6
  <2> QED
    BY <1>6, <2>1, Initial, FS_Subset
<1> HIDE DEF f, counted
<1>13. f \in Bijection(counted, WeeksMoved(h, d))
  BY <1>9, <1>10, <1>11 DEF Bijection, Injection, Surjection, IsInjective
<1>14. Cardinality(counted) = Cardinality(WeeksMoved(h, d))
  BY <1>12, <1>13, FS_Bijection DEF ExistsBijection
<1> QED
  BY <1>14 DEF TrailingCount, counted, seq

LEMMA ClassifiedEnough ==
  ASSUME NEW h, Len(h) \in Nat, DOMAIN h = 1..Len(h), RunOnce(h),
         TrendOf(h).label \in {"rising", "falling"}
  PROVE  LET d == IF TrendOf(h).label = "rising" THEN "up" ELSE "down" IN
           /\ TrendOf(h).consecutive = Cardinality(WeeksMoved(h, d))
           /\ TrendOf(h).consecutive >= MinConsecutive
<1> DEFINE d == IF TrendOf(h).label = "rising" THEN "up" ELSE "down"
<1>1. TrendOf(h) = Classify(Directions(h), Len(h))
  BY DEF TrendOf
<1>2. Sustained(Directions(h), d) /\ TrendOf(h).consecutive = TrailingCount(Directions(h), d)
  BY <1>1, LabelSustained
<1>3. d # "flat"
  OBVIOUS
<1> HIDE DEF d
<1>4. TrailingCount(Directions(h), d) >= MinConsecutive
  BY <1>2, <1>3, DirectionsFacts, TrailingEnough
<1>5. TrailingCount(Directions(h), d) = Cardinality(WeeksMoved(h, d))
  BY StepsAreWeeks
<1> QED
  BY <1>2, <1>4, <1>5 DEF d

\* A step from a positive value that does not fall is not "down".
LEMMA GrowingStep ==
  ASSUME NEW prev \in Nat, NEW curr \in Nat, prev # 0, prev <= curr
  PROVE  Direction(prev, curr) # "down"
<1>1. prev > 0 /\ StableBand \in Nat
  BY TrendsAssumption
<1> DEFINE change == 100 * (curr - prev)
           low == (0 - StableBand) * prev
<1>2. change >= 0 /\ change \in Int
  OBVIOUS
<1>3. low <= 0 /\ low \in Int
  <2>1. StableBand * prev \in Nat /\ low = 0 - StableBand * prev
    BY <1>1
  <2> QED
    BY <2>1
<1>4. ~(change < low)
  <2> HIDE DEF change, low
  <2> QED
    BY <1>2, <1>3
<1>5. Direction(prev, curr) =
        IF change > StableBand * prev THEN "up" ELSE IF change < low THEN "down" ELSE "flat"
  BY <1>1 DEF Direction
<1> QED
  BY <1>4, <1>5

\* Without a step down no label speaks of one.
LEMMA NoStepDown ==
  ASSUME NEW T, NEW seq \in Seq(T), \A i \in DOMAIN seq : seq[i] # "down"
  PROVE  ~Sustained(seq, "down") /\ ~Recovers(seq)
<1> DEFINE S == {i \in DOMAIN seq : seq[i] # "flat"}
           nf == NonFlat(seq)
<1>1. S \in SUBSET Int /\ IsFiniteSet(S) /\ \A i \in S : seq[i] # "down"
  <2>1. Len(seq) \in Nat /\ DOMAIN seq = 1..Len(seq)
    OBVIOUS
  <2> QED
    BY <2>1, Initial, FS_Subset
<1>2. nf = Keep(seq, S)
  BY DEF NonFlat
<1> HIDE DEF S, nf
<1>3. Len(nf) \in Nat /\ \A n \in 1..Len(nf) : nf[n] # "down"
  <2> DEFINE order == InOrder(S, Lower(S))
  <2>1. /\ Cardinality(S) \in Nat /\ Len(nf) = Cardinality(S)
        /\ order \in [1..Cardinality(S) -> S]
        /\ \A n \in 1..Cardinality(S) : nf[n] = seq[order[n]]
    BY <1>1, <1>2, KeepFacts
  <2> HIDE DEF order
  <2> QED
    BY <1>1, <2>1
<1>4. ~Sustained(seq, "down")
  <2> SUFFICES ASSUME Len(nf) >= MinConsecutive,
                      \A i \in Len(nf) - MinConsecutive + 1..Len(nf) : nf[i] = "down"
               PROVE  FALSE
    BY DEF Sustained, nf
  <2>1. MinConsecutive \in Nat /\ MinConsecutive >= 1
    BY TrendsAssumption
  <2>2. Len(nf) \in Len(nf) - MinConsecutive + 1..Len(nf) /\ Len(nf) \in 1..Len(nf)
    BY <1>3, <2>1
  <2> QED
    BY <1>3, <2>2
<1>5. ~Recovers(seq)
  <2> SUFFICES ASSUME Len(nf) >= 2, nf[Len(nf) - 1] = "down"
               PROVE  FALSE
    BY DEF Recovers, nf
  <2>1. Len(nf) - 1 \in 1..Len(nf)
    BY <1>3
  <2> QED
    BY <1>3, <2>1
<1> QED
  BY <1>4, <1>5

-----------------------------------------------------------------------------
(* The index and the properties of the trends taken from it. *)

TypeOK == entries \in Seq(Entry)

LEMMA TypeStep == TypeOK /\ [Next]_entries => TypeOK'
<1> SUFFICES ASSUME TypeOK, [Next]_entries
             PROVE  TypeOK'
  OBVIOUS
<1>1. ASSUME NEW k \in Key, NEW w \in Week, NEW v \in Value, Register(k, w, v)
      PROVE  TypeOK'
  <2>1. [key |-> k, week |-> w, value |-> v] \in Entry
    BY DEF Entry
  <2> QED
    BY <1>1, <2>1, AppendProperties DEF TypeOK, Register
<1>2. ASSUME NEW i \in DOMAIN entries, DeleteFindings(i)
      PROVE  TypeOK'
  <2>1. [entries[i] EXCEPT !.value = Missing] \in Entry
    <3>1. entries[i] \in Entry
      BY DEF TypeOK
    <3> QED
      BY <3>1 DEF Entry
  <2>2. entries' = [entries EXCEPT ![i] = [entries[i] EXCEPT !.value = Missing]]
    BY <1>2 DEF DeleteFindings
  <2> QED
    BY <2>1, <2>2 DEF TypeOK
<1>3. CASE UNCHANGED entries
  BY <1>3 DEF TypeOK
<1> QED
  BY <1>1, <1>2, <1>3 DEF Next

\* The index is a sequence of complete records (history/store.py 103-113).
THEOREM EntriesTyped == Spec => []TypeOK
<1>1. Init => TypeOK
  BY DEF Init, TypeOK
<1> QED
  BY <1>1, TypeStep, PTL DEF Spec

\* Where no week was run twice, a metric called rising or falling has moved that
\* way in weeks_consecutive different weeks, min_consecutive at least
\* (history/trends.py 140-152, 162-170).
THEOREM CountsEnough == Spec => []ConsecutiveEnough
<1>1. TypeOK => ConsecutiveEnough
  <2> SUFFICES ASSUME TypeOK, NEW a \in Analysed, NEW h, h = History(entries, a[1], a[2]),
                      TrendOf(h).label \in {"rising", "falling"}, RunOnce(h)
               PROVE  LET d == IF TrendOf(h).label = "rising" THEN "up" ELSE "down" IN
                        /\ TrendOf(h).consecutive = Cardinality(WeeksMoved(h, d))
                        /\ TrendOf(h).consecutive >= MinConsecutive
    BY DEF ConsecutiveEnough
  <2>1. Len(h) \in Nat /\ DOMAIN h = 1..Len(h)
    BY HistoryFacts DEF TypeOK
  <2> QED
    BY <2>1, ClassifiedEnough
<1> QED
  BY <1>1, EntriesTyped, PTL

\* A metric that only grows from 0 or more is neither falling nor recovering
\* (history/trends.py 89-159).
THEOREM GrowthIsNotAFall == Spec => []GrowthNeverFalls
<1>1. TypeOK => GrowthNeverFalls
  <2> SUFFICES ASSUME TypeOK, NEW a \in Analysed, NEW h, h = History(entries, a[1], a[2]),
                      \A n \in 1..Len(h) - 1 : 0 <= h[n].value /\ h[n].value <= h[n + 1].value
               PROVE  TrendOf(h).label \notin {"falling", "recovering"}
    BY DEF GrowthNeverFalls
  <2>1. Len(h) \in Nat
    BY HistoryFacts DEF TypeOK
  <2>2. \A n \in 1..Len(h) : h[n].value \in Int
    <3>1. \A n \in 1..Len(h) : h[n].value \in Value
      BY HistoryValues DEF TypeOK
    <3> QED
      BY <3>1, TrendsAssumption
  <2>3. ASSUME NEW m \in DOMAIN Directions(h)
        PROVE  Directions(h)[m] # "down"
    <3>1. PICK n \in 1..Len(h) - 1 :
            h[n].value # 0 /\ Directions(h)[m] = Direction(h[n].value, h[n + 1].value)
      BY <2>1, DirectionsFacts
    <3>2. n \in 1..Len(h) /\ n + 1 \in 1..Len(h)
      BY <2>1
    <3>3. h[n].value \in Int /\ h[n + 1].value \in Int
      BY <2>2, <3>2
    <3>4. h[n].value \in Nat /\ h[n + 1].value \in Nat /\ h[n].value <= h[n + 1].value
      BY <3>3
    <3> QED
      BY <3>1, <3>4, GrowingStep
  <2>4. ~Sustained(Directions(h), "down") /\ ~Recovers(Directions(h))
    BY <2>1, <2>3, DirectionsFacts, NoStepDown
  <2> QED
    BY <2>4, LabelSustained DEF TrendOf
<1> QED
  BY <1>1, EntriesTyped, PTL

-----------------------------------------------------------------------------
(* The history of a part of the index. *)

\* A part of the index is an index; a record keeps its contents and, among the
\* others, its place.
LEMMA PartFacts ==
  ASSUME NEW log \in Seq(Entry), NEW E \in SUBSET DOMAIN log
  PROVE  LET order == InOrder(E, Lower(E)) IN
           /\ Cardinality(E) \in Nat
           /\ Keep(log, E) \in Seq(Entry)
           /\ DOMAIN Keep(log, E) = 1..Cardinality(E)
           /\ order \in [1..Cardinality(E) -> E]
           /\ \A i \in E : \E n \in 1..Cardinality(E) : order[n] = i
           /\ \A n \in 1..Cardinality(E) : Keep(log, E)[n] = log[order[n]]
           /\ \A m, n \in 1..Cardinality(E) : m < n <=> order[m] < order[n]
<1>1. E \in SUBSET Int /\ IsFiniteSet(E) /\ \A i \in E : log[i] \in Entry
  BY LogFacts, FS_Subset
<1>2. Keep(log, E) \in Seq(Entry)
  BY <1>1, KeepType
<1> DEFINE order == InOrder(E, Lower(E))
<1>3. /\ Cardinality(E) \in Nat
      /\ DOMAIN Keep(log, E) = 1..Cardinality(E)
      /\ order \in [1..Cardinality(E) -> E]
      /\ \A i \in E : \E n \in 1..Cardinality(E) : order[n] = i
      /\ \A n \in 1..Cardinality(E) : Keep(log, E)[n] = log[order[n]]
      /\ \A m, n \in 1..Cardinality(E) : m < n <=> order[m] < order[n]
  <2>1. E \in SUBSET Int /\ IsFiniteSet(E)
    BY <1>1
  <2> QED
    BY ONLY <2>1, KeepFacts
<1> HIDE DEF order
<1> QED
  BY <1>2, <1>3 DEF order

\* A part that holds everything newer than its own candidates has their lookback.
LEMMA PartLookback ==
  ASSUME NEW log \in Seq(Entry), NEW E \in SUBSET DOMAIN log, NEW k, NEW before \in Int,
         \A i \in Candidates(log, k, before) \intersect E :
           \A j \in Candidates(log, k, before) : NewestFirst(log, j, i) => j \in E,
         NEW n \in 1..Cardinality(E)
  PROVE  n \in Lookback(Keep(log, E), k, before)
           <=> InOrder(E, Lower(E))[n] \in Lookback(log, k, before)
<1> DEFINE sub == Keep(log, E)
           order == InOrder(E, Lower(E))
           N == Cardinality(E)
           C == Candidates(log, k, before)
           D == Candidates(sub, k, before)
           newer(i) == {j \in C : NewestFirst(log, j, i)}
           newerD(m) == {j \in D : NewestFirst(sub, j, m)}
<1>1. /\ N \in Nat /\ DOMAIN sub = 1..N /\ order \in [1..N -> E]
      /\ \A i \in E : \E m \in 1..N : order[m] = i
      /\ \A m \in 1..N : sub[m] = log[order[m]]
      /\ \A l, m \in 1..N : l < m <=> order[l] < order[m]
  BY PartFacts
<1>2. \A m \in 1..N : m \in D <=> order[m] \in C
  <2> HIDE DEF sub, order, N
  <2> QED
    BY <1>1 DEF Candidates
<1>3. \A l, m \in 1..N : NewestFirst(sub, l, m) <=> NewestFirst(log, order[l], order[m])
  <2> HIDE DEF sub, order, N
  <2> QED
    BY <1>1 DEF NewestFirst
<1>4. D \subseteq 1..N /\ C \subseteq DOMAIN log
  BY <1>1 DEF Candidates
<1> n \in 1..N
  OBVIOUS
<1>5. n \in Lookback(sub, k, before) <=> n \in D /\ Cardinality(newerD(n)) < NWeeks
  BY DEF Lookback
<1>6. order[n] \in Lookback(log, k, before)
        <=> order[n] \in C /\ Cardinality(newer(order[n])) < NWeeks
  BY DEF Lookback
<1> HIDE DEF sub, order, N, C, D
<1>7. ASSUME order[n] \in C
      PROVE  Cardinality(newerD(n)) = Cardinality(newer(order[n]))
  <2>1. order[n] \in C \intersect E
    BY <1>1, <1>7
  <2>2. \A j \in newer(order[n]) : j \in E
    BY <2>1 DEF C
  <2>3. \A l \in newerD(n) : l \in 1..N /\ order[l] \in newer(order[n])
    BY <1>2, <1>3, <1>4
  <2>4. ASSUME NEW j \in newer(order[n])
        PROVE  \E l \in newerD(n) : order[l] = j
    <3>1. PICK l \in 1..N : order[l] = j
      BY <1>1, <2>2
    <3>2. l \in newerD(n)
      BY <1>2, <1>3, <3>1
    <3> QED
      BY <3>1, <3>2
  <2> DEFINE f == [l \in newerD(n) |-> order[l]]
  <2>5. f \in [newerD(n) -> newer(order[n])]
    BY <2>3
  <2>6. ASSUME NEW l \in newerD(n), NEW m \in newerD(n), f[l] = f[m]
        PROVE  l = m
    <3>1. l \in 1..N /\ m \in 1..N /\ order[l] = order[m]
      BY <2>3, <2>6
    <3>2. order[l] \in Int /\ order[m] \in Int
      BY <1>1, <3>1, LogFacts
    <3>3. ~(l < m) /\ ~(m < l)
      BY <1>1, <3>1, <3>2
    <3> QED
      BY <1>1, <3>1, <3>3
  <2>7. \A j \in newer(order[n]) : \E l \in newerD(n) : f[l] = j
    BY <2>4
  <2> HIDE DEF f, newer, newerD
  <2>8. f \in Bijection(newerD(n), newer(order[n]))
    BY <2>5, <2>6, <2>7 DEF Bijection, Injection, Surjection, IsInjective
  <2>9. IsFiniteSet(newerD(n))
    <3>1. newerD(n) \subseteq 1..N
      BY <2>3
    <3> QED
      BY <1>1, <3>1, Initial, FS_Subset
  <2> QED
    BY <2>8, <2>9, FS_Bijection DEF ExistsBijection
<1>8. n \in D <=> order[n] \in C
  BY <1>2
<1> QED
  BY <1>5, <1>6, <1>7, <1>8 DEF sub, order

Point(e) == [week |-> e.week, value |-> e.value]

\* The points of the runs in S, oldest first.
PointsOf(log, S) ==
  [n \in 1..Cardinality(S) |-> Point(log[InOrder(S, OldestFirst(log, S))[n]])]

\* The history of such a part lists the resolved runs that are in the part.
LEMMA PartHistory ==
  ASSUME NEW log \in Seq(Entry), NEW E \in SUBSET DOMAIN log, NEW k, NEW before \in Int,
         \A i \in Candidates(log, k, before) \intersect E :
           \A j \in Candidates(log, k, before) : NewestFirst(log, j, i) => j \in E
  PROVE  History(Keep(log, E), k, before) = PointsOf(log, Resolved(log, k, before) \intersect E)
<1> DEFINE sub == Keep(log, E)
           place == InOrder(E, Lower(E))
           N == Cardinality(E)
           S == Resolved(log, k, before) \intersect E
           T == Resolved(sub, k, before)
           order == InOrder(S, OldestFirst(log, S))
           orderT == InOrder(T, OldestFirst(sub, T))
           p == [t \in T |-> place[t]]
<1>1. /\ N \in Nat /\ DOMAIN sub = 1..N /\ place \in [1..N -> E]
      /\ sub \in Seq(Entry)
      /\ \A i \in E : \E m \in 1..N : place[m] = i
      /\ \A m \in 1..N : sub[m] = log[place[m]]
      /\ \A l, m \in 1..N : l < m <=> place[l] < place[m]
  BY PartFacts
<1>2. ASSUME NEW n \in 1..N
      PROVE  n \in T <=> place[n] \in S
  <2>1. n \in Lookback(sub, k, before) <=> place[n] \in Lookback(log, k, before)
    BY PartLookback
  <2>2. n \in T <=> n \in Lookback(sub, k, before) /\ sub[n].value # Missing
    BY DEF Resolved
  <2>3. place[n] \in S <=> place[n] \in Lookback(log, k, before) /\ log[place[n]].value # Missing
    BY <1>1 DEF Resolved
  <2>4. sub[n] = log[place[n]]
    BY <1>1
  <2> QED
    BY <2>1, <2>2, <2>3, <2>4
<1>3. S \in SUBSET DOMAIN log /\ IsFiniteSet(S)
  BY LogFacts, FS_Subset
<1>4. T \in SUBSET DOMAIN sub /\ IsFiniteSet(T)
  <2>1. sub \in Seq(Entry)
    BY <1>1
  <2> HIDE DEF sub
  <2> QED
    BY <2>1, HistoryFacts
<1>5. StrictOrder(S, OldestFirst(log, S)) /\ StrictOrder(T, OldestFirst(sub, T))
  BY <1>1, <1>3, <1>4, OldestOrder
<1>6. History(sub, k, before)
        = [n \in 1..Cardinality(T) |->
             [week |-> sub[orderT[n]].week, value |-> sub[orderT[n]].value]]
  BY DEF History
<1>7. Cardinality(T) \in Nat /\ orderT \in [1..Cardinality(T) -> T]
  BY <1>4, <1>5, InOrderSorts
<1> HIDE DEF sub, place, N, S, T
<1>8. p \in [T -> S]
  BY <1>1, <1>2, <1>4
<1>9. \A i \in S : \E t \in T : p[t] = i
  <2> SUFFICES ASSUME NEW i \in S
               PROVE  \E t \in T : p[t] = i
    OBVIOUS
  <2>1. i \in E
    BY DEF S
  <2>2. PICK m \in 1..N : place[m] = i
    BY <1>1, <2>1
  <2> QED
    BY <1>2, <2>2
<1>10. \A t, u \in T :
         <<t, u>> \in OldestFirst(sub, T) => <<p[t], p[u]>> \in OldestFirst(log, S)
  <2> SUFFICES ASSUME NEW t \in T, NEW u \in T, <<t, u>> \in OldestFirst(sub, T)
               PROVE  <<p[t], p[u]>> \in OldestFirst(log, S)
    OBVIOUS
  <2>1. t \in 1..N /\ u \in 1..N /\ p[t] = place[t] /\ p[u] = place[u] /\ p[t] \in S /\ p[u] \in S
    BY <1>1, <1>4, <1>8
  <2>2. sub[t] = log[place[t]] /\ sub[u] = log[place[u]] /\ (t < u <=> place[t] < place[u])
    BY <1>1, <2>1
  <2> HIDE DEF p
  <2> QED
    BY <2>1, <2>2 DEF OldestFirst
<1>11. /\ Cardinality(T) = Cardinality(S)
       /\ \A n \in 1..Cardinality(S) : order[n] = p[orderT[n]]
  <2> HIDE DEF p
  <2> QED
    BY <1>3, <1>4, <1>5, <1>8, <1>9, <1>10, InOrderMapped
<1> HIDE DEF order, orderT
<1>12. ASSUME NEW n \in 1..Cardinality(S)
       PROVE  [week |-> sub[orderT[n]].week, value |-> sub[orderT[n]].value] = Point(log[order[n]])
  <2>1. orderT[n] \in T /\ orderT[n] \in 1..N
    BY <1>1, <1>4, <1>7, <1>11
  <2>2. sub[orderT[n]] = log[order[n]]
    BY <1>1, <1>11, <2>1
  <2> QED
    BY <2>2 DEF Point
<1>13. History(sub, k, before) = [n \in 1..Cardinality(S) |-> Point(log[order[n]])]
  BY <1>6, <1>11, <1>12
<1> QED
  BY <1>13 DEF sub, order, S, PointsOf

LEMMA AnalysedWeek ==
  ASSUME NEW a \in Analysed
  PROVE  a[2] \in Int
BY TrendsAssumption DEF Analysed

\* The history is the one of the log without other datasets, the week analysed
\* and later ones: "prevents rerun leakage" (history/trends.py 190-192).
THEOREM RerunsDoNotLeak == Spec => []NoLeakage
<1>1. TypeOK => NoLeakage
  <2> SUFFICES ASSUME TypeOK, NEW a \in Analysed
               PROVE  LET E == {i \in DOMAIN entries : entries[i].key = a[1] /\ entries[i].week < a[2]}
                      IN History(entries, a[1], a[2]) = History(Keep(entries, E), a[1], a[2])
    BY DEF NoLeakage
  <2> DEFINE E == {i \in DOMAIN entries : entries[i].key = a[1] /\ entries[i].week < a[2]}
             R == Resolved(entries, a[1], a[2])
  <2>1. E = Candidates(entries, a[1], a[2]) /\ E \in SUBSET DOMAIN entries
    BY DEF Candidates
  <2>2. R \intersect E = R
    BY <2>1 DEF Resolved, Lookback
  <2>3. entries \in Seq(Entry) /\ a[2] \in Int
    BY AnalysedWeek DEF TypeOK
  <2> HIDE DEF E
  <2>4. History(Keep(entries, E), a[1], a[2]) = PointsOf(entries, R \intersect E)
    BY <2>1, <2>3, PartHistory
  <2>5. History(entries, a[1], a[2]) = PointsOf(entries, R)
    BY DEF History, Point, PointsOf
  <2> QED
    BY <2>2, <2>4, <2>5 DEF E
<1> QED
  BY <1>1, EntriesTyped, PTL

\* The newer points of a history are those of the newer runs in it.
LEMMA NewerPart ==
  ASSUME NEW log \in Seq(Entry), NEW w \in Int, NEW k, NEW before
  PROVE  LET E == {i \in DOMAIN log : log[i].week > w}
             S == Resolved(log, k, before) \intersect E
         IN NewerThan(w, History(log, k, before)) = PointsOf(log, S)
<1> DEFINE E == {i \in DOMAIN log : log[i].week > w}
           R == Resolved(log, k, before)
           h == History(log, k, before)
           N == Cardinality(R)
           place == InOrder(R, OldestFirst(log, R))
           S == R \intersect E
           T == {n \in DOMAIN h : h[n].week > w}
           order == InOrder(S, OldestFirst(log, S))
           orderT == InOrder(T, Lower(T))
           p == [t \in T |-> place[t]]
<1>1. /\ R \in SUBSET DOMAIN log /\ IsFiniteSet(R) /\ N \in Nat
      /\ DOMAIN h = 1..N
      /\ place \in [1..N -> R]
      /\ \A i \in R : \E n \in 1..N : place[n] = i
      /\ \A m, n \in 1..N : m < n <=> <<place[m], place[n]>> \in OldestFirst(log, R)
      /\ \A n \in 1..N : h[n] = [week |-> log[place[n]].week, value |-> log[place[n]].value]
  BY HistoryFacts
<1>2. NewerThan(w, h) = [n \in 1..Cardinality(T) |-> h[orderT[n]]]
  BY DEF NewerThan, Keep
<1> HIDE DEF R, h, N, place
<1>3. S \in SUBSET DOMAIN log /\ IsFiniteSet(S) /\ S \subseteq R
  BY <1>1, FS_Subset
<1>4. T \subseteq 1..N /\ T \in SUBSET Int /\ IsFiniteSet(T)
  BY <1>1, Initial, FS_Subset
<1>5. StrictOrder(S, OldestFirst(log, S)) /\ StrictOrder(T, Lower(T))
  BY <1>3, <1>4, OldestOrder, LowerOrder
<1>6. \A n \in 1..N : h[n].week = log[place[n]].week /\ h[n] = Point(log[place[n]])
  BY <1>1 DEF Point
<1>7. \A n \in 1..N : n \in T <=> place[n] \in S
  BY <1>1, <1>6
<1>8. \A i, j \in S : <<i, j>> \in OldestFirst(log, R) => <<i, j>> \in OldestFirst(log, S)
  BY DEF OldestFirst
<1> HIDE DEF S, T
<1>9. p \in [T -> S]
  BY <1>4, <1>7
<1>10. \A i \in S : \E t \in T : p[t] = i
  <2> SUFFICES ASSUME NEW i \in S
               PROVE  \E t \in T : p[t] = i
    OBVIOUS
  <2>1. PICK n \in 1..N : place[n] = i
    BY <1>1, <1>3
  <2> QED
    BY <1>7, <2>1
<1>11. \A t, u \in T : <<t, u>> \in Lower(T) => <<p[t], p[u]>> \in OldestFirst(log, S)
  <2> SUFFICES ASSUME NEW t \in T, NEW u \in T, <<t, u>> \in Lower(T)
               PROVE  <<p[t], p[u]>> \in OldestFirst(log, S)
    OBVIOUS
  <2>1. t \in 1..N /\ u \in 1..N /\ t < u
    BY <1>4 DEF Lower
  <2>2. p[t] = place[t] /\ p[u] = place[u] /\ p[t] \in S /\ p[u] \in S
    BY <1>9
  <2>3. <<p[t], p[u]>> \in OldestFirst(log, R)
    BY <1>1, <2>1, <2>2
  <2> QED
    BY <1>8, <2>2, <2>3
<1>12. /\ Cardinality(T) = Cardinality(S)
       /\ \A n \in 1..Cardinality(S) : order[n] = p[orderT[n]]
  <2> HIDE DEF p, order, orderT
  <2>1. IsFiniteSet(S) /\ IsFiniteSet(T)
    BY <1>3, <1>4
  <2> QED
    BY ONLY <2>1, <1>5, <1>9, <1>10, <1>11, InOrderMapped DEF order, orderT
<1>13. Cardinality(T) \in Nat /\ orderT \in [1..Cardinality(T) -> T]
  BY <1>4, <1>5, InOrderSorts
<1> HIDE DEF order, orderT
<1>14. \A n \in 1..Cardinality(S) : h[orderT[n]] = Point(log[order[n]])
  BY <1>4, <1>6, <1>12, <1>13
<1>15. NewerThan(w, h) = [n \in 1..Cardinality(S) |-> Point(log[order[n]])]
  BY <1>2, <1>12, <1>14
<1> QED
  BY <1>15 DEF h, order, S, R, PointsOf

\* What the history says of the newer weeks does not depend on what is indexed
\* of an older week (history/store.py 219-221, 253).
THEOREM BackfillIsHarmless == Spec => []BackfillKeepsNewer
<1>1. TypeOK => BackfillKeepsNewer
  <2> SUFFICES ASSUME TypeOK, NEW a \in Analysed, NEW w \in Week
               PROVE  LET E == {i \in DOMAIN entries : entries[i].week > w}
                      IN NewerThan(w, History(entries, a[1], a[2]))
                           = History(Keep(entries, E), a[1], a[2])
    BY DEF BackfillKeepsNewer
  <2> DEFINE E == {i \in DOMAIN entries : entries[i].week > w}
             R == Resolved(entries, a[1], a[2])
  <2>1. entries \in Seq(Entry) /\ a[2] \in Int /\ w \in Int /\ E \in SUBSET DOMAIN entries
    BY AnalysedWeek, TrendsAssumption DEF TypeOK
  <2>2. ASSUME NEW i \in Candidates(entries, a[1], a[2]) \intersect E,
               NEW j \in Candidates(entries, a[1], a[2]), NewestFirst(entries, j, i)
        PROVE  j \in E
    <3>1. i \in E /\ i \in DOMAIN entries /\ j \in DOMAIN entries
      BY DEF Candidates
    <3>2. entries[i].week \in Int /\ entries[j].week \in Int
      BY <2>1, <3>1, LogFacts
    <3>3. entries[j].week >= entries[i].week
      BY <2>2, <3>2 DEF NewestFirst
    <3> QED
      BY <2>1, <3>1, <3>2, <3>3
  <2>3. NewerThan(w, History(entries, a[1], a[2]))
          = PointsOf(entries, R \intersect E)
    BY <2>1, NewerPart
  <2> HIDE DEF E
  <2>4. History(Keep(entries, E), a[1], a[2]) = PointsOf(entries, R \intersect E)
    BY <2>1, <2>2, PartHistory
  <2> QED
    BY <2>3, <2>4 DEF E
<1> QED
  BY <1>1, EntriesTyped, PTL
=============================================================================
