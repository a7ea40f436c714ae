-------------------------- MODULE RateLimiterProofs --------------------------
(***************************************************************************)
(* Proofs about RateLimiter for any limits, windows, addresses and steps   *)
(* back of the clock.                                                      *)
(***************************************************************************)
EXTENDS RateLimiter, FiniteSetTheorems, SequenceTheorems, TLAPS

\* A nonempty set of natural numbers has a smallest element.
LEMMA Smallest ==
  ASSUME NEW S \in SUBSET Nat, S # {}
  PROVE  \E i \in S : \A j \in S : i <= j
<1> DEFINE R == OpToRel(<, Nat)
<1>1. IsWellFoundedOn(R, Nat)
  BY NatLessThanWellFounded
<1>2. \A i, j \in Nat : i < j => <<i, j>> \in R
  BY DEF OpToRel
<1> HIDE DEF R
<1>3. PICK x \in S : \A y \in S : ~ (<<y, x>> \in R)
  BY <1>1, WFMin
<1>4. ASSUME NEW y \in S
      PROVE  x <= y
  <2>1. x \in Nat /\ y \in Nat
    OBVIOUS
  <2>2. ~(y < x)
    BY <1>2, <1>3, <2>1
  <2> QED
    BY <2>1, <2>2
<1> QED
  BY <1>4

-----------------------------------------------------------------------------
(***************************************************************************)
(* Windows and the requests they stand for.                                *)
(***************************************************************************)

Request == [ip : Ip, at : Nat]

\* What a log and a window are made of.
LEMMA LogFacts ==
  ASSUME NEW log \in Seq(Request)
  PROVE  /\ Len(log) \in Nat /\ DOMAIN log = 1..Len(log)
         /\ \A k \in DOMAIN log : log[k] \in Request /\ log[k].at \in Nat
<1>1. /\ Len(log) \in Nat /\ DOMAIN log = 1..Len(log)
      /\ log \in [1..Len(log) -> Request]
  BY LenProperties
<1> QED
  BY <1>1 DEF Request

LEMMA Initial ==
  ASSUME NEW n \in Nat
  PROVE  IsFiniteSet(1..n) /\ Cardinality(1..n) = n
<1>1. IsFiniteSet(1..n) /\ Cardinality(1..n) = IF 1 > n THEN 0 ELSE n - 1 + 1
  BY FS_Interval
<1> QED
  BY <1>1

LEMMA WindowFacts ==
  ASSUME NEW w \in Seq(Int)
  PROVE  Len(w) \in Nat /\ DOMAIN w = 1..Len(w) /\ \A i \in 1..Len(w) : w[i] \in Int
<1>1. Len(w) \in Nat /\ DOMAIN w = 1..Len(w) /\ w \in [1..Len(w) -> Int]
  BY LenProperties
<1> QED
  BY <1>1

\* Purge drops a prefix in which every instant is before the cutoff.
LEMMA PurgeSuffix ==
  ASSUME NEW T, T \subseteq Int, NEW w \in Seq(T), NEW cutoff \in Int
  PROVE  \E m \in 1..Len(w) + 1 :
           /\ Purge(w, cutoff) \in Seq(T)
           /\ Len(Purge(w, cutoff)) = Len(w) + 1 - m
           /\ \A i \in 1..Len(w) + 1 - m : Purge(w, cutoff)[i] = w[m + i - 1]
           /\ \A i \in 1..Len(w) : w[i] >= cutoff => m <= i
           /\ m <= Len(w) => w[m] >= cutoff
<1> DEFINE kept == {i \in DOMAIN w : w[i] >= cutoff}
<1>0. Len(w) \in Nat /\ DOMAIN w = 1..Len(w) /\ \A i \in 1..Len(w) : w[i] \in T
  BY LenProperties
<1>1. CASE kept = {}
  <2>1. Purge(w, cutoff) = <<>>
    BY <1>1 DEF Purge
  <2>2. Purge(w, cutoff) \in Seq(T) /\ Len(Purge(w, cutoff)) = 0
    BY <2>1, EmptySeq
  <2> WITNESS Len(w) + 1 \in 1..Len(w) + 1
  <2> QED
    BY <1>0, <1>1, <2>2
<1>2. CASE kept # {}
  <2> DEFINE m == CHOOSE i \in kept : \A j \in kept : i <= j
  <2>1. kept \in SUBSET Nat
    BY <1>0
  <2>2. m \in kept /\ \A j \in kept : m <= j
    BY <1>2, <2>1, Smallest
  <2>3. Purge(w, cutoff) = SubSeq(w, m, Len(w))
    BY <1>2 DEF Purge
  <2>4. m \in 1..Len(w) /\ w[m] >= cutoff
    BY <1>0, <2>2
  <2> HIDE DEF m
  <2>5. \A i \in m..Len(w) : w[i] \in T
    BY <1>0, <2>4
  <2>6. /\ SubSeq(w, m, Len(w)) \in Seq(T)
        /\ Len(SubSeq(w, m, Len(w))) = Len(w) - m + 1
        /\ \A i \in 1..Len(w) - m + 1 : SubSeq(w, m, Len(w))[i] = w[m + i - 1]
    BY <1>0, <2>4, <2>5, SubSeqProperties
  <2>7. \A i \in 1..Len(w) : w[i] >= cutoff => m <= i
    BY <1>0, <2>2
  <2>8. m \in 1..Len(w) + 1 /\ Len(w) - m + 1 = Len(w) + 1 - m
    BY <1>0, <2>4
  <2> QED
    BY <2>3, <2>4, <2>6, <2>7, <2>8
<1> QED
  BY <1>1, <1>2

\* f assigns to each instant of the window w the request of the log it stands
\* for: in order, an instant is off by at most the clock's lag, and no request
\* of these addresses since from is missing.
Match(f, w, ips, log, back, from) ==
  /\ f \in [1..Len(w) -> DOMAIN log]
  /\ \A i, j \in 1..Len(w) : i < j => f[i] < f[j]
  /\ \A i \in 1..Len(w) :
       log[f[i]].ip \in ips /\ log[f[i]].at - back <= w[i] /\ w[i] <= log[f[i]].at
  /\ \A k \in DOMAIN log :
       log[k].ip \in ips /\ log[k].at >= from => \E i \in 1..Len(w) : f[i] = k

Traces(w, ips, log, back, from) == \E f : Match(f, w, ips, log, back, from)

\* The trace holds on when time goes by or the clock is stepped back.
LEMMA TracesLater ==
  ASSUME NEW w \in Seq(Int), NEW ips, NEW log \in Seq(Request),
         NEW back \in Nat, NEW from \in Int, Traces(w, ips, log, back, from),
         NEW more \in Nat, back <= more, NEW later \in Int, from <= later
  PROVE  Traces(w, ips, log, more, later)
<1>1. PICK f : Match(f, w, ips, log, back, from)
  BY DEF Traces
<1>2. \A k \in DOMAIN log : log[k].at \in Nat
  BY LogFacts
<1>3. \A i \in 1..Len(w) : w[i] \in Int
  BY WindowFacts
<1>4. \A i \in 1..Len(w) :
        log[f[i]].ip \in ips /\ log[f[i]].at - more <= w[i] /\ w[i] <= log[f[i]].at
  <2> SUFFICES ASSUME NEW i \in 1..Len(w)
               PROVE  log[f[i]].ip \in ips /\ log[f[i]].at - more <= w[i] /\ w[i] <= log[f[i]].at
    OBVIOUS
  <2>1. f[i] \in DOMAIN log
    BY <1>1 DEF Match
  <2>2. log[f[i]].at \in Nat /\ w[i] \in Int
    BY <1>2, <1>3, <2>1
  <2>3. log[f[i]].ip \in ips /\ log[f[i]].at - back <= w[i] /\ w[i] <= log[f[i]].at
    BY <1>1 DEF Match
  <2> QED
    BY <2>2, <2>3
<1>5. \A k \in DOMAIN log :
        log[k].ip \in ips /\ log[k].at >= later => \E i \in 1..Len(w) : f[i] = k
  <2> SUFFICES ASSUME NEW k \in DOMAIN log, log[k].ip \in ips, log[k].at >= later
               PROVE  \E i \in 1..Len(w) : f[i] = k
    OBVIOUS
  <2>1. log[k].at >= from
    BY <1>2
  <2> QED
    BY <1>1, <2>1 DEF Match
<1>6. Match(f, w, ips, log, more, later)
  BY <1>1, <1>4, <1>5 DEF Match
<1> QED
  BY <1>6 DEF Traces

\* Purging at a cutoff that the lag takes into account drops no recent request.
LEMMA TracesPurge ==
  ASSUME NEW w \in Seq(Int), NEW ips, NEW log \in Seq(Request),
         NEW back \in Nat, NEW from \in Int, Traces(w, ips, log, back, from),
         NEW cutoff \in Int, cutoff <= from - back
  PROVE  Traces(Purge(w, cutoff), ips, log, back, from)
<1>1. PICK f : Match(f, w, ips, log, back, from)
  BY DEF Traces
<1>2. PICK m \in 1..Len(w) + 1 :
           /\ Len(Purge(w, cutoff)) = Len(w) + 1 - m
           /\ \A i \in 1..Len(w) + 1 - m : Purge(w, cutoff)[i] = w[m + i - 1]
           /\ \A i \in 1..Len(w) : w[i] >= cutoff => m <= i
  BY PurgeSuffix
<1>3. Len(w) \in Nat /\ m \in Nat
  OBVIOUS
<1> DEFINE v == Purge(w, cutoff)
           g == [i \in 1..Len(v) |-> f[m + i - 1]]
<1>4. \A i \in 1..Len(v) : m + i - 1 \in 1..Len(w) /\ v[i] = w[m + i - 1] /\ g[i] = f[m + i - 1]
  BY <1>2, <1>3
<1>5. g \in [1..Len(v) -> DOMAIN log]
  BY <1>1, <1>4 DEF Match
<1>6. \A i, j \in 1..Len(v) : i < j => g[i] < g[j]
  <2> SUFFICES ASSUME NEW i \in 1..Len(v), NEW j \in 1..Len(v), i < j
               PROVE  g[i] < g[j]
    OBVIOUS
  <2>1. m + i - 1 < m + j - 1
    BY <1>2, <1>3
  <2> QED
    BY <1>1, <1>4, <2>1 DEF Match
<1>7. \A i \in 1..Len(v) :
        log[g[i]].ip \in ips /\ log[g[i]].at - back <= v[i] /\ v[i] <= log[g[i]].at
  BY <1>1, <1>4 DEF Match
<1>8. ASSUME NEW k \in DOMAIN log, log[k].ip \in ips, log[k].at >= from
      PROVE  \E i \in 1..Len(v) : g[i] = k
  <2>1. PICK i \in 1..Len(w) : f[i] = k
    BY <1>1, <1>8 DEF Match
  <2>2. log[k].at - back <= w[i] /\ log[k].at \in Nat /\ w[i] \in Int
    BY <1>1, <2>1, LogFacts, WindowFacts DEF Match
  <2>3. w[i] >= cutoff
    BY <1>8, <2>2
  <2>4. m <= i
    BY <1>2, <2>3
  <2>5. i - m + 1 \in 1..Len(v) /\ m + (i - m + 1) - 1 = i
    BY <1>2, <1>3, <2>4
  <2>6. g[i - m + 1] = k
    BY <2>1, <2>5
  <2> QED
    BY <2>5, <2>6
<1> HIDE DEF v, g
<1>9. Match(g, v, ips, log, back, from)
  BY <1>5, <1>6, <1>7, <1>8 DEF Match
<1> QED
  BY <1>9 DEF Traces, v

\* An admitted request joins the window and the log.
LEMMA TracesAppend ==
  ASSUME NEW w \in Seq(Int), NEW ips, NEW log \in Seq(Request),
         NEW back \in Nat, NEW from \in Int, Traces(w, ips, log, back, from),
         NEW e \in Request, e.ip \in ips, NEW c \in Int, e.at - back <= c, c <= e.at
  PROVE  Traces(Append(w, c), ips, Append(log, e), back, from)
<1>1. PICK f : Match(f, w, ips, log, back, from)
  BY DEF Traces
<1> DEFINE v == Append(w, c)
           more == Append(log, e)
           g == [i \in 1..Len(v) |-> IF i = Len(w) + 1 THEN Len(log) + 1 ELSE f[i]]
<1>2. /\ Len(w) \in Nat /\ Len(v) = Len(w) + 1 /\ v[Len(w) + 1] = c
      /\ \A i \in 1..Len(w) : v[i] = w[i]
  BY AppendProperties
<1>a. f \in [1..Len(w) -> 1..Len(log)]
  BY <1>1, LogFacts DEF Match
<1>3. /\ Len(log) \in Nat /\ DOMAIN log = 1..Len(log) /\ DOMAIN more = 1..Len(log) + 1
      /\ more[Len(log) + 1] = e
      /\ \A k \in 1..Len(log) : more[k] = log[k]
  BY AppendProperties, LenProperties
<1> HIDE DEF v, more
<1>4. g[Len(w) + 1] = Len(log) + 1 /\ \A i \in 1..Len(w) : g[i] = f[i] /\ f[i] \in 1..Len(log)
  <2>1. \A i \in 1..Len(w) : i \in 1..Len(v) /\ i # Len(w) + 1
    BY <1>2
  <2>2. Len(w) + 1 \in 1..Len(v)
    BY <1>2
  <2> QED
    BY <1>a, <2>1, <2>2
<1>b. \A i \in 1..Len(v) : i = Len(w) + 1 \/ i \in 1..Len(w)
  BY <1>2
<1>5. g \in [1..Len(v) -> DOMAIN more]
  <2>1. ASSUME NEW i \in 1..Len(v)
        PROVE  g[i] \in 1..Len(log) + 1
    <3> HIDE DEF g
    <3>1. CASE i = Len(w) + 1
      BY <1>3, <1>4, <3>1
    <3>2. CASE i \in 1..Len(w)
      <4>1. g[i] = f[i] /\ f[i] \in 1..Len(log)
        BY <1>4, <3>2
      <4> QED
        BY <1>3, <4>1
    <3> QED
      BY <1>b, <3>1, <3>2
  <2> QED
    BY <1>3, <2>1
<1> HIDE DEF g
<1>6. \A i, j \in 1..Len(v) : i < j => g[i] < g[j]
  <2> SUFFICES ASSUME NEW i \in 1..Len(v), NEW j \in 1..Len(v), i < j
               PROVE  g[i] < g[j]
    OBVIOUS
  <2>1. i \in 1..Len(w)
    BY <1>2
  <2>2. CASE j = Len(w) + 1
    <3>1. g[j] = Len(log) + 1 /\ g[i] \in 1..Len(log)
      BY <1>4, <2>1, <2>2
    <3> QED
      BY <1>3, <3>1
  <2>3. CASE j # Len(w) + 1
    <3>1. j \in 1..Len(w)
      BY <1>b, <2>3
    <3> QED
      BY <1>1, <1>4, <2>1, <3>1 DEF Match
  <2> QED
    BY <2>2, <2>3
<1>7. \A i \in 1..Len(v) :
        more[g[i]].ip \in ips /\ more[g[i]].at - back <= v[i] /\ v[i] <= more[g[i]].at
  <2> SUFFICES ASSUME NEW i \in 1..Len(v)
               PROVE  more[g[i]].ip \in ips /\ more[g[i]].at - back <= v[i] /\ v[i] <= more[g[i]].at
    OBVIOUS
  <2>1. CASE i = Len(w) + 1
    BY <1>2, <1>3, <1>4, <2>1
  <2>2. CASE i # Len(w) + 1
    <3>1. i \in 1..Len(w)
      BY <1>b, <2>2
    <3>2. v[i] = w[i] /\ g[i] = f[i] /\ more[g[i]] = log[f[i]]
      BY <1>2, <1>3, <1>4, <3>1
    <3> QED
      BY <1>1, <3>1, <3>2 DEF Match
  <2> QED
    BY <2>1, <2>2
<1>8. ASSUME NEW k \in DOMAIN more, more[k].ip \in ips, more[k].at >= from
      PROVE  \E i \in 1..Len(v) : g[i] = k
  <2>1. CASE k = Len(log) + 1
    BY <1>2, <1>4, <2>1
  <2>2. CASE k # Len(log) + 1
    <3>1. k \in DOMAIN log /\ more[k] = log[k]
      BY <1>3, <2>2
    <3>2. PICK i \in 1..Len(w) : f[i] = k
      BY <1>1, <1>8, <3>1 DEF Match
    <3>3. i \in 1..Len(v)
      BY <1>2
    <3> QED
      BY <1>4, <3>2, <3>3
  <2> QED
    BY <2>1, <2>2
<1>9. Match(g, v, ips, more, back, from)
  BY <1>5, <1>6, <1>7, <1>8 DEF Match
<1> QED
  BY <1>9 DEF Traces, v, more

\* A request of another address changes nothing.
LEMMA TracesOther ==
  ASSUME NEW w \in Seq(Int), NEW ips, NEW log \in Seq(Request),
         NEW back \in Nat, NEW from \in Int, Traces(w, ips, log, back, from),
         NEW e \in Request, e.ip \notin ips
  PROVE  Traces(w, ips, Append(log, e), back, from)
<1>1. PICK f : Match(f, w, ips, log, back, from)
  BY DEF Traces
<1> DEFINE more == Append(log, e)
<1>2. /\ Len(log) \in Nat /\ DOMAIN log = 1..Len(log) /\ DOMAIN more = 1..Len(log) + 1
      /\ more[Len(log) + 1] = e
      /\ \A k \in 1..Len(log) : more[k] = log[k]
  BY AppendProperties, LenProperties
<1> HIDE DEF more
<1>3. f \in [1..Len(w) -> DOMAIN more] /\ \A i \in 1..Len(w) : more[f[i]] = log[f[i]]
  <2>1. f \in [1..Len(w) -> 1..Len(log)]
    BY <1>1, <1>2 DEF Match
  <2>2. 1..Len(log) \subseteq DOMAIN more
    BY <1>2
  <2> QED
    BY <1>2, <2>1, <2>2
<1>4. \A k \in DOMAIN more : more[k].ip \in ips => k \in DOMAIN log /\ more[k] = log[k]
  BY <1>2
<1>5. Match(f, w, ips, more, back, from)
  BY <1>1, <1>3, <1>4 DEF Match
<1> QED
  BY <1>5 DEF Traces, more

-----------------------------------------------------------------------------
(***************************************************************************)
(* Counting: a window is as long as the log has recent requests.           *)
(***************************************************************************)

\* The instants of a log of these addresses in an interval.
During(log, ips, from, to) ==
  {k \in DOMAIN log : log[k].ip \in ips /\ from <= log[k].at /\ log[k].at <= to}

LEMMA BetweenIsDuring ==
  \A ips, from, to : Between(ips, from, to) = During(admitted, ips, from, to)
BY DEF Between, During

LEMMA DuringFinite ==
  ASSUME NEW log \in Seq(Request), NEW ips, NEW from, NEW to
  PROVE  /\ During(log, ips, from, to) \subseteq DOMAIN log
         /\ IsFiniteSet(During(log, ips, from, to))
         /\ Cardinality(During(log, ips, from, to)) \in Nat
<1>1. Len(log) \in Nat /\ DOMAIN log = 1..Len(log)
  BY LogFacts
<1>2. IsFiniteSet(1..Len(log))
  BY <1>1, Initial
<1>3. During(log, ips, from, to) \subseteq 1..Len(log)
  BY <1>1 DEF During
<1>4. IsFiniteSet(During(log, ips, from, to))
  BY <1>2, <1>3, FS_Subset
<1>5. Cardinality(During(log, ips, from, to)) \in Nat
  BY <1>4, FS_CardinalityType
<1> QED
  BY <1>1, <1>3, <1>4, <1>5

\* No recent request is missing from the window.
LEMMA AtMostWindow ==
  ASSUME NEW w \in Seq(Int), NEW ips, NEW log \in Seq(Request),
         NEW back \in Nat, NEW from \in Int, Traces(w, ips, log, back, from), NEW to
  PROVE  Cardinality(During(log, ips, from, to)) <= Len(w)
<1>1. PICK f : Match(f, w, ips, log, back, from)
  BY DEF Traces
<1> DEFINE hit == {f[i] : i \in 1..Len(w)}
<1>2. Len(w) \in Nat
  BY WindowFacts
<1>3. IsFiniteSet(1..Len(w)) /\ Cardinality(1..Len(w)) = Len(w)
  BY <1>2, Initial
<1>4. IsFiniteSet(hit) /\ Cardinality(hit) <= Cardinality(1..Len(w))
  <2>1. [i \in 1..Len(w) |-> f[i]] \in Surjection(1..Len(w), hit)
    BY DEF Surjection
  <2> QED
    BY <1>3, <2>1, FS_Surjection
<1>5. During(log, ips, from, to) \subseteq hit
  <2> HIDE DEF hit
  <2>0. \A i \in 1..Len(w) : f[i] \in hit
    BY DEF hit
  <2> SUFFICES ASSUME NEW k \in During(log, ips, from, to)
               PROVE  k \in hit
    OBVIOUS
  <2>1. k \in DOMAIN log /\ log[k].ip \in ips /\ from <= log[k].at
    BY DEF During
  <2>2. log[k].at \in Nat
    BY <2>1, LogFacts
  <2>3. log[k].at >= from
    BY <2>1, <2>2
  <2> QED
    BY <1>1, <2>0, <2>1, <2>3 DEF Match
<1>6. Cardinality(During(log, ips, from, to)) <= Cardinality(hit)
  BY <1>4, <1>5, FS_Subset
<1>7. /\ Cardinality(During(log, ips, from, to)) \in Nat
      /\ Cardinality(hit) \in Nat
  BY <1>4, FS_CardinalityType, DuringFinite
<1> QED
  BY <1>2, <1>3, <1>4, <1>6, <1>7

\* What is limited in every window is limited, n times as much, in n windows.
LEMMA ManyWindows ==
  ASSUME NEW log \in Seq(Request), NEW ips, NEW to \in Nat, NEW width \in Nat, NEW limit \in Nat,
         \A t \in 0..to : Cardinality(During(log, ips, t - width, t)) <= limit,
         NEW n \in Nat
  PROVE  Cardinality(During(log, ips, to + 1 - n * (width + 1), to)) <= n * limit
<1> DEFINE from(i) == to + 1 - i * (width + 1)
           count(i) == Cardinality(During(log, ips, from(i), to))
           bad == {i \in Nat : ~(count(i) <= i * limit)}
<1> SUFFICES ASSUME bad # {}
             PROVE  FALSE
  OBVIOUS
<1>1. PICK i \in bad : \A j \in bad : i <= j
  BY Smallest
<1>2. i \in Nat /\ ~(count(i) <= i * limit)
  OBVIOUS
<1>3. i # 0
  <2> SUFFICES ASSUME i = 0
               PROVE  FALSE
    OBVIOUS
  <2>1. from(0) = to + 1 /\ 0 * limit = 0
    OBVIOUS
  <2>2. During(log, ips, to + 1, to) = {}
    <3>1. \A k \in DOMAIN log : log[k].at \in Nat
      BY LogFacts
    <3> QED
      BY <3>1 DEF During
  <2>3. Cardinality(During(log, ips, to + 1, to)) = 0
    BY <2>2, FS_EmptySet
  <2>4. count(0) = 0
    BY <2>1, <2>3
  <2> HIDE DEF count
  <2> QED
    BY <1>2, <2>1, <2>4
<1> DEFINE j == i - 1
           t == from(j) - 1
           new == During(log, ips, t - width, t)
           old == During(log, ips, from(j), to)
<1>4. j \in Nat /\ i = j + 1 /\ ~(i <= j)
  BY <1>2, <1>3
<1>5. count(j) <= j * limit
  <2>1. j \notin bad
    BY <1>1, <1>4
  <2> HIDE DEF count, j
  <2> QED
    BY <1>4, <2>1
<1> HIDE DEF j
<1>6. /\ j * (width + 1) \in Nat /\ i * (width + 1) = j * (width + 1) + width + 1
      /\ j * limit \in Nat /\ i * limit = j * limit + limit
  BY <1>4
<1>7. /\ from(i) \in Int /\ from(j) \in Int /\ t \in Int
      /\ from(i) = t - width /\ t <= to /\ from(j) = t + 1
  <2> DEFINE a == i * (width + 1)
             b == j * (width + 1)
  <2>1. b \in Nat /\ a = b + width + 1 /\ from(i) = to + 1 - a /\ from(j) = to + 1 - b
    BY <1>6
  <2> HIDE DEF a, b, from
  <2> QED
    BY <2>1
<1> HIDE DEF from
<1>8. Cardinality(new) <= limit
  <2>1. CASE t \in 0..to
    BY <2>1
  <2>2. CASE t < 0
    <3>1. new = {}
      <4>1. \A k \in DOMAIN log : log[k].at \in Nat
        BY LogFacts
      <4> HIDE DEF t
      <4> QED
        BY <1>7, <2>2, <4>1 DEF During
    <3> HIDE DEF new
    <3> QED
      BY <3>1, FS_EmptySet
  <2> QED
    BY <1>7, <2>1, <2>2
<1> HIDE DEF t
<1>9. During(log, ips, from(i), to) = new \union old
  <2>1. \A k \in DOMAIN log : log[k].at \in Nat
    BY LogFacts
  <2> QED
    BY <1>7, <2>1 DEF During
<1>10. /\ IsFiniteSet(new) /\ IsFiniteSet(old)
       /\ Cardinality(new) \in Nat /\ Cardinality(old) \in Nat
  BY DuringFinite
<1>11. /\ Cardinality(new \union old)
             = Cardinality(new) + Cardinality(old) - Cardinality(new \intersect old)
       /\ Cardinality(new \intersect old) \in Nat
       /\ Cardinality(new \union old) \in Nat
  <2> HIDE DEF new, old
  <2>1. IsFiniteSet(new \intersect old) /\ IsFiniteSet(new \union old)
    BY <1>10, FS_Intersection, FS_Union
  <2> QED
    BY <1>10, <2>1, FS_Union, FS_CardinalityType
<1>12. Cardinality(old) <= j * limit
  BY <1>5
<1>13. Cardinality(During(log, ips, from(i), to)) <= i * limit
  <2>1. Cardinality(During(log, ips, from(i), to)) = Cardinality(new \union old)
    BY <1>9
  <2> DEFINE a == i * limit
             b == j * limit
  <2>2. b \in Nat /\ a = b + limit /\ Cardinality(old) <= b
    BY <1>6, <1>12
  <2> HIDE DEF new, old, a, b
  <2>3. Cardinality(new \union old) <= a
    BY <1>8, <1>10, <1>11, <2>2
  <2> QED
    BY <2>1, <2>3 DEF a
<1> QED
  BY <1>2, <1>13

\* The log is in the order of time.
Ordered(log) == \A j, k \in DOMAIN log : j < k => log[j].at <= log[k].at

\* A window whose head is recent holds recent requests only.
LEMMA AtLeastWindow ==
  ASSUME NEW w \in Seq(Int), NEW ips, NEW log \in Seq(Request), Ordered(log),
         NEW back \in Nat, NEW from \in Int, Traces(w, ips, log, back, from),
         NEW cutoff \in Int, w # <<>> => w[1] >= cutoff,
         NEW to \in Int, \A k \in DOMAIN log : log[k].at <= to
  PROVE  Cardinality(During(log, ips, cutoff, to)) >= Len(w)
<1>1. PICK f : Match(f, w, ips, log, back, from)
  BY DEF Traces
<1>2. Len(w) \in Nat
  BY WindowFacts
<1>3. \A i \in 1..Len(w) : f[i] \in During(log, ips, cutoff, to)
  <2> SUFFICES ASSUME NEW i \in 1..Len(w)
               PROVE  f[i] \in During(log, ips, cutoff, to)
    OBVIOUS
  <2>1. 1 \in 1..Len(w) /\ 1 <= i
    BY <1>2
  <2>2. w[1] >= cutoff /\ w[1] \in Int
    BY <2>1, WindowFacts, EmptySeq, <1>2
  <2>3. f[1] \in DOMAIN log /\ f[i] \in DOMAIN log /\ log[f[i]].ip \in ips
    BY <1>1, <2>1 DEF Match
  <2>4. log[f[1]].at \in Nat /\ log[f[i]].at \in Nat
    BY <2>3, LogFacts
  <2>5. w[1] <= log[f[1]].at
    BY <1>1, <2>1 DEF Match
  <2>6. log[f[1]].at <= log[f[i]].at
    <3>1. CASE i = 1
      BY <2>4, <3>1
    <3>2. CASE i # 1
      <4>1. f[1] < f[i]
        BY <1>1, <2>1, <3>2 DEF Match
      <4> QED
        BY <2>3, <4>1 DEF Ordered
    <3> QED
      BY <3>1, <3>2
  <2>7. cutoff <= log[f[i]].at /\ log[f[i]].at <= to
    BY <2>2, <2>3, <2>4, <2>5, <2>6
  <2> QED
    BY <2>3, <2>7 DEF During
<1>4. IsFiniteSet(1..Len(w)) /\ Cardinality(1..Len(w)) = Len(w)
  BY <1>2, Initial
<1>5. IsFiniteSet(During(log, ips, cutoff, to)) /\ Cardinality(During(log, ips, cutoff, to)) \in Nat
  BY DuringFinite
<1> DEFINE g == [i \in 1..Len(w) |-> f[i]]
<1>6. g \in [1..Len(w) -> During(log, ips, cutoff, to)]
  BY <1>3
<1>7. \A i, j \in 1..Len(w) : g[i] = g[j] => i = j
  <2> SUFFICES ASSUME NEW i \in 1..Len(w), NEW j \in 1..Len(w), g[i] = g[j]
               PROVE  i = j
    OBVIOUS
  <2>1. f[i] = f[j] /\ f[i] \in Nat /\ f[j] \in Nat
    <3>1. f[i] \in DOMAIN log /\ f[j] \in DOMAIN log
      BY <1>1 DEF Match
    <3> QED
      BY <3>1, LogFacts
  <2>2. ~(i < j) /\ ~(j < i)
    BY <1>1, <2>1 DEF Match
  <2> QED
    BY <2>2
<1>8. g \in Injection(1..Len(w), During(log, ips, cutoff, to))
  BY <1>6, <1>7 DEF Injection, IsInjective
<1>9. Cardinality(1..Len(w)) <= Cardinality(During(log, ips, cutoff, to))
  BY <1>5, <1>8, FS_Injection
<1> QED
  BY <1>2, <1>4, <1>5, <1>9

-----------------------------------------------------------------------------
(***************************************************************************)
(* The invariant.                                                          *)
(***************************************************************************)

\* Every window stands for the recent requests of the log.
WindowsTrace ==
  /\ \A ip \in Ip : Traces(WindowOf(ipWindows, ip), {ip}, admitted, lag, now - Window)
  /\ Traces(globalWindow, Ip, admitted, lag, now - Window)

\* No window is longer than its limit.
WindowsBounded ==
  /\ \A ip \in Ip : Len(WindowOf(ipWindows, ip)) <= PerIpLimit + Burst
  /\ Len(globalWindow) <= GlobalLimit

LimiterInv ==
  TypeOK /\ WindowsTrace /\ WindowsBounded /\ Ordered(admitted) /\ answer.at \in Nat

LEMMA TypeFacts ==
  ASSUME TypeOK
  PROVE  /\ now \in Nat /\ lag \in Nat /\ Clock \in Reading /\ Clock \in Int /\ Reading \subseteq Int
         /\ Clock = now - lag
         /\ admitted \in Seq(Request) /\ \A k \in DOMAIN admitted : admitted[k].at <= now
         /\ globalWindow \in Seq(Reading)
         /\ \A ip : WindowOf(ipWindows, ip) \in Seq(Reading)
         /\ \A w \in Seq(Reading) : w \in Seq(Int)
<1> USE RateLimiterAssumption
<1>1. now \in Nat /\ lag \in Nat /\ Clock \in Reading /\ Clock \in Int /\ Reading \subseteq Int
  BY DEF TypeOK, Clock, Reading
<1>2. [ip : Ip, at : 0..now] \subseteq Request
  BY <1>1 DEF Request
<1>3. admitted \in Seq([ip : Ip, at : 0..now])
  BY DEF TypeOK
<1>4. admitted \in Seq(Request)
  BY <1>2, <1>3, SeqMonotonic
<1>5. \A k \in DOMAIN admitted : admitted[k].at <= now
  <2>1. admitted \in [1..Len(admitted) -> [ip : Ip, at : 0..now]] /\ DOMAIN admitted = 1..Len(admitted)
    BY <1>3, LenProperties
  <2> QED
    BY <1>1, <2>1
<1>6. \A ip : WindowOf(ipWindows, ip) \in Seq(Reading)
  BY EmptySeq DEF WindowOf, TypeOK
<1>7. \A w \in Seq(Reading) : w \in Seq(Int)
  BY <1>1, SeqMonotonic
<1> QED
  BY <1>1, <1>4, <1>5, <1>6, <1>7 DEF TypeOK, Clock

\* A purged window is still a trace, and its head is recent.
LEMMA PurgedWindow ==
  ASSUME NEW T, T \subseteq Int, NEW w \in Seq(T), NEW ips, NEW log \in Seq(Request),
         NEW back \in Nat, NEW from \in Int, Traces(w, ips, log, back, from),
         NEW cutoff \in Int, cutoff <= from - back
  PROVE  /\ Purge(w, cutoff) \in Seq(T)
         /\ Purge(w, cutoff) \in Seq(Int)
         /\ Traces(Purge(w, cutoff), ips, log, back, from)
         /\ Len(Purge(w, cutoff)) <= Len(w)
         /\ Len(Purge(w, cutoff)) \in Nat
         /\ Purge(w, cutoff) # <<>> => Purge(w, cutoff)[1] >= cutoff
<1>1. w \in Seq(Int) /\ Len(w) \in Nat
  BY SeqMonotonic, LenProperties
<1>2. Traces(Purge(w, cutoff), ips, log, back, from)
  BY <1>1, TracesPurge
<1>3. PICK m \in 1..Len(w) + 1 :
           /\ Purge(w, cutoff) \in Seq(T)
           /\ Len(Purge(w, cutoff)) = Len(w) + 1 - m
           /\ \A i \in 1..Len(w) + 1 - m : Purge(w, cutoff)[i] = w[m + i - 1]
           /\ m <= Len(w) => w[m] >= cutoff
  BY PurgeSuffix
<1>4. ASSUME Purge(w, cutoff) # <<>>
      PROVE  Purge(w, cutoff)[1] >= cutoff
  <2>1. Len(Purge(w, cutoff)) # 0
    BY <1>3, <1>4, EmptySeq
  <2>2. m <= Len(w) /\ 1 \in 1..Len(w) + 1 - m /\ m + 1 - 1 = m
    BY <1>1, <1>3, <2>1
  <2> QED
    BY <1>3, <2>2
<1>5. Purge(w, cutoff) \in Seq(Int)
  BY <1>3, SeqMonotonic
<1>6. Len(Purge(w, cutoff)) <= Len(w) /\ Len(Purge(w, cutoff)) \in Nat
  BY <1>1, <1>3
<1> QED
  BY <1>2, <1>3, <1>4, <1>5, <1>6

\* An address left without an instant is forgotten, which shows nowhere.
LEMMA StaleWindow ==
  ASSUME NEW cutoff, NEW ip
  PROVE  WindowOf(PurgeStaleIps(cutoff), ip) = Purge(WindowOf(ipWindows, ip), cutoff)
<1>1. Purge(<<>>, cutoff) = <<>>
  <2>1. DOMAIN (<<>>) = {}
    BY EmptySeq, LenProperties
  <2> QED
    BY <2>1 DEF Purge
<1> QED
  BY <1>1 DEF WindowOf, PurgeStaleIps

LEMMA PutWindow ==
  ASSUME NEW windows, NEW ip, NEW w, NEW i
  PROVE  WindowOf(Put(windows, ip, w), i) = IF i = ip THEN w ELSE WindowOf(windows, i)
BY DEF WindowOf, Put

\* What a check reads.
LEMMA CheckWindows ==
  ASSUME LimiterInv, NEW ip \in Ip
  PROVE  /\ CallerWindow(ip) \in Seq(Reading) /\ CallerWindow(ip) \in Seq(Int)
         /\ Traces(CallerWindow(ip), {ip}, admitted, lag, now - Window)
         /\ Len(CallerWindow(ip)) <= PerIpLimit + Burst /\ Len(CallerWindow(ip)) \in Nat
         /\ CallerWindow(ip) # <<>> => CallerWindow(ip)[1] >= Clock - Window
         /\ RecentGlobal \in Seq(Reading) /\ RecentGlobal \in Seq(Int)
         /\ Traces(RecentGlobal, Ip, admitted, lag, now - Window)
         /\ Len(RecentGlobal) <= GlobalLimit /\ Len(RecentGlobal) \in Nat
         /\ RecentGlobal # <<>> => RecentGlobal[1] >= Clock - Window
         /\ \A i \in Ip :
              LET w == WindowOf(PurgeStaleIps(Clock - EvictionWindow), i) IN
                /\ w \in Seq(Reading) /\ w \in Seq(Int)
                /\ Traces(w, {i}, admitted, lag, now - Window)
                /\ Len(w) <= PerIpLimit + Burst /\ Len(w) \in Nat
                /\ w # <<>> => w[1] >= Clock - EvictionWindow
<1> USE RateLimiterAssumption
<1>0. TypeOK /\ WindowsTrace /\ WindowsBounded
  BY DEF LimiterInv
<1>1. /\ now \in Nat /\ lag \in Nat /\ Clock \in Int /\ Reading \subseteq Int
      /\ Clock = now - lag
      /\ admitted \in Seq(Request)
      /\ globalWindow \in Seq(Reading)
      /\ \A i : WindowOf(ipWindows, i) \in Seq(Reading)
  BY <1>0, TypeFacts
<1>2. /\ Clock - EvictionWindow \in Int /\ Clock - EvictionWindow <= (now - Window) - lag
      /\ Clock - Window \in Int /\ Clock - Window <= (now - Window) - lag
      /\ now - Window \in Int
  BY <1>1
<1>3. ASSUME NEW i \in Ip
      PROVE  LET w == WindowOf(PurgeStaleIps(Clock - EvictionWindow), i) IN
               /\ w \in Seq(Reading) /\ w \in Seq(Int)
               /\ Traces(w, {i}, admitted, lag, now - Window)
               /\ Len(w) <= PerIpLimit + Burst /\ Len(w) \in Nat
               /\ w # <<>> => w[1] >= Clock - EvictionWindow
  <2> DEFINE w == WindowOf(ipWindows, i)
             u == Purge(w, Clock - EvictionWindow)
  <2>1. w \in Seq(Reading) /\ Traces(w, {i}, admitted, lag, now - Window)
    BY <1>0, <1>1 DEF WindowsTrace
  <2>2. Len(w) <= PerIpLimit + Burst /\ Len(w) \in Nat
    BY <1>0, <2>1, LenProperties DEF WindowsBounded
  <2>3. WindowOf(PurgeStaleIps(Clock - EvictionWindow), i) = u
    BY StaleWindow
  <2> HIDE DEF w
  <2>4. /\ u \in Seq(Reading) /\ u \in Seq(Int)
        /\ Traces(u, {i}, admitted, lag, now - Window)
        /\ Len(u) <= Len(w) /\ Len(u) \in Nat
        /\ u # <<>> => u[1] >= Clock - EvictionWindow
    BY <1>1, <1>2, <2>1, PurgedWindow
  <2> HIDE DEF u
  <2>5. Len(u) <= PerIpLimit + Burst
    BY <2>2, <2>4
  <2> QED
    BY <2>3, <2>4, <2>5
<1>4. /\ CallerWindow(ip) \in Seq(Reading) /\ CallerWindow(ip) \in Seq(Int)
      /\ Traces(CallerWindow(ip), {ip}, admitted, lag, now - Window)
      /\ Len(CallerWindow(ip)) <= PerIpLimit + Burst /\ Len(CallerWindow(ip)) \in Nat
      /\ CallerWindow(ip) # <<>> => CallerWindow(ip)[1] >= Clock - Window
  <2> DEFINE w == WindowOf(PurgeStaleIps(Clock - EvictionWindow), ip)
             u == Purge(w, Clock - Window)
  <2>1. /\ w \in Seq(Reading) /\ Traces(w, {ip}, admitted, lag, now - Window)
        /\ Len(w) <= PerIpLimit + Burst /\ Len(w) \in Nat
    BY <1>3
  <2>2. CallerWindow(ip) = u
    BY DEF CallerWindow
  <2> HIDE DEF w
  <2>3. /\ u \in Seq(Reading) /\ u \in Seq(Int)
        /\ Traces(u, {ip}, admitted, lag, now - Window)
        /\ Len(u) <= Len(w) /\ Len(u) \in Nat
        /\ u # <<>> => u[1] >= Clock - Window
    BY <1>1, <1>2, <2>1, PurgedWindow
  <2> HIDE DEF u
  <2>4. Len(u) <= PerIpLimit + Burst
    BY <2>1, <2>3
  <2> QED
    BY <2>2, <2>3, <2>4
<1>5. /\ RecentGlobal \in Seq(Reading) /\ RecentGlobal \in Seq(Int)
      /\ Traces(RecentGlobal, Ip, admitted, lag, now - Window)
      /\ Len(RecentGlobal) <= GlobalLimit /\ Len(RecentGlobal) \in Nat
      /\ RecentGlobal # <<>> => RecentGlobal[1] >= Clock - Window
  <2>1. /\ Traces(globalWindow, Ip, admitted, lag, now - Window)
        /\ Len(globalWindow) <= GlobalLimit /\ Len(globalWindow) \in Nat
    BY <1>0, <1>1, LenProperties DEF WindowsTrace, WindowsBounded
  <2> DEFINE u == Purge(globalWindow, Clock - Window)
  <2>2. RecentGlobal = u
    BY DEF RecentGlobal
  <2>3. /\ u \in Seq(Reading) /\ u \in Seq(Int)
        /\ Traces(u, Ip, admitted, lag, now - Window)
        /\ Len(u) <= Len(globalWindow) /\ Len(u) \in Nat
        /\ u # <<>> => u[1] >= Clock - Window
    BY <1>1, <1>2, <2>1, PurgedWindow
  <2> HIDE DEF u
  <2>4. Len(u) <= GlobalLimit
    BY <2>1, <2>3
  <2> QED
    BY <2>2, <2>3, <2>4
<1> QED
  BY <1>3, <1>4, <1>5

-----------------------------------------------------------------------------
(***************************************************************************)
(* Every step preserves the invariant.                                     *)
(***************************************************************************)

\* What a check leaves of the windows.
LEMMA CheckLeaves ==
  ASSUME LimiterInv, NEW ip \in Ip, Check(ip)
  PROVE  /\ answer'.outcome \in Outcome /\ answer'.at = now
         /\ globalWindow' = IF answer'.outcome = "allowed" THEN Append(RecentGlobal, Clock) ELSE RecentGlobal
         /\ admitted' = IF answer'.outcome = "allowed" THEN Append(admitted, [ip |-> ip, at |-> now])
                        ELSE admitted
         /\ \/ answer'.outcome = "global_exceeded" /\ ipWindows' = ipWindows
            \/ /\ answer'.outcome \in {"allowed", "per_ip_exceeded"}
               /\ ipWindows' = Put(PurgeStaleIps(Clock - EvictionWindow), ip,
                                   IF answer'.outcome = "allowed" THEN Append(CallerWindow(ip), Clock)
                                   ELSE CallerWindow(ip))
         /\ answer'.ip = ip
         /\ answer'.outcome = "allowed"
              => Len(RecentGlobal) < GlobalLimit /\ Len(CallerWindow(ip)) < PerIpLimit + Burst
         /\ answer'.outcome = "per_ip_exceeded" => Len(CallerWindow(ip)) >= PerIpLimit + Burst
         /\ answer'.outcome = "global_exceeded" => Len(RecentGlobal) >= GlobalLimit
<1>1. CASE GlobalExceeded(ip)
  BY <1>1 DEF GlobalExceeded, Answer, Outcome
<1>2. CASE PerIpExceeded(ip)
  BY <1>2 DEF PerIpExceeded, Answer, Outcome
<1>3. CASE Allowed(ip)
  BY <1>3 DEF Allowed, Answer, Outcome
<1> QED
  BY <1>1, <1>2, <1>3 DEF Check, Refused

\* The log stays in order, and only grows at its end.
LEMMA LogAppend ==
  ASSUME NEW log \in Seq(Request), Ordered(log), NEW e \in Request,
         \A k \in DOMAIN log : log[k].at <= e.at
  PROVE  Ordered(Append(log, e))
<1> DEFINE more == Append(log, e)
<1>1. /\ Len(log) \in Nat /\ DOMAIN log = 1..Len(log) /\ DOMAIN more = 1..Len(log) + 1
      /\ more[Len(log) + 1] = e
      /\ \A k \in 1..Len(log) : more[k] = log[k]
  BY AppendProperties, LenProperties
<1> HIDE DEF more
<1> SUFFICES ASSUME NEW j \in DOMAIN more, NEW k \in DOMAIN more, j < k
             PROVE  more[j].at <= more[k].at
  BY DEF Ordered, more
<1>2. j \in 1..Len(log) /\ more[j] = log[j]
  BY <1>1
<1>3. CASE k = Len(log) + 1
  BY <1>1, <1>2, <1>3
<1>4. CASE k # Len(log) + 1
  <2>1. k \in 1..Len(log) /\ more[k] = log[k]
    BY <1>1, <1>4
  <2> QED
    BY <1>1, <1>2, <2>1 DEF Ordered
<1> QED
  BY <1>3, <1>4

\* A request elsewhere or later adds nothing to an interval; none takes away.
LEMMA DuringAppend ==
  ASSUME NEW log \in Seq(Request), NEW e \in Request, NEW ips, NEW from \in Int, NEW to \in Int
  PROVE  /\ During(log, ips, from, to) \subseteq During(Append(log, e), ips, from, to)
         /\ e.ip \notin ips \/ to < e.at
              => During(Append(log, e), ips, from, to) = During(log, ips, from, to)
<1> DEFINE more == Append(log, e)
<1>1. /\ Len(log) \in Nat /\ DOMAIN log = 1..Len(log) /\ DOMAIN more = 1..Len(log) + 1
      /\ more[Len(log) + 1] = e
      /\ \A k \in 1..Len(log) : more[k] = log[k]
  BY AppendProperties, LenProperties
<1> HIDE DEF more
<1>2. During(log, ips, from, to) \subseteq During(more, ips, from, to)
  BY <1>1 DEF During
<1>3. ASSUME e.ip \notin ips \/ to < e.at
      PROVE  During(more, ips, from, to) \subseteq During(log, ips, from, to)
  <2> SUFFICES ASSUME NEW k \in During(more, ips, from, to)
               PROVE  k \in During(log, ips, from, to)
    OBVIOUS
  <2>1. k \in DOMAIN more /\ more[k].ip \in ips /\ more[k].at <= to /\ from <= more[k].at
    BY DEF During
  <2>2. e.at \in Nat
    BY DEF Request
  <2>3. k # Len(log) + 1
    BY <1>1, <1>3, <2>1, <2>2
  <2>4. k \in DOMAIN log /\ more[k] = log[k]
    BY <1>1, <2>1, <2>3
  <2> QED
    BY <2>1, <2>4 DEF During
<1> QED
  BY <1>2, <1>3 DEF more

\* A limiter that starts, at any time and whatever its clock shows, satisfies
\* the invariant and has admitted nothing.
LEMMA LimiterFresh ==
  LimiterInit /\ now \in 0..MaxTime /\ lag \in 0..MaxLag => LimiterInv
<1> SUFFICES ASSUME LimiterInit, now \in 0..MaxTime, lag \in 0..MaxLag PROVE LimiterInv
  OBVIOUS
<1> USE RateLimiterAssumption
<1>0. /\ globalWindow = <<>> /\ admitted = <<>>
      /\ ipWindows = [i \in {} |-> <<>>]
      /\ answer = [ip |-> "none", outcome |-> "none", at |-> 0]
  BY DEF LimiterInit
<1>1. /\ DOMAIN ipWindows = {} /\ \A ip : WindowOf(ipWindows, ip) = <<>>
      /\ answer.outcome = "none" /\ answer.at = 0
  BY <1>0 DEF WindowOf
<1>2. <<>> \in Seq(Reading) /\ <<>> \in Seq([ip : Ip, at : 0..now]) /\ Len(<<>>) = 0
  BY EmptySeq
<1>3. TypeOK
  BY <1>0, <1>1, <1>2 DEF TypeOK, Outcome
<1>4. DOMAIN admitted = {}
  BY <1>0
<1>5. ASSUME NEW ips
      PROVE  Traces(<<>>, ips, admitted, lag, now - Window)
  <2> DEFINE f == [i \in 1..0 |-> 0]
  <2>1. Match(f, <<>>, ips, admitted, lag, now - Window)
    BY <1>2, <1>4 DEF Match
  <2> QED
    BY <2>1 DEF Traces
<1>6. WindowsTrace
  BY <1>0, <1>1, <1>5 DEF WindowsTrace
<1>7. WindowsBounded
  BY <1>0, <1>1, <1>2 DEF WindowsBounded
<1>8. Ordered(admitted)
  BY <1>4 DEF Ordered
<1> QED
  BY <1>1, <1>3, <1>6, <1>7, <1>8 DEF LimiterInv

LEMMA LimiterStart ==
  Init => LimiterInv
BY LimiterFresh, RateLimiterAssumption DEF Init

LEMMA FreshLimits ==
  LimiterInit => PerIpLimited /\ GlobalLimited
<1> SUFFICES ASSUME LimiterInit PROVE PerIpLimited /\ GlobalLimited
  OBVIOUS
<1>1. admitted = <<>> /\ DOMAIN admitted = {}
  BY DEF LimiterInit
<1>2. \A ips, from, to : Between(ips, from, to) = {}
  BY <1>1 DEF Between
<1>3. \A ips, from, to : Cardinality(Between(ips, from, to)) = 0
  BY <1>2, FS_EmptySet
<1>4. 0 <= PerIpLimit + Burst /\ 0 <= GlobalLimit
  BY RateLimiterAssumption
<1>5. PerIpLimited
  BY <1>3, <1>4 DEF PerIpLimited
<1> QED
  BY <1>3, <1>4, <1>5 DEF GlobalLimited

\* Time goes by, or the clock is stepped back.
LEMMA ClockStep ==
  ASSUME LimiterInv, Tick \/ StepBack
  PROVE  LimiterInv'
<1> USE RateLimiterAssumption
<1>0. TypeOK /\ WindowsTrace /\ WindowsBounded /\ Ordered(admitted) /\ answer.at \in Nat
  BY DEF LimiterInv
<1>1. /\ now \in Nat /\ lag \in Nat /\ now' \in Nat /\ lag' \in Nat
      /\ now <= now' /\ lag <= lag' /\ now' \in 0..MaxTime /\ lag' \in 0..MaxLag
      /\ UNCHANGED <<ipWindows, globalWindow, answer, admitted>>
  BY <1>0 DEF TypeOK, Tick, StepBack, limiter
<1>2. [ip : Ip, at : 0..now] \subseteq [ip : Ip, at : 0..now']
  BY <1>1
<1>3. admitted \in Seq([ip : Ip, at : 0..now'])
  <2>1. admitted \in Seq([ip : Ip, at : 0..now])
    BY <1>0 DEF TypeOK
  <2> QED
    BY <1>2, <2>1, SeqMonotonic
<1>4. TypeOK'
  BY <1>0, <1>1, <1>3 DEF TypeOK, Reading
<1>5. /\ admitted \in Seq(Request) /\ globalWindow \in Seq(Int)
      /\ \A ip : WindowOf(ipWindows, ip) \in Seq(Int)
  BY <1>0, TypeFacts
<1>6. now - Window \in Int /\ now' - Window \in Int /\ now - Window <= now' - Window
  <2>1. \A a, b, c \in Int : a <= b => a - c \in Int /\ b - c \in Int /\ a - c <= b - c
    OBVIOUS
  <2>2. now \in Int /\ now' \in Int /\ now <= now' /\ Window \in Int
    BY <1>1
  <2> QED
    BY <2>1, <2>2
<1>7. \A ip : WindowOf(ipWindows, ip)' = WindowOf(ipWindows, ip)
  BY <1>1 DEF WindowOf
<1>8. ASSUME NEW ip \in Ip
      PROVE  Traces(WindowOf(ipWindows, ip), {ip}, admitted, lag', now' - Window)
  BY <1>0, <1>1, <1>5, <1>6, TracesLater DEF WindowsTrace
<1>9. Traces(globalWindow, Ip, admitted, lag', now' - Window)
  BY <1>0, <1>1, <1>5, <1>6, TracesLater DEF WindowsTrace
<1>10. WindowsTrace'
  BY <1>1, <1>7, <1>8, <1>9 DEF WindowsTrace
<1>11. WindowsBounded'
  BY <1>0, <1>1, <1>7 DEF WindowsBounded
<1> QED
  BY <1>0, <1>1, <1>4, <1>10, <1>11 DEF LimiterInv

LEMMA CheckStep ==
  ASSUME LimiterInv, NEW ip \in Ip, Check(ip), UNCHANGED <<now, lag>>
  PROVE  LimiterInv'
<1> USE RateLimiterAssumption
<1> DEFINE e == [ip |-> ip, at |-> now]
           stale == PurgeStaleIps(Clock - EvictionWindow)
<1>0. TypeOK /\ WindowsTrace /\ WindowsBounded /\ Ordered(admitted)
  BY DEF LimiterInv
<1>1. /\ now \in Nat /\ lag \in Nat /\ Clock \in Reading /\ Clock \in Int /\ Reading \subseteq Int
      /\ Clock = now - lag
      /\ admitted \in Seq(Request) /\ \A k \in DOMAIN admitted : admitted[k].at <= now
  BY <1>0, TypeFacts
<1>2. /\ e \in Request /\ e.ip = ip /\ e.at = now /\ e \in [ip : Ip, at : 0..now]
      /\ e.at - lag <= Clock /\ Clock <= e.at /\ now - Window \in Int
  BY <1>1 DEF Request
<1>3. /\ CallerWindow(ip) \in Seq(Reading) /\ CallerWindow(ip) \in Seq(Int)
      /\ Traces(CallerWindow(ip), {ip}, admitted, lag, now - Window)
      /\ Len(CallerWindow(ip)) <= PerIpLimit + Burst /\ Len(CallerWindow(ip)) \in Nat
      /\ RecentGlobal \in Seq(Reading) /\ RecentGlobal \in Seq(Int)
      /\ Traces(RecentGlobal, Ip, admitted, lag, now - Window)
      /\ Len(RecentGlobal) <= GlobalLimit /\ Len(RecentGlobal) \in Nat
  BY CheckWindows
<1>4. \A i \in Ip : /\ WindowOf(stale, i) \in Seq(Reading) /\ WindowOf(stale, i) \in Seq(Int)
                    /\ Traces(WindowOf(stale, i), {i}, admitted, lag, now - Window)
                    /\ Len(WindowOf(stale, i)) <= PerIpLimit + Burst
  BY CheckWindows
<1>5. DOMAIN stale \subseteq Ip /\ \A i \in DOMAIN stale : stale[i] = WindowOf(stale, i)
  BY <1>0 DEF TypeOK, PurgeStaleIps, WindowOf
<1>6. PICK allowed \in BOOLEAN :
      /\ allowed = (answer'.outcome = "allowed")
      /\ answer'.outcome \in Outcome /\ answer'.at = now
      /\ globalWindow' = IF allowed THEN Append(RecentGlobal, Clock) ELSE RecentGlobal
      /\ admitted' = IF allowed THEN Append(admitted, e) ELSE admitted
      /\ \/ ~allowed /\ ipWindows' = ipWindows
         \/ ipWindows' = Put(stale, ip, IF allowed THEN Append(CallerWindow(ip), Clock)
                                        ELSE CallerWindow(ip))
      /\ allowed => Len(RecentGlobal) < GlobalLimit /\ Len(CallerWindow(ip)) < PerIpLimit + Burst
  BY CheckLeaves
<1> HIDE DEF stale, e
<1>7. /\ Append(CallerWindow(ip), Clock) \in Seq(Reading)
      /\ Append(RecentGlobal, Clock) \in Seq(Reading)
      /\ Len(Append(CallerWindow(ip), Clock)) = Len(CallerWindow(ip)) + 1
      /\ Len(Append(RecentGlobal, Clock)) = Len(RecentGlobal) + 1
  BY <1>1, <1>3, AppendProperties
<1>8. /\ Traces(Append(CallerWindow(ip), Clock), {ip}, Append(admitted, e), lag, now - Window)
      /\ Traces(Append(RecentGlobal, Clock), Ip, Append(admitted, e), lag, now - Window)
  <2>1. e.ip \in {ip} /\ e.ip \in Ip
    BY <1>2
  <2> QED
    BY <1>1, <1>2, <1>3, <2>1, TracesAppend
<1>9. \A i \in Ip : i # ip => Traces(WindowOf(stale, i), {i}, Append(admitted, e), lag, now - Window)
  <2> SUFFICES ASSUME NEW i \in Ip, i # ip
               PROVE  Traces(WindowOf(stale, i), {i}, Append(admitted, e), lag, now - Window)
    OBVIOUS
  <2>1. e.ip \notin {i}
    BY <1>2
  <2> QED
    BY <1>1, <1>2, <1>4, <2>1, TracesOther
<1> DEFINE mine == IF allowed THEN Append(CallerWindow(ip), Clock) ELSE CallerWindow(ip)
<1>10. /\ mine \in Seq(Reading) /\ Len(mine) <= PerIpLimit + Burst
       /\ Traces(mine, {ip}, admitted', lag, now - Window)
  BY <1>3, <1>6, <1>7, <1>8
<1>11. /\ globalWindow' \in Seq(Reading) /\ Len(globalWindow') <= GlobalLimit
       /\ Traces(globalWindow', Ip, admitted', lag, now - Window)
  BY <1>3, <1>6, <1>7, <1>8
<1>12. /\ \A i \in Ip : i # ip => Traces(WindowOf(stale, i), {i}, admitted', lag, now - Window)
       /\ admitted' \in Seq([ip : Ip, at : 0..now])
       /\ Ordered(admitted')
  <2>1. admitted \in Seq([ip : Ip, at : 0..now])
    BY <1>0 DEF TypeOK
  <2>2. Append(admitted, e) \in Seq([ip : Ip, at : 0..now])
    BY <1>2, <2>1, AppendProperties
  <2>3. Ordered(Append(admitted, e))
    BY <1>0, <1>1, <1>2, LogAppend
  <2> QED
    BY <1>0, <1>4, <1>6, <1>9, <2>1, <2>2, <2>3
<1> HIDE DEF mine
<1>13. /\ DOMAIN ipWindows' \subseteq Ip /\ \A i \in DOMAIN ipWindows' : ipWindows'[i] \in Seq(Reading)
       /\ \A i \in Ip : /\ Traces(WindowOf(ipWindows', i), {i}, admitted', lag, now - Window)
                        /\ Len(WindowOf(ipWindows', i)) <= PerIpLimit + Burst
  <2>1. CASE ~allowed /\ ipWindows' = ipWindows
    BY <1>0, <1>6, <2>1 DEF TypeOK, WindowsTrace, WindowsBounded
  <2>2. CASE ipWindows' = Put(stale, ip, mine)
    <3>1. /\ DOMAIN ipWindows' = DOMAIN stale \union {ip}
          /\ \A i \in DOMAIN ipWindows' : ipWindows'[i] = IF i = ip THEN mine ELSE stale[i]
      BY <2>2 DEF Put
    <3>2. DOMAIN ipWindows' \subseteq Ip
      BY <1>5, <3>1
    <3>3. \A i \in DOMAIN ipWindows' : ipWindows'[i] \in Seq(Reading)
      BY <1>4, <1>5, <1>10, <3>1
    <3>4. \A i \in Ip : WindowOf(ipWindows', i) = IF i = ip THEN mine ELSE WindowOf(stale, i)
      BY <2>2, PutWindow
    <3> QED
      BY <1>4, <1>10, <1>12, <3>2, <3>3, <3>4
  <2> QED
    BY <1>6, <2>1, <2>2 DEF mine
<1>14. TypeOK'
  <2>1. now' = now /\ lag' = lag /\ now \in 0..MaxTime /\ lag \in 0..MaxLag
    BY <1>0 DEF TypeOK
  <2> QED
    BY <1>6, <1>11, <1>12, <1>13, <2>1 DEF TypeOK, Reading
<1>15. WindowsTrace'
  <2>1. \A i : WindowOf(ipWindows, i)' = WindowOf(ipWindows', i)
    BY DEF WindowOf
  <2> QED
    BY <1>11, <1>13, <2>1 DEF WindowsTrace
<1>16. WindowsBounded'
  <2>1. \A i : WindowOf(ipWindows, i)' = WindowOf(ipWindows', i)
    BY DEF WindowOf
  <2> QED
    BY <1>11, <1>13, <2>1 DEF WindowsBounded
<1>17. Ordered(admitted)'
  BY <1>12 DEF Ordered
<1>18. (answer.at \in Nat)'
  BY <1>1, <1>6
<1> QED
  BY <1>14, <1>15, <1>16, <1>17, <1>18 DEF LimiterInv

LEMMA LimiterStep ==
  LimiterInv /\ [Next]_vars => LimiterInv'
<1> SUFFICES ASSUME LimiterInv, [Next]_vars PROVE LimiterInv'
  OBVIOUS
<1>1. CASE UNCHANGED vars
  BY <1>1 DEF LimiterInv, TypeOK, WindowsTrace, WindowsBounded, WindowOf, Ordered, Reading, vars, limiter
<1>2. CASE Next
  BY <1>2, ClockStep, CheckStep DEF Next
<1> QED
  BY <1>1, <1>2

-----------------------------------------------------------------------------
(***************************************************************************)
(* Counting the admitted requests, step by step.                           *)
(***************************************************************************)

LEMMA NowFacts ==
  ASSUME LimiterInv
  PROVE  /\ now \in Nat /\ lag \in Nat /\ now - Window \in Int /\ admitted \in Seq(Request)
         /\ \A k \in DOMAIN admitted : admitted[k].at <= now
         /\ \A ip : WindowOf(ipWindows, ip) \in Seq(Int)
         /\ globalWindow \in Seq(Int)
         /\ WindowsTrace /\ WindowsBounded /\ Ordered(admitted) /\ answer.at \in Nat
<1>1. TypeOK
  BY DEF LimiterInv
<1> QED
  BY <1>1, TypeFacts, RateLimiterAssumption DEF LimiterInv

LimitedHere ==
  /\ \A ip \in Ip : Cardinality(Between({ip}, now - Window, now)) <= PerIpLimit + Burst
  /\ Cardinality(Between(Ip, now - Window, now)) <= GlobalLimit

\* Up to now, an interval holds no more than the window it is judged by.
LEMMA LimitedNow ==
  LimiterInv => LimitedHere
<1> SUFFICES ASSUME LimiterInv PROVE LimitedHere
  OBVIOUS
<1> USE RateLimiterAssumption
<1>1. ASSUME NEW ip \in Ip
      PROVE  Cardinality(Between({ip}, now - Window, now)) <= PerIpLimit + Burst
  <2> DEFINE w == WindowOf(ipWindows, ip)
  <2>1. /\ w \in Seq(Int) /\ Traces(w, {ip}, admitted, lag, now - Window)
        /\ Len(w) <= PerIpLimit + Burst
    BY NowFacts DEF WindowsTrace, WindowsBounded
  <2> HIDE DEF w
  <2>2. Cardinality(During(admitted, {ip}, now - Window, now)) <= Len(w)
    BY <2>1, NowFacts, AtMostWindow
  <2>3. Cardinality(During(admitted, {ip}, now - Window, now)) \in Nat /\ Len(w) \in Nat
    BY <2>1, NowFacts, DuringFinite, WindowFacts
  <2> QED
    BY <2>1, <2>2, <2>3, BetweenIsDuring
<1>2. Cardinality(Between(Ip, now - Window, now)) <= GlobalLimit
  <2>1. /\ globalWindow \in Seq(Int) /\ Traces(globalWindow, Ip, admitted, lag, now - Window)
        /\ Len(globalWindow) <= GlobalLimit
    BY NowFacts DEF WindowsTrace, WindowsBounded
  <2>2. Cardinality(During(admitted, Ip, now - Window, now)) <= Len(globalWindow)
    BY <2>1, NowFacts, AtMostWindow
  <2>3. Cardinality(During(admitted, Ip, now - Window, now)) \in Nat /\ Len(globalWindow) \in Nat
    BY <2>1, NowFacts, DuringFinite, WindowFacts
  <2> QED
    BY <2>1, <2>2, <2>3, BetweenIsDuring
<1> QED
  BY <1>1, <1>2 DEF LimitedHere

\* What happened before now is not touched by a step.
LEMMA PastStays ==
  ASSUME LimiterInv, [Next]_vars, NEW ips, NEW from \in Int, NEW to \in Nat,
         to \in 0..now', to # now'
  PROVE  to \in 0..now /\ Between(ips, from, to)' = During(admitted, ips, from, to)
<1>1. now \in Nat /\ admitted \in Seq(Request)
  BY NowFacts
<1>2. ASSUME Tick \/ StepBack \/ UNCHANGED vars
      PROVE  to \in 0..now /\ Between(ips, from, to)' = During(admitted, ips, from, to)
  <2>1. admitted' = admitted /\ (now' = now \/ now' = now + 1)
    BY <1>2 DEF Tick, StepBack, vars, limiter
  <2>2. to \in 0..now
    BY <1>1, <2>1
  <2> QED
    BY <2>1, <2>2 DEF Between, During
<1>3. ASSUME NEW ip \in Ip, Check(ip), UNCHANGED <<now, lag>>
      PROVE  to \in 0..now /\ Between(ips, from, to)' = During(admitted, ips, from, to)
  <2> DEFINE e == [ip |-> ip, at |-> now]
  <2>1. admitted' = admitted \/ admitted' = Append(admitted, e)
    BY <1>3, CheckLeaves
  <2>2. e \in Request /\ e.at = now /\ to < now /\ to \in 0..now
    BY <1>1, <1>3 DEF Request
  <2> HIDE DEF e
  <2>3. During(Append(admitted, e), ips, from, to) = During(admitted, ips, from, to)
    BY <1>1, <2>2, DuringAppend
  <2>4. Between(ips, from, to)' = During(admitted', ips, from, to)
    BY DEF Between, During
  <2> QED
    BY <2>1, <2>2, <2>3, <2>4
<1> QED
  BY <1>2, <1>3 DEF Next

LEMMA LimitedStep ==
  ASSUME LimiterInv, LimiterInv', [Next]_vars
  PROVE  (PerIpLimited => PerIpLimited') /\ (GlobalLimited => GlobalLimited')
<1> USE RateLimiterAssumption
<1>0. LimitedHere'
  BY LimitedNow, PTL
<1>1. now' \in Nat
  <2>1. TypeOK'
    BY DEF LimiterInv
  <2> QED
    BY <2>1 DEF TypeOK
<1>2. ASSUME PerIpLimited, NEW ip \in Ip, NEW t \in 0..now'
      PROVE  Cardinality(Between({ip}, t - Window, t)') <= PerIpLimit + Burst
  <2>1. CASE t = now'
    <3>1. Cardinality(Between({ip}, now - Window, now)') <= PerIpLimit + Burst
      BY <1>0 DEF LimitedHere, Between
    <3>2. Between({ip}, t - Window, t)' = (Between({ip}, now - Window, now))'
      BY <2>1 DEF Between
    <3> QED
      BY <3>1, <3>2
  <2>2. CASE t # now'
    <3>1. t \in Nat /\ t - Window \in Int
      BY <1>1
    <3>2. t \in 0..now /\ Between({ip}, t - Window, t)' = During(admitted, {ip}, t - Window, t)
      BY <2>2, <3>1, PastStays
    <3>3. Cardinality(Between({ip}, t - Window, t)) <= PerIpLimit + Burst
      BY <1>2, <3>2 DEF PerIpLimited
    <3> QED
      BY <3>2, <3>3, BetweenIsDuring
  <2> QED
    BY <2>1, <2>2
<1>3. ASSUME GlobalLimited, NEW t \in 0..now'
      PROVE  Cardinality(Between(Ip, t - Window, t)') <= GlobalLimit
  <2>1. CASE t = now'
    <3>1. Cardinality(Between(Ip, now - Window, now)') <= GlobalLimit
      BY <1>0 DEF LimitedHere, Between
    <3>2. Between(Ip, t - Window, t)' = (Between(Ip, now - Window, now))'
      BY <2>1 DEF Between
    <3> QED
      BY <3>1, <3>2
  <2>2. CASE t # now'
    <3>1. t \in Nat /\ t - Window \in Int
      BY <1>1
    <3>2. t \in 0..now /\ Between(Ip, t - Window, t)' = During(admitted, Ip, t - Window, t)
      BY <2>2, <3>1, PastStays
    <3>3. Cardinality(Between(Ip, t - Window, t)) <= GlobalLimit
      BY <1>3, <3>2 DEF GlobalLimited
    <3> QED
      BY <3>2, <3>3, BetweenIsDuring
  <2> QED
    BY <2>1, <2>2
<1>4. PerIpLimited => PerIpLimited'
  BY <1>2 DEF PerIpLimited, Between
<1>5. GlobalLimited => GlobalLimited'
  BY <1>3 DEF GlobalLimited, Between
<1> QED
  BY <1>4, <1>5

-----------------------------------------------------------------------------
(***************************************************************************)
(* The last answer.                                                        *)
(***************************************************************************)

\* An interval that starts earlier holds at least as much.
LEMMA EarlierStart ==
  ASSUME NEW log \in Seq(Request), NEW ips, NEW from \in Int, NEW to \in Int,
         NEW earlier \in Int, earlier <= from
  PROVE  /\ During(log, ips, from, to) \subseteq During(log, ips, earlier, to)
         /\ Cardinality(During(log, ips, from, to)) <= Cardinality(During(log, ips, earlier, to))
<1>1. During(log, ips, from, to) \subseteq During(log, ips, earlier, to)
  <2> SUFFICES ASSUME NEW k \in During(log, ips, from, to)
               PROVE  k \in During(log, ips, earlier, to)
    OBVIOUS
  <2>1. k \in DOMAIN log /\ log[k].ip \in ips /\ from <= log[k].at /\ log[k].at <= to
    BY DEF During
  <2>2. log[k].at \in Nat
    BY <2>1, LogFacts
  <2>3. earlier <= log[k].at
    BY <2>1, <2>2
  <2> QED
    BY <2>1, <2>3 DEF During
<1> QED
  BY <1>1, DuringFinite, FS_Subset

\* A step of the clock keeps the answer and widens the interval it is about.
LEMMA ClockKeepsAnswer ==
  ASSUME LimiterInv, Tick \/ StepBack \/ UNCHANGED vars
  PROVE  /\ answer' = answer /\ admitted' = admitted /\ ipWindows' = ipWindows
         /\ lag \in Nat /\ lag' \in Nat /\ lag <= lag' /\ answer.at \in Nat /\ admitted \in Seq(Request)
BY NowFacts DEF Tick, StepBack, vars, limiter

LEMMA RefusalStep ==
  ASSUME LimiterInv, [Next]_vars, RefusalJustified
  PROVE  RefusalJustified'
<1> USE RateLimiterAssumption
<1>1. CASE Tick \/ StepBack \/ UNCHANGED vars
  <2>1. /\ answer' = answer /\ admitted' = admitted
        /\ lag \in Nat /\ lag' \in Nat /\ lag <= lag' /\ answer.at \in Nat /\ admitted \in Seq(Request)
    BY <1>1, ClockKeepsAnswer
  <2> DEFINE since == answer.at - Window - lag
             earlier == answer.at - Window - lag'
  <2>2. since \in Int /\ earlier \in Int /\ earlier <= since /\ answer.at \in Int
    BY <2>1
  <2>3. (answer.at - Window - lag)' = earlier
    BY <2>1
  <2>4. \A ips : /\ Cardinality(During(admitted, ips, since, answer.at)) \in Nat
                 /\ Cardinality(During(admitted, ips, earlier, answer.at)) \in Nat
                 /\ Cardinality(During(admitted, ips, since, answer.at))
                      <= Cardinality(During(admitted, ips, earlier, answer.at))
    BY <2>1, <2>2, DuringFinite, EarlierStart
  <2>5. /\ answer.outcome = "per_ip_exceeded"
             => Cardinality(During(admitted, {answer.ip}, since, answer.at)) >= PerIpLimit + Burst
        /\ answer.outcome = "global_exceeded"
             => Cardinality(During(admitted, Ip, since, answer.at)) >= GlobalLimit
    BY BetweenIsDuring DEF RefusalJustified
  <2> HIDE DEF since, earlier
  <2>6. /\ answer.outcome = "per_ip_exceeded"
             => Cardinality(During(admitted, {answer.ip}, earlier, answer.at)) >= PerIpLimit + Burst
        /\ answer.outcome = "global_exceeded"
             => Cardinality(During(admitted, Ip, earlier, answer.at)) >= GlobalLimit
    BY <2>4, <2>5
  <2>7. \A ips : Between(ips, answer.at - Window - lag, answer.at)' = During(admitted, ips, earlier, answer.at)
    BY <2>1, <2>3 DEF Between, During
  <2> QED
    BY <2>1, <2>6, <2>7 DEF RefusalJustified
<1>2. ASSUME NEW ip \in Ip, Check(ip), UNCHANGED <<now, lag>>
      PROVE  RefusalJustified'
  <2>1. /\ now \in Nat /\ lag \in Nat /\ now - Window \in Int /\ admitted \in Seq(Request)
        /\ \A k \in DOMAIN admitted : admitted[k].at <= now
        /\ Ordered(admitted)
    BY NowFacts
  <2>2. /\ answer'.at = now /\ answer'.ip = ip
        /\ answer'.outcome # "allowed" => admitted' = admitted
        /\ answer'.outcome = "per_ip_exceeded" => Len(CallerWindow(ip)) >= PerIpLimit + Burst
        /\ answer'.outcome = "global_exceeded" => Len(RecentGlobal) >= GlobalLimit
    BY <1>2, CheckLeaves
  <2> DEFINE since == now - Window - lag
  <2>3. since \in Int /\ since = Clock - Window /\ now \in Int
    BY <2>1 DEF Clock
  <2>4. /\ CallerWindow(ip) \in Seq(Int) /\ Len(CallerWindow(ip)) \in Nat
        /\ Traces(CallerWindow(ip), {ip}, admitted, lag, now - Window)
        /\ CallerWindow(ip) # <<>> => CallerWindow(ip)[1] >= since
        /\ RecentGlobal \in Seq(Int) /\ Len(RecentGlobal) \in Nat
        /\ Traces(RecentGlobal, Ip, admitted, lag, now - Window)
        /\ RecentGlobal # <<>> => RecentGlobal[1] >= since
    BY <2>3, CheckWindows
  <2> HIDE DEF since
  <2>5. Cardinality(During(admitted, {ip}, since, now)) >= Len(CallerWindow(ip))
    BY <2>1, <2>3, <2>4, AtLeastWindow
  <2>6. Cardinality(During(admitted, Ip, since, now)) >= Len(RecentGlobal)
    BY <2>1, <2>3, <2>4, AtLeastWindow
  <2>7. \A ips : Cardinality(During(admitted, ips, since, now)) \in Nat
    BY <2>1, DuringFinite
  <2>8. answer'.outcome # "allowed"
          => \A ips : Between(ips, answer.at - Window - lag, answer.at)' = During(admitted, ips, since, now)
    BY <1>2, <2>2 DEF Between, During, since
  <2>9. answer'.outcome = "per_ip_exceeded"
          => Cardinality(During(admitted, {ip}, since, now)) >= PerIpLimit + Burst
    BY <2>2, <2>4, <2>5, <2>7
  <2>10. answer'.outcome = "global_exceeded"
           => Cardinality(During(admitted, Ip, since, now)) >= GlobalLimit
    BY <2>2, <2>4, <2>6, <2>7
  <2> QED
    BY <2>2, <2>8, <2>9, <2>10 DEF RefusalJustified
<1> QED
  BY <1>1, <1>2 DEF Next

\* A window with an instant stands for a request of its address.
LEMMA ActiveWindow ==
  ASSUME NEW w \in Seq(Int), w # <<>>, NEW ip, NEW log \in Seq(Request), Ordered(log),
         NEW back \in Nat, NEW from \in Int, Traces(w, {ip}, log, back, from),
         NEW cutoff \in Int, w[1] >= cutoff,
         NEW to \in Int, \A k \in DOMAIN log : log[k].at <= to
  PROVE  During(log, {ip}, cutoff, to) # {}
<1>1. Cardinality(During(log, {ip}, cutoff, to)) >= Len(w)
  BY AtLeastWindow
<1>2. Len(w) \in Nat \ {0}
  BY EmptySeq
<1>3. Cardinality(During(log, {ip}, cutoff, to)) # 0
  BY <1>1, <1>2, DuringFinite
<1> QED
  BY <1>3, FS_EmptySet

LEMMA ActiveStep ==
  ASSUME LimiterInv, [Next]_vars, TrackedIpsActive
  PROVE  TrackedIpsActive'
<1> USE RateLimiterAssumption
<1>1. CASE Tick \/ StepBack \/ UNCHANGED vars
  <2>1. /\ answer' = answer /\ admitted' = admitted /\ ipWindows' = ipWindows
        /\ lag \in Nat /\ lag' \in Nat /\ lag <= lag' /\ answer.at \in Nat /\ admitted \in Seq(Request)
    BY <1>1, ClockKeepsAnswer
  <2> DEFINE since == answer.at - EvictionWindow - lag
             earlier == answer.at - EvictionWindow - lag'
  <2>2. since \in Int /\ earlier \in Int /\ earlier <= since /\ answer.at \in Int
    BY <2>1
  <2>3. \A ips : During(admitted, ips, since, answer.at) \subseteq During(admitted, ips, earlier, answer.at)
    BY <2>1, <2>2, EarlierStart
  <2>4. answer.outcome \in {"allowed", "per_ip_exceeded"}
          => \A i \in DOMAIN ipWindows : During(admitted, {i}, since, answer.at) # {}
    BY BetweenIsDuring DEF TrackedIpsActive
  <2>5. \A ips : Between(ips, answer.at - EvictionWindow - lag, answer.at)'
                   = During(admitted, ips, earlier, answer.at)
    BY <2>1 DEF Between, During
  <2> HIDE DEF since, earlier
  <2> QED
    BY <2>1, <2>3, <2>4, <2>5 DEF TrackedIpsActive
<1>2. ASSUME NEW ip \in Ip, Check(ip), UNCHANGED <<now, lag>>
      PROVE  TrackedIpsActive'
  <2> DEFINE e == [ip |-> ip, at |-> now]
             stale == PurgeStaleIps(Clock - EvictionWindow)
             since == now - EvictionWindow - lag
  <2>1. /\ now \in Nat /\ lag \in Nat /\ now - Window \in Int /\ admitted \in Seq(Request)
        /\ \A k \in DOMAIN admitted : admitted[k].at <= now
        /\ Ordered(admitted)
    BY NowFacts
  <2>2. /\ e \in Request /\ e.ip = ip /\ e.at = now
        /\ since \in Int /\ since = Clock - EvictionWindow /\ since <= now /\ now \in Int
        /\ Clock - Window \in Int /\ since <= Clock - Window
    BY <2>1 DEF Clock, Request
  <2>3. answer'.at = now
    BY <1>2, CheckLeaves
  <2> SUFFICES ASSUME answer'.outcome \in {"allowed", "per_ip_exceeded"}, NEW i \in DOMAIN ipWindows'
               PROVE  During(admitted', {i}, since, now) # {}
    <3>1. \A ips : Between(ips, answer.at - EvictionWindow - lag, answer.at)' = During(admitted', ips, since, now)
      BY <1>2, <2>3 DEF Between, During
    <3> HIDE DEF since
    <3> QED
      BY <3>1 DEF TrackedIpsActive
  <2>4. /\ DOMAIN ipWindows' = DOMAIN stale \union {ip}
        /\ answer'.outcome = "allowed" => admitted' = Append(admitted, e)
        /\ answer'.outcome = "per_ip_exceeded"
             => admitted' = admitted /\ Len(CallerWindow(ip)) >= PerIpLimit + Burst
    BY <1>2, CheckLeaves DEF Put
  <2>5. DOMAIN stale \subseteq Ip /\ \A j \in DOMAIN stale : stale[j] # <<>> /\ stale[j] = WindowOf(stale, j)
    <3>1. DOMAIN ipWindows \subseteq Ip
      BY DEF LimiterInv, TypeOK
    <3> QED
      BY <3>1 DEF PurgeStaleIps, WindowOf
  <2>6. \A j \in Ip : /\ WindowOf(stale, j) \in Seq(Int)
                      /\ Traces(WindowOf(stale, j), {j}, admitted, lag, now - Window)
                      /\ WindowOf(stale, j) # <<>> => WindowOf(stale, j)[1] >= since
    BY <2>2, CheckWindows
  <2>7. /\ CallerWindow(ip) \in Seq(Int) /\ Len(CallerWindow(ip)) \in Nat
        /\ Traces(CallerWindow(ip), {ip}, admitted, lag, now - Window)
        /\ CallerWindow(ip) # <<>> => CallerWindow(ip)[1] >= Clock - Window
    BY CheckWindows
  <2> HIDE DEF e, stale, since
  <2>8. During(admitted, {i}, since, now) \subseteq During(admitted', {i}, since, now)
    <3>1. admitted' = admitted \/ admitted' = Append(admitted, e)
      BY <2>4
    <3> QED
      BY <2>1, <2>2, <3>1, DuringAppend
  <2>9. CASE i \in DOMAIN stale
    <3>1. /\ i \in Ip /\ stale[i] \in Seq(Int) /\ stale[i] # <<>> /\ stale[i][1] >= since
          /\ Traces(stale[i], {i}, admitted, lag, now - Window)
      BY <2>5, <2>6, <2>9
    <3>2. During(admitted, {i}, since, now) # {}
      BY <2>1, <2>2, <3>1, ActiveWindow
    <3> QED
      BY <2>8, <3>2
  <2>10. CASE i = ip /\ answer'.outcome = "allowed"
    <3> DEFINE more == Append(admitted, e)
    <3>1. Len(admitted) + 1 \in DOMAIN more /\ more[Len(admitted) + 1] = e
      BY <2>1, <2>2, AppendProperties, LenProperties
    <3> HIDE DEF more
    <3>2. Len(admitted) + 1 \in During(more, {ip}, since, now)
      BY <2>2, <3>1 DEF During
    <3> QED
      BY <2>4, <2>10, <3>2 DEF more
  <2>11. CASE i = ip /\ answer'.outcome = "per_ip_exceeded"
    <3>1. CallerWindow(ip) # <<>>
      <4>1. Len(CallerWindow(ip)) # 0
        BY <2>4, <2>7, <2>11
      <4> QED
        BY <4>1, EmptySeq
    <3>2. During(admitted, {ip}, Clock - Window, now) # {}
      BY <2>1, <2>2, <2>7, <3>1, ActiveWindow
    <3>3. During(admitted, {ip}, Clock - Window, now) \subseteq During(admitted, {ip}, since, now)
      BY <2>1, <2>2, EarlierStart
    <3> QED
      BY <2>8, <2>11, <3>2, <3>3
  <2> QED
    BY <2>4, <2>9, <2>10, <2>11
<1> QED
  BY <1>1, <1>2 DEF Next

-----------------------------------------------------------------------------
(***************************************************************************)
(* The theorems.                                                           *)
(***************************************************************************)

\* The limiter's variables keep their types (feedback/ratelimit.py 16-40).
THEOREM LimiterTypeCorrect ==
  Spec => []TypeOK
<1>1. LimiterInv => TypeOK
  BY DEF LimiterInv
<1> QED
  BY <1>1, LimiterStart, LimiterStep, PTL DEF Spec

\* Invariance of the limits, from the invariant and the past staying as it was.
LEMMA LimitsHold ==
  Spec => []PerIpLimited /\ []GlobalLimited
<1>1. Init => PerIpLimited /\ GlobalLimited
  BY FreshLimits DEF Init
<1>2. LimiterInv /\ PerIpLimited /\ GlobalLimited /\ [Next]_vars
        => LimiterInv' /\ (PerIpLimited /\ GlobalLimited)'
  BY LimiterStep, LimitedStep
<1> QED
  BY <1>1, <1>2, LimiterStart, PTL DEF Spec

\* No address gets more requests through in any interval of Window seconds
\* than its limit and burst, for any limits, windows and addresses and however
\* the clock is stepped back (feedback/ratelimit.py 41-56).
THEOREM AddressesLimited ==
  Spec => []PerIpLimited
BY LimitsHold, PTL

\* Nor do all addresses together get more through than the circuit breaker
\* allows (feedback/ratelimit.py 44-46).
THEOREM ServerLimited ==
  Spec => []GlobalLimited
BY LimitsHold, PTL

\* A request is refused only when its limit is used up in the interval it is
\* judged by, widened by what the clock was stepped back
\* (feedback/ratelimit.py 41-52).
THEOREM RefusalsJustified ==
  Spec => []RefusalJustified
<1>1. Init => RefusalJustified
  BY DEF Init, LimiterInit, RefusalJustified
<1> QED
  BY <1>1, LimiterStart, LimiterStep, RefusalStep, PTL DEF Spec

\* The table of addresses never outgrows the recent traffic
\* (feedback/ratelimit.py 48, 66-73).
THEOREM TableFollowsTraffic ==
  Spec => []TrackedIpsActive
<1>1. Init => TrackedIpsActive
  BY DEF Init, LimiterInit, TrackedIpsActive
<1> QED
  BY <1>1, LimiterStart, LimiterStep, ActiveStep, PTL DEF Spec
=============================================================================
