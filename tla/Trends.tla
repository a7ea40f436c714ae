------------------------------- MODULE Trends -------------------------------
(***************************************************************************)
(* What a run learns from the index about one metric: get_metric_history   *)
(* (history/store.py) and compute_trends (history/trends.py).  The index   *)
(* grows by one run at a time, reruns of a week included, and findings may  *)
(* be deleted.  Values are integers and the stable band is in percent, so  *)
(* every comparison is exact; baseline_delta_pct is left out.              *)
(***************************************************************************)
EXTENDS Integers, Sequences, FiniteSets

CONSTANTS
  Key,              \* the dataset keys
  Week,             \* week_start, numbered
  Value,            \* the values the metric takes
  Missing,          \* the findings or the metric in them are gone
  NWeeks,           \* history.n_weeks
  MinConsecutive,   \* history.min_consecutive
  StableBand,       \* history.stable_band_pct, in percent
  StableMinWeeks,   \* history.stable_min_weeks
  MaxRuns           \* bound: the number of runs indexed

ASSUME TrendsAssumption ==
  /\ Week \subseteq Nat
  /\ Value \subseteq Int /\ Missing \notin Value
  /\ NWeeks \in Nat \ {0} /\ MinConsecutive \in Nat \ {0}
  /\ StableBand \in Nat /\ StableMinWeeks \in Nat /\ MaxRuns \in Nat

VARIABLE entries    \* the index, each record with the value in its findings

Init == entries = <<>>

\* register_run
Register(k, w, v) ==
  /\ Len(entries) < MaxRuns
  /\ entries' = Append(entries, [key |-> k, week |-> w, value |-> v])

DeleteFindings(i) ==
  /\ entries[i].value # Missing
  /\ entries' = [entries EXCEPT ![i].value = Missing]

Next ==
  \/ \E k \in Key, w \in Week, v \in Value : Register(k, w, v)
  \/ \E i \in DOMAIN entries : DeleteFindings(i)

Spec == Init /\ [][Next]_entries

-----------------------------------------------------------------------------
(* Sorting and filtering, by the position a member takes: the operators of   *)
(* the library are recursive and take the order as an operator, which no     *)
(* prover can instantiate.                                                   *)

\* The members of S from first to last: the n-th has n - 1 members before it.
InOrder(S, before) ==
  [n \in 1..Cardinality(S) |->
     CHOOSE i \in S : Cardinality({j \in S : <<j, i>> \in before}) = n - 1]

Lower(S) == {pair \in S \X S : pair[1] < pair[2]}

\* What is left of a sequence when only the positions in S are kept.
Keep(seq, S) ==
  LET order == InOrder(S, Lower(S))
  IN [n \in 1..Cardinality(S) |-> seq[order[n]]]

-----------------------------------------------------------------------------
(* get_metric_history *)

\* Python's sort is stable, also with reverse=True: runs of one week stay in
\* the order of their registration.
NewestFirst_Mutant(log, i, j) ==   \* reverse=True is forgotten
  \/ log[i].week < log[j].week
  \/ log[i].week = log[j].week /\ i < j

NewestFirst(log, i, j) ==
  \/ log[i].week > log[j].week
  \/ log[i].week = log[j].week /\ i < j

OldestFirst(log, S) ==
  {pair \in S \X S :
     \/ log[pair[1]].week < log[pair[2]].week
     \/ log[pair[1]].week = log[pair[2]].week /\ pair[1] < pair[2]}

Candidates_Mutant(log, k, before) ==   \* <= lets the runs of the week itself in
  {i \in DOMAIN log : log[i].key = k /\ log[i].week <= before}

\* The dataset's runs of the weeks before the one analysed.
Candidates(log, k, before) ==
  {i \in DOMAIN log : log[i].key = k /\ log[i].week < before}

\* The first NWeeks runs, newest week first: runs are counted, not weeks.
Lookback(log, k, before) ==
  LET S == Candidates(log, k, before) IN
    {i \in S : Cardinality({j \in S : NewestFirst(log, j, i)}) < NWeeks}

\* Runs without a value are skipped after the lookback was cut off.
Resolved(log, k, before) ==
  {i \in Lookback(log, k, before) : log[i].value # Missing}

History(log, k, before) ==
  LET S == Resolved(log, k, before)
      order == InOrder(S, OldestFirst(log, S))
  IN [n \in 1..Cardinality(S) |->
        [week |-> log[order[n]].week, value |-> log[order[n]].value]]

-----------------------------------------------------------------------------
(* compute_trends *)

\* _classify_direction of (curr - prev) / prev: the sign of prev matters.
Direction(prev, curr) ==
  LET change == 100 * (curr - prev)
      above == IF prev > 0 THEN change > StableBand * prev ELSE change < StableBand * prev
      below == IF prev > 0 THEN change < (0 - StableBand) * prev
                           ELSE change > (0 - StableBand) * prev
  IN IF above THEN "up" ELSE IF below THEN "down" ELSE "flat"

Directions_Mutant(h) ==   \* a step that starts at 0 is not skipped
  [n \in 1..Len(h) - 1 |-> Direction(h[n].value, h[n + 1].value)]

\* _build_direction_sequence skips the steps that start at 0.
Directions(h) ==
  Keep([n \in 1..Len(h) - 1 |-> Direction(h[n].value, h[n + 1].value)],
       {n \in 1..Len(h) - 1 : h[n].value # 0})

NonFlat(seq) == Keep(seq, {i \in DOMAIN seq : seq[i] # "flat"})

Sustained_Mutant(seq, d) ==   \* the last steps of a list that may be shorter
  LET nf == NonFlat(seq) IN
    /\ nf # <<>>
    /\ \A i \in DOMAIN nf : i > Len(nf) - MinConsecutive => nf[i] = d

\* The last MinConsecutive non-flat steps all go in direction d.
Sustained(seq, d) ==
  LET nf == NonFlat(seq) IN
    /\ Len(nf) >= MinConsecutive
    /\ \A i \in Len(nf) - MinConsecutive + 1..Len(nf) : nf[i] = d

\* _trailing_count: the steps d after the last step against d.
TrailingCount(seq, d) ==
  Cardinality({i \in DOMAIN seq :
                 seq[i] = d /\ \A j \in i..Len(seq) : seq[j] \in {d, "flat"}})

Recovers(seq) ==
  LET nf == NonFlat(seq) IN
    Len(nf) >= 2 /\ nf[Len(nf)] = "up" /\ nf[Len(nf) - 1] = "down"

Result(label, n) == [label |-> label, consecutive |-> n]

\* _classify: the first label that fits.
Classify(seq, points) ==
  CASE points < 2 -> Result("insufficient_history", 0)
    [] points >= 2 /\ points >= StableMinWeeks /\ NonFlat(seq) = <<>> -> Result("stable", 0)
    [] OTHER ->
       CASE Sustained(seq, "up")   -> Result("rising", TrailingCount(seq, "up"))
         [] Sustained(seq, "down") -> Result("falling", TrailingCount(seq, "down"))
         [] Recovers(seq) /\ ~Sustained(seq, "up") -> Result("recovering", 1)
         [] OTHER -> Result("volatile", 0)

TrendOf(h) == Classify(Directions(h), Len(h))

Trend(log, k, before) == TrendOf(History(log, k, before))

-----------------------------------------------------------------------------
(* Properties, for every dataset and every week that has an earlier one *)

Analysed == Key \X {w + 1 : w \in Week}

NewerThan(w, h) == Keep(h, {n \in DOMAIN h : h[n].week > w})

\* What the history says of the newer weeks is the history of the log without
\* the older ones: whatever is indexed of an older week, in whatever order and
\* with whatever limit of the lookback (history/store.py 219-221, 253).
BackfillKeepsNewer ==
  \A a \in Analysed, w \in Week :
    w + 1 < a[2] =>
      NewerThan(w, History(entries, a[1], a[2]))
        = History(Keep(entries, {i \in DOMAIN entries : entries[i].week > w}), a[1], a[2])

\* The history, and so the trend, is the one of the log without other
\* datasets, the week analysed and later ones: "prevents rerun leakage"
\* (history/trends.py 190-192).
NoLeakage ==
  \A a \in Analysed :
    History(entries, a[1], a[2])
      = History(Keep(entries, {i \in DOMAIN entries : entries[i].key = a[1] /\ entries[i].week < a[2]}),
                a[1], a[2])

\* The steps of a history in direction d after the last one against d.
LastSteps(h, d) ==
  LET steps == {n \in 1..Len(h) - 1 : h[n].value # 0}
      way(n) == Direction(h[n].value, h[n + 1].value)
  IN {n \in steps : way(n) = d /\ \A m \in steps : m >= n => way(m) \in {d, "flat"}}

WeeksMoved(h, d) == {h[n + 1].week : n \in LastSteps(h, d)}

RunOnce(h) == \A m, n \in DOMAIN h : h[m].week = h[n].week => m = n

\* "weeks_consecutive" is a number of weeks where no week was run twice: a
\* metric called rising or falling has moved that way in exactly so many
\* different weeks, min_consecutive at least, with none against it in between.
\* The label is taken from the non-flat steps, the count from all of them
\* (history/trends.py 140-152, 162-170).  Flat weeks and weeks without a value
\* may lie in between, and a week that was run twice counts twice.
ConsecutiveEnough ==
  \A a \in Analysed :
    LET h == History(entries, a[1], a[2])
        t == TrendOf(h)
        d == IF t.label = "rising" THEN "up" ELSE "down"
    IN t.label \in {"rising", "falling"} /\ RunOnce(h)
         => t.consecutive = Cardinality(WeeksMoved(h, d)) /\ t.consecutive >= MinConsecutive

\* A trend never reverses under a metric that only grows from 0 or more: it is
\* then neither falling nor recovering (history/trends.py 89-159).
GrowthNeverFalls ==
  \A a \in Analysed :
    LET h == History(entries, a[1], a[2])
    IN (\A n \in 1..Len(h) - 1 : 0 <= h[n].value /\ h[n].value <= h[n + 1].value)
         => TrendOf(h).label \notin {"falling", "recovering"}
=============================================================================
