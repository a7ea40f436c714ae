---------------------------- MODULE ReportProofs ----------------------------
(***************************************************************************)
(* Theorems about Report: the report implements the overlay's contract.    *)
(***************************************************************************)
EXTENDS Report, FindingsProofs, FiniteSetTheorems, WellFoundedInduction, TLAPS

\* What a stage knows of the reply, of the result and of the evaluation.
Progress ==
  /\ pc \in {"loaded", "validated", "built", "answered", "accepted", "scored",
             "published", "failed"}
  /\ pc \in {"loaded", "validated", "built"} =>
       reply = NoReply /\ result = NoResult /\ eval = "none"
  /\ pc = "answered" => reply \in Replies /\ result = NoResult /\ eval = "none"
  /\ pc \in {"accepted", "scored"} => reply \in Replies /\ result # NoResult
  /\ pc = "scored" => eval \in {"scored", "scorer_error"}

\* A reply that passes validation gives a result: the text of its summary or of
\* its situation survives (validate_response).
LEMMA AcceptedIsSome ==
  ASSUME NEW r, NEW S, NEW m, ~ Rejected(r)
  PROVE  Validated(r, S, m) # NoResult
<1>1. Validated(r, S, m) = NoResult => r.summary = "blank" /\ r.situation = "null"
  BY DEF Validated, NoResult
<1> QED  BY <1>1 DEF Rejected

\* Progress is inductive.
LEMMA ProgressInvariant == Spec => []Progress
<1>1. Init => Progress
  BY DEF Init, Progress
<1>2. Progress /\ [Next]_vars => Progress'
  <2> SUFFICES ASSUME Progress, [Next]_vars PROVE Progress'
    OBVIOUS
  <2> USE DEF Progress
  <2>1. CASE Fail  BY <2>1 DEF Fail
  <2>2. CASE Validate  BY <2>2 DEF Validate
  <2>3. CASE Build  BY <2>3 DEF Build
  <2>4. CASE RenderOff \/ PromptsFail \/ CallFails \/ Reject
    BY <2>4 DEF RenderOff, PromptsFail, CallFails, Reject, RenderDeterministic
  <2>5. CASE Answer  BY <2>5 DEF Answer
  <2>6. CASE AnswerRaises  BY <2>6 DEF AnswerRaises
  <2>7. CASE Accept  BY <2>7, AcceptedIsSome DEF Accept
  <2>8. CASE Score \/ ScorerFails  BY <2>8 DEF Score, ScorerFails
  <2>9. CASE RenderEnriched  BY <2>9 DEF RenderEnriched
  <2>10. CASE UNCHANGED vars  BY <2>10 DEF vars
  <2> QED  BY <2>1, <2>2, <2>3, <2>4, <2>5, <2>6, <2>7, <2>8, <2>9, <2>10 DEF Next
<1> QED  BY <1>1, <1>2, PTL DEF Spec

\* Every behaviour of a report publishes at most one brief, enriched only by an
\* accepted answer, and accounts for the answer: execute with render_llm and
\* generate implements the contract of Overlay.
THEOREM ReportImplementsOverlay == Spec => PublishesOverlay
<1>1. Init => O!Init
  BY DEF Init, O!Init, Kind
<1>2. Progress /\ [Next]_vars => [O!Next]_(O!vars)
  <2> SUFFICES ASSUME Progress, [Next]_vars PROVE O!Next \/ UNCHANGED O!vars
    OBVIOUS
  <2> USE ReportAssumption DEF Progress, Kind, O!vars
  <2>1. CASE Fail
    BY <2>1 DEF Fail, O!Next, O!Publish, O!Outcomes
  <2>2. CASE Validate \/ Build
    BY <2>2 DEF Validate, Build
  <2>3. CASE RenderOff \/ PromptsFail \/ CallFails \/ Reject
    BY <2>3 DEF RenderOff, PromptsFail, CallFails, Reject, RenderDeterministic,
                O!Next, O!Publish, O!Outcomes
  <2>4. CASE Answer
    BY <2>4 DEF Answer, O!Next, O!Answer
  <2>5. CASE AnswerRaises
    BY <2>5 DEF AnswerRaises, O!Next, O!Publish, O!Outcomes
  <2>6. CASE Accept \/ Score \/ ScorerFails
    BY <2>6 DEF Accept, Score, ScorerFails
  <2>7. CASE RenderEnriched
    BY <2>7 DEF RenderEnriched, O!Next, O!Publish, O!Outcomes
  <2>8. CASE UNCHANGED vars
    BY <2>8 DEF vars
  <2> QED  BY <2>1, <2>2, <2>3, <2>4, <2>5, <2>6, <2>7, <2>8 DEF Next
<1> QED  BY <1>1, <1>2, ProgressInvariant, PTL DEF Spec, PublishesOverlay, O!Spec

\* A metric some rule looks at is a number only if its columns are, and its
\* divisor is not zero.
LEMMA MetricNumber ==
  ASSUME NEW row \in [RequiredColumns -> Cell], NEW m \in DOMAIN Sources
  PROVE  /\ ComputeMetrics(row)[m] \in Float \cup {None}
         /\ IsNum(ComputeMetrics(row)[m]) =>
              /\ \A c \in Sources[m] : IsNum(Coerced(row[c]))
              /\ m \in DOMAIN Divisor => ~ IsZero(row[Divisor[m]])
<1> DEFINE v(c) == Coerced(row[c])
           ad == Plus(Plus(v("ad_spend_google"), v("ad_spend_meta")), v("ad_spend_other"))
           net == Minus(v("gross_revenue"), v("refunds"))
           margin == Minus(net, v("variable_cost"))
<1>1. \A c \in RequiredColumns : v(c) \in Float
  BY CoercedFloat
<1>2. {"ad_spend_google", "ad_spend_meta", "ad_spend_other", "gross_revenue", "refunds",
       "variable_cost", "leads_paid", "bookings_total", "appointments_completed",
       "appointments_cancelled", "new_clients_paid", "new_clients_organic"}
        \subseteq RequiredColumns
  BY DEF RequiredColumns, FloatColumns, IntColumns
<1>3. /\ ad \in Float
      /\ IsNum(ad) => IsNum(v("ad_spend_google")) /\ IsNum(v("ad_spend_meta"))
                        /\ IsNum(v("ad_spend_other"))
  <2>1. /\ Plus(v("ad_spend_google"), v("ad_spend_meta")) \in Float
        /\ IsNum(Plus(v("ad_spend_google"), v("ad_spend_meta"))) =>
             IsNum(v("ad_spend_google")) /\ IsNum(v("ad_spend_meta"))
    BY <1>1, <1>2, SumFloat
  <2> QED  BY <1>1, <1>2, <2>1, SumFloat
<1>4. net \in Float /\ (IsNum(net) => IsNum(v("gross_revenue")) /\ IsNum(v("refunds")))
  BY <1>1, <1>2, SumFloat
<1>5. margin \in Float /\ (IsNum(margin) => IsNum(net) /\ IsNum(v("variable_cost")))
  BY <1>1, <1>2, <1>4, SumFloat
<1>6. \A c \in RequiredColumns : IsNum(v(c)) /\ v(c).n # 0 => ~ IsZero(row[c])
  BY DEF Coerced, IsZero, IsNum, Text, NaN, Num
<1> HIDE DEF v, ad, net, margin
<1>7. CASE m \in {"cac_paid", "marketing_pct_revenue"}
  <2>1. ComputeMetrics(row)["cac_paid"] = SafeDiv(ad, v("new_clients_paid"))
    BY MetricFormulas DEF v, ad
  <2>2. ComputeMetrics(row)["marketing_pct_revenue"] = SafeDiv(ad, net)
    BY MetricFormulas DEF v, ad, net
  <2> QED  BY <1>1, <1>2, <1>3, <1>4, <1>6, <1>7, <2>1, <2>2, SafeDivNumber DEF Sources, Divisor, v
<1>8. CASE m \in {"paid_lead_to_client", "show_rate", "cancel_rate"}
  <2>1. /\ ComputeMetrics(row)["paid_lead_to_client"] = SafeDiv(v("new_clients_paid"), v("leads_paid"))
        /\ ComputeMetrics(row)["show_rate"] = SafeDiv(v("appointments_completed"), v("bookings_total"))
        /\ ComputeMetrics(row)["cancel_rate"] = SafeDiv(v("appointments_cancelled"), v("bookings_total"))
    BY MetricFormulas DEF v
  <2> QED  BY <1>1, <1>2, <1>6, <1>8, <2>1, SafeDivNumber DEF Sources, Divisor, v
<1>9. CASE m \in {"net_revenue", "bookings_total", "new_clients_total"}
  <2>1. /\ ComputeMetrics(row)["net_revenue"] = net
        /\ ComputeMetrics(row)["bookings_total"] = v("bookings_total")
        /\ ComputeMetrics(row)["new_clients_total"]
             = Plus(v("new_clients_paid"), v("new_clients_organic"))
    BY MetricFormulas DEF v, net
  <2> QED  BY <1>1, <1>2, <1>4, <1>9, <2>1, SumFloat DEF Sources, Divisor, v
<1>10. CASE m \in {"gross_margin", "contribution_after_marketing"}
  <2>1. /\ ComputeMetrics(row)["gross_margin"] = SafeDiv(margin, net)
        /\ ComputeMetrics(row)["contribution_after_marketing"] = Minus(margin, ad)
    BY MetricFormulas DEF v, ad, net, margin
  <2> QED
    BY <1>3, <1>4, <1>5, <1>10, <2>1, SafeDivNumber, SumFloat DEF Sources, Divisor, v
<1> QED  BY <1>7, <1>8, <1>9, <1>10 DEF Sources

\* The signals of a report are those of its two weeks.
SignalsBuilt ==
  /\ input \in Inputs
  /\ pc \in {"loaded", "validated"} => signals = {}
  /\ signals # {} => DOMAIN input.sheet.rows = {"prev", "curr"} /\ signals = Signals(Prev, Curr)

LEMMA SignalsBuiltInvariant == Spec => []SignalsBuilt
<1>1. Init => SignalsBuilt
  BY DEF Init, SignalsBuilt
<1>2. SignalsBuilt /\ [Next]_vars => SignalsBuilt'
  <2> SUFFICES ASSUME SignalsBuilt, [Next]_vars PROVE SignalsBuilt'
    OBVIOUS
  <2> USE DEF SignalsBuilt, Prev, Curr
  <2>1. CASE Build  BY <2>1 DEF Build
  <2>2. CASE Fail \/ Validate \/ Answer \/ AnswerRaises \/ Accept
    BY <2>2 DEF Fail, Validate, Answer, AnswerRaises, Accept
  <2>3. CASE RenderOff \/ PromptsFail \/ CallFails \/ Reject
    BY <2>3 DEF RenderOff, PromptsFail, CallFails, Reject, RenderDeterministic
  <2>4. CASE Score \/ ScorerFails \/ RenderEnriched
    BY <2>4 DEF Score, ScorerFails, RenderEnriched
  <2>5. CASE UNCHANGED vars  BY <2>5 DEF vars
  <2> QED  BY <2>1, <2>2, <2>3, <2>4, <2>5 DEF Next
<1> QED  BY <1>1, <1>2, PTL DEF Spec

\* Every rule of the file looks at a metric of which the columns are known.
LEMMA RuleMetrics == \A r \in RuleIds : Rules[r].metric \in DOMAIN Sources
BY DEF RuleIds, Rules, Rule, Sources

\* On every sheet, and for all values of the thresholds of the configuration,
\* a signal rests on numbers only (evaluate_rules on the metrics of
\* compute_metrics).
THEOREM SignalsRestOnNumbers == Spec => []NoNumberNoSignal
<1>1. SignalsBuilt => NoNumberNoSignal
  <2> SUFFICES ASSUME SignalsBuilt, NEW r \in signals
               PROVE  LET rows == IF Rules[r].condition \in {"absolute_lt", "absolute_gt"}
                                  THEN {Curr} ELSE {Prev, Curr}
                      IN \A row \in rows :
                           /\ \A c \in Sources[Rules[r].metric] : IsNum(Coerced(row[c]))
                           /\ Rules[r].metric \in DOMAIN Divisor =>
                                ~ IsZero(row[Divisor[Rules[r].metric]])
    BY Zenon DEF NoNumberNoSignal
  <2> DEFINE m == Rules[r].metric
             was == WithCounts(ComputeMetrics(Prev), Prev)[m]
             is == ComputeMetrics(Curr)[m]
  <2>1. Prev \in [RequiredColumns -> Cell] /\ Curr \in [RequiredColumns -> Cell]
    BY ReportAssumption DEF SignalsBuilt, Prev, Curr
  <2>2. r \in RuleIds /\ Holds(Rules[r], was, is)
    BY DEF SignalsBuilt, Signals
  <2>3. m \in DOMAIN Sources
    BY <2>2, RuleMetrics
  <2>4. was = ComputeMetrics(Prev)[m]
    <3>1. m \in MetricIds
      BY <2>3 DEF Sources, MetricIds
    <3>2. m \in DOMAIN AtLeast => m = "bookings_total"
      BY <2>3 DEF Sources, AtLeast
    <3>3. ComputeMetrics(Prev)["bookings_total"] = Coerced(Prev["bookings_total"])
      BY <2>1, MetricFormulas
    <3> QED  BY <3>1, <3>2, <3>3 DEF WithCounts
  <2> HIDE DEF m, was, is
  <2>5. was \in Float \cup {None} /\ is \in Float \cup {None}
    BY <2>1, <2>3, <2>4, MetricNumber DEF is
  <2>6. IsNum(is) /\ (Rules[r].condition \notin {"absolute_lt", "absolute_gt"} => IsNum(was))
    BY <2>2, <2>5, HoldsOfNumbers
  <2> QED
    BY <2>1, <2>3, <2>4, <2>6, MetricNumber DEF is, m
<1> QED  BY <1>1, SignalsBuiltInvariant, PTL

-----------------------------------------------------------------------------
(* The loss of contribution leads the brief *)

\* If a rule of the highest priority warns, one of them is the first signal.
LEMMA HighestLeads ==
  ASSUME NEW S \in SUBSET RuleIds, {"A1", "H1", "H3"} \cap S # {}
  PROVE  \E r \in TopWarns(S, 1) : Rules[r].priority = 10
<1> DEFINE first == IF "A1" \in S THEN "A1" ELSE IF "H1" \in S THEN "H1" ELSE "H3"
<1>1. first \in Warns(S) /\ Rules[first].priority = 10
  BY DEF Warns, Rules, Rule
<1>2. ASSUME NEW s \in Warns(S), Outranks(s, first)
      PROVE  FALSE
  <2>1. PICK i \in 1..3 : /\ SortKey(s)[i] < SortKey(first)[i]
                          /\ \A j \in 1..(i - 1) : SortKey(s)[j] = SortKey(first)[j]
    BY <1>2 DEF Outranks
  <2>2. SortKey(s) = <<0, -Rules[s].priority, Rules[s].nr>>
    BY DEF SortKey, Warns
  <2>3. SortKey(first) = <<0, -10, Rules[first].nr>>
    BY <1>1 DEF SortKey, Warns
  <2>4. s \in RuleIds /\ s \in S
    BY DEF Warns
  <2>5. /\ Rules[s].priority \in 0..10 /\ Rules[s].nr \in 1..11
        /\ Rules[s].priority = 10 => s \in {"A1", "H1", "H3"}
    BY <2>4 DEF RuleIds, Rules, Rule
  <2>6. i = 3 /\ Rules[s].priority = 10 /\ Rules[s].nr < Rules[first].nr
    <3>1. i # 1
      BY <2>1, <2>2, <2>3
    <3>2. i # 2
      BY <2>1, <2>2, <2>3, <2>5
    <3>3. i = 3
      BY <3>1, <3>2
    <3>4. SortKey(s)[2] = SortKey(first)[2] /\ SortKey(s)[3] < SortKey(first)[3]
      BY <2>1, <3>3
    <3> QED  BY <2>2, <2>3, <2>5, <3>3, <3>4
  <2>7. Rules["A1"].nr = 1 /\ Rules["H1"].nr = 9 /\ Rules["H3"].nr = 11
    BY DEF Rules, Rule
  <2> QED  BY <2>4, <2>5, <2>6, <2>7
<1>3. {s \in Warns(S) : Outranks(s, first)} = {}
  BY <1>2
<1>4. Cardinality({s \in Warns(S) : Outranks(s, first)}) < 1
  BY <1>3, FS_EmptySet
<1>5. first \in TopWarns(S, 1)
  BY <1>1, <1>4 DEF TopWarns
<1> QED  BY <1>1, <1>5

\* A published brief was rendered from the signals of the two weeks.
BriefBuilt ==
  /\ pc \in {"built", "answered", "accepted", "scored", "published"} =>
       DOMAIN input.sheet.rows = {"prev", "curr"} /\ signals = Signals(Prev, Curr)
  /\ pc = "published" => brief.top_warn = TopWarns(signals, 1)

LEMMA BriefBuiltInvariant == Spec => []BriefBuilt
<1>1. Init => BriefBuilt
  BY DEF Init, BriefBuilt
<1>2. BriefBuilt /\ [Next]_vars => BriefBuilt'
  <2> SUFFICES ASSUME BriefBuilt, [Next]_vars PROVE BriefBuilt'
    OBVIOUS
  <2> USE DEF BriefBuilt, Prev, Curr
  <2>1. CASE Build  BY <2>1 DEF Build
  <2>2. CASE Fail \/ Validate \/ Answer \/ AnswerRaises \/ Accept
    BY <2>2 DEF Fail, Validate, Answer, AnswerRaises, Accept
  <2>3. CASE RenderOff \/ PromptsFail \/ CallFails \/ Reject
    BY <2>3 DEF RenderOff, PromptsFail, CallFails, Reject, RenderDeterministic, Brief
  <2>4. CASE Score \/ ScorerFails \/ RenderEnriched
    BY <2>4 DEF Score, ScorerFails, RenderEnriched, Brief
  <2>5. CASE UNCHANGED vars  BY <2>5 DEF vars
  <2> QED  BY <2>1, <2>2, <2>3, <2>4, <2>5 DEF Next
<1> QED  BY <1>1, <1>2, PTL DEF Spec

\* A week that lost a quarter of its contribution, after one with enough
\* revenue, opens its brief with a rule of the highest priority, on every sheet
\* and for every positive minimum revenue (rules H3 and A1, their guards, and
\* the order of the signals).
THEOREM LossAlwaysLeads ==
  ASSUME MinPrevNetRevenue \in Nat \ {0}
  PROVE  Spec => []LossLeadsTheBrief
<1>1. SignalsBuilt /\ BriefBuilt => LossLeadsTheBrief
  <2> DEFINE p == ComputeMetrics(Prev)["contribution_after_marketing"]
             c == ComputeMetrics(Curr)["contribution_after_marketing"]
  <2> SUFFICES ASSUME SignalsBuilt, BriefBuilt, pc = "published",
                      Leq(Num(MinPrevNetRevenue, 1), ComputeMetrics(Prev)["net_revenue"]),
                      IsNum(Minus(p, c)), ~ IsZero(p),
                      Leq(Magnitude(p), Num(4 * Minus(p, c).n, Minus(p, c).d))
               PROVE  \E r \in brief.top_warn : Rules[r].priority = 10
    BY DEF LossLeadsTheBrief
  <2>1. Prev \in [RequiredColumns -> Cell] /\ Curr \in [RequiredColumns -> Cell]
    BY ReportAssumption DEF SignalsBuilt, BriefBuilt, Prev, Curr
  <2>2. "A1" \in Signals(Prev, Curr) \/ "H3" \in Signals(Prev, Curr)
    BY <2>1, LossFires
  <2>3. signals = Signals(Prev, Curr) /\ brief.top_warn = TopWarns(signals, 1)
    BY DEF BriefBuilt
  <2>4. signals \in SUBSET RuleIds /\ {"A1", "H1", "H3"} \cap signals # {}
    BY <2>2, <2>3 DEF Signals
  <2> QED  BY <2>3, <2>4, HighestLeads
<1> QED  BY <1>1, SignalsBuiltInvariant, BriefBuiltInvariant, PTL

-----------------------------------------------------------------------------
(***************************************************************************)
(* The prompt, the brief and the scorer agree on categories and clusters.  *)
(***************************************************************************)

LEMMA CategoryNames ==
  /\ Categories = {"acquisition", "financial_health", "operations", "revenue"}
  /\ \A r \in RuleIds : CategoryOf(r) \in Categories
<1>1. Categories = {"acquisition", "financial_health", "operations", "revenue"}
  <2>1. DOMAIN PreferredOrder = {1, 2, 3, 4}
    BY DEF PreferredOrder
  <2> QED  BY <2>1 DEF Categories, PreferredOrder
<1>2. \A r \in RuleIds : CategoryOf(r) \in {"acquisition", "financial_health", "operations", "revenue"}
  BY DEF RuleIds, CategoryOf, Rules, Rule
<1> QED  BY <1>1, <1>2

\* A set of positions has a last one.
LEMMA LastPosition ==
  ASSUME NEW n \in Nat, NEW S \in SUBSET (1..n), S # {}
  PROVE  \E i \in S : \A j \in S : j <= i
<1> DEFINE R == OpToRel(<, Nat)
<1>1. IsWellFoundedOn(R, Nat)
  BY NatLessThanWellFounded
<1>2. \A i, j \in Nat : i < j => <<i, j>> \in R
  BY DEF OpToRel
<1> HIDE DEF R
<1> DEFINE T == {n - i : i \in S}
<1>3. T \in SUBSET Nat /\ T # {}
  <2>1. \A i \in S : n - i \in Nat
    OBVIOUS
  <2>2. PICK i \in S : TRUE
    OBVIOUS
  <2> QED  BY <2>1, <2>2
<1> HIDE DEF T
<1>4. PICK x \in T : \A y \in T : ~(<<y, x>> \in R)
  BY <1>1, <1>3, WFMin
<1>5. PICK i \in S : x = n - i
  BY DEF T
<1>6. ASSUME NEW j \in S
      PROVE  j <= i
  <2>1. n - j \in T
    BY DEF T
  <2>2. ~(n - j < n - i)
    BY <1>2, <1>3, <1>4, <1>5, <2>1
  <2> QED  BY <2>2
<1> QED  BY <1>6

\* A category shows a text that was given for it, the last one.
LEMMA GroupsFacts ==
  ASSUME NEW S, NEW res, NEW n \in Nat, DOMAIN res.groups = 1..n
  PROVE  LET shown == GroupsShown(S, res) IN
           /\ DOMAIN shown = {c \in CategoriesOf(S) : GivenFor(res.groups, c) # {}}
           /\ \A c \in DOMAIN shown : \E i \in GivenFor(res.groups, c) :
                /\ shown[c] = res.groups[i].key
                /\ \A j \in GivenFor(res.groups, c) : j <= i
<1> DEFINE last(c) == CHOOSE i \in GivenFor(res.groups, c) :
                        \A j \in GivenFor(res.groups, c) : j <= i
           shown == GroupsShown(S, res)
<1>1. /\ DOMAIN shown = {c \in CategoriesOf(S) : GivenFor(res.groups, c) # {}}
      /\ \A c \in DOMAIN shown : shown[c] = res.groups[last(c)].key
  BY DEF GroupsShown
<1>2. ASSUME NEW c, GivenFor(res.groups, c) # {}
      PROVE  /\ last(c) \in GivenFor(res.groups, c)
             /\ \A j \in GivenFor(res.groups, c) : j <= last(c)
  <2>1. GivenFor(res.groups, c) \in SUBSET (1..n)
    BY DEF GivenFor
  <2>2. \E i \in GivenFor(res.groups, c) : \A j \in GivenFor(res.groups, c) : j <= i
    BY <1>2, <2>1, LastPosition
  <2> QED  BY <2>2
<1> HIDE DEF last, shown
<1>3. ASSUME NEW c \in DOMAIN shown
      PROVE  \E i \in GivenFor(res.groups, c) :
               /\ shown[c] = res.groups[i].key
               /\ \A j \in GivenFor(res.groups, c) : j <= i
  <2>1. GivenFor(res.groups, c) # {}
    BY <1>1
  <2> QED  BY <1>1, <1>2, <2>1
<1> QED  BY <1>1, <1>3 DEF shown

\* The rules are finitely many: each has a number of its own.
LEMMA FiniteRules ==
  ASSUME NEW S \in SUBSET RuleIds
  PROVE  IsFiniteSet(S) /\ Cardinality(S) \in Nat
<1>1. PICK f : f = [r \in RuleIds |-> Rules[r].nr]
  OBVIOUS
<1>2. \A r \in RuleIds : f[r] \in 1..11
  BY <1>1 DEF RuleIds, Rules, Rule
<1>3. \A r, s \in RuleIds : f[r] = f[s] => r = s
  BY <1>1 DEF RuleIds, Rules, Rule
<1>4. f \in Injection(RuleIds, 1..11)
  BY <1>1, <1>2, <1>3 DEF Injection, IsInjective
<1>5. IsFiniteSet(RuleIds)
  <2>1. 1 \in Int /\ 11 \in Int
    OBVIOUS
  <2>2. IsFiniteSet(1..11)
    BY <2>1, FS_Interval
  <2> QED  BY <1>4, <2>2, FS_Injection
<1>6. IsFiniteSet(S)
  BY <1>5, FS_Subset
<1> QED  BY <1>6, FS_CardinalityType

\* A set has two elements if it is counted to have two.
LEMMA TwoElements ==
  ASSUME NEW T, IsFiniteSet(T)
  PROVE  Cardinality(T) >= 2 <=> \E r, s \in T : r # s
<1>0. Cardinality(T) \in Nat
  BY FS_CardinalityType
<1>1. ASSUME Cardinality(T) >= 2
      PROVE  \E r, s \in T : r # s
  <2>1. PICK r : r \in T
    BY <1>1, FS_EmptySet
  <2>2. T # {r}
    BY <1>1, FS_Singleton
  <2> QED  BY <2>1, <2>2
<1>2. ASSUME NEW r \in T, NEW s \in T, r # s
      PROVE  Cardinality(T) >= 2
  <2>1. IsFiniteSet({r}) /\ Cardinality({r}) = 1
    BY FS_Singleton
  <2>2. Cardinality({r} \cup {s}) = 2
    BY <1>2, <2>1, FS_AddElement
  <2>3. {r} \cup {s} \subseteq T
    OBVIOUS
  <2>4. Cardinality({r} \cup {s}) <= Cardinality(T)
    BY <2>3, FS_Subset
  <2> QED  BY <1>0, <2>2, <2>4
<1> QED  BY <1>1, <1>2

LEMMA TwoWarns ==
  ASSUME NEW S \in SUBSET RuleIds, NEW c
  PROVE  /\ WarnCount(S, c) \in Nat
         /\ WarnCount(S, c) >= 2
              <=> \E r, s \in Warns(S) : r # s /\ CategoryOf(r) = c /\ CategoryOf(s) = c
<1> DEFINE T == {r \in Warns(S) : CategoryOf(r) = c}
<1>1. T \in SUBSET RuleIds
  BY DEF Warns
<1>2. IsFiniteSet(T) /\ Cardinality(T) \in Nat
  BY <1>1, FiniteRules
<1>3. Cardinality(T) >= 2 <=> \E r, s \in T : r # s
  BY <1>2, TwoElements
<1>4. WarnCount(S, c) = Cardinality(T)
  BY DEF WarnCount
<1> QED  BY <1>2, <1>3, <1>4

\* Of four counts some are chosen from: the first of the greatest exists.
LEMMA FirstGreatest ==
  ASSUME NEW w \in [1..4 -> Nat], NEW G \in SUBSET (1..4), G # {}
  PROVE  \E i \in G : \A j \in G : IF i <= j THEN w[i] >= w[j] ELSE w[i] > w[j]
<1> DEFINE better(i, j) == j \in G => IF i <= j THEN w[i] >= w[j] ELSE w[i] > w[j]
           best(i) == i \in G /\ better(i, 1) /\ better(i, 2) /\ better(i, 3) /\ better(i, 4)
<1>1. w[1] \in Nat /\ w[2] \in Nat /\ w[3] \in Nat /\ w[4] \in Nat
  OBVIOUS
<1>2. 1 \in G \/ 2 \in G \/ 3 \in G \/ 4 \in G
  <2>1. PICK j \in 1..4 : j \in G
    OBVIOUS
  <2> QED  BY <2>1
<1>3. best(1) \/ best(2) \/ best(3) \/ best(4)
  BY <1>1, <1>2
<1>4. ASSUME NEW i, best(i)
      PROVE  i \in G /\ \A j \in G : better(i, j)
  BY <1>4
<1> QED  BY <1>3, <1>4

\* The group the prompt names has as many warnings as any other
\* (_resolve_dominant_cluster).
LEMMA DominantHasMost ==
  ASSUME NEW S \in SUBSET RuleIds, NEW r \in S
  PROVE  WarnCount(S, DominantGroup(S)) >= WarnCount(S, CategoryOf(r))
<1> DEFINE groups == {i \in DOMAIN PreferredOrder : \E q \in S : CategoryOf(q) = PreferredOrder[i]}
           warns(i) == WarnCount(S, PreferredOrder[i])
           better(i, j) == IF i <= j THEN warns(i) >= warns(j) ELSE warns(i) > warns(j)
           chosen == CHOOSE i \in groups : \A j \in groups : better(i, j)
<1>1. DOMAIN PreferredOrder = 1..4
  BY DEF PreferredOrder
<1>2. PICK k \in 1..4 : PreferredOrder[k] = CategoryOf(r)
  BY <1>1, CategoryNames DEF Categories
<1>3. k \in groups /\ groups \in SUBSET (1..4)
  BY <1>1, <1>2
<1>4. \A i : warns(i) \in Nat
  BY TwoWarns
<1>5. DominantGroup(S) = PreferredOrder[chosen]
  BY DEF DominantGroup
<1> HIDE DEF groups, warns
<1>6. \E i \in groups : \A j \in groups : better(i, j)
  <2> PICK w : w = [i \in 1..4 |-> warns(i)]
    OBVIOUS
  <2>1. w \in [1..4 -> Nat] /\ \A i \in groups : w[i] = warns(i)
    BY <1>3, <1>4
  <2>2. PICK i \in groups : \A j \in groups : IF i <= j THEN w[i] >= w[j] ELSE w[i] > w[j]
    BY <1>3, <2>1, FirstGreatest
  <2> QED  BY <2>1, <2>2
<1> HIDE DEF better
<1>7. chosen \in groups /\ better(chosen, k)
  BY <1>3, <1>6
<1> HIDE DEF chosen
<1>8. warns(chosen) >= warns(k)
  BY <1>4, <1>7 DEF better
<1> QED  BY <1>2, <1>5, <1>8 DEF warns

\* A cluster the brief shows is one the prompt asked about.
LEMMA SameCluster ==
  ASSUME NEW S \in SUBSET RuleIds
  PROVE  /\ ClusterInBrief(S) <=> \E r, s \in Warns(S) : r # s /\ CategoryOf(r) = CategoryOf(s)
         /\ ClusterInBrief(S) => ClusterInPrompt(S)
<1>0. Warns(S) \subseteq S /\ \A r \in Warns(S) : CategoryOf(r) \in Categories
  BY CategoryNames DEF Warns
<1>1. ASSUME ClusterInBrief(S)
      PROVE  /\ \E r, s \in Warns(S) : r # s /\ CategoryOf(r) = CategoryOf(s)
             /\ ClusterInPrompt(S)
  <2>1. PICK c \in Categories : WarnCount(S, c) >= 2
    BY <1>1 DEF ClusterInBrief
  <2>2. PICK r, s \in Warns(S) : r # s /\ CategoryOf(r) = c /\ CategoryOf(s) = c
    BY <2>1, TwoWarns
  <2>3. WarnCount(S, DominantGroup(S)) >= WarnCount(S, c)
    BY <1>0, <2>2, DominantHasMost
  <2>4. WarnCount(S, DominantGroup(S)) \in Nat /\ WarnCount(S, c) \in Nat
    BY TwoWarns
  <2>5. WarnCount(S, DominantGroup(S)) >= 2
    BY <2>1, <2>3, <2>4
  <2> QED  BY <1>0, <2>2, <2>5 DEF ClusterInPrompt
<1>2. ASSUME NEW r \in Warns(S), NEW s \in Warns(S), r # s, CategoryOf(r) = CategoryOf(s)
      PROVE  ClusterInBrief(S)
  BY <1>0, <1>2, TwoWarns DEF ClusterInBrief
<1> QED  BY <1>1, <1>2

-----------------------------------------------------------------------------
(***************************************************************************)
(* What the brief shows, and what the scores judge.                        *)
(***************************************************************************)

\* The result is the validated reply, the brief shows it and the scores are its.
ResultBuilt ==
  /\ result # NoResult =>
       /\ pc \in {"accepted", "scored", "published"}
       /\ reply \in Replies
       /\ result = Validated(reply, signals, input.mode)
  /\ pc = "published" => brief = Brief(signals, result)
  /\ eval = "scored" =>
       /\ pc \in {"scored", "published"}
       /\ result # NoResult
       /\ scores = Scores(signals, result)

LEMMA ResultBuiltInvariant == Spec => []ResultBuilt
<1>1. Init => ResultBuilt
  BY DEF Init, ResultBuilt
<1>2. Progress /\ ResultBuilt /\ [Next]_vars => ResultBuilt'
  <2> SUFFICES ASSUME Progress, ResultBuilt, [Next]_vars PROVE ResultBuilt'
    OBVIOUS
  <2> USE DEF Progress, ResultBuilt
  <2>1. CASE Fail \/ Validate \/ Build
    BY <2>1 DEF Fail, Validate, Build
  <2>2. CASE RenderOff \/ PromptsFail \/ CallFails \/ Reject
    BY <2>2 DEF RenderOff, PromptsFail, CallFails, Reject, RenderDeterministic
  <2>3. CASE Answer \/ AnswerRaises
    BY <2>3 DEF Answer, AnswerRaises
  <2>4. CASE Accept
    BY <2>4, AcceptedIsSome DEF Accept
  <2>5. CASE Score
    BY <2>5 DEF Score
  <2>6. CASE ScorerFails
    BY <2>6 DEF ScorerFails
  <2>7. CASE RenderEnriched
    BY <2>7 DEF RenderEnriched
  <2>8. CASE UNCHANGED vars
    BY <2>8 DEF vars
  <2> QED  BY <2>1, <2>2, <2>3, <2>4, <2>5, <2>6, <2>7, <2>8 DEF Next
<1> QED  BY <1>1, <1>2, ProgressInvariant, PTL DEF Spec

\* The narratives of a reply, wrapped or not.
Told(r) ==
  IF "narratives" \in DOMAIN r.signal_narratives
  THEN r.signal_narratives.narratives ELSE r.signal_narratives

\* Validation keeps the texts about this week's signals as they are.
LEMMA NarrativesKept ==
  ASSUME NEW r, NEW S, NEW mode
  PROVE  /\ mode = "full" => DOMAIN SignalNarratives(r, S, mode) \subseteq S
         /\ S \cap NonBlank(SignalNarratives(r, S, mode)) = S \cap NonBlank(Told(r))
<1> DEFINE kept == SignalNarratives(r, S, mode)
<1>1. NarrativesOf(Wrapped(r.signal_narratives)) = Told(r)
  BY DEF NarrativesOf, Wrapped, Told
<1>2. kept = [q \in {q \in DOMAIN Told(r) : mode = "full" => q \in S} |-> Told(r)[q]]
  BY <1>1 DEF SignalNarratives
<1> HIDE DEF kept
<1>3. /\ DOMAIN kept = {q \in DOMAIN Told(r) : mode = "full" => q \in S}
      /\ \A q \in DOMAIN kept : kept[q] = Told(r)[q]
  BY <1>2
<1>4. S \cap NonBlank(kept) = S \cap NonBlank(Told(r))
  BY <1>3 DEF NonBlank
<1> QED  BY <1>3, <1>4 DEF kept

\* What is kept of the watch list refers to this week.
LEMMA WatchKept ==
  ASSUME NEW r, NEW S
  PROVE  /\ \A i \in DOMAIN WatchSignals(r, S) : WatchSignals(r, S)[i].ref \in S \cup MetricIds
         /\ WatchSignals(r, S) # << >> =>
              WatchSignals(r, S) = r.watch /\ Len(r.watch) <= 2
BY DEF WatchSignals

\* What becomes of an entry of the groups.
Answered(i) ==
  LET g == reply.groups[i]
      c == InternalKey(g.key)
  IN g.text # "blank" /\ c \in CategoriesOf(signals) =>
       /\ c \in DOMAIN brief.groups
       /\ brief.groups[c] = g.key \/ \E j \in GivenFor(reply.groups, c) : i < j

\* The brief of an accepted reply shows what the reply says of this week's
\* signals and nothing else of it, for every reply, every configuration and
\* every sheet (validate_response, render_template).
THEOREM BriefIsTheReply == Spec => []BriefShowsReply
<1>1. SignalsBuilt /\ ResultBuilt => BriefShowsReply
  <2> SUFFICES ASSUME SignalsBuilt, ResultBuilt, pc = "published", result # NoResult
               PROVE  /\ brief.situation <=> reply.situation = "text"
                      /\ brief.key_story <=> /\ reply.key_story = "text"
                                             /\ \E r, s \in Warns(signals) :
                                                  r # s /\ CategoryOf(r) = CategoryOf(s)
                      /\ brief.narratives = signals \cap NonBlank(Told(reply))
                      /\ \A i \in DOMAIN reply.groups : Answered(i)
                      /\ \A c \in DOMAIN brief.groups :
                           \E i \in GivenFor(reply.groups, c) : brief.groups[c] = reply.groups[i].key
                      /\ brief.watch # {} =>
                           \A i \in DOMAIN reply.watch :
                             i <= 2 /\ reply.watch[i].ref \in signals \cup MetricIds
    BY DEF BriefShowsReply, Told, Answered
  <2>1. /\ reply \in Replies /\ signals \in SUBSET RuleIds
        /\ brief = Brief(signals, result)
        /\ result = Validated(reply, signals, input.mode)
    BY DEF SignalsBuilt, ResultBuilt, Signals
  <2>2. /\ brief.situation = (result.situation = "text")
        /\ brief.key_story = (result.key_story = "text" /\ ClusterInBrief(signals))
        /\ brief.narratives = signals \cap NonBlank(result.narratives)
        /\ brief.groups = GroupsShown(signals, result)
        /\ brief.watch = WatchShown(result)
    BY <2>1 DEF Brief
  <2>3. /\ result.situation = reply.situation
        /\ result.key_story = KeyStory(reply, signals)
        /\ result.narratives = SignalNarratives(reply, signals, input.mode)
        /\ result.groups = reply.groups
        /\ result.watch = WatchSignals(reply, signals)
    BY <2>1 DEF Validated
  <2>4. brief.key_story <=> /\ reply.key_story = "text"
                            /\ \E r, s \in Warns(signals) : r # s /\ CategoryOf(r) = CategoryOf(s)
    BY <2>1, <2>2, <2>3, SameCluster DEF KeyStory
  <2>5. brief.narratives = signals \cap NonBlank(Told(reply))
    <3>1. signals \cap NonBlank(SignalNarratives(reply, signals, input.mode))
            = signals \cap NonBlank(Told(reply))
      BY Zenon, NarrativesKept
    <3> QED  BY <2>2, <2>3, <3>1
  <2>6. /\ \A i \in DOMAIN reply.groups : Answered(i)
        /\ \A c \in DOMAIN brief.groups :
             \E i \in GivenFor(reply.groups, c) : brief.groups[c] = reply.groups[i].key
    <3>1. Len(reply.groups) \in Nat /\ DOMAIN reply.groups = 1..Len(reply.groups)
      BY <2>1, ReportAssumption
    <3>2. LET shown == GroupsShown(signals, result) IN
            /\ DOMAIN shown = {c \in CategoriesOf(signals) : GivenFor(result.groups, c) # {}}
            /\ \A c \in DOMAIN shown : \E i \in GivenFor(result.groups, c) :
                 /\ shown[c] = result.groups[i].key
                 /\ \A j \in GivenFor(result.groups, c) : j <= i
      <4>1. DOMAIN result.groups = 1..Len(reply.groups)
        BY <2>3, <3>1
      <4> QED  BY <3>1, <4>1, GroupsFacts
    <3>3. /\ DOMAIN brief.groups = {c \in CategoriesOf(signals) : GivenFor(reply.groups, c) # {}}
          /\ \A c \in DOMAIN brief.groups : \E i \in GivenFor(reply.groups, c) :
               /\ brief.groups[c] = reply.groups[i].key
               /\ \A j \in GivenFor(reply.groups, c) : j <= i
      BY <2>2, <2>3, <3>2
    <3>4. ASSUME NEW i \in DOMAIN reply.groups, NEW c, c = InternalKey(reply.groups[i].key),
                 reply.groups[i].text # "blank", c \in CategoriesOf(signals)
          PROVE  /\ c \in DOMAIN brief.groups
                 /\ \/ brief.groups[c] = reply.groups[i].key
                    \/ \E j \in GivenFor(reply.groups, c) : i < j
      <4>1. i \in GivenFor(reply.groups, c) /\ c \in DOMAIN brief.groups
        BY <3>3, <3>4 DEF GivenFor
      <4>2. PICK l \in GivenFor(reply.groups, c) :
              brief.groups[c] = reply.groups[l].key /\ i <= l
        BY <3>3, <4>1
      <4>3. i \in Int /\ l \in Int
        BY <3>1 DEF GivenFor
      <4> QED  BY <4>1, <4>2, <4>3
    <3> QED  BY <3>3, <3>4 DEF Answered
  <2>7. ASSUME brief.watch # {}
        PROVE  \A i \in DOMAIN reply.watch :
                 i <= 2 /\ reply.watch[i].ref \in signals \cup MetricIds
    <3>1. DOMAIN result.watch # {}
      BY <2>2, <2>7 DEF WatchShown
    <3>2. result.watch # << >>
      BY <3>1
    <3>3. result.watch = reply.watch /\ Len(reply.watch) <= 2
      BY <2>3, <3>2, WatchKept
    <3>4. Len(reply.watch) \in Nat /\ DOMAIN reply.watch = 1..Len(reply.watch)
      BY <2>1, ReportAssumption
    <3>5. \A i \in DOMAIN result.watch : result.watch[i].ref \in signals \cup MetricIds
      BY <2>3, WatchKept
    <3>6. \A i \in DOMAIN reply.watch : i <= 2
      BY <3>3, <3>4
    <3> QED  BY <3>3, <3>5, <3>6
  <2> QED  BY <2>2, <2>3, <2>4, <2>5, <2>6, <2>7
<1> QED  BY <1>1, SignalsBuiltInvariant, ResultBuiltInvariant, PTL

\* The violations of each kind.
LEMMA ViolationsOfKind ==
  ASSUME NEW S, NEW res
  PROVE  LET flagged(type) == {v[2] : v \in {w \in Violations(S, res) : w[1] = type}}
         IN /\ flagged("missing_signal_narrative") = S \ DOMAIN res.narratives
            /\ flagged("extra_signal_narrative") = DOMAIN res.narratives \ S
            /\ flagged("invalid_group_narrative_category")
                 = {k \in GroupKeys(res) : InternalKey(k) \notin CategoriesOf(S)}
            /\ flagged("invalid_watch_signal_id")
                 = {i \in DOMAIN res.watch : res.watch[i].ref \notin S \cup MetricIds}
<1> DEFINE flagged(type) == {v[2] : v \in {w \in Violations(S, res) : w[1] = type}}
           extra == DOMAIN res.narratives \ S
           missing == S \ DOMAIN res.narratives
           group == {k \in GroupKeys(res) : InternalKey(k) \notin CategoriesOf(S)}
           watch == {i \in DOMAIN res.watch : res.watch[i].ref \notin S \cup MetricIds}
<1>1. ASSUME NEW v
      PROVE  v \in Violations(S, res) <=>
               \/ v = <<"key_story_when_no_cluster", res.key_story>>
                    /\ res.key_story # "null" /\ ~ DominantClusterExists
               \/ \E i \in watch : v = <<"invalid_watch_signal_id", i>>
               \/ \E k \in group : v = <<"invalid_group_narrative_category", k>>
               \/ \E r \in extra : v = <<"extra_signal_narrative", r>>
               \/ \E r \in missing : v = <<"missing_signal_narrative", r>>
  BY Zenon DEF Violations
<1> HIDE DEF extra, missing, group, watch
<1>2. flagged("missing_signal_narrative") = missing
  <2>1. ASSUME NEW v \in Violations(S, res), v[1] = "missing_signal_narrative"
        PROVE  v[2] \in missing
    BY <1>1, <2>1
  <2>2. ASSUME NEW x \in missing
        PROVE  <<"missing_signal_narrative", x>> \in Violations(S, res)
    BY <1>1
  <2>3. ASSUME NEW x \in missing
        PROVE  x \in flagged("missing_signal_narrative")
    <3> PICK v : v = <<"missing_signal_narrative", x>>
      OBVIOUS
    <3>1. v \in Violations(S, res) /\ v[1] = "missing_signal_narrative" /\ v[2] = x
      BY <2>2
    <3> QED  BY <3>1
  <2> QED  BY <2>1, <2>3
<1>3. flagged("extra_signal_narrative") = extra
  <2>1. ASSUME NEW v \in Violations(S, res), v[1] = "extra_signal_narrative"
        PROVE  v[2] \in extra
    BY <1>1, <2>1
  <2>2. ASSUME NEW x \in extra
        PROVE  <<"extra_signal_narrative", x>> \in Violations(S, res)
    BY <1>1
  <2>3. ASSUME NEW x \in extra
        PROVE  x \in flagged("extra_signal_narrative")
    <3> PICK v : v = <<"extra_signal_narrative", x>>
      OBVIOUS
    <3>1. v \in Violations(S, res) /\ v[1] = "extra_signal_narrative" /\ v[2] = x
      BY <2>2
    <3> QED  BY <3>1
  <2> QED  BY <2>1, <2>3
<1>4. flagged("invalid_group_narrative_category") = group
  <2>1. ASSUME NEW v \in Violations(S, res), v[1] = "invalid_group_narrative_category"
        PROVE  v[2] \in group
    BY <1>1, <2>1
  <2>2. ASSUME NEW x \in group
        PROVE  <<"invalid_group_narrative_category", x>> \in Violations(S, res)
    BY <1>1
  <2>3. ASSUME NEW x \in group
        PROVE  x \in flagged("invalid_group_narrative_category")
    <3> PICK v : v = <<"invalid_group_narrative_category", x>>
      OBVIOUS
    <3>1. v \in Violations(S, res) /\ v[1] = "invalid_group_narrative_category" /\ v[2] = x
      BY <2>2
    <3> QED  BY <3>1
  <2> QED  BY <2>1, <2>3
<1>5. flagged("invalid_watch_signal_id") = watch
  <2>1. ASSUME NEW v \in Violations(S, res), v[1] = "invalid_watch_signal_id"
        PROVE  v[2] \in watch
    BY <1>1, <2>1
  <2>2. ASSUME NEW x \in watch
        PROVE  <<"invalid_watch_signal_id", x>> \in Violations(S, res)
    BY <1>1
  <2>3. ASSUME NEW x \in watch
        PROVE  x \in flagged("invalid_watch_signal_id")
    <3> PICK v : v = <<"invalid_watch_signal_id", x>>
      OBVIOUS
    <3>1. v \in Violations(S, res) /\ v[1] = "invalid_watch_signal_id" /\ v[2] = x
      BY <2>2
    <3> QED  BY <3>1
  <2> QED  BY <2>1, <2>3
<1> QED  BY <1>2, <1>3, <1>4, <1>5 DEF extra, missing, group, watch

\* The scores judge the answer the brief shows, for every reply, every
\* configuration and every sheet (score_signal_coverage, score_group_coverage
\* and check_hallucinations on the validated result).
THEOREM ScoresJudgeTheBrief == Spec => []ScoresMatchBrief
<1>1. SignalsBuilt /\ ResultBuilt => ScoresMatchBrief
  <2> DEFINE flagged(type) == {v[2] : v \in {w \in scores.violations : w[1] = type}}
             missing == flagged("missing_signal_narrative")
  <2> SUFFICES ASSUME SignalsBuilt, ResultBuilt, pc = "published", eval = "scored"
               PROVE  /\ signals # {} =>
                           scores.signal_coverage.n = Cardinality(signals \ missing)
                      /\ brief.narratives \cap missing = {}
                      /\ Cardinality(DOMAIN brief.groups) <= scores.group_coverage.n
                      /\ \A k \in flagged("invalid_group_narrative_category") :
                           InternalKey(k) \notin DOMAIN brief.groups
                      /\ flagged("invalid_watch_signal_id") = {}
                      /\ input.mode = "full" => flagged("extra_signal_narrative") = {}
    BY DEF ScoresMatchBrief
  <2>1. /\ signals \in SUBSET RuleIds
        /\ brief = Brief(signals, result)
        /\ result = Validated(reply, signals, input.mode)
        /\ scores = Scores(signals, result)
    BY DEF SignalsBuilt, ResultBuilt, Signals
  <2>2. /\ brief.narratives = signals \cap NonBlank(result.narratives)
        /\ brief.groups = GroupsShown(signals, result)
    BY <2>1 DEF Brief
  <2>3. /\ result.narratives = SignalNarratives(reply, signals, input.mode)
        /\ result.watch = WatchSignals(reply, signals)
    BY <2>1 DEF Validated
  <2>4. /\ scores.signal_coverage = SignalCoverage(signals, result)
        /\ scores.group_coverage = GroupCoverage(signals, result)
        /\ scores.violations = Violations(signals, result)
    BY <2>1 DEF Scores
  <2>5. /\ missing = signals \ DOMAIN result.narratives
        /\ flagged("extra_signal_narrative") = DOMAIN result.narratives \ signals
        /\ flagged("invalid_group_narrative_category")
             = {k \in GroupKeys(result) : InternalKey(k) \notin CategoriesOf(signals)}
        /\ flagged("invalid_watch_signal_id")
             = {i \in DOMAIN result.watch : result.watch[i].ref \notin signals \cup MetricIds}
    BY <2>4, ViolationsOfKind
  <2> HIDE DEF flagged, missing
  <2>6. ASSUME signals # {}
        PROVE  scores.signal_coverage.n = Cardinality(signals \ missing)
    <3>1. signals \ missing = signals \cap DOMAIN result.narratives
      BY <2>5
    <3> QED  BY <2>4, <2>6, <3>1 DEF SignalCoverage, Num
  <2>7. Cardinality(DOMAIN brief.groups) <= scores.group_coverage.n
    <3>1. CASE signals = {}
      <4>1. DOMAIN brief.groups = {} /\ scores.group_coverage.n = 1
        BY <2>2, <2>4, <3>1 DEF GroupsShown, CategoriesOf, GroupCoverage, Num
      <4> QED  BY <4>1, FS_EmptySet
    <3>2. CASE signals # {}
      <4> DEFINE covered == CategoriesOf(signals) \cap {InternalKey(k) : k \in GroupKeys(result)}
      <4>1. scores.group_coverage.n = Cardinality(covered)
        BY <2>4, <3>2 DEF GroupCoverage, Num
      <4>2. DOMAIN brief.groups \subseteq covered
        <5> SUFFICES ASSUME NEW c \in CategoriesOf(signals), GivenFor(result.groups, c) # {}
                     PROVE  c \in covered
          BY <2>2 DEF GroupsShown
        <5>1. PICK i \in DOMAIN result.groups : InternalKey(result.groups[i].key) = c
          BY DEF GivenFor
        <5> QED  BY <5>1 DEF GroupKeys
      <4>3. IsFiniteSet(covered)
        <5>1. covered \subseteq Categories
          BY <2>1, CategoryNames DEF CategoriesOf
        <5>2. IsFiniteSet(Categories)
          <6>1. IsFiniteSet({"acquisition"})
            BY FS_Singleton
          <6>2. IsFiniteSet({"acquisition"} \cup {"financial_health"})
            BY <6>1, FS_AddElement
          <6>3. IsFiniteSet({"acquisition"} \cup {"financial_health"} \cup {"operations"})
            BY <6>2, FS_AddElement
          <6>4. IsFiniteSet({"acquisition"} \cup {"financial_health"} \cup {"operations"} \cup {"revenue"})
            BY <6>3, FS_AddElement
          <6>5. Categories = {"acquisition"} \cup {"financial_health"} \cup {"operations"} \cup {"revenue"}
            BY CategoryNames
          <6> QED  BY <6>4, <6>5
        <5> QED  BY <5>1, <5>2, FS_Subset
      <4> HIDE DEF covered
      <4> QED  BY <4>1, <4>2, <4>3, FS_Subset
    <3> QED  BY <3>1, <3>2
  <2>8. brief.narratives \cap missing = {}
    BY <2>2, <2>5 DEF NonBlank
  <2>9. \A k \in flagged("invalid_group_narrative_category") : InternalKey(k) \notin DOMAIN brief.groups
    BY <2>2, <2>5 DEF GroupsShown
  <2>10. flagged("invalid_watch_signal_id") = {}
    BY <2>3, <2>5, WatchKept
  <2>11. input.mode = "full" => flagged("extra_signal_narrative") = {}
    <3>1. input.mode = "full"
            => DOMAIN SignalNarratives(reply, signals, input.mode) \subseteq signals
      BY Zenon, NarrativesKept
    <3> QED  BY <2>3, <2>5, <3>1
  <2> QED  BY <2>6, <2>7, <2>8, <2>9, <2>10, <2>11
<1> QED  BY <1>1, SignalsBuiltInvariant, ResultBuiltInvariant, PTL

\* With less revenue, fewer bookings or fewer new clients no warning of their
\* fall disappears, on every sheet and to whatever amount it falls, damaged
\* cells and fractions included (compute_delta, compute_metrics and the
\* guards of evaluate_rules).
THEOREM WorseIsStillWarned == Spec => []WorseStaysWarned
<1>1. SignalsBuilt /\ BriefBuilt => WorseStaysWarned
  <2> SUFFICES ASSUME SignalsBuilt, BriefBuilt, pc = "built",
                      NEW drop \in {<<"A1", "gross_revenue">>, <<"F1", "bookings_total">>,
                                   <<"G1", "new_clients_paid">>, <<"G1", "new_clients_organic">>},
                      NEW less \in Amounts, drop[1] \in signals, Lt(less, Curr[drop[2]])
               PROVE  drop[1] \in Signals(Prev, [Curr EXCEPT ![drop[2]] = less])
    BY DEF WorseStaysWarned
  <2>1. signals = Signals(Prev, Curr) /\ DOMAIN input.sheet.rows = {"prev", "curr"} /\ input \in Inputs
    BY DEF SignalsBuilt, BriefBuilt
  <2>2. Prev \in [RequiredColumns -> Cell] /\ Curr \in [RequiredColumns -> Cell]
    BY <2>1, ReportAssumption DEF Prev, Curr
  <2>3. less \in Float
    BY ReportAssumption
  <2>4. drop[1] \in Signals(Prev, Curr)
    BY <2>1
  <2> HIDE DEF SignalsBuilt, BriefBuilt
  <2> QED  BY <2>2, <2>3, <2>4, FallStaysWarned
<1> QED  BY <1>1, SignalsBuiltInvariant, BriefBuiltInvariant, PTL
=============================================================================
