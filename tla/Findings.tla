------------------------------ MODULE Findings ------------------------------
(***************************************************************************)
(* What a run concludes from its sheet: validate_dataframe                 *)
(* (validate/schema.py), compute_metrics, compute_delta and safe_div, and  *)
(* the rules of config/rules.yaml as evaluate_rules (rules/engine.py) and  *)
(* build_findings (findings/build.py) apply them.  Of the sheet only the   *)
(* rows of the two weeks are kept.  A float is an exact rational, so       *)
(* rounding and infinities are left out; comparisons with NaN are FALSE.   *)
(***************************************************************************)
EXTENDS Integers, FiniteSets

CONSTANTS
  MinPrevNetRevenue,    \* defaults.min_prev_net_revenue
  VolumeThreshold       \* defaults.volume_threshold

ASSUME FindingsAssumption ==
  MinPrevNetRevenue \in Nat /\ VolumeThreshold \in Nat

-----------------------------------------------------------------------------
(* Numbers, and what stands in their place: a denominator of 0 marks it *)

Num(a, b) == [n |-> a, d |-> b]
NaN == Num(0, 0)     \* an empty cell, and what is computed from it
None == Num(1, 0)    \* Python's None: not computable
Text == Num(2, 0)    \* a cell that does not parse as a number
Zero == Num(0, 1)
Float == [n : Int, d : Nat \ {0}] \cup {NaN}
Cell == Float \cup {Text}
IsNum(x) == x.d > 0

Plus(x, y) == IF IsNum(x) /\ IsNum(y) THEN Num(x.n * y.d + y.n * x.d, x.d * y.d) ELSE NaN
Minus(x, y) == IF IsNum(x) /\ IsNum(y) THEN Num(x.n * y.d - y.n * x.d, x.d * y.d) ELSE NaN
Magnitude(x) == IF IsNum(x) /\ x.n < 0 THEN Num(-x.n, x.d) ELSE x
IsZero(x) == IsNum(x) /\ x.n = 0

Lt(x, y) == IsNum(x) /\ IsNum(y) /\ x.n * y.d < y.n * x.d
Leq(x, y) == IsNum(x) /\ IsNum(y) /\ x.n * y.d <= y.n * x.d

Quotient(x, y) ==
  IF y.n > 0 THEN Num(x.n * y.d, x.d * y.n) ELSE Num(-(x.n * y.d), -(x.d * y.n))

SafeDiv_Mutant(x, y) ==   \* a zero denominator gives zero
  IF x = None \/ y = None THEN None
  ELSE IF IsZero(y) THEN Zero
  ELSE IF x = NaN \/ y = NaN THEN NaN
  ELSE Quotient(x, y)

SafeDiv(x, y) ==
  IF x = None \/ y = None \/ IsZero(y) THEN None
  ELSE IF x = NaN \/ y = NaN THEN NaN
  ELSE Quotient(x, y)

-----------------------------------------------------------------------------
(* Validation *)

FloatColumns == {"ad_spend_google", "ad_spend_meta", "ad_spend_other",
                 "gross_revenue", "refunds", "variable_cost"}
IntColumns == {"impressions_total", "clicks_total", "leads_paid", "leads_organic",
               "bookings_total", "appointments_completed", "appointments_cancelled",
               "new_clients_paid", "new_clients_organic", "returning_clients"}
RequiredColumns == FloatColumns \union IntColumns

Coerced(cell) == IF cell = Text THEN NaN ELSE cell

\* The audit events of a column: a cell that was blank already is not new.
NewNulls(rows, c) == \E row \in rows : row[c] = Text
NonInteger(rows, c) ==
  \E row \in rows : IsNum(Coerced(row[c])) /\ row[c].n % row[c].d # 0

AuditEvents(rows) ==
       {<<"coerce_warning", c>> : c \in {k \in RequiredColumns : NewNulls(rows, k)}}
  \cup {<<"non_integer_value", c>> : c \in {k \in IntColumns : NonInteger(rows, k)}}
  \cup {<<"info", None>>}

-----------------------------------------------------------------------------
(* Metrics of one week, and their change from the week before *)

ComputeMetrics(row) ==
  LET v == [c \in RequiredColumns |-> Coerced(row[c])]
      adSpend == Plus(Plus(v.ad_spend_google, v.ad_spend_meta), v.ad_spend_other)
      newClients == Plus(v.new_clients_paid, v.new_clients_organic)
      net == Minus(v.gross_revenue, v.refunds)
      margin == Minus(net, v.variable_cost)
  IN [cac_paid                     |-> SafeDiv(adSpend, v.new_clients_paid),
      paid_lead_to_client          |-> SafeDiv(v.new_clients_paid, v.leads_paid),
      paid_share_new_clients       |-> SafeDiv(v.new_clients_paid, newClients),
      cost_per_paid_lead           |-> SafeDiv(adSpend, v.leads_paid),
      show_rate                    |-> SafeDiv(v.appointments_completed, v.bookings_total),
      cancel_rate                  |-> SafeDiv(v.appointments_cancelled, v.bookings_total),
      rev_per_completed_appt       |-> SafeDiv(v.gross_revenue, v.appointments_completed),
      net_revenue                  |-> net,
      new_client_ratio             |-> SafeDiv(newClients, Plus(newClients, v.returning_clients)),
      gross_margin                 |-> SafeDiv(margin, net),
      marketing_pct_revenue        |-> SafeDiv(adSpend, net),
      contribution_after_marketing |-> Minus(margin, adSpend),
      bookings_total               |-> v.bookings_total,
      new_clients_total            |-> newClients]

MetricIds == {"cac_paid", "paid_lead_to_client", "paid_share_new_clients",
              "cost_per_paid_lead", "show_rate", "cancel_rate", "rev_per_completed_appt",
              "net_revenue", "new_client_ratio", "gross_margin", "marketing_pct_revenue",
              "contribution_after_marketing", "bookings_total", "new_clients_total"}

DeltaAbs(current, previous) ==
  IF current = None \/ previous = None THEN None ELSE Minus(current, previous)

DeltaPct_Mutant(current, previous) ==   \* divides by the signed previous value
  IF current = None \/ previous = None THEN None
  ELSE SafeDiv(Minus(current, previous), previous)

\* A previous value of zero makes safe_div, as the explicit test, return None.
DeltaPct(current, previous) ==
  IF current = None \/ previous = None THEN None
  ELSE SafeDiv(Minus(current, previous), Magnitude(previous))

-----------------------------------------------------------------------------
(* Rules *)

\* Guards are named as in the file: net revenue of the previous week at least
\* the minimum (min_prev), of the current week above zero (curr_net), and a
\* count of the previous week at least a number (volume).
Rule(nr, category, priority, severity, metric, condition, threshold, guards) ==
  [nr |-> nr, category |-> category, priority |-> priority, severity |-> severity,
   metric |-> metric, condition |-> condition, threshold |-> threshold, guards |-> guards]

Rules ==
  [A1 |-> Rule(1, "revenue", 10, "WARN", "net_revenue", "delta_pct_lte", Num(-15, 100), {"min_prev"}),
   A2 |-> Rule(2, "revenue", 2, "INFO", "net_revenue", "delta_pct_gte", Num(25, 100), {"min_prev"}),
   B1 |-> Rule(3, "acquisition", 8, "WARN", "cac_paid", "delta_pct_gte", Num(20, 100),
               {"min_prev", "new_clients_paid"}),
   C1 |-> Rule(4, "acquisition", 6, "WARN", "paid_lead_to_client", "delta_pct_lte",
               Num(-15, 100), {"leads_paid"}),
   D1 |-> Rule(5, "operations", 6, "WARN", "show_rate", "delta_pct_lte", Num(-10, 100), {"bookings_total"}),
   E1 |-> Rule(6, "operations", 6, "WARN", "cancel_rate", "delta_pct_gte", Num(15, 100), {"bookings_total"}),
   F1 |-> Rule(7, "operations", 8, "WARN", "bookings_total", "hybrid_delta_pct_lte", Num(-20, 100), {}),
   G1 |-> Rule(8, "acquisition", 8, "WARN", "new_clients_total", "hybrid_delta_pct_lte", Num(-20, 100), {}),
   H1 |-> Rule(9, "financial_health", 10, "WARN", "gross_margin", "absolute_lt", Num(50, 100), {"curr_net"}),
   H2 |-> Rule(10, "financial_health", 8, "WARN", "marketing_pct_revenue", "absolute_gt", Num(40, 100), {"curr_net"}),
   H3 |-> Rule(11, "financial_health", 10, "WARN", "contribution_after_marketing", "delta_pct_lte",
               Num(-25, 100), {"min_prev", "curr_net"})]

RuleIds == DOMAIN Rules
ThresholdAbs == Num(-3, 1)

\* The counts a guard asks of the previous week, and how many; build_findings
\* adds them to the metrics of that week.
AtLeast == [new_clients_paid |-> 1, leads_paid |-> 5, bookings_total |-> 5]

WithCounts(metrics, row) ==
  [m \in MetricIds \cup DOMAIN AtLeast |->
     IF m \in DOMAIN AtLeast THEN Coerced(row[m]) ELSE metrics[m]]

Guarded_Mutant(rule, previous, current) ==   \* the minimum is asked of the current week
  \/ /\ "min_prev" \in rule.guards
     /\ Lt(current.net_revenue, Num(MinPrevNetRevenue, 1))
  \/ "curr_net" \in rule.guards /\ Leq(current.net_revenue, Zero)
  \/ \E c \in rule.guards \cap DOMAIN AtLeast : Lt(previous[c], Num(AtLeast[c], 1))

\* The guards of a rule skip it; a comparison with NaN does not.
Guarded(rule, previous, current) ==
  \/ /\ "min_prev" \in rule.guards
     /\ Lt(previous.net_revenue, Num(MinPrevNetRevenue, 1))
  \/ "curr_net" \in rule.guards /\ Leq(current.net_revenue, Zero)
  \/ \E c \in rule.guards \cap DOMAIN AtLeast : Lt(previous[c], Num(AtLeast[c], 1))

\* A value of None fails every condition, as a NaN does.
Holds(rule, was, is) ==
  \/ rule.condition = "delta_pct_lte" /\ Leq(DeltaPct(is, was), rule.threshold)
  \/ rule.condition = "delta_pct_gte" /\ Leq(rule.threshold, DeltaPct(is, was))
  \/ rule.condition = "absolute_lt" /\ Lt(is, rule.threshold)
  \/ rule.condition = "absolute_gt" /\ Lt(rule.threshold, is)
  \/ /\ rule.condition = "hybrid_delta_pct_lte"
     /\ IF Lt(was, Num(VolumeThreshold, 1))
        THEN Leq(DeltaAbs(is, was), ThresholdAbs)
        ELSE Leq(DeltaPct(is, was), rule.threshold)

Signals(prev, curr) ==
  LET previous == WithCounts(ComputeMetrics(prev), prev)
      current == ComputeMetrics(curr)
  IN {r \in RuleIds : /\ ~ Guarded(Rules[r], previous, current)
                      /\ Holds(Rules[r], previous[Rules[r].metric], current[Rules[r].metric])}

-----------------------------------------------------------------------------
(* The order of the signals, and what is computed from it *)

\* sorted by severity, then by priority downwards, then by rule id
SortKey(r) ==
  <<IF Rules[r].severity = "WARN" THEN 0 ELSE 1, -Rules[r].priority, Rules[r].nr>>

Outranks(r, s) ==
  \E i \in 1..3 : /\ SortKey(r)[i] < SortKey(s)[i]
                 /\ \A j \in 1..(i - 1) : SortKey(r)[j] = SortKey(s)[j]

Warns(signals) == {r \in signals : Rules[r].severity = "WARN"}

\* The k first WARN signals; top_warn is the one of TopWarns(signals, 1).
TopWarns(signals, k) ==
  {r \in Warns(signals) : Cardinality({s \in Warns(signals) : Outranks(s, r)}) < k}

CategoryOf(r) == Rules[r].category
WarnCount(signals, category) == Cardinality({r \in Warns(signals) : CategoryOf(r) = category})
=============================================================================
