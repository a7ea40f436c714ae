------------------------------- MODULE Report -------------------------------
(***************************************************************************)
(* What one run says: the stages of execute (pipeline.py) that turn the    *)
(* sheet into findings and these into brief.md, with render_llm            *)
(* (render/llm.py) and generate (render/llm_adapter.py) step by step.      *)
(* Where the files of the run go is the subject of Pipeline.               *)
(***************************************************************************)
EXTENDS Scorer

CONSTANTS
  Inputs,     \* what a run is given: [sheet, mode]
  Replies,    \* what the model may answer
  NoReply,
  Amounts     \* for WorseStaysWarned: what a cell is lowered to

\* A sheet has columns, and rows for some of the weeks "prev" and "curr".
ASSUME ReportAssumption ==
  /\ NoReply \notin Replies
  /\ Amounts \subseteq Float
  /\ \A r \in Replies : r.watch \in Seq(WatchEntry) /\ r.groups \in Seq(GroupEntry)
  /\ \A i \in Inputs :
       /\ i.mode \in {"off", "summary", "full"}
       /\ \A w \in DOMAIN i.sheet.rows : i.sheet.rows[w] \in [RequiredColumns -> Cell]

VARIABLES
  pc,         \* the stage reached, "published" or "failed" in the end
  input,
  events,     \* Findings.audit
  signals,    \* Findings.signals
  reply,      \* the text the model returned
  result,     \* AdapterLLMResult
  eval,       \* eval_scores_data: its eval_skipped_reason, or "scored"
  scores,     \* eval_scores_data: the scores
  brief       \* brief.md

vars == <<pc, input, events, signals, reply, result, eval, scores, brief>>

NoScores == [signal_coverage |-> None, group_coverage |-> None, violations |-> {}]
NoBrief == Brief({}, NoResult)

Prev == input.sheet.rows["prev"]
Curr == input.sheet.rows["curr"]

Init ==
  /\ pc = "loaded" /\ input \in Inputs
  /\ events = {} /\ signals = {}
  /\ reply = NoReply /\ result = NoResult
  /\ eval = "none" /\ scores = NoScores /\ brief = NoBrief

-----------------------------------------------------------------------------
\* A ValueError: columns are missing, or a week is.
Fail ==
  /\ \/ pc = "loaded" /\ ~ RequiredColumns \subseteq input.sheet.columns
     \/ pc = "validated" /\ DOMAIN input.sheet.rows # {"prev", "curr"}
  /\ pc' = "failed"
  /\ UNCHANGED <<input, events, signals, reply, result, eval, scores, brief>>

\* validate_dataframe
Validate ==
  /\ pc = "loaded" /\ RequiredColumns \subseteq input.sheet.columns
  /\ pc' = "validated"
  /\ events' = AuditEvents({input.sheet.rows[w] : w \in DOMAIN input.sheet.rows})
  /\ UNCHANGED <<input, signals, reply, result, eval, scores, brief>>

\* build_findings
Build ==
  /\ pc = "validated" /\ DOMAIN input.sheet.rows = {"prev", "curr"}
  /\ pc' = "built"
  /\ signals' = Signals(Prev, Curr)
  /\ UNCHANGED <<input, events, reply, result, eval, scores, brief>>

\* The deterministic brief, with what is recorded of the evaluation: nothing if
\* the mode is off or the prompts cannot be rendered.
RenderDeterministic(reason) ==
  /\ pc' = "published"
  /\ brief' = Brief(signals, NoResult)
  /\ eval' = reason
  /\ UNCHANGED <<input, events, signals, result, scores>>

RenderOff ==
  /\ pc = "built" /\ input.mode = "off"
  /\ RenderDeterministic("none") /\ UNCHANGED reply

PromptsFail ==
  /\ pc = "built" /\ input.mode # "off"
  /\ RenderDeterministic("none") /\ UNCHANGED reply

\* An unknown provider, no client, a timeout, an error of the API.
CallFails ==
  /\ pc = "built" /\ input.mode # "off"
  /\ RenderDeterministic("llm_fallback") /\ UNCHANGED reply

Answer ==
  /\ pc = "built" /\ input.mode # "off"
  /\ pc' = "answered"
  /\ reply' \in Replies
  /\ UNCHANGED <<input, events, signals, result, eval, scores, brief>>

Reject_Mutant ==   \* the skipped evaluation is not recorded
  /\ pc = "answered" /\ Rejected(reply)
  /\ RenderDeterministic("none") /\ UNCHANGED reply

Reject ==
  /\ pc = "answered" /\ Rejected(reply)
  /\ RenderDeterministic("llm_fallback") /\ UNCHANGED reply

\* The exception leaves render_llm, and execute with it.
AnswerRaises ==
  /\ pc = "answered" /\ Raises(reply)
  /\ pc' = "failed"
  /\ UNCHANGED <<input, events, signals, reply, result, eval, scores, brief>>

Accept ==
  /\ pc = "answered" /\ ~ Rejected(reply) /\ ~ Raises(reply)
  /\ pc' = "accepted"
  /\ result' = Validated(reply, signals, input.mode)
  /\ UNCHANGED <<input, events, signals, reply, eval, scores, brief>>

Score ==
  /\ pc = "accepted"
  /\ pc' = "scored"
  /\ eval' = "scored" /\ scores' = Scores(signals, result)
  /\ UNCHANGED <<input, events, signals, reply, result, brief>>

\* The scorer raises, or the configuration cannot be read again.
ScorerFails ==
  /\ pc = "accepted"
  /\ pc' = "scored"
  /\ eval' = "scorer_error"
  /\ UNCHANGED <<input, events, signals, reply, result, scores, brief>>

RenderEnriched ==
  /\ pc = "scored"
  /\ pc' = "published"
  /\ brief' = Brief(signals, result)
  /\ UNCHANGED <<input, events, signals, reply, result, eval, scores>>

Next ==
  \/ Fail \/ Validate \/ Build
  \/ RenderOff \/ PromptsFail \/ CallFails
  \/ Answer \/ Reject \/ AnswerRaises \/ Accept
  \/ Score \/ ScorerFails \/ RenderEnriched

Spec == Init /\ [][Next]_vars

-----------------------------------------------------------------------------
(* Properties *)

\* The columns the metric of each rule is computed from, and its divisor.
Sources ==
  LET net == {"gross_revenue", "refunds"}
      adSpend == {"ad_spend_google", "ad_spend_meta", "ad_spend_other"}
  IN [net_revenue                  |-> net,
      cac_paid                     |-> adSpend \cup {"new_clients_paid"},
      paid_lead_to_client          |-> {"new_clients_paid", "leads_paid"},
      show_rate                    |-> {"appointments_completed", "bookings_total"},
      cancel_rate                  |-> {"appointments_cancelled", "bookings_total"},
      bookings_total               |-> {"bookings_total"},
      new_clients_total            |-> {"new_clients_paid", "new_clients_organic"},
      gross_margin                 |-> net \cup {"variable_cost"},
      marketing_pct_revenue        |-> net \cup adSpend,
      contribution_after_marketing |-> net \cup adSpend \cup {"variable_cost"}]
Divisor ==
  [cac_paid |-> "new_clients_paid", paid_lead_to_client |-> "leads_paid",
   show_rate |-> "bookings_total", cancel_rate |-> "bookings_total"]

\* A rule never fires on a cell that holds no number, nor on a rate over
\* nobody: what is not computable is silent, not zero (safe_div, and the
\* comparisons of evaluate_rules with None and NaN).
NoNumberNoSignal ==
  \A r \in signals :
    LET metric == Rules[r].metric
        rows == IF Rules[r].condition \in {"absolute_lt", "absolute_gt"}
                THEN {Curr} ELSE {Prev, Curr}
    IN \A row \in rows :
         /\ \A c \in Sources[metric] : IsNum(Coerced(row[c]))
         /\ metric \in DOMAIN Divisor => ~ IsZero(row[Divisor[metric]])

\* A week that lost a quarter of its contribution, after one with enough
\* revenue, opens its brief with a rule of the highest priority.  The guard of
\* H3 on the current revenue silences it in the worst weeks, and then A1 must
\* speak.
LossLeadsTheBrief ==
  LET before == ComputeMetrics(Prev)
      old == before.contribution_after_marketing
      loss == Minus(old, ComputeMetrics(Curr).contribution_after_marketing)
  IN (/\ pc = "published"
      /\ Leq(Num(MinPrevNetRevenue, 1), before.net_revenue)
      /\ IsNum(loss) /\ ~ IsZero(old)
      /\ Leq(Magnitude(old), Num(4 * loss.n, loss.d)))
     => \E r \in brief.top_warn : Rules[r].priority = 10

\* A week still worse is still warned about: with less revenue, fewer bookings
\* or fewer new clients no warning of their fall disappears (the guards and the
\* two modes of a hybrid rule look at the previous week only).
WorseStaysWarned ==
  pc = "built" =>
    \A drop \in {<<"A1", "gross_revenue">>, <<"F1", "bookings_total">>,
                 <<"G1", "new_clients_paid">>, <<"G1", "new_clients_organic">>} :
      \A less \in Amounts :
        drop[1] \in signals /\ Lt(less, Curr[drop[2]])
          => drop[1] \in Signals(Prev, [Curr EXCEPT ![drop[2]] = less])

\* The brief of an accepted reply shows what the reply says of this week's
\* signals, and nothing else of it: no text is lost to the layout of the
\* narratives or the two computations of the dominant cluster, no text about
\* other ids gets in, and a category keeps its text under any spelling of its
\* name, unless a later entry names the same category: template.py 70-74 keeps
\* one of the two.
BriefShowsReply ==
  pc = "published" /\ result # NoResult =>
    LET sn == reply.signal_narratives
        narratives == IF "narratives" \in DOMAIN sn THEN sn.narratives ELSE sn
    IN /\ brief.situation <=> reply.situation = "text"
       /\ brief.key_story <=> /\ reply.key_story = "text"
                              /\ \E r, s \in Warns(signals) : r # s /\ CategoryOf(r) = CategoryOf(s)
       /\ brief.narratives = signals \cap NonBlank(narratives)
       /\ \A i \in DOMAIN reply.groups :
            LET g == reply.groups[i]
                c == InternalKey(g.key)
            IN g.text # "blank" /\ c \in CategoriesOf(signals) =>
                 /\ c \in DOMAIN brief.groups
                 /\ \/ brief.groups[c] = g.key
                    \/ \E j \in GivenFor(reply.groups, c) : i < j
       /\ \A c \in DOMAIN brief.groups :
            \E i \in GivenFor(reply.groups, c) : brief.groups[c] = reply.groups[i].key
       /\ brief.watch # {} =>
            \A i \in DOMAIN reply.watch : i <= 2 /\ reply.watch[i].ref \in signals \cup MetricIds

\* The scores judge the answer the brief shows, not the raw reply: coverage and
\* violations agree, what is shown counts as covered, and what validation
\* removed is not held against the answer.
ScoresMatchBrief ==
  pc = "published" /\ eval = "scored" =>
    LET flagged(type) == {v[2] : v \in {w \in scores.violations : w[1] = type}}
        missing == flagged("missing_signal_narrative")
    IN /\ signals # {} => scores.signal_coverage.n = Cardinality(signals \ missing)
       /\ brief.narratives \cap missing = {}
       /\ Cardinality(DOMAIN brief.groups) <= scores.group_coverage.n
       /\ \A k \in flagged("invalid_group_narrative_category") : InternalKey(k) \notin DOMAIN brief.groups
       /\ flagged("invalid_watch_signal_id") = {}
       /\ input.mode = "full" => flagged("extra_signal_narrative") = {}

\* The key story of a week with a dominant cluster, which the prompt asks for
\* and the brief shows, is no violation.
KeyStoryNotPenalised ==
  pc = "published" /\ input.mode = "full" /\ brief.key_story =>
    \A v \in scores.violations : v[1] # "key_story_when_no_cluster"

\* A brief is published once, deterministic or enriched, never half enriched,
\* and the evaluation recorded accounts for the answer (render_llm, generate).
Kind ==
  IF pc = "failed" THEN "failed"
  ELSE IF pc # "published" THEN "none"
  ELSE IF result = NoResult /\ brief = Brief(signals, NoResult) THEN "deterministic"
  ELSE "enriched"

O == INSTANCE Overlay WITH answered <- reply # NoReply, brief <- Kind,
                           eval <- IF pc = "published" THEN eval ELSE "none"
PublishesOverlay == O!Spec
=============================================================================
