------------------------------- MODULE Scorer -------------------------------
(***************************************************************************)
(* How an accepted answer is scored against the findings                   *)
(* (eval/scorer.py): coverage and structural hallucinations.  The          *)
(* grounding of numbers in the texts is left out.                          *)
(***************************************************************************)
EXTENDS LlmResponse

SignalCoverage(signals, result) ==
  IF signals = {} THEN Num(1, 1)
  ELSE Num(Cardinality(signals \cap DOMAIN result.narratives), Cardinality(signals))

GroupKeys(result) == {result.groups[i].key : i \in DOMAIN result.groups}

GroupCoverage_Mutant(signals, result) ==   \* keys are not normalised
  IF signals = {} THEN Num(1, 1)
  ELSE Num(Cardinality(CategoriesOf(signals) \cap GroupKeys(result)),
           Cardinality(CategoriesOf(signals)))

GroupCoverage(signals, result) ==
  IF signals = {} THEN Num(1, 1)
  ELSE Num(Cardinality(CategoriesOf(signals) \cap {InternalKey(k) : k \in GroupKeys(result)}),
           Cardinality(CategoriesOf(signals)))

\* Findings.dominant_cluster_exists has FALSE for its default, and build_findings
\* gives it no value.
DominantClusterExists == FALSE

Violations(signals, result) ==
       {<<"key_story_when_no_cluster", story>> : story \in
          {t \in {result.key_story} : t # "null" /\ ~ DominantClusterExists}}
  \cup {<<"invalid_watch_signal_id", i>> : i \in
          {j \in DOMAIN result.watch : result.watch[j].ref \notin signals \cup MetricIds}}
  \cup {<<"invalid_group_narrative_category", k>> : k \in
          {j \in GroupKeys(result) : InternalKey(j) \notin CategoriesOf(signals)}}
  \cup {<<"extra_signal_narrative", r>> : r \in DOMAIN result.narratives \ signals}
  \cup {<<"missing_signal_narrative", r>> : r \in signals \ DOMAIN result.narratives}

Scores(signals, result) ==
  [signal_coverage |-> SignalCoverage(signals, result),
   group_coverage  |-> GroupCoverage(signals, result),
   violations      |-> Violations(signals, result)]
=============================================================================
