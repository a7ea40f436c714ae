---------------------------- MODULE LlmResponse ----------------------------
(***************************************************************************)
(* What becomes of a reply of the model: validate_response                 *)
(* (render/llm_adapter.py), and the sections render_template               *)
(* (render/template.py, template.md.j2) prints for what it kept.  A text   *)
(* is "null", "blank", "text" or "long".  A missing field and an empty one *)
(* are read alike; a reply is                                              *)
(*   form       "object", or why it is none: "not_json", "not_object",     *)
(*              "ill_typed"                                                *)
(*   summary, situation, key_story                                         *)
(*   signal_narratives  texts by rule id, or these under "narratives"      *)
(*   groups     entries [key, text] in the order of the JSON object, the   *)
(*              keys categories in any spelling                            *)
(*   watch      entries [ref, observation, complete], where an             *)
(*              observation may also be "advice"                           *)
(***************************************************************************)
EXTENDS Findings, Sequences

CONSTANT NormalForm   \* lower() and replace(" ", "_"), for each key of a reply's groups

ASSUME NormalFormAssumption ==
  \A k \in DOMAIN NormalForm :
    NormalForm[k] \in DOMAIN NormalForm => NormalForm[NormalForm[k]] = NormalForm[k]

WatchEntry ==
  [ref : STRING, observation : {"null", "blank", "text", "long", "advice"}, complete : BOOLEAN]

GroupEntry == [key : STRING, text : {"null", "blank", "text", "long"}]

Nothing == [k \in {} |-> "text"]

-----------------------------------------------------------------------------
(* What the prompt tells the model *)

PreferredOrder == <<"acquisition", "financial_health", "operations", "revenue">>
Categories == {PreferredOrder[i] : i \in DOMAIN PreferredOrder}

\* _resolve_dominant_cluster: the first of the groups with the most WARN signals.
DominantGroup(signals) ==
  LET groups == {i \in DOMAIN PreferredOrder : \E r \in signals : CategoryOf(r) = PreferredOrder[i]}
      warns(i) == WarnCount(signals, PreferredOrder[i])
  IN PreferredOrder[CHOOSE i \in groups : \A j \in groups :
                      IF i <= j THEN warns(i) >= warns(j) ELSE warns(i) > warns(j)]

ClusterInPrompt(signals) ==
  signals # {} /\ WarnCount(signals, DominantGroup(signals)) >= 2

-----------------------------------------------------------------------------
(* validate_response *)

\* data.get of a JSON value that is no object raises AttributeError.
Raises(reply) == reply.form = "not_object"

Rejected(reply) ==
  \/ reply.form \in {"not_json", "ill_typed"}
  \/ reply.summary = "long"
  \/ reply.summary = "blank" /\ reply.situation # "text"

Wrapped_Mutant(sn) == sn   \* a flat dictionary is left as it is

\* A flat dictionary of narratives is wrapped.
Wrapped(sn) == IF "narratives" \in DOMAIN sn THEN sn ELSE [narratives |-> sn]

\* The schema takes the key it knows, ignores others, and has {} for its default.
NarrativesOf(sn) == IF "narratives" \in DOMAIN sn THEN sn.narratives ELSE Nothing

KeyStory(reply, signals) ==
  IF reply.key_story = "text" /\ ~ ClusterInPrompt(signals) THEN "null" ELSE reply.key_story

\* One bad entry, or a third one, rejects the whole field.
WatchSignals(reply, signals) ==
  IF /\ Len(reply.watch) <= 2
     /\ \A i \in DOMAIN reply.watch : /\ reply.watch[i].complete
                                      /\ reply.watch[i].ref \in signals \cup MetricIds
                                      /\ reply.watch[i].observation # "advice"
  THEN reply.watch ELSE << >>

\* Rule ids without a signal are stripped in full mode only.
SignalNarratives(reply, signals, mode) ==
  LET narratives == NarrativesOf(Wrapped(reply.signal_narratives))
  IN [r \in {q \in DOMAIN narratives : mode = "full" => q \in signals} |-> narratives[r]]

Validated(reply, signals, mode) ==
  [summary    |-> reply.summary,
   situation  |-> reply.situation,
   key_story  |-> KeyStory(reply, signals),
   narratives |-> SignalNarratives(reply, signals, mode),
   groups     |-> reply.groups,
   watch      |-> WatchSignals(reply, signals)]

\* No result: rendered as one without any text, and accepted from no reply.
NoResult ==
  [summary |-> "blank", situation |-> "null", key_story |-> "null",
   narratives |-> Nothing, groups |-> << >>, watch |-> << >>]

-----------------------------------------------------------------------------
(* render_template *)

InternalKey(key) == NormalForm[key]

CategoriesOf(signals) == {CategoryOf(r) : r \in signals}

\* The template counts the WARN signals of each category by itself.
ClusterInBrief(signals) == \E c \in Categories : WarnCount(signals, c) >= 2

NonBlank(texts) == {k \in DOMAIN texts : texts[k] # "blank"}

\* The positions of the texts given for a category.
GivenFor(groups, c) ==
  {i \in DOMAIN groups : groups[i].text # "blank" /\ InternalKey(groups[i].key) = c}

\* Which text each category shows, by its key: of two spellings of one category
\* the later one stays.
GroupsShown(signals, result) ==
  LET groups == result.groups
      last(c) == CHOOSE i \in GivenFor(groups, c) : \A j \in GivenFor(groups, c) : j <= i
  IN [c \in {d \in CategoriesOf(signals) : GivenFor(groups, d) # {}} |-> groups[last(c)].key]

\* The positions of the entries printed: the first two that say something.
WatchShown(result) ==
  LET kept == {i \in DOMAIN result.watch :
                 result.watch[i].complete /\ result.watch[i].observation # "blank"}
  IN {i \in kept : Cardinality({j \in kept : j < i}) < 2}

Brief(signals, result) ==
  [top        |-> TopWarns(signals, 3),
   top_warn   |-> TopWarns(signals, 1),
   situation  |-> result.situation = "text",
   key_story  |-> result.key_story = "text" /\ ClusterInBrief(signals),
   narratives |-> signals \cap NonBlank(result.narratives),
   groups     |-> GroupsShown(signals, result),
   watch      |-> WatchShown(result)]
=============================================================================
