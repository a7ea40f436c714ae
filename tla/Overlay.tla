------------------------------ MODULE Overlay ------------------------------
(***************************************************************************)
(* What render_llm (render/llm.py) promises a run: at most one brief comes *)
(* of it, with texts of the model only if there was an answer and it was   *)
(* accepted, and llm_response.json accounts for every answer.              *)
(***************************************************************************)
VARIABLES
  answered,   \* the model has answered
  brief,      \* "none" so far, "deterministic" or "enriched"; "failed" with the run
  eval        \* "none", "scored", or why the evaluation was skipped

vars == <<answered, brief, eval>>

Outcomes ==
  IF answered
  THEN {<<"deterministic", "llm_fallback">>, <<"enriched", "scored">>,
        <<"enriched", "scorer_error">>, <<"failed", "none">>}
  ELSE {<<"deterministic", "none">>, <<"deterministic", "llm_fallback">>, <<"failed", "none">>}

Init == answered = FALSE /\ brief = "none" /\ eval = "none"

Answer ==
  /\ brief = "none" /\ ~ answered
  /\ answered' = TRUE
  /\ UNCHANGED <<brief, eval>>

Publish ==
  /\ brief = "none"
  /\ <<brief', eval'>> \in Outcomes
  /\ UNCHANGED answered

Next == Answer \/ Publish

Spec == Init /\ [][Next]_vars
=============================================================================
