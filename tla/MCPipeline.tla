----------------------------- MODULE MCPipeline -----------------------------
(* Small instances of Pipeline for TLC. *)
EXTENDS Pipeline, TLC

CONSTANTS p1, p2, p3, r1, r2, sales

\* Serial invocations may draw a run_id again: the second of the first, the
\* third of the second.
SharedIds == p1 :> {r1} @@ p2 :> {r1, r2} @@ p3 :> {r2}

\* Every invocation draws its own run_id.
TwoOwnIds == p1 :> {r1} @@ p2 :> {r2}

\* Three weeks of one dataset: week 1 has no previous week.
OneFile == sales :> {1, 2, 3}

\* Two weeks: only the second can be analysed.
TwoWeeks == sales :> {1, 2}

OneKey == sales :> "sales"
=============================================================================
