------------------------------ MODULE MCTrends ------------------------------
(* Small instances of Trends for TLC. *)
EXTENDS Trends, TLC

CONSTANTS sales, leads

\* With a band of 50 percent a metric may rise twice, from 1 to 2 and to 4, and
\* come down in one step or two, 4 to 2 being flat, at the edge of the band; a
\* step from 0 has no direction.
Amounts == {0, 1, 2, 4}

Datasets == Permutations(Key)
=============================================================================
