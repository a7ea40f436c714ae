------------------------------- MODULE MCCli -------------------------------
(* Small instances of Cli for TLC. *)
EXTENDS Cli, TLC

CONSTANTS p1, p2, r1, r2, d1, d2, march, april

\* Every `wbsb run` draws its own run_id.
OwnIds == p1 :> {r1} @@ p2 :> {r2}

OneId == p1 :> {r1}

\* Two exports of the same dataset: april has a single week, too few for a run.
TwoExports == march :> {1, 2} @@ april :> {1}

OneExport == march :> {1, 2}

\* Both exports have the dataset key of their common name.
SameDataset == march :> "sales" @@ april :> "sales"

OneDataset == march :> "sales"
=============================================================================
