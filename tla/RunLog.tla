------------------------------- MODULE RunLog -------------------------------
(***************************************************************************)
(* What runs/index.json promises its readers: a log of completed runs.     *)
(* Records are added one at a time at the end, no record is ever changed,  *)
(* moved or dropped, and no run_id occurs twice.  Pipeline.tla shows when   *)
(* the read-append-replace of history/store.py keeps that promise.         *)
(***************************************************************************)
EXTENDS Sequences

CONSTANT Record     \* the run records; each has at least a field id

VARIABLE log        \* the records, oldest registration first

Ids(s) == {s[i].id : i \in DOMAIN s}

Init == log = <<>>

AppendRecord(r) ==
  /\ r.id \notin Ids(log)
  /\ log' = Append(log, r)

Next == \E r \in Record : AppendRecord(r)

Spec == Init /\ [][Next]_log
=============================================================================
