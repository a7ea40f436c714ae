\* Three runs one after another, some with the same run_id: crashes, failures, deleted run directories.
SPECIFICATION Spec
CONSTANTS
  p1 = p1
  p2 = p2
  p3 = p3
  r1 = r1
  r2 = r2
  sales = sales
  Proc = {p1, p2, p3}
  RunId = {r1, r2}
  IdPool <- SharedIds
  Input = {sales}
  Weeks <- TwoWeeks
  DatasetKey <- OneKey
  LlmMode = {"off"}
  Reply = {"answered", "flagged"}
  MaxMetrics = 2
  Overlap = FALSE
  Nil = Nil
INVARIANTS
  NoRunLost
  SuccessIsRecorded
  EntriesUnique
PROPERTIES
  PublishesRunLog
CHECK_DEADLOCK FALSE
