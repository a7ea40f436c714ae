\* Two simultaneous runs: the second os.replace drops the first run.
SPECIFICATION Spec
CONSTANTS
  p1 = p1
  p2 = p2
  p3 = p3
  r1 = r1
  r2 = r2
  sales = sales
  Proc = {p1, p2}
  RunId = {r1, r2}
  IdPool <- TwoOwnIds
  Input = {sales}
  Weeks <- OneFile
  DatasetKey <- OneKey
  LlmMode = {"off"}
  Reply = {"answered", "flagged"}
  MaxMetrics = 2
  Overlap = TRUE
  Nil = Nil
INVARIANTS
  NoRunLost
CHECK_DEADLOCK FALSE
