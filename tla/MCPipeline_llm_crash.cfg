\* A response that is JSON but no object.
SPECIFICATION Spec
CONSTANTS
  p1 = p1
  p2 = p2
  p3 = p3
  r1 = r1
  r2 = r2
  sales = sales
  Proc = {p1, p2}
  RunId = {r1, r2}
  IdPool <- TwoOwnIds
  Input = {sales}
  Weeks <- OneFile
  DatasetKey <- OneKey
  LlmMode = {"off", "full"}
  Reply = {"answered", "flagged"}
  MaxMetrics = 2
  Overlap = FALSE
  Nil = Nil
INVARIANTS
  LlmNeverFailsRun
CHECK_DEADLOCK FALSE
