\* A delivered run whose LLM call failed.
SPECIFICATION CliSpec
CONSTANTS
  p1 = p1
  p2 = p2
  r1 = r1
  r2 = r2
  d1 = d1
  d2 = d2
  march = march
  april = april
  Proc = {p1}
  RunId = {r1}
  IdPool <- OneId
  Input = {march}
  Weeks <- OneExport
  DatasetKey <- OneDataset
  LlmMode = {"full"}
  Reply = {"answered"}
  MaxMetrics = 0
  Overlap = FALSE
  Nil = Nil
  Deliverer = {}
  Target = {"teams"}
  Oversized = {}
  Outside = {}
  ListingFails = FALSE
  FirstWeek = 2
  LastWeek = 2
INVARIANTS
  FallbackAlerted
CHECK_DEADLOCK FALSE
