\* Commands one at a time.
SPECIFICATION CliSpec
CONSTANTS
  p1 = p1
  p2 = p2
  r1 = r1
  r2 = r2
  d1 = d1
  d2 = d2
  march = march
  april = april
  Proc = {p1, p2}
  RunId = {r1, r2}
  IdPool <- OwnIds
  Input = {march}
  Weeks <- OneExport
  DatasetKey <- OneDataset
  LlmMode = {"off"}
  Reply = {"answered"}
  MaxMetrics = 0
  Overlap = FALSE
  Nil = Nil
  Deliverer = {}
  Target = {"teams"}
  Oversized = {}
  Outside = {}
  ListingFails = FALSE
  FirstWeek = 2
  LastWeek = 3
INVARIANTS
  CliTypeOK
  DeliversOwnRun
  AlertNamesOwnRun
  AutoOncePerWeek
PROPERTIES
  RunsPipeline
CHECK_DEADLOCK FALSE
