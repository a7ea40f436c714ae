\* A run that delivers and a delivery that overlap.
SPECIFICATION FairCliSpec
CONSTANTS
  p1 = p1
  p2 = p2
  r1 = r1
  r2 = r2
  d1 = d1
  d2 = d2
  march = march
  april = april
  Proc = {p1}
  RunId = {r1}
  IdPool <- OneId
  Input = {march, april}
  Weeks <- TwoExports
  DatasetKey <- SameDataset
  LlmMode = {"full"}
  Reply = {"answered", "blank", "flagged"}
  MaxMetrics = 0
  Overlap = TRUE
  Nil = Nil
  Deliverer = {d1}
  Target = {"teams", "slack"}
  Oversized = {}
  Outside = {april}
  ListingFails = TRUE
  FirstWeek = 2
  LastWeek = 2
INVARIANTS
  SameCardAgain
  CardTellsTheTruth
PROPERTIES
  CommandEnds
CHECK_DEADLOCK FALSE
