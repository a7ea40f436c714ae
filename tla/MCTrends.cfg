\* Two datasets in one index, with reruns, backfilled weeks and deleted findings.
SPECIFICATION Spec
CONSTANTS
  sales = sales
  leads = leads
  Key = {sales, leads}
  Week = {1, 2, 3}
  Value <- Amounts
  Missing = Missing
  NWeeks = 3
  MinConsecutive = 2
  StableBand = 50
  StableMinWeeks = 3
  MaxRuns = 4
SYMMETRY Datasets
INVARIANTS
  ConsecutiveEnough
  GrowthNeverFalls
  NoLeakage
  BackfillKeepsNewer
CHECK_DEADLOCK FALSE
