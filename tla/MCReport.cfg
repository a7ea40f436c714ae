\* Every sheet without the model, and some with each of its answers.
SPECIFICATION Spec
CONSTANTS
  Amounts <- Halves
  noReply = noReply
  MinPrevNetRevenue = 3
  VolumeThreshold = 5
  Inputs <- Runs
  Replies <- Answers
  NoReply = noReply
  NormalForm <- Spellings
INVARIANTS
  NoNumberNoSignal
  LossLeadsTheBrief
  WorseStaysWarned
  BriefShowsReply
  ScoresMatchBrief
PROPERTIES
  PublishesOverlay
CHECK_DEADLOCK FALSE
