\* A week with a dominant cluster, and the key story the prompt asks for.
SPECIFICATION Spec
CONSTANTS
  Amounts <- Halves
  noReply = noReply
  MinPrevNetRevenue = 3
  VolumeThreshold = 5
  Inputs <- Runs
  Replies <- Answers
  NoReply = noReply
  NormalForm <- Spellings
INVARIANT KeyStoryNotPenalised
CHECK_DEADLOCK FALSE
