SPECIFICATION FairSpec
CONSTANTS
  FileCount = 2
  MaxSize = 3
  MaxChunk = 2
  Capacity = 1
CHECK_DEADLOCK FALSE
INVARIANTS
  SuccessMeansSaved
  ApplicationAgrees
  CancelledOnlyAfterTrouble
PROPERTY TaskEnds
