SPECIFICATION FairSpec
CONSTANTS
  NumFiles = 9
  SliceSize = 4
  Workers = 3
  Limit = 2
  Factors = {1, 2}
  Slack = 1
  Durations = {1, 2, 4}
CHECK_DEADLOCK FALSE
INVARIANTS
  TypeOK
  NoneSkippedForWaiting
  EveryFileDecided
  SliceIsBounded
PROPERTIES
  DecidedOnce
  RunEnds
