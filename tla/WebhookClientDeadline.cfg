SPECIFICATION FairSpec
CONSTANTS
  Deadline = 20
  ConnectTimeout = 6
  ReadTimeout = 10
  Backoff = 2
  RetryAfters = {2, 4}
  Margin = 1
  MaxAttempts = 2
  MaxDns = 0
  MaxOps = 3
  Oversleep = 0
CHECK_DEADLOCK FALSE
INVARIANTS
  EndsByDeadline
