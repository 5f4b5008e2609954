SPECIFICATION FairSpec
CONSTANTS
  Deadline = 20
  ConnectTimeout = 6
  ReadTimeout = 10
  Backoff = 2
  RetryAfters = {2, 4}
  Margin = 1
  MaxAttempts = 2
  MaxDns = 21
  MaxOps = 3
  Oversleep = 2
CHECK_DEADLOCK FALSE
INVARIANTS
  TypeOK
  RepeatOnlyIfInvited
  ReportsLastAttempt
  EndsInBoundedTime
PROPERTIES
  Returned
