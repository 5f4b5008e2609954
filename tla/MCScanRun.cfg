SPECIFICATION Spec
CONSTANTS
  Ast <- MCAst
  Aux <- MCAux
  Cross <- MCCross
  Sanitized <- MCSanitized
  Filters <- MCFilters
  Urgent <- MCUrgent
  MaxResults = 2
  MaxSignals = 2
  MaxFaults = 2
CHECK_DEADLOCK FALSE
INVARIANTS
  TypeOK
  TornOnlyByReentry
  StatusIsHonest
  PartialKeepsFindings
