SPECIFICATION FairSpec
CONSTANTS
  f1 = f1
  Flaws <- MCFlaws
  LineTexts <- ShortLines
  Analysis <- MCAnalysis
  NoFile = NoFile
  InitText <- Short
  Pad = 0
  MayFail = TRUE
  MaxLength = 2
  MaxEdits = 3
  MaxScans = 1
CHECK_DEADLOCK FALSE
INVARIANTS
  TypeOK
  OneIncrementalScan
  PendingWillFire
  WrongIsAccountedFor
PROPERTIES
  EditsAreScanned
