SPECIFICATION Spec
CONSTANTS
  f1 = f1
  Flaws <- MCFlaws
  LineTexts <- LongLines
  Analysis <- MCAnalysis
  NoFile = NoFile
  InitText <- Long
  Pad = 2
  MayFail = FALSE
  MaxLength = 4
  MaxEdits = 2
  MaxScans = 2
CHECK_DEADLOCK FALSE
INVARIANT SaveDecides
