SPECIFICATION Spec
CONSTANTS
  f1 = f1
  f2 = f2
  Runs = {r1, r2}
  Files <- MCFiles
  Flaws <- MCFlaws
  None = None
  MaxEdits = 1
  MaxStarts = 2
SYMMETRY MCSymmetry
CHECK_DEADLOCK FALSE
INVARIANTS
  WholeUnlessOverlapped
  EditLostOnlyInWindow
  ReportIsTrue
