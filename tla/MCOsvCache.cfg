SPECIFICATION Spec
CONSTANTS
  Clients = {c1, c2}
  Packages = {p1, p2}
  ChunkSize = 1
  Retries = {0, 2}
SYMMETRY MCSymmetry
INVARIANTS
  TypeOK
  NoSilentClean
  EveryPackageAnswered
