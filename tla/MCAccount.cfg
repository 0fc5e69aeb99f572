SPECIFICATION Spec
CONSTANTS
  Readers = {r1}
  MaxChunks = 2
  MaxVersion = 3
  MaxFailures = 2
  MaxCrashes = 1
  Databases = {d1, d2}
  Epochs = {e1, e2}
  MaxPages = 2
  MaxWrites = 3
  MaxRounds = 2
  MaxAttempts = 2
INVARIANTS NoResidue RefreshCovers CopyIsCommit
PROPERTY ImplementsRecord
CHECK_DEADLOCK FALSE
SYMMETRY Symmetry
