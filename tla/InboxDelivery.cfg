SPECIFICATION Spec
CONSTANTS
  Consumers = {c1}
  Workers = {w1, w2}
  NumMessages = 2
  v1 = v1
  v2 = v2
  v3 = v3
  Versions = {v1, v2, v3}
  Absent = Absent
  Documents <- MCDocuments
  Limits = {1, 2}
  IndexMayFail = TRUE
  MaxGen = 3
  MaxBatches = 2
  MaxFaults = 1
INVARIANTS
  NothingSkipped
  ReplayIdentical
  PinnedIndexed
SYMMETRY
  Symmetry
