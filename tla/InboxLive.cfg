SPECIFICATION LiveSpec
CONSTANTS
  Consumers = {c1}
  Workers = {w1, w2}
  NumMessages = 2
  v1 = v1
  v2 = v2
  v3 = v3
  Versions = {v1}
  Absent = Absent
  Documents <- LiveDocuments
  Limits = {1}
  IndexMayFail = FALSE
  MaxGen = 3
  MaxBatches = 4
  MaxFaults = 0
PROPERTY
  RoundEnds
