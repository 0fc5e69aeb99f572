SPECIFICATION Spec
CONSTANTS
  Procs = {p1, p2}
  Commands = {"setup", "refresh", "gc", "forget", "index"}
  Databases = {d1, d2}
  MaxGen = 3
  MaxFaults = 1
INVARIANTS
  RetainedKept
  StateAgrees
  ForgottenStays
PROPERTIES
  CoverageNeverShrinks
  CurrentIndexKept
SYMMETRY
  ProcessSymmetry
