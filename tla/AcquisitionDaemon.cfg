SPECIFICATION Spec
CONSTANTS
  Setups = {s1, s2, s3}
  Others = {s3}
  Daemons = {d1, d2}
  MaxFaults = 1
INVARIANTS OneOfEach LockHeld
PROPERTIES EndpointKept SetupEnds
CHECK_DEADLOCK FALSE
