SPECIFICATION Spec
CONSTANTS
  Procs = {p1, p2}
  Commands = {"setup", "refresh", "gc"}
  Databases = {d1}
  MaxGen = 3
  MaxFaults = 1
INVARIANT
  GcKeepsCurrent
