SPECIFICATION Spec
CONSTANTS
  Installers = {p1, p2}
  Copiers = {m1, m2}
  Dirs = {"d1"}
  InstallFaults = 2
  Exporters = {"e1", "e2", "e3"}
  OutputFaults = 2
  MaxUses = 1
  CacheFiles = {f1, f2}
  Variants <- MCVariants
  MaxWrites = 1
  ImageFiles = {"f1", "f2", "f3"}
  Stems = {"s1", "s2"}
  Calls = {p1, p2}
  Evidence = {m1, m2}
  Outputs = {o1, o2}
  Descriptors <- MCDescriptors
  TTL = 1
  MaxGenerations = 2
  MaxChallenges = 1
  MaxTime = 1
INVARIANTS InstallSafe MediaTrue PictureTrue ConsentBound
PROPERTY OutputsKept
SYMMETRY Symmetry
CHECK_DEADLOCK FALSE
