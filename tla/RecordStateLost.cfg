SPECIFICATION Spec
CONSTANTS
  Kinds = {"state"}
  Readers = {r1}
  MaxVersion = 3
  MaxCrashes = 2
INVARIANT
  StateSurvives
