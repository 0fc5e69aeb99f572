SPECIFICATION Spec
CONSTANTS
  Kinds = {"state", "cursor", "acquisition"}
  Readers = {r1}
  MaxVersion = 4
  MaxCrashes = 3
INVARIANTS
  CursorSurvives
  LoadNeverStale
PROPERTY
  ImplementsRecord
