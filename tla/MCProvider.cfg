SPECIFICATION Spec
CONSTANTS
  Requests <- MCRequests
  Removers = {m1}
  Lifetime = 2
  MaxTime = 3
  MaxDisables = 1
  WorkflowFaults = 1
  Scopes = {"all", "database"}
  Resumable = {"trigger_database"}
  Others = {"reenable_sip"}
  MaxDaemons = 2
  MaxSessions = 2
  SessionFaults = 1
  Databases = {d1, d2}
  Reasons <- MCReasons
  Results <- MCResults
  NextActions <- MCNextActions
  Evidence <- MCEvidence
  MaxCount = 2
INVARIANTS ReportsTrue SessionsRight AnswersJudged EvidenceSupports
PROPERTIES RestorationKept HandoffBound ResumeSettled
CHECK_DEADLOCK FALSE
