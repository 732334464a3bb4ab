SPECIFICATION Spec
CONSTANTS
  NumRuns = 2
  MaxEntries = 1
  Recalls = {0, 20}
  Engines = {e1}
  PageSize = 1
  Threshold = 15
  Templates = {t1}
  Users = {u1, u2}
  MaxActivity = 3
INVARIANTS
  AuditAccountsForRecords
  EvidenceIsSound
  ConsidersEvidenceOnce
  TransitionHistory
  StoppedRunsHaveEnded
PROPERTIES
  ImplementTrackedRuns
CHECK_DEADLOCK FALSE
