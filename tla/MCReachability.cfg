\* FAILURE_THRESHOLD and SUCCESS_RECOVERY_THRESHOLD at their defaults; a
\* scheduled check, and one of an HTTP request that may overlap with it.
CONSTANTS
  Machines = {m1}
  Callers = {c1, r1}
  Requests = {r1}
  IPs = {ip1}
  NoIP = NoIP
  FailureThreshold = 3
  SuccessRecovery = 2
  AutoRotateGlobal = TRUE
  MaxSpawned = 1
SPECIFICATION LinkSpec
INVARIANTS
  HistoryTypeOK
  HealthMatchesCounters
  EvidenceBeforeSuspect
PROPERTIES
  DownIsDetected
  RecoveryIsSeen
  CountsFollowLink
