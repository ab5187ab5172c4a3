\* One check after the other: no overlap is needed to break the claim.
CONSTANTS
  Machines = {m1}
  Callers = {c1}
  Requests = {}
  IPs = {ip1}
  NoIP = NoIP
  FailureThreshold = 3
  SuccessRecovery = 2
  AutoRotateGlobal = FALSE
  MaxSpawned = 1
SPECIFICATION StreakSpec
INVARIANT ConsecutiveBeforeSuspect
