\* One rotation at a time, which the process may not survive, and scheduled checks
\* that start automatic ones beside it.
CONSTANTS
  Machines = {m1}
  Jobs = {j1}
  Callers = {j1, s}
  Requests = {}
  IPs = {ip1, ip2}
  NoIP = NoIP
  FailureThreshold = 1
  SuccessRecovery = 1
  AutoRotateGlobal = TRUE
  MaxSpawned = 1
  RotationCooldown = 1
  MaxRotationsPerDay = 1
  RequireConfirmation = TRUE
  DayLength = 1
  MayCrash = TRUE
  MaxTime = 1
  MaxRows = 1
SPECIFICATION FairSpec
\* The row used and no panel change left: nothing moves.
CHECK_DEADLOCK FALSE
PROPERTY LockReleased
