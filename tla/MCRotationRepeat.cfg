\* No crash, no manual rotation is needed: a change that timed out leaves no cooldown.
CONSTANTS
  Machines = {m1}
  Jobs = {j1}
  Callers = {j1, s}
  Requests = {}
  IPs = {ip1, ip2}
  NoIP = NoIP
  FailureThreshold = 1
  SuccessRecovery = 1
  AutoRotateGlobal = TRUE
  MaxSpawned = 1
  RotationCooldown = 1
  MaxRotationsPerDay = 1
  RequireConfirmation = TRUE
  DayLength = 1
  MayCrash = FALSE
  MaxTime = 0
  MaxRows = 2
SPECIFICATION Spec
CHECK_DEADLOCK FALSE
INVARIANT
  CooldownPreventsRepeats
