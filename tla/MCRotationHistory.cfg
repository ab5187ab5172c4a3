\* No crash: the request of a manual rotation is enough.
CONSTANTS
  Machines = {m1}
  Jobs = {j1}
  Callers = {j1}
  Requests = {}
  IPs = {ip1, ip2}
  NoIP = NoIP
  FailureThreshold = 1
  SuccessRecovery = 1
  AutoRotateGlobal = FALSE
  MaxSpawned = 1
  RotationCooldown = 1
  MaxRotationsPerDay = 1
  RequireConfirmation = TRUE
  DayLength = 2
  MayCrash = FALSE
  MaxTime = 0
  MaxRows = 1
SPECIFICATION Spec
CHECK_DEADLOCK FALSE
PROPERTY
  NewAddressInHistory
