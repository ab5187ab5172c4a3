\* Two rotations contend for one machine; addresses, crashes and cancelled requests,
\* over two ticks of one day.  Automatic rotations come from the checks of the
\* rotations themselves.
CONSTANTS
  Machines = {m1}
  Jobs = {j1, j2}
  Callers = {j1, j2}
  Requests = {}
  IPs = {ip1, ip2}
  NoIP = NoIP
  FailureThreshold = 1
  SuccessRecovery = 1
  AutoRotateGlobal = TRUE
  MaxSpawned = 1
  RotationCooldown = 1
  MaxRotationsPerDay = 1
  RequireConfirmation = TRUE
  DayLength = 2
  MayCrash = TRUE
  MaxTime = 1
  MaxRows = 2
SYMMETRY Symmetry
SPECIFICATION HistoricSpec
\* All rows used, the clock at its bound and no panel change left: nothing moves.
CHECK_DEADLOCK FALSE
INVARIANTS
  RotationTypeOK
  OneRotationPerMachine
  LockIsOwned
  DailyLimit
  RowsAreOwned
  CooldownHonoured
  CompletedWereCarriedOut
  EvidenceBeforeRotation
PROPERTY ImplementsLedger
