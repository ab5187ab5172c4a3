\* Days of three seconds; the clock passes two midnights.
CONSTANTS
  Machines = {m1, m2}
  Probes = {p1, p2}
  Intervals = {1, 3}
  DayLength = 3
  Start = 3
  MaxTime = 9
  MaxStarted = 1
  MaxInFlight = 1
SPECIFICATION SchedulerSpec
INVARIANT
  SchedulerTypeOK
PROPERTIES
  NeverEarly
  NeverStarved
