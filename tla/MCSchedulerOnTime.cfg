\* The counterexample stays within one day.
CONSTANTS
  Machines = {m1, m2}
  Probes = {p1, p2}
  Intervals = {1, 3}
  DayLength = 3
  Start = 3
  MaxTime = 9
  MaxStarted = 1
  MaxInFlight = 1
SPECIFICATION SchedulerSpec
PROPERTY
  OnTime
