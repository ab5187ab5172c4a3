\* Two machines, one with both families; one record that may be moved between them,
\* a rotation and a request by hand at once, one edit and one failure.
SPECIFICATION FairSpec
CONSTANTS
  m1 = m1
  m2 = m2
  a1 = a1
  a2 = a2
  b1 = b1
  x1 = x1
  e1 = e1
  e2 = e2
  e3 = e3
  Machines = {m1, m2}
  Records = {r1}
  Entries = {e1, e2, e3}
  V6Entries = {e2}
  V4 = {a1, a2, b1}
  V6 = {x1}
  Owner <- MCOwner
  Links <- MCLinks
  Reports <- MCReports
  NoIP = NoIP
  Calls = {j, r}
  Requests = {r}
  MaxEdits = 1
  MaxFailures = 1
  MaxRotations = 1
INVARIANTS DnsTypeOK NoForeignAddress FamilyRespected CompletedMeansWritten CompletedWasAccepted
PROPERTY DnsConverges
CHECK_DEADLOCK FALSE
