\* One machine, panel and agent, two requests at once, one dashboard; the address
\* changes once and one client goes.
SPECIFICATION FairSpec
CONSTANTS
  Machines = {m1}
  Panels = {p1}
  Agents = {a1}
  IPs = {x, y}
  NoIP = NoIP
  Writers = {w1, w2}
  Sockets = {s1}
  MaxChanges = 1
  MaxDrops = 1
INVARIANTS RegistryTypeOK NoOrphans OptOutStays NothingMissed ClientsAreHandled
CHECK_DEADLOCK FALSE
PROPERTIES RequestsAreAnswered AddressConverges
