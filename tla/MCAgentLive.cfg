\* One agent with its heartbeats, two tasks of which a poll hands out one, and
\* one failure: a poll or a result may be among the calls that a revocation, a
\* restart or a lost client meets.
SPECIFICATION FairSpec
CONSTANTS
  Agents = {a1}
  TaskKinds = {"probe"}
  Calls = {c1}
  Beats = {b1}
  TaskLimit = 1
  MaxTasks = 2
  MaxFailures = 1
PROPERTIES PendingIsTaken TaskFinishes RevokedIsShutOut OnlineAgain
