\* One agent, two tasks of which a poll hands out one, two calls at once,
\* and two failures: the first poll, its successor and a result may all be in
\* progress together.
SPECIFICATION Spec
CONSTANTS
  Agents = {a1}
  TaskKinds = {"probe", "upgrade"}
  Calls = {c1, c2}
  Beats = {}
  TaskLimit = 1
  MaxTasks = 2
  MaxFailures = 2
INVARIANTS AgentTypeOK AtMostOnce
PROPERTIES ResultIsFinal ImplementsQueue
