\* A session is stopped, from a list, before its creation is complete.
CONSTANTS
  Sessions = {s1}
  Operators = {o1}
  Concurrency = 2
  AgentStates = {}
  MaxFaults = 0
  Handlers = {h1}
  Ops = {"stop"}
  Eager = TRUE
  MaxErrors = 0
SPECIFICATION SvcSpec
INVARIANTS StoppedIsReleased
CHECK_DEADLOCK FALSE
