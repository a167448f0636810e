\* Two updates of one session at a time.
CONSTANTS
  Sessions = {s1}
  Operators = {o1}
  Concurrency = 2
  AgentStates = {}
  MaxFaults = 0
  Handlers = {h1, h2}
  Ops = {"update"}
  Eager = FALSE
  MaxErrors = 0
SPECIFICATION SvcSpec
PROPERTIES RowMovesForward
CHECK_DEADLOCK FALSE
