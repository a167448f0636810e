\* Every operation, three requests at a time; a call of the API fails.  No operator runs: it does not touch the rows.
CONSTANTS
  Sessions = {s1}
  Operators = {}
  Concurrency = 2
  AgentStates = {}
  MaxFaults = 0
  Handlers = {h1, h2, h3}
  Ops = {"get", "list", "stop", "update"}
  Eager = TRUE
  MaxErrors = 1
SYMMETRY Symmetric
SPECIFICATION SvcSpec
PROPERTIES ChangesWereAllowed
CHECK_DEADLOCK FALSE
