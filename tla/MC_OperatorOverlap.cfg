\* A rolling update of the operator's Deployment: two processes for a while.
CONSTANTS
  Sessions = {s1}
  Operators = {o1, o2}
  Concurrency = 2
  AgentStates = {}
  MaxFaults = 0
SPECIFICATION Spec
PROPERTIES TerminalStaysTerminal
CHECK_DEADLOCK FALSE
