\* One session whose agent annotates idle and busy, and may crash.
CONSTANTS
  Sessions = {s1}
  Operators = {o1}
  Concurrency = 2
  AgentStates = {"idle", "busy", "finished"}
  MaxFaults = 0
SPECIFICATION FairSpec
PROPERTIES CrashedSessionFails
CHECK_DEADLOCK FALSE
