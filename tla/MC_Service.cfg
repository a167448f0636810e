\* Two requests at a time read and stop one session; a call of the operator fails or it restarts.
CONSTANTS
  Sessions = {s1}
  Operators = {o1}
  Concurrency = 2
  AgentStates = {"idle", "finished"}
  MaxFaults = 1
  Handlers = {h1, h2}
  Ops = {"get", "stop"}
  Eager = FALSE
  MaxErrors = 0
SPECIFICATION SvcFairSpec
INVARIANTS StoppedIsReleased
PROPERTIES StopReleases OperatorSpec OverOnceTold FailedMeansFailed
CHECK_DEADLOCK FALSE
