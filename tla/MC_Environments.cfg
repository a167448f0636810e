\* Four commands, two at a time, on two environments.
CONSTANTS
  Processes = {p1, p2}
  Envs = {local, dev}
  Local = local
  Fields = {mode, url}
  Values = {v1}
  MaxCommands = 4
SPECIFICATION Spec
INVARIANTS ActiveConfigured AcknowledgedKept UnreadableExplained
CHECK_DEADLOCK FALSE
SYMMETRY Symmetry
