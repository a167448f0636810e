\* Three processes and two missing columns that must be filled, one that need not.
CONSTANTS
  Processes = {p1, p2, p3}
  Columns = {id, name, state, prompt}
  Required = {id, name, state}
  Old = {id}
  Rows = {r1, r2}
  OldRows = {r1}
  MaxRuns = 6
SPECIFICATION Spec
INVARIANTS DoneMeansMigrated NullsExplained
PROPERTIES RowsSurvive
CHECK_DEADLOCK FALSE
SYMMETRY Symmetry
