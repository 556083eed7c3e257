CONSTANTS
  t1 = t1
  h1 = h1
  h2 = h2
  Tasks = {t1}
  Turns = {1, 2}
  TaskOf <- MCTaskOf
  Handlers = {h1, h2}
  RetryLimit = 1
  MaxCrashes = 1
  MaxTimeouts = 0
  ErrsEarly = FALSE
  Commands = {}
SPECIFICATION Spec
CHECK_DEADLOCK FALSE
SYMMETRY Symmetry
INVARIANTS
  RestartCarries
  OneLiveJobPerTurn
