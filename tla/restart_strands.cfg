CONSTANTS
  t1 = t1
  h1 = h1
  h2 = h2
  Tasks = {t1}
  Turns = {1}
  TaskOf <- MCTaskOf
  Handlers = {h1, h2}
  RetryLimit = 2
  MaxCrashes = 1
  MaxTimeouts = 0
  ErrsEarly = FALSE
  Commands = {}
SPECIFICATION Spec
CHECK_DEADLOCK FALSE
INVARIANTS
  RestartRequeues
