CONSTANTS
  t1 = t1
  h1 = h1
  h2 = h2
  Tasks = {t1}
  Turns = {1, 2}
  TaskOf <- MCTaskOf
  Handlers = {h1, h2}
  RetryLimit = 1
  MaxCrashes = 0
  MaxTimeouts = 0
  ErrsEarly = TRUE
  Commands = {"abort", "cancel", "done"}
SPECIFICATION FairSpec
CHECK_DEADLOCK FALSE
INVARIANTS
  TypeOK
  OneOwner
  RunningTaskIsOwned
  NoLostOutcome
  NoStrandedTurn
  CancelledOnlyByStop
  FailsAfterLastRetry
  FailedTaskHasFailedTurn
PROPERTIES
  StartsInOrder
  StopGate
  TurnsSettle
  HandlersReturn
  ImplementsLifecycle
