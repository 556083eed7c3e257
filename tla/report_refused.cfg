CONSTANTS
  plain = plain
  command = command
  Texts = {plain, command}
  TextLength <- MCTextLength
  Header <- MCHeader
  StatusText = plain
  Suffix = 1
  Threshold = 6
  MaxFailures = 3
  MaxValidationFailures = 2
  MaxTurns = 2
  MaxAttempts = 2
  MaxEvents = 3
  MaxWaiting = 1
  MaxFaults = 0
SPECIFICATION Spec
CHECK_DEADLOCK FALSE
INVARIANTS
  RefusedOnlyAfterStop
