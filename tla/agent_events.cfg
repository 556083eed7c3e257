CONSTANTS
  plain = plain
  command = command
  Texts = {plain, command}
  TextLength <- MCTextLength
  Header <- MCHeader
  StatusText = plain
  Suffix = 1
  Threshold = 6
  MaxFailures = 3
  MaxValidationFailures = 2
  MaxTurns = 2
  MaxAttempts = 2
  MaxEvents = 3
  MaxWaiting = 1
  MaxFaults = 1
SPECIFICATION FairSpec
CHECK_DEADLOCK FALSE
INVARIANTS
  TripsOnStreak
  
  
PROPERTIES
  OwnReportPosted
  
