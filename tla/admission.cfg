CONSTANTS
  r1 = r1
  f1 = f1
  Requests = {r1}
  FollowUps = {f1}
  ThreadOf <- MCThreadOf
  Copies = {1, 2}
  MaxFaults = 2
  MaxCrashes = 1
SPECIFICATION FairSpec
CHECK_DEADLOCK FALSE
INVARIANTS
  NothingTwice
  AnswerIsTrue
  WorkspaceKept
PROPERTIES
  NothingStuck
