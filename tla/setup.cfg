CONSTANTS
  k1 = k1
  d1 = d1
  Keys = {k1}
  Runs = {1, 2}
  Drafts = {d1}
  Forms = {1, 2}
  BadLinks = FALSE
  MaxRequests = 3
  MaxCrashes = 1
SPECIFICATION FairSpec
CHECK_DEADLOCK FALSE
INVARIANTS
  TypeOK
  BusyProfileHasRun
  RevisionMatchesStatus
PROPERTIES
  ApplyKeepsMemory
  OnlyPatchesLost
  ImplementsProfileLifecycle
  ProfilesUnstick
  
