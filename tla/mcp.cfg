CONSTANTS
  s1 = s1
  Ids = {s1}
  Conns = {1, 2, 3}
  Commands = {1, 2, 3}
  MaxCloses = 1
  MaxRestarts = 1
SPECIFICATION FairSpec
CHECK_DEADLOCK FALSE
INVARIANTS
  TypeOK
  
  NoConnectionLeaks
  PoolIsLive
PROPERTIES
  CommandsReturn
