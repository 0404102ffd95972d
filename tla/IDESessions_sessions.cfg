SPECIFICATION FairSpec
CONSTANTS
  Requests = {r1, r2, r3}
  Deleters = {r3}
  Ids = {s1, s2}
  Olds = {{s1}, {s1, s2}}
  NoId = NoId
  TTL = 1
  MaxNow = 2
  MaxFaults = 1
  Spawners = {r1}
INVARIANTS
  FilesMatch
  NothingLost
PROPERTIES
  OnlyIdleSwept
  EveryRequestAnswered
CHECK_DEADLOCK FALSE
