SPECIFICATION FairSpec
CONSTANTS
  MaxStarts = 4
  MaxInFlight = 2
INVARIANTS
  OncePerStart
  ActiveWillFire
PROPERTIES
  KeepsFiring
  DeleteEndsLoops
CHECK_DEADLOCK FALSE
