SPECIFICATION FairSpec
CONSTANTS
  Callers = {t1, t2, t3}
  MaxCounts = {1, 2}
  Uses = {"lock", "signal"}
  Waits = {"none", "forever", "finite"}
INVARIANTS
  UnitsConserved
  NoIdleToken
PROPERTIES
  ImplementsSemaphore
  TakersServed
CHECK_DEADLOCK FALSE
