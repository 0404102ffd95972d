SPECIFICATION FairSpec
CONSTANTS
  Items = {a, b}
  Callers = {t1, t2}
  Capacity = 2
  NoItem = NoItem
INVARIANTS
  SleepersBlocked
PROPERTIES
  ImplementsBoundedQueue
  CallsReturn
