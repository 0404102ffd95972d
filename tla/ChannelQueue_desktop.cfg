SPECIFICATION FairSpec
CONSTANTS
  Items = {a, b}
  Callers = {t1, t2, t3}
  Capacity = 1
  NoItem = NoItem
  FewItems = {a}
PROPERTIES
  ImplementsBoundedQueue
  NothingLost
  BoundedCallsReturn
CHECK_DEADLOCK FALSE
