SPECIFICATION Spec
CONSTANTS
  MaxUnits = 5
  Indices = 12
INVARIANTS
  Linked
CHECK_DEADLOCK FALSE
