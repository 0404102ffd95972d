SPECIFICATION Spec
CONSTANTS
  MaxStack = 6
  MaxFrames = 3
  MaxLocals = 1
  MaxArgs = 1
  MaxDepth = 3
  MaxActivations = 4
  MaxClosures = 1
  Programs = {{"fault", "onDo", "ensure", "loop", "caret"}, {"fault", "onDo", "ensure", "loop", "caret", "escape"}, {"fault", "onDo", "ensure", "loop", "caret", "escape", "runContents"}}
INVARIANTS
  StackSafe
  StackExact
  VariablesIntact
  CallersStay
CHECK_DEADLOCK FALSE
