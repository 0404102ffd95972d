SPECIFICATION Spec
CONSTANTS
  MaxStack = 8
  MaxFrames = 3
  MaxLocals = 1
  MaxArgs = 1
  MaxDepth = 3
  MaxActivations = 4
  MaxClosures = 2
  Programs = {{"runContents"}}
INVARIANTS
  CallersLive
CHECK_DEADLOCK FALSE
