SPECIFICATION Spec
CONSTANTS
  ByteLimit = 4
  PoolLimit = 100
  IntLimit = 16
  MaxStackSize = 1024
  MaxFrameCount = 256
  StepsLog = 6
  Fuel = 12
  MaxCommands = 2
  BuiltinModules <- MCBuiltins
  Programs <- MCPrograms
  Prelude <- MCPrelude
  Card <- MCCard
INVARIANTS
  SameAnswers
  SameBindings
  TypesHold
  OperandsBalanced
  NothingLeftOver
CHECK_DEADLOCK FALSE
