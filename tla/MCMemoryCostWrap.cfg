CONSTANTS
  WordSize = 4
  U64 <- MCU64
  MaxMemArg <- MCMaxMemArg
  Gas0 = 1000
  Rev = 7
  Input <- MCInput
  Code <- MCCode
  ExtCode <- MCExtCode
  Offsets <- MCWideOffsets
  DataOffsets <- MCDataOffsets
  Lengths = {0, 6}
  Vals = {1}
  RetDatas <- MCRetDatas
  Handlers <- MCMStoreOnly
  MaxSteps = 5
SPECIFICATION Spec
INVARIANT MemoryPaidFor
CHECK_DEADLOCK FALSE
