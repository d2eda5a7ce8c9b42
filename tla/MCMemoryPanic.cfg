CONSTANTS
  WordSize = 4
  U64 <- MCU64
  MaxMemArg <- MCMaxMemArg
  Gas0 = 1000
  Rev = 7
  Input <- MCInput
  Code <- MCCode
  ExtCode <- MCExtCode
  Offsets <- MCOffsets
  DataOffsets <- MCDataOffsets
  Lengths = {0}
  Vals = {1}
  RetDatas <- MCOneByteRet
  Handlers <- MCSliceHandlers
  MaxSteps = 5
SPECIFICATION Spec
INVARIANT NoPanic
CHECK_DEADLOCK FALSE
