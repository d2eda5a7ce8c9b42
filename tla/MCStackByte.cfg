CONSTANTS
  ByteBits = 4
  WordBytes = 3
  IntBits = 6
  StackLimit = 3
  Rev = 7
  Pushes <- MCBytePushes
  Ops = {"BYTE"}
  DupMax = 1
  MaxSteps = 3
SPECIFICATION Spec
PROPERTY ImplementsEvmStack
CHECK_DEADLOCK FALSE
