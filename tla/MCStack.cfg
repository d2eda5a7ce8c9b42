CONSTANTS
  ByteBits = 4
  WordBytes = 3
  IntBits = 6
  StackLimit = 3
  Rev = 7
  Pushes <- MCPushes
  Ops <- MCArithOps
  DupMax = 2
  MaxSteps = 5
SPECIFICATION Spec
PROPERTY ImplementsEvmStack
CHECK_DEADLOCK FALSE
