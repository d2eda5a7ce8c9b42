CONSTANTS
  Codes <- MCCodes
  Gases = {30, 100}
  StackLimit = 2
SPECIFICATION Spec
INVARIANT TypeOK OnInstructionBoundary
PROPERTY Terminates
CHECK_DEADLOCK FALSE
