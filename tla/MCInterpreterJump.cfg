CONSTANTS
  Codes <- MCCodes
  Gases = {30, 100}
  StackLimit = 2
SPECIFICATION Spec

PROPERTY JumpsOnlyToJumpdest
CHECK_DEADLOCK FALSE
