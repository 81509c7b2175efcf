CONSTANTS
  Blocks = 2
  Keys <- OneKey
  Texts <- OneText
  MaxCalls = 0
  MaxObjects = 1
SPECIFICATION Spec
INVARIANT FifthMatrixLoaded
CHECK_DEADLOCK FALSE
