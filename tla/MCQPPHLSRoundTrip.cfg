CONSTANTS
  Blocks = 2
  Keys <- OneKey
  Texts <- OneText
  MaxCalls = 3
  MaxObjects = 1
SPECIFICATION Spec
INVARIANT RoundTrip
CHECK_DEADLOCK FALSE
