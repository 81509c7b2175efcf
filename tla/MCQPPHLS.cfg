CONSTANTS
  Blocks = 2
  Keys <- TwoKeys
  Texts <- TwoTexts
  MaxCalls = 4
  MaxObjects = 3
SPECIFICATION FairSpec
INVARIANTS TypeOK DoneIsNotLost SeedLoadedFirst TablesInverse FreshRoundTrip
PROPERTIES KernelOwnsMemory CallsAdvance CallsReturn
CHECK_DEADLOCK FALSE
