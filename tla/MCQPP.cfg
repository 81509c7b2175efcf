CONSTANTS
  M = 2
  block_size = 3
  Seeds <- TwoSeeds
  Draws <- SomeDraws
  Texts <- TextsOfTwoSizes
  MaxCalls = 3
SPECIFICATION Spec
INVARIANTS TypeOK MatricesInvert RoundTrip CipherIsFunction
CHECK_DEADLOCK FALSE
