CONSTANTS
  Blocks = 3
  Seeds <- ThreeSeeds
  Data <- TwoTexts
SPECIFICATION Spec
INVARIANTS TypeOK PrintsPlainText PrintsCiphertext BenchPasses
PROPERTIES CommandsDoNotOverlap Terminates
CHECK_DEADLOCK FALSE
