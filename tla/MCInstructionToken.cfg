CONSTANTS
  max_depth = 1
  Tokens <- SomeTokens
  MaxMessages = 2
  Noises <- SomeNoises
SPECIFICATION Spec
INVARIANTS ReadsAreAllOrNothing ParseMatchesGrammar
CHECK_DEADLOCK FALSE
