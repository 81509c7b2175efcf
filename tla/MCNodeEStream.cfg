CONSTANTS
  None = None
  Clobbered = Clobbered
  Seeds = {s1, s2}
  Texts = {t1, t2}
  Window = 3
  MaxSent = 5
  MaxBacklog = 2
  WholeMessages = FALSE
  PromptMain = TRUE
  MayBreak = TRUE
CHECK_DEADLOCK FALSE
SYMMETRY Symmetry
SPECIFICATION Spec
INVARIANTS AnswersKeepOrder KeyedBeforeUse KeyAgreement
PROPERTY StepsAdvance
