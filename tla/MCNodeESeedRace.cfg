CONSTANTS
  None = None
  Clobbered = Clobbered
  Seeds = {s1}
  Texts = {t1}
  Window = 1
  MaxSent = 3
  MaxBacklog = 1
  WholeMessages = TRUE
  PromptMain = FALSE
  MayBreak = FALSE
CHECK_DEADLOCK FALSE
SPECIFICATION Spec
INVARIANT KeyAgreement
