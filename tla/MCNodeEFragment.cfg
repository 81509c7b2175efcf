CONSTANTS
  None = None
  Clobbered = Clobbered
  Seeds = {s1}
  Texts = {t1}
  Window = 1
  MaxSent = 3
  MaxBacklog = 1
  WholeMessages = FALSE
  PromptMain = TRUE
  MayBreak = FALSE
CHECK_DEADLOCK FALSE
SPECIFICATION Spec
INVARIANT ExitOnlyWhenPeerGone
