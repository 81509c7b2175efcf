CONSTANTS
  None = None
  Clobbered = Clobbered
  Seeds = {s1, s2}
  Texts = {t1, t2}
  Window = 2
  MaxSent = 5
  MaxBacklog = 2
  WholeMessages = TRUE
  PromptMain = TRUE
  MayBreak = FALSE
CHECK_DEADLOCK FALSE
SPECIFICATION FairSpec
PROPERTIES ImplementsCipherService HandshakeCompletes
