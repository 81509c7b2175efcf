CONSTANTS
  None = None
  Clobbered = Clobbered
  Seeds = {s1, s2}
  Texts = {t1, t2}
  Window = 2
  MaxSent = 5
  MaxBacklog = 2
  WholeMessages = TRUE
  PromptMain = TRUE
  MayBreak = TRUE
CHECK_DEADLOCK FALSE
SPECIFICATION FairSpec
INVARIANTS TypeOK PipelineMatchesExpected KeyAgreement ExitOnlyWhenPeerGone NoStandstill
PROPERTIES NeverAnswersWrongly HandshakeNeverHangs
