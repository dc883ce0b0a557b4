SPECIFICATION Spec
CONSTANTS
  Workers = {w1, w2}
  Jobs = {j1, j2}
  Ops = {o1, o2}
  MaxAttempts = 2
  MaxCrashes = 1
  MaxWebhooks = 1
  LeasesHonoured = TRUE
  None = None
SYMMETRY Symmetry
CHECK_DEADLOCK FALSE
INVARIANTS
  IInv
  OutcomeAccounted
  DeletionsReachSpeakr
  NotStranded
PROPERTIES
  ImplementsLifecycle
  NoBlindRetry
  DeletionIsFinal
  CancelledStaysCancelled
  AmbiguousVerdictKept
