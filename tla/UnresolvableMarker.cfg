SPECIFICATION Spec
CONSTANTS
  Workers = {w1}
  Jobs = {j1}
  Ops = {o1}
  MaxAttempts = 2
  MaxCrashes = 0
  MaxWebhooks = 0
  LeasesHonoured = TRUE
  None = None
CHECK_DEADLOCK FALSE
INVARIANT MarkerResolvable
