SPECIFICATION FairSpec
CONSTANTS
  Workers = {w1}
  Jobs = {j1}
  Ops = {o1, o2}
  MaxAttempts = 2
  MaxCrashes = 1
  MaxWebhooks = 1
  LeasesHonoured = TRUE
  None = None
CHECK_DEADLOCK FALSE
PROPERTIES
  CompensationCompletes
  DeletionCompletes
  JobsSettle
