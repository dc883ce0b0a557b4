SPECIFICATION FairSpec
CONSTANTS
  Workers = {w1}
  Reviewers = {}
  Jobs = {j1, j2, j3}
  Entries = {e1}
  Revisions = {t1}
  MaxAttempts = 2
  MaxCrashes = 1
  MaxEdits = 0
  LeasesHonoured = TRUE
  Requests = {}
  None = None
CHECK_DEADLOCK FALSE
INVARIANT ProcessingHasJob
PROPERTY ProcessingEnds
