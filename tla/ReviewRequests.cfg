SPECIFICATION Spec
CONSTANTS
  Workers = {w1, w2}
  Reviewers = {}
  Jobs = {j1, j2}
  Entries = {e1}
  Revisions = {t1, t2}
  MaxAttempts = 1
  MaxCrashes = 0
  MaxEdits = 1
  LeasesHonoured = TRUE
  Requests <- AllRequests
  None = None
SYMMETRY Symmetry
CHECK_DEADLOCK FALSE
PROPERTIES
  ImplementsLifecycle
  StopsHold
