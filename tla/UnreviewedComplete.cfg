SPECIFICATION Spec
CONSTANTS
  Workers = {w1}
  Reviewers = {r1, r2}
  Jobs = {j1, j2}
  Entries = {e1, e2}
  Revisions = {t1}
  MaxAttempts = 1
  MaxCrashes = 0
  MaxEdits = 0
  LeasesHonoured = TRUE
  Requests = {"add", "verify"}
  None = None
CHECK_DEADLOCK FALSE
INVARIANT CompleteMeansReviewed
