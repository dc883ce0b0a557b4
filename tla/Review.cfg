SPECIFICATION Spec
CONSTANTS
  Workers = {w1, w2}
  Reviewers = {r1}
  Jobs = {j1, j2}
  Entries = {e1, e2}
  Revisions = {t1, t2}
  MaxAttempts = 1
  MaxCrashes = 0
  MaxEdits = 1
  LeasesHonoured = TRUE
  Requests <- LedgerRequests
  None = None
SYMMETRY Symmetry
CHECK_DEADLOCK FALSE
INVARIANTS
  IInv
  ExtractedFromOwnRevision
PROPERTIES
  NewRevisionReopensReview
