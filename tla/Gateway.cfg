SPECIFICATION FairSpec
CONSTANTS
  MaxSegments = 8
  Topics = {"tempo", "vowels"}
  Size = 3
  Overlap = 1
  Concurrency = 2
  Payloads <- MCPayloads
  Failures = {openai_error, openai_timeout}
  Invalid = Invalid
  None = None
CHECK_DEADLOCK FALSE
INVARIANTS
  TypeOK
  MomentsSeenWhole
  RefusedOnlyForDuration
  NoCallOutlivesRequest
PROPERTIES
  ImplementsPromise
  RequestAnswered
