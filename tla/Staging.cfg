SPECIFICATION Spec
CONSTANTS
  Uploads = {u1, u2, u3}
  Suffixes = {wav, mp3}
  Chunks = 2
  None = None
SYMMETRY Symmetry
INVARIANTS TypeOK RecordedHasFile StagingCleared
PROPERTIES RecordedFileKept StoredIsFinal
CHECK_DEADLOCK FALSE
