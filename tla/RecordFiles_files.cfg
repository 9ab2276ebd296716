CONSTANTS
  NumDisks = 1
  NumParts = 2
  NumFiles = 2

SPECIFICATION Spec

INVARIANTS
  TypeOK
  WritingAccounted
  RecordingAtCursor
  PlayHold
  ReclaimedAtCursor
