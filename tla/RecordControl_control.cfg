CONSTANTS
  Short = 0
  Long = 1

SPECIFICATION FairSpec

INVARIANTS
  TypeOK
  OneHandle
  StopClosesFile
PROPERTIES
  StartMeansFrame
  KeyFrameFirst
  StartKept
  StopAnswered
