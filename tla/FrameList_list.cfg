SPECIFICATION FairSpec
CONSTANTS
  Readers = {net, view}
  Net = net
  MaxNum = 5
  MaxSize = 7
  MaxLen = 2
  SendMax = 1
  UInt = 16
  Last = 4
  NULL = NULL
INVARIANTS TypeOK NeverEmpty ListWhole HeldIsLive Shortcut SizesAccounted KeyAfterGap
PROPERTIES CatchesUp
