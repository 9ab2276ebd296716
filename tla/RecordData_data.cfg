CONSTANTS
  MaxFrame = 5
  FileMax = 4
  BufFrames = 1
  SyncEvery = 1
  MaxLost = 1
  ChanOf <- MCChanOf

SPECIFICATION Spec

INVARIANTS
  TypeOK
  IndexDescribesData
  FramesInOrder
  KeptReadable

PROPERTIES
  RepairLosesTail
