CONSTANTS
  NumDisks = 2
  NumParts = 1
  NumFiles = 1

SPECIFICATION FairSpec

PROPERTIES
  KeepsFootage
  SearchEnds
  BootEnds
INVARIANTS CoverOnlyWhenFull DisksInOrder
