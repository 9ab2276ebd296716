CONSTANTS
  NumDisks = 1
  NumParts = 1
  NumFiles = 2

SPECIFICATION Spec

PROPERTIES
  BadFileStays
