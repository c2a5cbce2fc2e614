SPECIFICATION FairSpec
CONSTANTS
  Dim0 = 1
  Dim1 = 5
  BITS_PER_ELE = 4
  BITS_PER_WORD = 2
  Producers <- TwoWords
  Readers <- OneReader
  MaxUpdates = 2
INVARIANTS RowIsMembership NoMissedChange
PROPERTIES CopiesCatchUp
CHECK_DEADLOCK FALSE
