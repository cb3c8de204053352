SPECIFICATION FairSpec
CONSTANTS
  MaxLen = 4
  RioSize = 3
  MaxLine = 6
  MaxTotal = 8
INVARIANTS TypeOK WholeLines
PROPERTY Delivered
