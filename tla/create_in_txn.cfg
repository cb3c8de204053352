SPECIFICATION Spec
CONSTANTS
  Conns = {c1}
  Tables = {t1}
  Keys = {k1}
  LongNames = {}
  Requests <- TxnRequests
  Vals <- MCVals
  IntMax <- MCIntMax
  Stoi <- MCStoi
  ToStr <- MCToStr
  NoValue = NoValue
  Nobody = Nobody
  Impatient = FALSE
  MaxDepth = 1
PROPERTY UncommittedInvisible
