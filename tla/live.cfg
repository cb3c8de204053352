SPECIFICATION IdleSpec
CONSTANTS
  Conns = {c1, c2}
  Tables = {t1}
  Keys = {k1}
  LongNames = {}
  Requests <- MCRequests
  Impatient = FALSE
  Vals <- MCVals
  IntMax = 0
  Stoi <- MCStoi
  ToStr <- MCToStr
  NoValue = NoValue
  Nobody = Nobody
  MaxDepth = 1
  MaxRequests = 7
PROPERTIES TransactionNeverWaits Drained
