SPECIFICATION Spec
CONSTANTS
  Conns = {c1, c2}
  Tables = {t1}
  Keys = {k1}
  LongNames = {t1}
  Requests <- TxnRequests
  Vals <- MCVals
  IntMax <- MCIntMax
  Stoi <- MCStoi
  ToStr <- MCToStr
  NoValue = NoValue
  Nobody = Nobody
  Impatient = TRUE
  MaxDepth = 1
SYMMETRY Symmetry
INVARIANTS TypeOK RaceFree NoLeakedLock PendingIsOwned LoginFirst
