SPECIFICATION HSpec
CONSTANTS
  Conns = {c1, c2}
  Tables = {t1, t2}
  Keys = {k1}
  LongNames = {}
  Requests <- TxnRequests
  Impatient = FALSE
  Vals <- MCVals
  IntMax = 0
  Stoi <- MCStoi
  ToStr <- MCToStr
  NoValue = NoValue
  Nobody = Nobody
  MaxDepth = 1
  OldValue = "0"
SYMMETRY Symmetry
INVARIANTS RaceFree NoLeakedLock PendingIsOwned NoCircularWait
PROPERTIES NoInterference Serializable
