SPECIFICATION Spec
CONSTANTS
  Conns = {c1}
  Tables = {}
  Keys = {}
  LongNames = {}
  Requests <- CalcRequests
  Vals <- MCVals
  IntMax <- MCIntMax
  Stoi <- MCStoi
  ToStr <- MCToStr
  NoValue = NoValue
  Nobody = Nobody
  Impatient = TRUE
  MaxDepth = 3
PROPERTY ArithmeticRight
