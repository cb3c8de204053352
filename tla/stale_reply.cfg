SPECIFICATION CSpec
CONSTANTS
  Conns = {c1}
  c1 = c1
  c2 = c2
  Starts <- OnlySet
  Kills = FALSE
  Tables = {t1}
  Keys = {k1}
  T = t1
  K = k1
  LongNames = {}
  Requests <- MCRequests
  Vals <- MCVals
  IntMax = 3
  Stoi <- MCStoi
  ToStr <- MCToStr
  NoValue = NoValue
  Nobody = Nobody
  Impatient = TRUE
  MaxDepth = 2
  StartValue = "0"
  NewValue = "2"
  One = "1"
INVARIANT SuccessIsReal
