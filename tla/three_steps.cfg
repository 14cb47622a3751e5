SPECIFICATION Spec
CONSTANTS
  p1 = p1  p2 = p2  p3 = p3  t1 = t1  t2 = t2  x = x  y = y  None = None
  Nodes = {p1, p2, p3}
  Calls = {t1, t2}
  Names = {x, y}
  Host <- HostAA
  NameOf <- NamesXY
  FirstID <- IDs3
  TotalPeers = 3
  Threshold = 2
  Serial = {p1, p2, p3}
  MaxSteps = 2
  MaxID = 3
INVARIANTS
  TLCBacked
  TLCStored
  ChainLinked
CHECK_DEADLOCK FALSE
