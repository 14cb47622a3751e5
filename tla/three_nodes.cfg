SPECIFICATION Spec
CONSTANTS
  p1 = p1  p2 = p2  p3 = p3  t1 = t1  t2 = t2  x = x  y = y  None = None
  Nodes = {p1, p2, p3}
  Calls = {t1, t2}
  Names = {x, y}
  Host <- HostAB
  NameOf <- NamesXY
  FirstID <- IDs3
  TotalPeers = 3
  Threshold = 2
  Serial = {p1, p2, p3}
  MaxSteps = 1
  MaxID = 3
INVARIANTS
  Agreement
  AcceptorInv
CHECK_DEADLOCK FALSE
