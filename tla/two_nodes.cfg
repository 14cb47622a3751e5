SPECIFICATION FairSpec
CONSTANTS
  p1 = p1  p2 = p2  p3 = p3  t1 = t1  t2 = t2  x = x  y = y  None = None
  Nodes = {p1, p2}
  Calls = {t1, t2}
  Names = {x, y}
  Host <- HostAB
  NameOf <- NamesXY
  FirstID <- IDs2
  TotalPeers = 2
  Threshold = 2
  Serial = {}
  MaxSteps = 2
  MaxID = 2
INVARIANTS
  TypeOK
  Agreement
  ChainLinked
PROPERTIES
  FirstStepEnds
  CatchUp
CHECK_DEADLOCK FALSE
