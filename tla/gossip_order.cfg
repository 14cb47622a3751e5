SPECIFICATION Spec
CONSTANTS
  p1 = p1  p2 = p2  p3 = p3
  None = None
  Nodes = {p1, p2, p3}
  Peers <- Line
  MaxSequence <- TwoBroadcasts
  MaxLoss = 1
  Capacity = 2
  MaxTraffic = 0
INVARIANTS
  TypeOK
  RumorsComplete
  OwnOnce
PROPERTY
  ImplementsChannel
