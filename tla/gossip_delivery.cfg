SPECIFICATION FairSpec
CONSTANTS
  p1 = p1  p2 = p2  p3 = p3
  None = None
  Nodes = {p1, p2, p3}
  Peers <- Ring
  MaxSequence <- OneBroadcast
  MaxLoss = 1
  Capacity = 2
  MaxTraffic = 0
INVARIANT
  NeighboursDirect
PROPERTY
  Delivered
