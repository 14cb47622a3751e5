SPECIFICATION FairSpec
CONSTANTS
  e1 = e1  e2 = e2  a = a  b = b
  Root = Root  None = None
  Elements = {e1, e2}
  Identifiers = {a, b}
  Values <- Lists
  MaxRecords = 3
INVARIANTS
  TypeOK
  InSync
  ChainAgrees
  ConnectAlternates
PROPERTY
  SyncAgain
