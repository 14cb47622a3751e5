SPECIFICATION FairSpec
CONSTANTS
  p1 = p1  p2 = p2  p3 = p3  f = f  g = g  c1 = c1
  up = up  first = first  all = all  get = get  None = None
  Nodes = {p1, p2, p3}
  Files = {f, g}
  Chunks <- OneChunk
  Neighbours <- Line
  Tables <- LineTables
  Stored <- Parts
  Known <- AllNames
  Calls = {up, first, all, get}
  Kind <- Kinds
  Caller <- Callers
  Matching <- ForF
  Initial = 1
  Factor = 2
  Retry = 2
  DataRetry = 1
  After <- AllLast
  MaxLoss = 1
CHECK_DEADLOCK FALSE
INVARIANTS
  TypeOK
  BudgetKept
  CatalogTrue
  FoundIsThere
  AnswerHasBlob
PROPERTIES
  SearchEnds
  DownloadEnds
