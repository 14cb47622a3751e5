SPECIFICATION Spec
CONSTANTS
  Buttons <- OverlapButtons
  ListsItself = {FALSE}
  MaxPresses = 2
  MaxFailures = 1
  MaxOthers = 0
CHECK_DEADLOCK FALSE
INVARIANTS
  AckedChangeSeen
  LastAnswerShown
  GraphNotOlder
  SearchingMeansRunning
  OwnClassSettles
