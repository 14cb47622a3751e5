SPECIFICATION FairSpec
CONSTANTS
  Buttons <- Methods
  ListsItself = {TRUE, FALSE}
  MaxPresses = 1
  MaxFailures = 1
  MaxOthers = 1
CHECK_DEADLOCK FALSE
INVARIANTS
  TypeOK
  OwnChatCopies
PROPERTIES
  NothingSilent
  PageSettles
