SPECIFICATION PartsSpec
CONSTANTS
  List = {list}
  Item = {i1, i2, i3}
  NULL = NULL
  portMAX_DELAY = 2
INVARIANTS
  PartsTypeOK
  MessagesArrive
  BeliefsHold
  WellLinked
  CmsisAccounted
  DevicesTrue
  NobodyForgotten
PROPERTIES
  LocksPaired
  ImplementsOrderedLists
  ImplementsDeque
