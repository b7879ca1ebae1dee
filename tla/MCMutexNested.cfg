\* Three tasks with a recursive and a plain mutex, held together, priorities set.
CONSTANTS
  Task <- ThreeTasks
  Mutexes = {"a", "b"}
  MaxPriority = 3
  TaskPriority <- ThreePriorities
  Uses <- NestingUse
  Recursive = {"a"}
  Waits = {"finite"}
  MayNest = TRUE
  SelfTake = TRUE
  NewPriority = {2}
  configASSERT_DEFINED = FALSE
  RecursionBound = 2
SPECIFICATION Spec
INVARIANTS
  TypeOK
  BooksBalance
  NoWaiterLeftBehind
\* Tasks that take mutexes in opposite orders block each other.
CHECK_DEADLOCK FALSE
