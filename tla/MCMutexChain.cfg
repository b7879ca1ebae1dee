\* A waiting task inherits a priority and loses it again.
CONSTANTS
  Task <- FourTasks
  Mutexes = {"outer", "inner"}
  MaxPriority = 4
  TaskPriority <- FourPriorities
  Uses <- ChainUse
  Recursive = {}
  Waits = {"finite"}
  MayNest = TRUE
  SelfTake = FALSE
  NewPriority = {}
  configASSERT_DEFINED = FALSE
  RecursionBound = 2
SPECIFICATION Spec
INVARIANTS
  DisinheritFloor
\* Tasks that take mutexes in opposite orders block each other.
CHECK_DEADLOCK FALSE
