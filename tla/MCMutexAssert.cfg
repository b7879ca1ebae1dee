\* A wait times out, the mutex is given and taken by another task: assertions on.
CONSTANTS
  Task <- Peers
  Mutexes = {"a"}
  MaxPriority = 2
  TaskPriority <- PeerPriorities
  Uses <- AllUseAll
  Recursive = {}
  Waits = {"finite"}
  MayNest = FALSE
  SelfTake = FALSE
  NewPriority = {}
  configASSERT_DEFINED = TRUE
  RecursionBound = 1
SPECIFICATION Spec
INVARIANTS
  AssertionsHold
\* A failed assertion halts.
CHECK_DEADLOCK FALSE
