\* A queue of one place that tasks and interrupts send to and receive from, one
\* task peeks at and one resets; waits end across an overflow of the tick count and
\* ticks are pended meanwhile.
CONSTANTS
  Task <- ThreeTasks
  TaskPriority <- ThreePriorities
  EventList <- QueueEventLists
  Idle = "idle"
  MaxPriority = 3
  TickMod = 4
  uxLength = 1
  Wait = {2, 3}
  Sender = {"low", "high"}
  Receiver = {"high"}
  Peeker = {"high"}
  Resetter = {"low"}
  InterruptOp = {"send", "receive"}
  Prompt = FALSE
  InitialTick = 2
  TickBound = 5
  PendedBound = 2
  LockBound = 2
SPECIFICATION Spec
INVARIANTS
  NoOversleep
  Inductive
  HighestPriorityRuns
  NobodyLeftBehind
  WakeUpsOwed
PROPERTIES
  TimeOutExact
  ImplementsContract
\* All tasks may be blocked while no interrupt is left to come.
CHECK_DEADLOCK FALSE
