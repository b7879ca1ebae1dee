SPECIFICATION MCSpec
CONSTANTS
  Components = {"events", "timers", "modes", "tasks"}
  CarefulResume = TRUE
  MayDelete = TRUE
  Task = {"idle", "low", "high"}
  Idle = "idle"
  MaxPriority = 3
  TickMod = 4
  EventList = {"event"}
  TaskPriority <- TaskPriorities
  Creatable = {"high"}
  Delays = {0, 3}
  Increments = {1, 3}
  Controller = {"low"}
  Taker = {"high"}
  Notifier = {"low"}
  InterruptOp = {"notify", "resume", "event"}
  CatchUp = {1}
  ValueBound = 2
  PendedBound = 1
INVARIANTS
  ServicesTypeOK
  NoWaiterLeftBehind
  TimersOnTime
  ActiveIsListed
  HighestPriorityRuns
  TasksAccounted
  DelayUntilByElapsed
PROPERTIES
  BitsConsumed
  NeverEarly
CHECK_DEADLOCK FALSE
