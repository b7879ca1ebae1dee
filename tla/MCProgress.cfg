SPECIFICATION Spec
PROPERTIES
  TimedCallReturns
  UrgentTaskServed
  ImplementsRendezvous
  EveryoneMeets
  ListedExpires
\* All tasks of the queue may be blocked while no interrupt is left to come,
\* and a failed assertion of the timers halts.
CHECK_DEADLOCK FALSE
