\* A stream of bytes; the longest run of bytes does not fit below the trigger level.
CONSTANTS
  Length = 4
  Header = 0
  Payloads <- Runs
  ReceiveSizes = {1, 3}
  SendWaits = {"finite", "forever"}
  ReceiveWaits = {"finite", "forever"}
  Trigger = 2
  NewTriggers = {}
  Interrupts = {"none"}
  MayPutBack = FALSE
SPECIFICATION UndisturbedFairSpec
INVARIANTS
  NobodyLeftAsleep
  MutualWaitNeedsHighTrigger
PROPERTIES
  ImplementsByteStream
  SendReturns
\* Both sides may wait for ever: see MutualWaitNeedsHighTrigger.
CHECK_DEADLOCK FALSE
