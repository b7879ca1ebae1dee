\* Two tasks, and some receives are too small for the next message.
CONSTANTS
  Length = 7
  Header = 2
  Payloads <- Messages
  ReceiveSizes = {1, 3}
  SendWaits = {"none"}
  ReceiveWaits = {"none"}
  Trigger = 1
  NewTriggers = {}
  Interrupts = {"none"}
  MayPutBack = TRUE
SPECIFICATION UndisturbedSpec
INVARIANTS
  RightMessage
