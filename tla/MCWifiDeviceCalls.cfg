\* Two tasks and a listener that connects from its callback, on both locks.
CONSTANTS
  Task = {"t1", "t2"}
  MaxConfig = 1
  MaxEvent = 1
  Network = {"n1"}
  Listener = {"l1"}
  Hears = {"l1"}
  Calls = {"EnableWifi", "DisableWifi", "ConnectTo", "Disconnect", "RegisterWifiEvent", "UnRegisterWifiEvent"}
  NestedCalls = {"ConnectTo"}
  DriverFails = TRUE
  FileFails = FALSE
  MayRestart = TRUE
  PendingBound = 1
  LockBound = 1
SPECIFICATION BoundedFairSpec
INVARIANTS
  ConnectStateExact
PROPERTIES
  EveryCallReturns
