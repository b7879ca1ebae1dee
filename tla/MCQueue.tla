------------------------------ MODULE MCQueue ------------------------------
(* An instance of Queue for TLC: a caller, one above it, and the idle task.  *)
EXTENDS Queue

QueueEventLists == {"xTasksWaitingToSend", "xTasksWaitingToReceive"}

ThreeTasks == {"idle", "low", "high"}
ThreePriorities == [t \in ThreeTasks |-> CASE t = "idle" -> 0
                                          [] t = "low" -> 1 [] t = "high" -> 2]
=============================================================================
