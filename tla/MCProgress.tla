----------------------------- MODULE MCProgress -----------------------------
(* What must happen in the end, and what is shown to implement what: small   *)
(* instances of four components.  which is the one that takes steps.         *)
EXTENDS Integers, Sequences, TLC

VARIABLES which,
          k, uxMessagesWaiting, cTxLock, cRxLock, call,
          uxPriority, uxBasePriority, uxMutexesHeld, xItemValue, overdue, xMutexHolder,
          uxRecursiveCallCount, waiting, mutexCall,
          exists, uxEventBits, xTasksWaitingForBits, eventCall, pended,
          xTickCount, xLastTime, timer, xTimerQueue, daemon, sender

queueVars == <<k, uxMessagesWaiting, cTxLock, cRxLock, call>>
mutexVars == <<uxPriority, uxBasePriority, uxMutexesHeld, xItemValue, overdue,
               xMutexHolder, uxRecursiveCallCount, waiting, mutexCall>>
eventVars == <<exists, uxEventBits, xTasksWaitingForBits, eventCall, pended>>
timerVars == <<xTickCount, xLastTime, timer, xTimerQueue, daemon, sender>>
vars == <<which, queueVars, mutexVars, eventVars, timerVars>>

--------------------

\* A queue of one place; ticks that never stop.
QueueTask == {"idle", "low", "high"}
QueuePriority == [idle |-> 0, low |-> 1, high |-> 2]
QueueEventLists == {"xTasksWaitingToSend", "xTasksWaitingToReceive"}

Q == INSTANCE Queue WITH
       Task <- QueueTask, Idle <- "idle", TaskPriority <- QueuePriority,
       EventList <- QueueEventLists, MaxPriority <- 3, TickMod <- 3,
       uxLength <- 1, Wait <- {1}, Sender <- {"low"}, Receiver <- {"high"},
       Peeker <- {}, Resetter <- {}, InterruptOp <- {"send"}, Prompt <- TRUE,
       InitialTick <- 0, TickBound <- 100, PendedBound <- 1, LockBound <- 1

\* One mutex at a time, and a task of middle priority that may never block.
MutexTask == {"low", "mid", "high"}
MutexPriority == [low |-> 0, mid |-> 1, high |-> 2]
AllUseAll == [t \in MutexTask |-> {"a", "b"}]

M == INSTANCE Mutex WITH
       Task <- MutexTask, Mutexes <- {"a", "b"}, MaxPriority <- 3,
       TaskPriority <- MutexPriority, Uses <- AllUseAll, Recursive <- {},
       Waits <- {"none", "finite", "forever"}, MayNest <- FALSE,
       SelfTake <- FALSE, NewPriority <- {}, configASSERT_DEFINED <- FALSE,
       RecursionBound <- 2, call <- mutexCall

\* Four tasks that meet, each with a bit of its own.
Party == {"a", "b", "c", "d"}
Meet == {[task |-> t, set |-> {t}, bits |-> Party, ticks |-> "forever"]
           : t \in Party}

E == INSTANCE EventGroup WITH
       Task <- Party, Bit <- Party, WaitCalls <- {}, SyncCalls <- Meet,
       SetCalls <- {}, ClearCalls <- {}, InterruptCalls <- {}, PendBound <- 1,
       MayDelete <- FALSE

\* A timer that reloads itself, started and stopped by a task.
TimerPeriod == [p |-> 2]
StartOrStop == [cmd : {"start", "stop"}, timer : {"p"}, arg : {0}]

T == INSTANCE Timers WITH
       Timer <- {"p"}, Sender <- {"s"}, Interrupt <- {}, TickMod <- 6,
       configTIMER_QUEUE_LENGTH <- 2, configASSERT_DEFINED <- TRUE,
       AutoReload <- {"p"}, Static <- {}, Period <- TimerPeriod,
       SenderCommands <- StartOrStop, CallbackCommands <- {},
       MayChangeMode <- FALSE, InitialTick <- 4, LateBound <- 2, AgeBound <- 2

--------------------

Init == /\ which \in {"queue", "mutex", "events", "timers"}
        /\ Q!Init /\ M!Init /\ E!Init /\ T!Init

Only(c, others) == which = c /\ UNCHANGED <<which, others>>

Next ==
  \/ Only("queue", <<mutexVars, eventVars, timerVars>>) /\ Q!Next
  \/ Only("mutex", <<queueVars, eventVars, timerVars>>) /\ M!Next
  \/ Only("events", <<queueVars, mutexVars, timerVars>>) /\ E!Next
  \/ Only("timers", <<queueVars, mutexVars, eventVars>>) /\ T!Next

\* The fairness of each module, see there, for the one that takes steps.
Fairness ==
  /\ \A t \in QueueTask : WF_queueVars(which = "queue" /\ Q!Step(t))
  /\ WF_queueVars(which = "queue" /\ Q!SwitchContext)
  /\ WF_queueVars(which = "queue" /\ Q!xTaskIncrementTick)
  /\ \A t \in MutexTask :
       /\ WF_mutexVars(which = "mutex" /\ M!InCall(t))
       /\ WF_mutexVars(which = "mutex" /\ M!Giving(t))
       /\ WF_mutexVars(which = "mutex" /\ M!WakeUp(t))
  /\ \A t \in Party : WF_eventVars(which = "events" /\ E!TaskStep(t))
  /\ \A c \in Meet : WF_eventVars(which = "events" /\ E!xEventGroupSync(c))
  /\ WF_timerVars(which = "timers" /\ T!TimerTask)
  /\ WF_timerVars(which = "timers" /\ T!xTaskIncrementTick)
  /\ WF_timerVars(which = "timers" /\ (T!xQueueSendToBack("s") \/ T!GiveUp("s")))

Spec == Init /\ [][Next]_vars /\ Fairness

--------------------
(* The properties, by the names they have in the modules.                    *)

TimedCallReturns == Q!TimedCallReturns
UrgentTaskServed == M!UrgentTaskServed
ImplementsRendezvous == E!ImplementsRendezvous
EveryoneMeets == E!EveryoneMeets
ListedExpires == T!ListedExpires
=============================================================================
