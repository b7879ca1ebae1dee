----------------------------- MODULE MCServices -----------------------------
(* The services of the kernel that run by themselves, one at a time: which   *)
(* is the one that takes steps, the others stay as they start.               *)
EXTENDS Sequences, TLC, TaskControl

CONSTANTS Components,   \* the services to look at
          MayDelete     \* see EventGroup

VARIABLES which,
          exists, uxEventBits, xTasksWaitingForBits, eventCall, pended,
          xTickCount, xLastTime, timer, xTimerQueue, daemon, sender

eventVars == <<exists, uxEventBits, xTasksWaitingForBits, eventCall, pended>>
timerVars == <<xTickCount, xLastTime, timer, xTimerQueue, daemon, sender>>
taskVars == vars

--------------------
(* The event group: a waits for all bits, b for any, c synchronises.         *)

EventTask == {"a", "b", "c"}
Bit == {1, 2}
WaitCalls ==
  [task : {"a"}, bits : {Bit}, clear : BOOLEAN, all : {TRUE}, ticks : {"finite"}]
    \cup [task : {"b"}, bits : {{1}}, clear : {TRUE}, all : {FALSE},
          ticks : {"none", "forever"}]
SyncCalls == {[task |-> "c", set |-> {2}, bits |-> Bit, ticks |-> "finite"]}
SetCalls == {[task |-> "b", bits |-> {1}], [task |-> "a", bits |-> {2}]}
ClearCalls == {[task |-> "a", bits |-> {1}], [task |-> "a", bits |-> {}]}
InterruptCalls == [kind : {"set", "clear"}, bits : {{1}}]

E == INSTANCE EventGroup WITH Task <- EventTask, PendBound <- 2

--------------------
(* Timers: p reloads itself, o does not.  The first instance sends what keeps *)
(* p going, the second also deletes, creates, pends and changes the mode.    *)

Period == [p |-> 2, o |-> 3]
Keep == [cmd : {"start", "stop"}, timer : {"p"}, arg : {0}]
KeepFromCallback == [cmd : {"changePeriod"}, timer : {"o"}, arg : {2}]
Change == [cmd : {"start", "stop", "delete"}, timer : {"o"}, arg : {0}]
            \cup {[cmd |-> "delete", timer |-> "p", arg |-> 0],
                  [cmd |-> "execute", timer |-> "no timer", arg |-> 0]}
ChangeFromCallback == {[cmd |-> "delete", timer |-> "o", arg |-> 0]}

T == INSTANCE Timers WITH
       Timer <- {"p", "o"}, Sender <- {"s"}, Interrupt <- {}, TickMod <- 6,
       configTIMER_QUEUE_LENGTH <- 2, configASSERT_DEFINED <- TRUE,
       AutoReload <- {"p"}, Static <- {"p"}, SenderCommands <- Keep,
       CallbackCommands <- KeepFromCallback, MayChangeMode <- FALSE,
       InitialTick <- 4, LateBound <- 2, AgeBound <- 2

U == INSTANCE Timers WITH
       Timer <- {"p", "o"}, Sender <- {"s"}, Interrupt <- {"s"}, TickMod <- 6,
       configTIMER_QUEUE_LENGTH <- 1, configASSERT_DEFINED <- FALSE,
       AutoReload <- {"p"}, Static <- {"p"}, SenderCommands <- Change,
       CallbackCommands <- ChangeFromCallback, MayChangeMode <- TRUE,
       InitialTick <- 4, LateBound <- 2, AgeBound <- 2

\* What the theorems of TimersProofs take for granted.
ASSUME TimersFitHere == T!TimersFit /\ U!TimersFit

--------------------
(* Task control: the low task manages the high one, which may be deleted.    *)

TaskPriorities == [idle |-> 0, low |-> 1, high |-> 2]

--------------------

MCInit == /\ which \in Components
          /\ E!Init /\ T!Init /\ Init

MCNext ==
  \/ which = "events" /\ E!Next /\ UNCHANGED <<which, timerVars, taskVars>>
  \/ which = "timers" /\ T!Next /\ UNCHANGED <<which, eventVars, taskVars>>
  \/ which = "modes" /\ U!Next /\ UNCHANGED <<which, eventVars, taskVars>>
  \/ which = "tasks" /\ Next /\ UNCHANGED <<which, eventVars, timerVars>>

MCSpec == MCInit /\ [][MCNext]_<<which, eventVars, timerVars, taskVars>>

--------------------
(* The properties, by the names they have in the modules; those of TaskControl *)
(* are its own.                                                              *)

ServicesTypeOK == E!TypeOK /\ T!TypeOK /\ TypeOK

NoWaiterLeftBehind == E!NoWaiterLeftBehind
BitsConsumed == E!BitsConsumed
DeletedReturnsZero == E!DeletedReturnsZero

TimersOnTime == T!TimersOnTime
ActiveIsListed == T!ListedIsActive /\ (which = "timers" => T!ActiveReloads)
NeverEarly == T!NeverEarly
StopTakesEffect == T!StopTakesEffect
=============================================================================
