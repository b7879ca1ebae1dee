------------------------------- MODULE Kernel -------------------------------
(***************************************************************************)
(* The part of the FreeRTOS kernel (tasks.c) that every blocking service   *)
(* goes through: the lists a task can be on, the tick count with its two   *)
(* delayed lists, the scheduler lock with its pending ready list, and the  *)
(* pended context switch.  The kernel's file-scope variables are the       *)
(* fields of one record; each kernel function is an operator from a record *)
(* to a record, so that a critical section that calls several of them is   *)
(* one expression.                                                         *)
(*                                                                         *)
(* A list is kept as the set of its members: container[t] is the list that *)
(* holds t's xStateListItem, event[t] the list that holds its              *)
(* xEventListItem.  Among tasks of one priority the order of a list is     *)
(* left open, a superset of the FIFO order of the code.                    *)
(***************************************************************************)
EXTENDS Naturals, FiniteSets

CONSTANTS Task,        \* the tasks, the idle task among them
          Idle,        \* xIdleTaskHandle: always ready, priority 0
          MaxPriority, \* configMAX_PRIORITIES
          TickMod,     \* number of TickType_t values, 2^32 in the build
          EventList    \* the event lists tasks can block on

ASSUME KernelAssumption ==
  /\ Idle \in Task
  /\ MaxPriority \in Nat \ {0}
  /\ TickMod \in Nat \ {0, 1}
  /\ "none" \notin EventList
  /\ "pending" \notin EventList

ASSUME TasksAreFinite == IsFiniteSet(Task)

Priority == 0..(MaxPriority - 1)
Tick == 0..(TickMod - 1)
portMAX_DELAY == TickMod - 1

\* pxReadyTasksLists, pxDelayedTaskList, pxOverflowDelayedTaskList and
\* xSuspendedTaskList, the containers of an xStateListItem.
StateList == {"ready", "delayed", "overflow", "suspended"}

KernelState ==
  [pxCurrentTCB : Task,
   uxPriority : [Task -> Priority],
   container : [Task -> StateList],
   xItemValue : [Task -> Tick],              \* wake time of a delayed task
   event : [Task -> EventList \cup {"none", "pending"}],
   xTickCount : Tick,
   xNumOfOverflows : Tick,
   xNextTaskUnblockTime : Tick,
   xPendedTicks : Nat,
   uxSchedulerSuspended : Nat,
   xYieldPending : BOOLEAN,
   pendSV : BOOLEAN]                         \* the port's pended switch

KernelStart(prio, first, tick) ==
  [pxCurrentTCB |-> first,
   uxPriority |-> prio,
   container |-> [t \in Task |-> "ready"],
   xItemValue |-> [t \in Task |-> 0],
   event |-> [t \in Task |-> "none"],
   xTickCount |-> tick,
   xNumOfOverflows |-> 0,
   xNextTaskUnblockTime |-> portMAX_DELAY,
   xPendedTicks |-> 0,
   uxSchedulerSuspended |-> 0,
   xYieldPending |-> FALSE,
   pendSV |-> FALSE]

--------------------

Ready(k) == {t \in Task : k.container[t] = "ready"}
Delayed(k) == {t \in Task : k.container[t] = "delayed"}
Waiting(k, l) == {t \in Task : k.event[t] = l}

\* An event list is sorted by priority: its head is one of these.
HeadOf(k, l) ==
  {t \in Waiting(k, l) :
     \A u \in Waiting(k, l) : k.uxPriority[u] <= k.uxPriority[t]}

\* portYIELD: the switch is taken once interrupts are enabled again.
Yield(k) == [k EXCEPT !.pendSV = TRUE]

MinWake(k, S) ==
  CHOOSE w \in Tick : /\ \E t \in S : k.xItemValue[t] = w
                      /\ \A t \in S : w <= k.xItemValue[t]

prvResetNextTaskUnblockTime(k) ==
  [k EXCEPT !.xNextTaskUnblockTime =
     IF Delayed(k) = {} THEN portMAX_DELAY ELSE MinWake(k, Delayed(k))]

--------------------
(* Blocking the calling task.                                              *)

\* Mutant: a new earliest wake time does not reach xNextTaskUnblockTime.
AddWithoutUnblockTime(k, ticks, canBlockIndefinitely) ==
  LET me == k.pxCurrentTCB
      wake == (k.xTickCount + ticks) % TickMod
  IN  IF ticks = portMAX_DELAY /\ canBlockIndefinitely
        THEN [k EXCEPT !.container[me] = "suspended"]
        ELSE [k EXCEPT !.xItemValue[me] = wake, !.container[me] =
                IF wake < k.xTickCount THEN "overflow" ELSE "delayed"]

prvAddCurrentTaskToDelayedList(k, ticks, canBlockIndefinitely) ==
  LET me == k.pxCurrentTCB
      wake == (k.xTickCount + ticks) % TickMod
  IN  IF ticks = portMAX_DELAY /\ canBlockIndefinitely
        THEN [k EXCEPT !.container[me] = "suspended"]
      ELSE IF wake < k.xTickCount
        THEN [k EXCEPT !.container[me] = "overflow", !.xItemValue[me] = wake]
      ELSE [k EXCEPT !.container[me] = "delayed", !.xItemValue[me] = wake,
                     !.xNextTaskUnblockTime = IF wake < @ THEN wake ELSE @]

vTaskPlaceOnEventList(k, l, ticks) ==
  prvAddCurrentTaskToDelayedList(
    [k EXCEPT !.event[k.pxCurrentTCB] = l], ticks, TRUE)

--------------------
(* Unblocking: head is the task at the head of the event list.             *)

Outranks(k, t) == k.uxPriority[t] > k.uxPriority[k.pxCurrentTCB]

\* Mutant: a wake-up that does not remember the switch it calls for.
RemoveWithoutYield(k, head) ==
  IF k.uxSchedulerSuspended = 0
    THEN [k EXCEPT !.event[head] = "none", !.container[head] = "ready"]
    ELSE [k EXCEPT !.event[head] = "pending"]

xTaskRemoveFromEventList(k, head) ==
  LET woken == IF k.uxSchedulerSuspended = 0
                 THEN [k EXCEPT !.event[head] = "none",
                                !.container[head] = "ready"]
                 ELSE [k EXCEPT !.event[head] = "pending"]
  IN  IF Outranks(k, head) THEN [woken EXCEPT !.xYieldPending = TRUE]
                           ELSE woken

\* A service called by a task yields when it woke a task of higher priority.
WakeAndYield(k, head) ==
  LET woken == xTaskRemoveFromEventList(k, head)
  IN  IF Outranks(k, head) THEN Yield(woken) ELSE woken

--------------------
(* The tick.                                                               *)

\* Mutant: the delayed lists are not swapped when the tick count overflows.
OverflowWithoutSwitch(k) ==
  prvResetNextTaskUnblockTime(
    [k EXCEPT !.xNumOfOverflows = (@ + 1) % TickMod])

taskSWITCH_DELAYED_LISTS(k) ==
  prvResetNextTaskUnblockTime(
    [k EXCEPT !.container =
       [t \in Task |-> CASE @[t] = "overflow" -> "delayed"
                         [] @[t] = "delayed" -> "overflow"
                         [] OTHER -> @[t]],
              !.xNumOfOverflows = (@ + 1) % TickMod])

\* The tasks one tick takes off the delayed list.
Due(k) == IF k.xTickCount < k.xNextTaskUnblockTime THEN {}
          ELSE {t \in Delayed(k) : k.xItemValue[t] <= k.xTickCount}

UnblockDue(k) ==
  LET due == Due(k)
      woken == [k EXCEPT !.container = [t \in Task |-> IF t \in due
                                          THEN "ready" ELSE @[t]],
                         !.event = [t \in Task |-> IF t \in due
                                          THEN "none" ELSE @[t]]]
  IN  IF k.xTickCount < k.xNextTaskUnblockTime THEN k
      ELSE prvResetNextTaskUnblockTime(woken)

\* xTaskIncrementTick with the scheduler running.
CountTick(k) ==
  LET t1 == [k EXCEPT !.xTickCount = (@ + 1) % TickMod]
  IN  UnblockDue(IF t1.xTickCount = 0 THEN taskSWITCH_DELAYED_LISTS(t1) ELSE t1)

\* Its result: an unblocked task as urgent as the running one, a peer to
\* share the time slice with, or a yield that was missed.
SwitchRequired(before, after) ==
  \/ \E t \in Task : /\ after.container[t] = "ready"
                     /\ before.container[t] # "ready"
                     /\ before.uxPriority[t] >=
                          before.uxPriority[before.pxCurrentTCB]
  \/ \E t, u \in Ready(after) :
       /\ t # u
       /\ \A v \in {t, u} : before.uxPriority[v] =
                              before.uxPriority[before.pxCurrentTCB]
  \/ before.xYieldPending

\* The tick interrupt: xTaskIncrementTick and the port's reaction to it.
TickInterrupt(k) ==
  IF k.uxSchedulerSuspended # 0 THEN [k EXCEPT !.xPendedTicks = @ + 1]
  ELSE IF SwitchRequired(k, CountTick(k)) THEN Yield(CountTick(k))
  ELSE CountTick(k)

--------------------
(* The scheduler lock.                                                     *)

vTaskSuspendAll(k) == [k EXCEPT !.uxSchedulerSuspended = @ + 1]

\* xTaskResumeAll, first part: the pending ready list is emptied.
DrainPending(k) ==
  LET pending == Waiting(k, "pending")
      moved == [k EXCEPT !.event = [t \in Task |-> IF t \in pending
                                      THEN "none" ELSE @[t]],
                         !.container = [t \in Task |-> IF t \in pending
                                          THEN "ready" ELSE @[t]],
                         !.xYieldPending = @ \/ \E t \in pending :
                            k.uxPriority[t] >= k.uxPriority[k.pxCurrentTCB]]
  IN  IF pending = {} THEN k ELSE prvResetNextTaskUnblockTime(moved)

ReleaseScheduler(k) ==
  LET k1 == [k EXCEPT !.uxSchedulerSuspended = @ - 1]
  IN  IF k1.uxSchedulerSuspended # 0 THEN k1 ELSE DrainPending(k1)

\* One turn of its loop over the ticks pended meanwhile.  The code counts the
\* loop in a local and clears xPendedTicks after it, interrupts masked.
ReplayTick(k) ==
  [CountTick(k) EXCEPT !.xPendedTicks = @ - 1,
                       !.xYieldPending = @ \/ SwitchRequired(k, CountTick(k))]

--------------------
(* The context switch, taken by the port's exception.                      *)

Runnable(k) == {t \in Ready(k) : \A u \in Ready(k) :
                                   k.uxPriority[u] <= k.uxPriority[t]}

\* Mutant: the switch is taken although the scheduler is suspended.
SwitchWhileSuspended(k, next) ==
  [k EXCEPT !.xYieldPending = FALSE, !.pendSV = FALSE, !.pxCurrentTCB = next]

vTaskSwitchContext(k, next) ==
  IF k.uxSchedulerSuspended # 0
    THEN [k EXCEPT !.xYieldPending = TRUE, !.pendSV = FALSE]
    ELSE [k EXCEPT !.xYieldPending = FALSE, !.pendSV = FALSE,
                   !.pxCurrentTCB = next]

--------------------
(* Time-outs: x is the caller's TimeOut_t and its remaining ticks.         *)

vTaskInternalSetTimeOutState(k, x) ==
  [x EXCEPT !.xOverflowCount = k.xNumOfOverflows,
            !.xTimeOnEntering = k.xTickCount]

Elapsed(k, x) == (k.xTickCount + TickMod - x.xTimeOnEntering) % TickMod

\* The result of xTaskCheckForTimeOut, and what it leaves in x.
TimedOut(k, x) ==
  /\ x.xTicksToWait # portMAX_DELAY
  /\ \/ /\ k.xNumOfOverflows # x.xOverflowCount
        /\ k.xTickCount >= x.xTimeOnEntering
     \/ Elapsed(k, x) >= x.xTicksToWait

\* Mutant: the time already waited is deducted again at the next check.
CheckWithoutRestart(k, x) ==
  IF TimedOut(k, x) \/ x.xTicksToWait = portMAX_DELAY THEN x
  ELSE [x EXCEPT !.xTicksToWait = @ - Elapsed(k, x)]

xTaskCheckForTimeOut(k, x) ==
  IF x.xTicksToWait = portMAX_DELAY THEN x
  ELSE IF k.xNumOfOverflows # x.xOverflowCount
          /\ k.xTickCount >= x.xTimeOnEntering THEN x
  ELSE IF Elapsed(k, x) < x.xTicksToWait
    THEN vTaskInternalSetTimeOutState(k,
           [x EXCEPT !.xTicksToWait = @ - Elapsed(k, x)])
  ELSE [x EXCEPT !.xTicksToWait = 0]
=============================================================================
