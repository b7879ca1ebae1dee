---------------------------- MODULE TaskControl ----------------------------
(***************************************************************************)
(* The operations of tasks.c on tasks themselves, over the record of       *)
(* Kernel: creation, deletion and the clean-up by the idle task, delays,   *)
(* vTaskSuspend and vTaskResume, notifications, the scheduler lock and     *)
(* xTaskCatchUpTicks, from tasks and from interrupts.                      *)
(*                                                                         *)
(* As in Queue, a task takes a step only while it runs and no switch is    *)
(* pended, and interrupts come between any two critical sections.          *)
(***************************************************************************)
EXTENDS Integers, Kernel

CONSTANTS TaskPriority,
          Creatable,    \* tasks created and deleted at run time
          Delays,       \* ticks to delay, or to wait for a notification, with
          Increments,   \* xTimeIncrement values of vTaskDelayUntil
          Controller,   \* tasks that suspend, resume, create and delete others
          Taker,        \* tasks that wait for notifications
          Notifier,     \* tasks that notify
          InterruptOp,  \* what interrupts do: "notify", "resume", "event"
          CatchUp,      \* ticks that xTaskCatchUpTicks is called with
          CarefulResume, \* TRUE: only a task that was suspended is resumed
          ValueBound,   \* bound on ulNotifiedValue
          PendedBound   \* bound on xPendedTicks

ASSUME TaskControlAssumption ==
  /\ TaskPriority \in [Task -> Priority]
  /\ Creatable \subseteq Task \ {Idle} /\ Taker \subseteq Task
  /\ Delays \subseteq Tick /\ Increments \subseteq Tick
  /\ CatchUp \subseteq Nat
  /\ ValueBound \in Nat \ {0}

VARIABLES k,        \* the kernel, see Kernel
          tcb,      \* the fields of each TCB that Kernel leaves out
          control,  \* per task, the call it is in
          uxCurrentNumberOfTasks,
          uxDeletedTasksWaitingCleanUp

vars == <<k, tcb, control, uxCurrentNumberOfTasks, uxDeletedTasksWaitingCleanUp>>

\* Two more places of an xStateListItem: xTasksWaitingTermination, and none.
Container == StateList \cup {"termination", "none"}

\* life is the TCB's storage; suspended tells that vTaskSuspend was the last
\* of vTaskSuspend and vTaskResume called for the task.
TCB == [life : {"free", "created", "deleted"},
        ucNotifyState : {"notWaiting", "waiting", "received"},
        ulNotifiedValue : 0..ValueBound, suspended : BOOLEAN]

NewTCB(life) == [life |-> life, ucNotifyState |-> "notWaiting",
                 ulNotifiedValue |-> 0, suspended |-> FALSE]

\* "resume" is xTaskResumeAll, "ticks" its loop, "taken" and "waited" the second
\* critical sections of the two ways to wait for a notification, "free" the
\* idle task with a TCB in its hands.  other is the task the call is about,
\* count the ticks a call has read, yield whether it ends with a yield.
Control == [at : {"user", "locked", "resume", "ticks", "taken", "waited",
                  "suspended", "deleted", "catchUp", "free"},
            other : Task, count : Nat, yield : BOOLEAN]

NoControl == [at |-> "user", other |-> Idle, count |-> 0, yield |-> FALSE]

TypeOK ==
  /\ k.container \in [Task -> Container]
  /\ k.event \in [Task -> EventList \cup {"none", "pending"}]
  /\ k.xItemValue \in [Task -> Tick]
  /\ tcb \in [Task -> TCB]
  /\ control \in [Task -> Control]
  /\ uxCurrentNumberOfTasks \in 0..Cardinality(Task)
  /\ uxDeletedTasksWaitingCleanUp \in 0..Cardinality(Task)

Created(t) == tcb[t].life = "created"

Init ==
  LET there == Task \ Creatable
      first == CHOOSE t \in there : \A u \in there :
                 TaskPriority[u] <= TaskPriority[t]
  IN  /\ k = [KernelStart(TaskPriority, first, 0) EXCEPT
                !.container = [t \in Task |-> IF t \in there THEN "ready"
                                              ELSE "none"]]
      /\ tcb = [t \in Task |-> NewTCB(IF t \in there THEN "created" ELSE "free")]
      /\ control = [t \in Task |-> NoControl]
      /\ uxCurrentNumberOfTasks = Cardinality(there)
      /\ uxDeletedTasksWaitingCleanUp = 0

--------------------

Masked == control[k.pxCurrentTCB].at = "ticks"
Running(t) == k.pxCurrentTCB = t /\ ~k.pendSV
At(t, where) == Running(t) /\ control[t].at = where
GoTo(t, where) == control' = [control EXCEPT ![t] = [NoControl EXCEPT !.at = where]]
Return(t) == GoTo(t, "user")
UnchangedCounts ==
  UNCHANGED <<uxCurrentNumberOfTasks, uxDeletedTasksWaitingCleanUp>>

AddToReady(kk, t) == [kk EXCEPT !.container[t] = "ready"]

YieldIf(condition, kk) == IF condition THEN Yield(kk) ELSE kk

--------------------
(* Creation and deletion.                                                  *)

\* prvInitialiseNewTask and prvAddNewTaskToReadyList.
xTaskCreate(t, u) ==
  /\ At(t, "user")
  /\ tcb[u].life = "free"
  /\ tcb' = [tcb EXCEPT ![u] = NewTCB("created")]
  /\ k' = YieldIf(Outranks(k, u), AddToReady(k, u))
  /\ uxCurrentNumberOfTasks' = uxCurrentNumberOfTasks + 1
  /\ UNCHANGED <<control, uxDeletedTasksWaitingCleanUp>>

\* The task leaves its state list and its event list.
OffItsLists(u, to) == [k EXCEPT !.container[u] = to, !.event[u] = "none"]

\* Of another task: its TCB is freed at once.
vTaskDeleteOther(t, u) ==
  /\ At(t, "user")
  /\ u # t /\ Created(u)
  /\ k' = prvResetNextTaskUnblockTime(OffItsLists(u, "none"))
  /\ tcb' = [tcb EXCEPT ![u] = NewTCB("free")]
  /\ control' = [control EXCEPT ![u] = NoControl]
  /\ uxCurrentNumberOfTasks' = uxCurrentNumberOfTasks - 1
  /\ UNCHANGED uxDeletedTasksWaitingCleanUp

\* Of itself: the idle task will free it.
vTaskDeleteSelf(t) ==
  /\ At(t, "user")
  /\ k' = OffItsLists(t, "termination")
  /\ tcb' = [tcb EXCEPT ![t].life = "deleted"]
  /\ uxDeletedTasksWaitingCleanUp' = uxDeletedTasksWaitingCleanUp + 1
  /\ GoTo(t, "deleted")
  /\ UNCHANGED uxCurrentNumberOfTasks

YieldDeleted(t) ==
  /\ At(t, "deleted")
  /\ k' = Yield(k)
  /\ UNCHANGED <<tcb, control>> /\ UnchangedCounts

\* prvCheckTasksWaitingTermination, one turn of its loop.
TakeTerminated ==
  /\ At(Idle, "user")
  /\ uxDeletedTasksWaitingCleanUp > 0
  /\ \E u \in Task :
       /\ k.container[u] = "termination"
       /\ k' = [k EXCEPT !.container[u] = "none"]
       /\ control' = [control EXCEPT ![Idle] = [NoControl EXCEPT
                        !.at = "free", !.other = u]]
  /\ uxCurrentNumberOfTasks' = uxCurrentNumberOfTasks - 1
  /\ uxDeletedTasksWaitingCleanUp' = uxDeletedTasksWaitingCleanUp - 1
  /\ UNCHANGED tcb

prvDeleteTCB ==
  /\ At(Idle, "free")
  /\ tcb' = [tcb EXCEPT ![control[Idle].other] = NewTCB("free")]
  /\ control' = [control EXCEPT ![Idle] = NoControl,
                                ![control[Idle].other] = NoControl]
  /\ UNCHANGED k /\ UnchangedCounts

--------------------
(* Delays and the scheduler lock.                                          *)

\* The caller blocks with the scheduler suspended; xTaskResumeAll follows.
Block(t, blocked) ==
  /\ At(t, "user")
  /\ k' = blocked
  /\ control' = [control EXCEPT ![t] = [NoControl EXCEPT !.at = "resume",
                                                         !.yield = TRUE]]
  /\ UNCHANGED tcb /\ UnchangedCounts

vTaskDelay(t, xTicksToDelay) ==
  IF xTicksToDelay > 0
    THEN Block(t, prvAddCurrentTaskToDelayedList(vTaskSuspendAll(k),
                                                 xTicksToDelay, FALSE))
    ELSE /\ At(t, "user")
         /\ k' = Yield(k)
         /\ UNCHANGED <<tcb, control>> /\ UnchangedCounts

\* Mutant: the tick count's own wrap since the last wake-up is not considered.
ShouldDelayWithoutWrap(previous, increment, now) ==
  LET wake == (previous + increment) % TickMod
  IN  wake < previous \/ wake > now

\* vTaskDelayUntil: whether the next wake time is still to come.
ShouldDelay(previous, increment, now) ==
  LET wake == (previous + increment) % TickMod
  IN  IF now < previous THEN wake < previous /\ wake > now
      ELSE wake < previous \/ wake > now

\* previous is any tick of the last round of the tick count.
vTaskDelayUntil(t, previous, increment) ==
  LET wake == (previous + increment) % TickMod
      ticks == (wake + TickMod - k.xTickCount) % TickMod
  IN  Block(t, IF ShouldDelay(previous, increment, k.xTickCount)
                 THEN prvAddCurrentTaskToDelayedList(vTaskSuspendAll(k), ticks,
                                                     FALSE)
                 ELSE vTaskSuspendAll(k))

\* A service that blocks its caller on an event list.
BlockOnEvent(t, l, ticks) ==
  Block(t, vTaskPlaceOnEventList(vTaskSuspendAll(k), l, ticks))

Lock(t) ==
  /\ At(t, "user")
  /\ k' = vTaskSuspendAll(k)
  /\ GoTo(t, "locked")
  /\ UNCHANGED tcb /\ UnchangedCounts

Unlock(t) ==
  /\ At(t, "locked")
  /\ GoTo(t, "resume")
  /\ UNCHANGED <<k, tcb>> /\ UnchangedCounts

\* xPendedTicks += n is a load and a store; the tick interrupt adds to the same
\* count, and is not masked.
xTaskCatchUpTicks(t, n) ==
  /\ At(t, "user")
  /\ k.xPendedTicks + n <= PendedBound
  /\ k' = vTaskSuspendAll(k)
  /\ control' = [control EXCEPT ![t] = [NoControl EXCEPT
                   !.at = "catchUp", !.count = k.xPendedTicks + n]]
  /\ UNCHANGED tcb /\ UnchangedCounts

CatchUpStore(t) ==
  /\ At(t, "catchUp")
  /\ k' = [k EXCEPT !.xPendedTicks = control[t].count]
  /\ GoTo(t, "resume")
  /\ UNCHANGED tcb /\ UnchangedCounts

xTaskResumeAll(t) ==
  /\ At(t, "resume")
  /\ k' = ReleaseScheduler(k)
  /\ control' = [control EXCEPT ![t].at = "ticks"]
  /\ UNCHANGED tcb /\ UnchangedCounts

ReplayPendedTick(t) ==
  /\ At(t, "ticks")
  /\ k.xPendedTicks > 0
  /\ k' = [ReplayTick(k) EXCEPT !.xNumOfOverflows = 0]
  /\ UNCHANGED <<tcb, control>> /\ UnchangedCounts

ResumeAllReturn(t) ==
  /\ At(t, "ticks")
  /\ k.xPendedTicks = 0
  /\ k' = YieldIf(k.xYieldPending \/ control[t].yield, k)
  /\ Return(t)
  /\ UNCHANGED tcb /\ UnchangedCounts

--------------------
(* vTaskSuspend and vTaskResume.                                           *)

\* A suspended task no longer waits for a notification.
SuspendedTCB(u) ==
  [tcb[u] EXCEPT !.suspended = TRUE,
                 !.ucNotifyState = IF @ = "waiting" THEN "notWaiting" ELSE @]

vTaskSuspend(t, u) ==
  /\ At(t, "user")
  /\ Created(u)
  /\ k' = OffItsLists(u, "suspended")
  /\ tcb' = [tcb EXCEPT ![u] = SuspendedTCB(u)]
  /\ control' = [control EXCEPT ![t] = [NoControl EXCEPT !.at = "suspended",
                                                         !.other = u]]
  /\ UnchangedCounts

\* Mutant: a task that suspended itself does not yield.
AfterSuspendGoesOn(t) ==
  /\ At(t, "suspended")
  /\ k' = prvResetNextTaskUnblockTime(k)
  /\ Return(t)
  /\ UNCHANGED tcb /\ UnchangedCounts

\* Its second critical section, and the yield of a task that suspended itself.
AfterSuspend(t) ==
  /\ At(t, "suspended")
  /\ k' = YieldIf(control[t].other = t, prvResetNextTaskUnblockTime(k))
  /\ Return(t)
  /\ UNCHANGED tcb /\ UnchangedCounts

prvTaskIsTaskSuspended(u) ==
  k.container[u] = "suspended" /\ k.event[u] = "none"

Resumable(u) == Created(u) /\ (CarefulResume => tcb[u].suspended)

vTaskResume(t, u) ==
  /\ At(t, "user")
  /\ u # t /\ Resumable(u)
  /\ prvTaskIsTaskSuspended(u)
  /\ k' = YieldIf(k.uxPriority[u] >= k.uxPriority[k.pxCurrentTCB],
                  AddToReady(k, u))
  /\ tcb' = [tcb EXCEPT ![u].suspended = FALSE]
  /\ UNCHANGED control /\ UnchangedCounts

--------------------
(* Notifications.                                                          *)

\* First critical section of ulTaskNotifyTake: nothing counted yet.
ulTaskNotifyTake(t, ticks) ==
  LET waits == tcb[t].ulNotifiedValue = 0
  IN  /\ At(t, "user")
      /\ tcb' = [tcb EXCEPT ![t].ucNotifyState = IF waits THEN "waiting" ELSE @]
      /\ k' = IF waits /\ ticks > 0
                THEN Yield(prvAddCurrentTaskToDelayedList(k, ticks, TRUE))
                ELSE k
      /\ GoTo(t, "taken")
      /\ UnchangedCounts

\* The second, when the task runs again.
TakeNotification(t, xClearCountOnExit) ==
  /\ At(t, "taken")
  /\ tcb' = [tcb EXCEPT ![t].ulNotifiedValue =
                          IF @ = 0 \/ xClearCountOnExit THEN 0 ELSE @ - 1,
                        ![t].ucNotifyState = "notWaiting"]
  /\ Return(t)
  /\ UNCHANGED k /\ UnchangedCounts

xTaskNotifyWait(t, ticks, clearOnEntry) ==
  LET waits == tcb[t].ucNotifyState # "received"
  IN  /\ At(t, "user")
      /\ tcb' = [tcb EXCEPT
           ![t].ulNotifiedValue = IF waits /\ clearOnEntry THEN 0 ELSE @,
           ![t].ucNotifyState = IF waits THEN "waiting" ELSE @]
      /\ k' = IF waits /\ ticks > 0
                THEN Yield(prvAddCurrentTaskToDelayedList(k, ticks, TRUE))
                ELSE k
      /\ GoTo(t, "waited")
      /\ UnchangedCounts

NotifyWaitReturns(t, clearOnExit) ==
  /\ At(t, "waited")
  /\ tcb' = [tcb EXCEPT
       ![t].ulNotifiedValue =
          IF tcb[t].ucNotifyState = "received" /\ clearOnExit THEN 0 ELSE @,
       ![t].ucNotifyState = "notWaiting"]
  /\ Return(t)
  /\ UNCHANGED k /\ UnchangedCounts

\* What eAction makes of the value; eSetBits is one of the values written.
eAction == {"eNoAction", "eIncrement", "eSetValueWithOverwrite",
            "eSetValueWithoutOverwrite"}

Notified(u, action) ==
  [tcb[u] EXCEPT !.ucNotifyState = "received",
     !.ulNotifiedValue =
        CASE action = "eIncrement" -> @ + 1
          [] action = "eSetValueWithOverwrite" -> 1
          [] action = "eSetValueWithoutOverwrite" ->
               (IF tcb[u].ucNotifyState # "received" THEN 1 ELSE @)
          [] action = "eNoAction" -> @]

\* Mutant: a task that waits without a time-out is not woken.
WakesDelayed(u) == tcb[u].ucNotifyState = "waiting" /\ k.container[u] # "suspended"

\* Whether a notification readies the task.
Wakes(u) == tcb[u].ucNotifyState = "waiting"

MayNotify(u, action) ==
  /\ Created(u)
  /\ action = "eIncrement" => tcb[u].ulNotifiedValue < ValueBound

xTaskGenericNotify(t, u, action) ==
  /\ At(t, "user")
  /\ MayNotify(u, action)
  /\ tcb' = [tcb EXCEPT ![u] = Notified(u, action)]
  /\ k' = IF Wakes(u) THEN YieldIf(Outranks(k, u), AddToReady(k, u)) ELSE k
  /\ UNCHANGED control /\ UnchangedCounts

xTaskNotifyStateClear(t, u) ==
  /\ At(t, "user")
  /\ Created(u)
  /\ tcb[u].ucNotifyState = "received"
  /\ tcb' = [tcb EXCEPT ![u].ucNotifyState = "notWaiting"]
  /\ UNCHANGED <<k, control>> /\ UnchangedCounts

ulTaskNotifyValueClear(t, u) ==
  /\ At(t, "user")
  /\ Created(u)
  /\ tcb' = [tcb EXCEPT ![u].ulNotifiedValue = 0]
  /\ UNCHANGED <<k, control>> /\ UnchangedCounts

--------------------
(* Interrupts.                                                             *)

\* A task is readied by an interrupt: with the scheduler suspended it goes to
\* the pending ready list, by its event item.
ReadyFromISR(u) ==
  IF k.uxSchedulerSuspended = 0 THEN AddToReady(k, u)
  ELSE [k EXCEPT !.event[u] = "pending"]

\* pxHigherPriorityTaskWoken may be NULL or ignored: xYieldPending remembers.
NotifyFromISR(u, action) ==
  LET woken == IF Outranks(k, u)
                 THEN [ReadyFromISR(u) EXCEPT !.xYieldPending = TRUE]
                 ELSE ReadyFromISR(u)
  IN  /\ ~Masked
      /\ "notify" \in InterruptOp
      /\ MayNotify(u, action)
      /\ tcb' = [tcb EXCEPT ![u] = Notified(u, action)]
      /\ IF Wakes(u) THEN \/ k' = YieldIf(Outranks(k, u), woken)
                       \/ k' = woken
         ELSE k' = k
      /\ UNCHANGED control /\ UnchangedCounts

xTaskGenericNotifyFromISR(u, action) == NotifyFromISR(u, action)

\* Counts as xTaskNotifyGive does, by code of its own.
vTaskNotifyGiveFromISR(u) == NotifyFromISR(u, "eIncrement")

\* It leaves the switch to its caller, which has to ask for it.
xTaskResumeFromISR(u) ==
  /\ ~Masked
  /\ "resume" \in InterruptOp
  /\ u # k.pxCurrentTCB /\ Resumable(u)
  /\ prvTaskIsTaskSuspended(u)
  /\ k' = YieldIf(/\ k.uxSchedulerSuspended = 0
                  /\ k.uxPriority[u] >= k.uxPriority[k.pxCurrentTCB],
                  ReadyFromISR(u))
  /\ tcb' = [tcb EXCEPT ![u].suspended = FALSE]
  /\ UNCHANGED control /\ UnchangedCounts

EventFromISR(l) ==
  /\ ~Masked
  /\ "event" \in InterruptOp
  /\ \E head \in HeadOf(k, l) : k' = WakeAndYield(k, head)
  /\ UNCHANGED <<tcb, control>> /\ UnchangedCounts

xTaskIncrementTick ==
  /\ ~Masked
  /\ k.xPendedTicks < PendedBound
  /\ k' = [TickInterrupt(k) EXCEPT !.xNumOfOverflows = 0]
  /\ UNCHANGED <<tcb, control>> /\ UnchangedCounts

SwitchContext ==
  /\ ~Masked
  /\ k.pendSV
  /\ \E next \in Runnable(k) : k' = vTaskSwitchContext(k, next)
  /\ UNCHANGED <<tcb, control>> /\ UnchangedCounts

--------------------

TaskStep(t) ==
  \/ YieldDeleted(t) \/ AfterSuspend(t)
  \/ Unlock(t) \/ CatchUpStore(t)
  \/ xTaskResumeAll(t) \/ ReplayPendedTick(t) \/ ResumeAllReturn(t)
  \/ \E clear \in BOOLEAN : TakeNotification(t, clear) \/ NotifyWaitReturns(t, clear)

Delaying(t) ==
  /\ t # Idle
  /\ \/ \E ticks \in Delays : vTaskDelay(t, ticks)
     \/ \E previous \in Tick, increment \in Increments :
          vTaskDelayUntil(t, previous, increment)
     \/ \E ticks \in Delays, l \in EventList : BlockOnEvent(t, l, ticks)
     \/ Lock(t)
     \/ \E n \in CatchUp : xTaskCatchUpTicks(t, n)

Controlling(t, u) ==
  /\ t \in Controller /\ u # Idle
  /\ \/ u \in Creatable /\ (xTaskCreate(t, u) \/ vTaskDeleteOther(t, u))
     \/ vTaskSuspend(t, u) \/ vTaskResume(t, u)

Taking(t) ==
  /\ t \in Taker
  /\ \E ticks \in Delays : \/ ulTaskNotifyTake(t, ticks)
                           \/ \E clear \in BOOLEAN : xTaskNotifyWait(t, ticks, clear)

Notifying(t, u) ==
  /\ t \in Notifier /\ u \in Taker
  /\ \/ \E action \in eAction : xTaskGenericNotify(t, u, action)
     \/ xTaskNotifyStateClear(t, u) \/ ulTaskNotifyValueClear(t, u)

Next ==
  \/ \E t \in Task : TaskStep(t) \/ Delaying(t) \/ Taking(t)
  \/ \E t, u \in Task : Controlling(t, u) \/ Notifying(t, u)
  \/ \E t \in Creatable : vTaskDeleteSelf(t)
  \/ TakeTerminated \/ prvDeleteTCB
  \/ \E u \in Taker, action \in eAction : xTaskGenericNotifyFromISR(u, action)
  \/ \E u \in Taker : vTaskNotifyGiveFromISR(u)
  \/ \E u \in Task \ {Idle} : xTaskResumeFromISR(u)
  \/ \E l \in EventList : EventFromISR(l)
  \/ xTaskIncrementTick
  \/ SwitchContext

Spec == Init /\ [][Next]_vars

--------------------

\* Priority scheduling survives creation, deletion, suspension and
\* notification: with no switch asked for, the running task is ready and
\* outranked by no ready task, unless it is about to yield for good.
HighestPriorityRuns ==
  k.uxSchedulerSuspended = 0 /\ ~k.pendSV /\ ~k.xYieldPending /\ ~Masked
    => LET me == k.pxCurrentTCB
       IN  \/ me \in Runnable(k)
           \/ control[me].at = "deleted"
           \/ control[me].at = "suspended" /\ control[me].other = me

\* A suspended task stays so until it is resumed: no time-out, notification or
\* event that it waited for readies it (tasks.c:1735, 1748).
SuspendedStays ==
  \A t \in Task : tcb[t].suspended =>
    k.container[t] \in {"suspended", "termination"} /\ k.event[t] = "none"

\* No notification is lost: a task that is blocked until it is notified, and
\* not suspended by others, has not been notified (tasks.c:4651, 4725, 4863).
NoNotifiedTaskBlocked ==
  \A t \in Task :
    /\ control[t].at \in {"taken", "waited"}
    /\ k.container[t] \in {"suspended", "delayed", "overflow"}
    /\ k.event[t] # "pending"
    /\ ~tcb[t].suspended
    => tcb[t].ucNotifyState = "waiting"

\* The books of the deleted: every self-deleted task is counted until the idle
\* task takes it, no list and no processor holds a freed TCB, and no TCB is
\* freed twice (tasks.c:1213, 1228, 3669).
DeletionAccounted ==
  LET terminated == {t \in Task : k.container[t] = "termination"}
  IN  /\ uxDeletedTasksWaitingCleanUp = Cardinality(terminated)
      /\ uxCurrentNumberOfTasks =
           Cardinality({t \in Task : Created(t)} \cup terminated)
      /\ \A t \in Task :
           /\ tcb[t].life = "free" => /\ k.container[t] = "none"
                                      /\ k.event[t] = "none"
                                      /\ k.pxCurrentTCB # t
           /\ tcb[t].life = "deleted" => \/ k.container[t] = "termination"
                                         \/ control[Idle].other = t

\* Suspension, notification and deletion keep every task where it belongs.
TasksAccounted == SuspendedStays /\ NoNotifiedTaskBlocked /\ DeletionAccounted

\* vTaskDelayUntil delays exactly if less than the increment has passed since
\* the previous wake-up, wherever the tick count wraps (tasks.c:1278-1301).
DelayUntilByElapsed ==
  \A previous \in Tick, increment \in Increments :
    ShouldDelay(previous, increment, k.xTickCount) <=>
      (k.xTickCount + TickMod - previous) % TickMod < increment

\* configASSERT at tasks.c:4869, 4998 and 5086: a task whose notification is
\* waited for is on no event list, so it can be put on the pending ready list.
NotifiedIsOnNoEventList ==
  \A t \in Task : tcb[t].ucNotifyState = "waiting" => k.event[t] = "none"

\* xTaskCatchUpTicks adds the ticks it is asked to add, to all those that
\* passed (task.h on xTaskCatchUpTicks).
CatchUpAddsTicks ==
  [][\A t \in Task, n \in CatchUp :
       control[t].at = "catchUp" /\ control'[t].at = "resume"
       => k'.xPendedTicks > k.xPendedTicks]_vars
=============================================================================
