------------------------------- MODULE Queue -------------------------------
(***************************************************************************)
(* The blocking protocol of queue.c on one queue: xQueueGenericSend,       *)
(* xQueueReceive, xQueuePeek and xQueueSemaphoreTake (counting) called by  *)
(* tasks, the FromISR variants called by interrupts, ticks and context     *)
(* switches between any two critical sections.  The items are counted;     *)
(* QueueStorage says where they are stored, Mutex what queue.c adds for    *)
(* mutexes.                                                                *)
(*                                                                         *)
(* One CPU: a task takes a step only while it is pxCurrentTCB and no       *)
(* switch is pended.  Each step is one critical section of the source, or  *)
(* one piece of code that runs with the scheduler suspended.               *)
(***************************************************************************)
EXTENDS Integers, Kernel

CONSTANTS TaskPriority,  \* the priority each task is created with
          uxLength,      \* capacity of the queue
          Wait,          \* xTicksToWait values the tasks call with
          Sender, Receiver, Peeker, Resetter, \* which task may call what
          InterruptOp,   \* which operations interrupts use
          Prompt,        \* TRUE: no tick while the most urgent task executes a
                         \* call or a switch is pended: both are shorter than
                         \* a tick period
          InitialTick,   \* configINITIAL_TICK_COUNT
          TickBound,     \* bound: the tick stops TickBound ticks after time 0
          PendedBound,   \* bound on xPendedTicks
          LockBound      \* bound on cTxLock and cRxLock (an int8_t)

VARIABLES k,                 \* the kernel, see Kernel
          uxMessagesWaiting, \* items (or semaphore count) in the queue
          cTxLock, cRxLock,  \* interrupt operations while the queue is locked
          call               \* per task, the service call it is in

vars == <<k, uxMessagesWaiting, cTxLock, cRxLock, call>>

ASSUME QueueAssumption ==
  /\ EventList = {"xTasksWaitingToSend", "xTasksWaitingToReceive"}
  /\ TaskPriority \in [Task -> Priority]
  /\ TaskPriority[Idle] = 0
  /\ uxLength \in Nat \ {0}
  /\ Wait \subseteq Tick
  /\ InterruptOp \subseteq {"send", "receive"}
  /\ Prompt \in BOOLEAN
  /\ InitialTick \in Tick
  /\ TickBound \in Nat
  /\ PendedBound \in Nat
  /\ LockBound \in Nat
  /\ Sender \cup Receiver \cup Peeker \cup Resetter \subseteq Task \ {Idle}

queueUNLOCKED == -1
queueLOCKED_UNMODIFIED == 0

Op == {"send", "receive", "peek"}

\* Where a call stands.  "next" is what follows the unlocking of the queue.
Where == {"idle", "try", "suspend", "lock", "check", "place", "unlockTx",
          "unlockRx", "resume", "ticks", "recheck"}
Call == [at : Where, op : Op, next : {"yield", "loop", "timeout"},
         xEntryTimeSet : BOOLEAN, xTicksToWait : Tick,
         xTimeOnEntering : Tick, xOverflowCount : Tick]

NoCall == [at |-> "idle", op |-> "send", next |-> "loop",
           xEntryTimeSet |-> FALSE, xTicksToWait |-> 0,
           xTimeOnEntering |-> 0, xOverflowCount |-> 0]

TypeOK ==
  /\ k \in KernelState
  /\ uxMessagesWaiting \in 0..uxLength
  /\ cTxLock \in queueUNLOCKED..LockBound
  /\ cRxLock \in queueUNLOCKED..LockBound
  /\ call \in [Task -> Call]

Init ==
  /\ \E first \in Task :
       /\ \A t \in Task : TaskPriority[t] <= TaskPriority[first]
       /\ k = KernelStart(TaskPriority, first, InitialTick)
  /\ uxMessagesWaiting = 0
  /\ cTxLock = queueUNLOCKED
  /\ cRxLock = queueUNLOCKED
  /\ call = [t \in Task |-> NoCall]

--------------------
(* Who can take a step.                                                    *)

\* Interrupts are masked while xTaskResumeAll replays the pended ticks.
Masked == call[k.pxCurrentTCB].at = "ticks"

Running(t) == k.pxCurrentTCB = t /\ ~k.pendSV

At(t, where) == Running(t) /\ call[t].at = where

GoTo(t, where) == call' = [call EXCEPT ![t].at = where]
Return(t) == call' = [call EXCEPT ![t] = NoCall]

\* The list an operation blocks on, and the one whose head it wakes when it
\* succeeds: a peek leaves the item, so another receiver can have it.
WaitList(op) == IF op = "send" THEN "xTasksWaitingToSend"
                ELSE "xTasksWaitingToReceive"
WakeList(op) == IF op = "receive" THEN "xTasksWaitingToSend"
                ELSE "xTasksWaitingToReceive"

prvIsQueueEmpty == uxMessagesWaiting = 0
prvIsQueueFull == uxMessagesWaiting = uxLength
Blocked(op) == IF op = "send" THEN prvIsQueueFull ELSE prvIsQueueEmpty

\* Mutant: a peek removes the item.
EffectOfRemovingPeek(op) == IF op = "send" THEN 1 ELSE -1

Effect(op) == CASE op = "send" -> 1 [] op = "receive" -> -1 [] op = "peek" -> 0

--------------------
(* The calls of tasks.                                                     *)

Invoke(t, op, ticks) ==
  /\ At(t, "idle")
  /\ call' = [call EXCEPT ![t] = [NoCall EXCEPT !.at = "try", !.op = op,
                                                !.xTicksToWait = ticks]]
  /\ UNCHANGED <<k, uxMessagesWaiting, cTxLock, cRxLock>>

\* First critical section of the loop: the queue allows it.
Succeed(t) ==
  /\ At(t, "try")
  /\ ~Blocked(call[t].op)
  /\ uxMessagesWaiting' = uxMessagesWaiting + Effect(call[t].op)
  /\ LET l == WakeList(call[t].op)
     IN  \/ Waiting(k, l) = {} /\ k' = k
         \/ \E head \in HeadOf(k, l) : k' = WakeAndYield(k, head)
  /\ Return(t)
  /\ UNCHANGED <<cTxLock, cRxLock>>

\* The queue does not allow it and the caller does not want to wait.
FailAtOnce(t) ==
  /\ At(t, "try")
  /\ Blocked(call[t].op)
  /\ call[t].xTicksToWait = 0
  /\ Return(t)
  /\ UNCHANGED <<k, uxMessagesWaiting, cTxLock, cRxLock>>

\* It does not allow it and the caller waits: the entry time is taken once.
PrepareToBlock(t) ==
  /\ At(t, "try")
  /\ Blocked(call[t].op)
  /\ call[t].xTicksToWait # 0
  /\ LET c == call[t]
         stamped == IF c.xEntryTimeSet THEN c
                    ELSE vTaskInternalSetTimeOutState(k, c)
     IN  call' = [call EXCEPT ![t] = [stamped EXCEPT !.at = "suspend",
                                                     !.xEntryTimeSet = TRUE]]
  /\ UNCHANGED <<k, uxMessagesWaiting, cTxLock, cRxLock>>

SuspendAll(t) ==
  /\ At(t, "suspend")
  /\ k' = vTaskSuspendAll(k)
  /\ GoTo(t, "lock")
  /\ UNCHANGED <<uxMessagesWaiting, cTxLock, cRxLock>>

prvLockQueue(t) ==
  /\ At(t, "lock")
  /\ cRxLock' = IF cRxLock = queueUNLOCKED THEN queueLOCKED_UNMODIFIED
                                           ELSE cRxLock
  /\ cTxLock' = IF cTxLock = queueUNLOCKED THEN queueLOCKED_UNMODIFIED
                                           ELSE cTxLock
  /\ GoTo(t, "check")
  /\ UNCHANGED <<k, uxMessagesWaiting>>

\* xTaskCheckForTimeOut, then prvIsQueueFull or prvIsQueueEmpty.  The tick
\* count cannot move between the two: the scheduler is suspended.
CheckTimeOut(t) ==
  /\ At(t, "check")
  /\ LET c == xTaskCheckForTimeOut(k, call[t])
     IN  call' = [call EXCEPT ![t] =
           IF TimedOut(k, call[t])
             THEN [c EXCEPT !.at = "unlockTx", !.next = "timeout"]
           ELSE IF Blocked(c.op)
             THEN [c EXCEPT !.at = "place", !.next = "yield"]
           ELSE [c EXCEPT !.at = "unlockTx", !.next = "loop"]]
  /\ UNCHANGED <<k, uxMessagesWaiting, cTxLock, cRxLock>>

\* Not a critical section: interrupts keep off the event lists because the
\* queue is locked, and off the ready lists because the scheduler is.
PlaceOnEventList(t) ==
  /\ At(t, "place")
  /\ k' = vTaskPlaceOnEventList(k, WaitList(call[t].op), call[t].xTicksToWait)
  /\ GoTo(t, "unlockTx")
  /\ UNCHANGED <<uxMessagesWaiting, cTxLock, cRxLock>>

\* prvUnlockQueue: one waiter is woken for every interrupt operation made
\* while the queue was locked, highest priorities first, until none is left.
Least(a, b) == IF a < b THEN a ELSE b

WakeFor(l, n) ==
  \E W \in SUBSET Waiting(k, l) :
    /\ Cardinality(W) = Least(n, Cardinality(Waiting(k, l)))
    /\ \A w \in W, v \in Waiting(k, l) \ W : k.uxPriority[v] <= k.uxPriority[w]
    /\ k' = [k EXCEPT !.event = [t \in Task |-> IF t \in W THEN "pending"
                                                           ELSE @[t]],
                      !.xYieldPending = @ \/ \E t \in W : Outranks(k, t)]

\* Mutant: prvUnlockQueue forgets the items interrupts sent meanwhile.
UnlockTxForgetful(t) ==
  /\ At(t, "unlockTx")
  /\ cTxLock' = queueUNLOCKED
  /\ GoTo(t, "unlockRx")
  /\ UNCHANGED <<k, uxMessagesWaiting, cRxLock>>

UnlockTx(t) ==
  /\ At(t, "unlockTx")
  /\ IF cTxLock > queueLOCKED_UNMODIFIED
       THEN WakeFor("xTasksWaitingToReceive", cTxLock)
       ELSE k' = k
  /\ cTxLock' = queueUNLOCKED
  /\ GoTo(t, "unlockRx")
  /\ UNCHANGED <<uxMessagesWaiting, cRxLock>>

UnlockRx(t) ==
  /\ At(t, "unlockRx")
  /\ IF cRxLock > queueLOCKED_UNMODIFIED
       THEN WakeFor("xTasksWaitingToSend", cRxLock)
       ELSE k' = k
  /\ cRxLock' = queueUNLOCKED
  /\ GoTo(t, "resume")
  /\ UNCHANGED <<uxMessagesWaiting, cTxLock>>

\* xTaskResumeAll masks interrupts and empties the pending ready list, ...
ResumeAll(t) ==
  /\ At(t, "resume")
  /\ k' = ReleaseScheduler(k)
  /\ GoTo(t, "ticks")
  /\ UNCHANGED <<uxMessagesWaiting, cTxLock, cRxLock>>

\* ... replays the pended ticks one by one, ...
ReplayPendedTick(t) ==
  /\ At(t, "ticks")
  /\ k.xPendedTicks > 0
  /\ k' = ReplayTick(k)
  /\ UNCHANGED <<uxMessagesWaiting, cTxLock, cRxLock, call>>

\* ... and yields if one was missed.  A caller that blocked yields anyway.
ResumeAllReturn(t) ==
  /\ At(t, "ticks")
  /\ k.xPendedTicks = 0
  /\ k' = IF k.xYieldPending \/ call[t].next = "yield" THEN Yield(k) ELSE k
  /\ IF call[t].next # "timeout" THEN GoTo(t, "try")
     ELSE IF call[t].op = "send" THEN Return(t)      \* errQUEUE_FULL
     ELSE GoTo(t, "recheck")
  /\ UNCHANGED <<uxMessagesWaiting, cTxLock, cRxLock>>

\* A receiver that timed out looks at the queue once more.
RecheckAfterTimeOut(t) ==
  /\ At(t, "recheck")
  /\ IF prvIsQueueEmpty THEN Return(t) ELSE GoTo(t, "try")
  /\ UNCHANGED <<k, uxMessagesWaiting, cTxLock, cRxLock>>

\* Mutant: a reset wakes nobody.
ResetQuietly(t) ==
  /\ At(t, "idle")
  /\ uxMessagesWaiting' = 0
  /\ cTxLock' = queueUNLOCKED
  /\ cRxLock' = queueUNLOCKED
  /\ UNCHANGED <<k, call>>

\* xQueueReset empties the queue and wakes one of the blocked senders.
xQueueGenericReset(t) ==
  /\ At(t, "idle")
  /\ uxMessagesWaiting' = 0
  /\ cTxLock' = queueUNLOCKED
  /\ cRxLock' = queueUNLOCKED
  /\ \/ Waiting(k, "xTasksWaitingToSend") = {} /\ k' = k
     \/ \E head \in HeadOf(k, "xTasksWaitingToSend") : k' = WakeAndYield(k, head)
  /\ UNCHANGED call

--------------------
(* Interrupts, between any two critical sections.  pxHigherPriorityTask-   *)
(* Woken may be NULL: then the interrupt does not ask for the switch.      *)

FromISR(l) ==
  \/ Waiting(k, l) = {} /\ k' = k
  \/ \E head \in HeadOf(k, l) :
       \/ k' = WakeAndYield(k, head)
       \/ k' = xTaskRemoveFromEventList(k, head)

xQueueSendFromISR ==
  /\ ~Masked
  /\ "send" \in InterruptOp
  /\ ~prvIsQueueFull
  /\ uxMessagesWaiting' = uxMessagesWaiting + 1
  /\ IF cTxLock = queueUNLOCKED
       THEN FromISR("xTasksWaitingToReceive") /\ cTxLock' = cTxLock
       ELSE /\ cTxLock < LockBound
            /\ cTxLock' = cTxLock + 1
            /\ k' = k
  /\ UNCHANGED <<cRxLock, call>>

xQueueReceiveFromISR ==
  /\ ~Masked
  /\ "receive" \in InterruptOp
  /\ ~prvIsQueueEmpty
  /\ uxMessagesWaiting' = uxMessagesWaiting - 1
  /\ IF cRxLock = queueUNLOCKED
       THEN FromISR("xTasksWaitingToSend") /\ cRxLock' = cRxLock
       ELSE /\ cRxLock < LockBound
            /\ cRxLock' = cRxLock + 1
            /\ k' = k
  /\ UNCHANGED <<cTxLock, call>>

\* Ticks counted since time 0, as far as xNumOfOverflows has not wrapped.
Now == (k.xNumOfOverflows * TickMod) + k.xTickCount

Urgent(t) == \A u \in Task \ {t} : TaskPriority[u] < TaskPriority[t]

xTaskIncrementTick ==
  /\ ~Masked
  /\ Prompt => /\ ~k.pendSV
               /\ LET me == k.pxCurrentTCB
                  IN  Urgent(me) /\ me \in Ready(k) => At(me, "idle")
  /\ Now + k.xPendedTicks < TickBound
  /\ k.xPendedTicks < PendedBound
  /\ k' = TickInterrupt(k)
  /\ UNCHANGED <<uxMessagesWaiting, cTxLock, cRxLock, call>>

SwitchContext ==
  /\ ~Masked
  /\ k.pendSV
  /\ \E next \in Runnable(k) : k' = vTaskSwitchContext(k, next)
  /\ UNCHANGED <<uxMessagesWaiting, cTxLock, cRxLock, call>>

--------------------

Invocation(t) ==
  \E ticks \in Wait : \/ t \in Sender /\ Invoke(t, "send", ticks)
                      \/ t \in Receiver /\ Invoke(t, "receive", ticks)
                      \/ t \in Peeker /\ Invoke(t, "peek", ticks)

Reset(t) == t \in Resetter /\ xQueueGenericReset(t)

\* What a task does inside a call: it never stops in the middle of one.
Step(t) ==
  \/ Succeed(t) \/ FailAtOnce(t) \/ PrepareToBlock(t)
  \/ SuspendAll(t) \/ prvLockQueue(t) \/ CheckTimeOut(t)
  \/ PlaceOnEventList(t) \/ UnlockTx(t) \/ UnlockRx(t)
  \/ ResumeAll(t) \/ ReplayPendedTick(t) \/ ResumeAllReturn(t)
  \/ RecheckAfterTimeOut(t)

Interrupt == xQueueSendFromISR \/ xQueueReceiveFromISR \/ xTaskIncrementTick

Next ==
  \/ \E t \in Task : Invocation(t) \/ Reset(t) \/ Step(t)
  \/ Interrupt
  \/ SwitchContext

Spec == Init /\ [][Next]_vars

\* The processor goes on executing the running task and takes a pended switch,
\* and the tick interrupt keeps coming.  Tasks need not call anything.
Fairness ==
  /\ \A t \in Task : WF_vars(Step(t))
  /\ WF_vars(SwitchContext)
  /\ WF_vars(xTaskIncrementTick)

FairSpec == Spec /\ Fairness

--------------------
(* Properties.                                                             *)

\* Priority scheduling: whenever the scheduler is running and no switch is
\* asked for, by the port or by xYieldPending, the running task is ready and
\* no ready task has a higher priority.  Every wake-up in queue.c and tasks.c
\* has to ask for the switch it makes necessary.
HighestPriorityRuns ==
  k.uxSchedulerSuspended = 0 /\ ~k.pendSV /\ ~k.xYieldPending /\ ~Masked
    => k.pxCurrentTCB \in Runnable(k)

\* A task that is going to look at the queue again before its call returns.
WillRetry(t, op) ==
  /\ call[t].op = op
  /\ k.event[t] \notin EventList
  /\ call[t].at # "idle"
  /\ op = "send" => ~(call[t].next = "timeout"
                        /\ call[t].at \in {"unlockTx", "unlockRx", "resume", "ticks"})

\* No lost wake-up: while the queue is not locked, no task is left blocked on
\* an operation the queue allows unless some task that is already awake has
\* yet to use what the queue offers.
NoReceiverLeftBehind ==
  cTxLock = queueUNLOCKED /\ ~prvIsQueueEmpty
     /\ Waiting(k, "xTasksWaitingToReceive") # {}
    => \E t \in Task : WillRetry(t, "receive") \/ WillRetry(t, "peek")

NoSenderLeftBehind ==
  cRxLock = queueUNLOCKED /\ ~prvIsQueueFull
     /\ Waiting(k, "xTasksWaitingToSend") # {}
    => \E t \in Task : WillRetry(t, "send")

\* Nobody sleeps on what the queue offers unless someone awake is about to use
\* it (queue.c:907, 1099, 2187-2283).
NobodyLeftBehind == NoReceiverLeftBehind /\ NoSenderLeftBehind

\* Queue implements BoundedQueue: no critical section, time-out or interrupt
\* in between makes a call take effect twice, fail after it took effect, or
\* fail although the queue allowed it at that instant.
Contract == INSTANCE BoundedQueue WITH
  Client <- Task,
  Capacity <- uxLength,
  count <- uxMessagesWaiting,
  status <- [t \in Task |-> IF call[t].at = "idle"
               THEN [op |-> "none", waits |-> FALSE]
               ELSE [op |-> call[t].op, waits |-> call[t].xEntryTimeSet
                                                 \/ call[t].xTicksToWait # 0]]

ImplementsContract == Contract!Spec

\* Time-outs.  A call with a finite wait ends at its Deadline: waking up and
\* blocking again moves the deadline neither way, the time-out is reported
\* exactly when the deadline has come, across an overflow of the tick count
\* too, and the task never sleeps past it.
Deadline(c) ==
  (c.xOverflowCount * TickMod) + c.xTimeOnEntering + c.xTicksToWait

Timed(c) == c.xEntryTimeSet /\ c.xTicksToWait # portMAX_DELAY

TimeOutExact ==
  [][\A t \in Task :
       call[t].at = "check" /\ call'[t] # call[t] =>
         /\ call'[t].next = "timeout" <=>
              Timed(call[t]) /\ Now >= Deadline(call[t])
         /\ Timed(call[t]) /\ call'[t].next # "timeout" =>
              Deadline(call'[t]) = Deadline(call[t])]_vars

NoOversleep ==
  k.uxSchedulerSuspended = 0 /\ ~Masked =>
    \A t \in Task : k.container[t] \in {"delayed", "overflow"} =>
      Timed(call[t]) /\ Now < Deadline(call[t])

\* The most urgent task is never kept in a call: if it gave a finite wait, the
\* call returns, whatever the other tasks and the interrupts do to the queue.
TimedCallReturns ==
  \A t \in Task : Urgent(t) =>
    (call[t].at # "idle" /\ Timed(call[t]) ~> call[t].at = "idle")

--------------------
(* The inductive invariant behind the theorems of QueueProofs.             *)

\* Every ready task that outranks the running one has asked for a switch.
SwitchAskedFor(q) ==
  \A t \in Ready(q) : \/ q.uxPriority[t] <= q.uxPriority[q.pxCurrentTCB]
                      \/ q.pendSV
                      \/ q.xYieldPending

\* The scheduler is suspended exactly while the running task is between
\* vTaskSuspendAll and xTaskResumeAll, and no other task is.
Suspended == {"lock", "check", "place", "unlockTx", "unlockRx", "resume"}

OwnSuspension ==
  /\ k.uxSchedulerSuspended =
       IF call[k.pxCurrentTCB].at \in Suspended THEN 1 ELSE 0
  /\ \A t \in Task \ {k.pxCurrentTCB} : call[t].at \notin Suspended \cup {"ticks"}

\* Where a call has left the queue and is on its way to the switch.
Leaving == {"unlockTx", "unlockRx", "resume", "ticks"}

\* The running task is ready, or it has blocked and is on its way to the switch.
ReadyOrLeaving ==
  LET c == call[k.pxCurrentTCB]
  IN  \/ k.container[k.pxCurrentTCB] = "ready"
      \/ c.next = "yield" /\ c.at \in Leaving
      \/ k.uxSchedulerSuspended = 0 /\ k.pendSV /\ c.at = "try"

CallProgress ==
  \A t \in Task : /\ call[t].at = "place" => call[t].next = "yield"
                  /\ call[t].at \notin {"idle", "try"} => call[t].xEntryTimeSet
                  /\ call[t].at = "recheck" => call[t].op # "send"

\* Only the task that suspended the scheduler runs while it is suspended, a
\* task that blocks itself reaches the switch, and a call never comes to a
\* step its history does not lead to.  HighestPriorityRuns and
\* ImplementsContract follow from this, and every step preserves it.
Inductive ==
  /\ TypeOK
  /\ SwitchAskedFor(k)
  /\ OwnSuspension
  /\ ReadyOrLeaving
  /\ CallProgress

Retrying(c) == c.at = "try" \/ (c.at \in Leaving /\ c.next # "timeout")

\* The tasks that are awake and will look at the queue for what list l is for.
Claimants(q, c, l) ==
  {t \in Task : /\ WaitList(c[t].op) = l
                /\ q.event[t] \notin EventList
                /\ Retrying(c[t])}

\* If somebody sleeps on l, n of what l is for have each a claimant.
Claimed(q, c, l, n) ==
  Waiting(q, l) # {} => n <= Cardinality(Claimants(q, c, l))

\* What prvUnlockQueue will wake somebody for.
Owed(lock) == IF lock > queueLOCKED_UNMODIFIED THEN lock ELSE 0

\* Who is on an event list blocked there and has yet to come back.
SleepersBlocked(q, c) ==
  \A t \in Task : q.event[t] \in EventList =>
    /\ WaitList(c[t].op) = q.event[t]
    /\ c[t].next = "yield"
    /\ c[t].at \in Leaving \cup {"try"}
    /\ q.container[t] # "ready"

\* The queue is locked exactly while the running task is between prvLockQueue
\* and prvUnlockQueue.
LockedByCaller ==
  LET at == call[k.pxCurrentTCB].at
  IN  /\ cTxLock # queueUNLOCKED <=> at \in {"check", "place", "unlockTx"}
      /\ cRxLock # queueUNLOCKED <=> at \in {"check", "place", "unlockTx", "unlockRx"}

\* Whoever is about to block misses only what came while the queue was locked.
MissesOnlyLocked ==
  LET c == call[k.pxCurrentTCB]
  IN  c.at = "place" =>
        IF c.op = "send" THEN uxLength - uxMessagesWaiting <= cRxLock
                         ELSE uxMessagesWaiting <= cTxLock

\* As many of those that are awake will look at the queue as it has items for
\* sleeping receivers, or places for sleeping senders, apart from those that the
\* caller who has it locked wakes others for (queue.c:2187-2299).  It is preserved
\* together with Inductive unless a reset frees several places for its single
\* wake-up, and NobodyLeftBehind follows.
WakeUpsOwed ==
  /\ SleepersBlocked(k, call)
  /\ LockedByCaller
  /\ MissesOnlyLocked
  /\ Claimed(k, call, "xTasksWaitingToReceive", uxMessagesWaiting - Owed(cTxLock))
  /\ Claimed(k, call, "xTasksWaitingToSend",
             uxLength - uxMessagesWaiting - Owed(cRxLock))

TimeOf(overflows, ticks) == (overflows * TickMod) + ticks

\* Whoever is on a delayed list gave a finite wait, and the list wakes it at its
\* deadline: in this turn of the tick count, or in the next one.
ListedToDeadline(q, c) ==
  \A t \in Task :
    /\ q.container[t] = "delayed" =>
         Timed(c[t]) /\ Deadline(c[t]) = TimeOf(q.xNumOfOverflows, q.xItemValue[t])
    /\ q.container[t] = "overflow" =>
         Timed(c[t]) /\ Deadline(c[t]) = TimeOf(q.xNumOfOverflows + 1, q.xItemValue[t])

\* No tick passes over a delayed task: xNextTaskUnblockTime is no later than it.
NextWakeKnown(q) ==
  \A t \in Task : q.container[t] = "delayed" =>
    q.xNextTaskUnblockTime <= q.xItemValue[t]

NobodyDue(q) ==
  \A t \in Task : q.container[t] = "delayed" => q.xTickCount < q.xItemValue[t]

\* A caller that is about to block has just taken the time.
JustStamped(q, c) ==
  c.at = "place" /\ Timed(c) =>
    /\ c.xOverflowCount = q.xNumOfOverflows
    /\ c.xTimeOnEntering = q.xTickCount
    /\ c.xTicksToWait > 0

\* A time taken is not in the future.
StampPast(q, c) ==
  c.xEntryTimeSet =>
    TimeOf(c.xOverflowCount, c.xTimeOnEntering)
      <= TimeOf(q.xNumOfOverflows, q.xTickCount)

\* Time does not pass its bound, pended ticks included.
LastTick == IF InitialTick < TickBound THEN TickBound ELSE InitialTick

\* Preserved together with Inductive as long as xNumOfOverflows does not wrap;
\* NoOversleep and TimeOutExact follow (tasks.c:2716-2885, 3285-3346, 5195-5304).
DeadlinesKept ==
  /\ ListedToDeadline(k, call)
  /\ NextWakeKnown(k)
  /\ NobodyDue(k)
  /\ \A t \in Task : JustStamped(k, call[t]) /\ StampPast(k, call[t])
  /\ Now + k.xPendedTicks <= LastTick
=============================================================================
