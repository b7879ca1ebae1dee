------------------------------ MODULE Tickless ------------------------------
(* The idle task of tasks.c with configUSE_TICKLESS_IDLE: it stops the tick    *)
(* interrupt while nobody has anything to do, and puts the tick count right    *)
(* afterwards.  portSUPPRESS_TICKS_AND_SLEEP is of the port: it asks           *)
(* eTaskConfirmSleepModeStatus with interrupts masked, sleeps one tick less    *)
(* than it may, or until an interrupt, and calls vTaskStepTick.                *)
EXTENDS Integers, FiniteSets

CONSTANTS Task,          \* of the application
          uxPriority,    \* 0 is that of the idle task
          Delays,        \* of vTaskDelay
          TickMod,       \* the tick count is modulo this
          PendedBound    \* bound on xPendedTicks

VARIABLES xTickCount, xNextTaskUnblockTime, xPendedTicks, xYieldPending,
          list,      \* per task, the list of its xStateListItem
          wake,      \* and the tick of its xItemValue
          pended,    \* xPendingReadyList
          idle,      \* where the idle task is, and what it holds
          left       \* real ticks until the delay of a task is over

vars == <<xTickCount, xNextTaskUnblockTime, xPendedTicks, xYieldPending, list,
          wake, pended, idle, left>>

LastTick == TickMod - 1
configEXPECTED_IDLE_TIME_BEFORE_SLEEP == 2
Tick == 0..LastTick

\* stale is what was pended when the sleep began.
Awake == [at |-> "loop", expected |-> 0, elapsed |-> 0, stale |-> 0]

\* What the proof needs of the constants.
TicklessFits ==
  /\ TickMod \in Nat \ {0} /\ Delays \subseteq 1..LastTick
  /\ uxPriority \in [Task -> Nat] /\ PendedBound \in 0..TickMod

TypeOK ==
  /\ xTickCount \in Tick /\ xNextTaskUnblockTime \in Tick
  /\ xPendedTicks \in 0..PendedBound + 1 /\ xYieldPending \in BOOLEAN
  /\ list \in [Task -> {"ready", "delayed", "overflow", "suspended"}]
  /\ wake \in [Task -> Tick] /\ pended \subseteq Task
  /\ idle.at \in {"loop", "checked", "locked", "asleep", "off", "resume"}
  /\ idle.expected \in Tick /\ idle.elapsed \in Tick
  /\ left \in [Task -> -TickMod..TickMod]

Init ==
  /\ xTickCount = 0 /\ xNextTaskUnblockTime = LastTick
  /\ xPendedTicks = 0 /\ xYieldPending = FALSE
  /\ list = [t \in Task |-> "ready"] /\ wake = [t \in Task |-> 0]
  /\ pended = {} /\ idle = Awake /\ left = [t \in Task |-> 0]

--------------------

Delayed == {t \in Task : list[t] \in {"delayed", "overflow"}}
Ready == {t \in Task : list[t] = "ready"}
SchedulerSuspended == idle.at \in {"locked", "asleep", "off", "resume"}
Sleeping == idle.at \in {"asleep", "off"}

\* The idle task runs, or shares its priority with what runs.
IdleRuns == \A t \in Ready : uxPriority[t] = 0
Runs(t) == /\ ~SchedulerSuspended /\ t \in Ready
           /\ \A u \in Ready : uxPriority[u] <= uxPriority[t]

\* The head of pxDelayedTaskList, of the lists l.
NextUnblock(l) ==
  LET wakes == {wake[t] : t \in {u \in Task : l[u] = "delayed"}}
  IN  IF wakes = {} THEN LastTick
      ELSE CHOOSE w \in wakes : \A v \in wakes : w <= v

\* vTaskDelay, through prvAddCurrentTaskToDelayedList.
vTaskDelay(t, ticks) ==
  LET time == (xTickCount + ticks) % TickMod IN
  /\ Runs(t)
  /\ wake' = [wake EXCEPT ![t] = time]
  /\ list' = [list EXCEPT ![t] = IF time < xTickCount THEN "overflow" ELSE "delayed"]
  /\ xNextTaskUnblockTime' =
       IF time >= xTickCount /\ time < xNextTaskUnblockTime THEN time
       ELSE xNextTaskUnblockTime
  /\ left' = [left EXCEPT ![t] = ticks]
  /\ UNCHANGED <<xTickCount, xPendedTicks, xYieldPending, pended, idle>>

\* Suspended, or blocked without a timeout.
WaitsForever(t) ==
  /\ Runs(t)
  /\ list' = [list EXCEPT ![t] = "suspended"]
  /\ left' = [left EXCEPT ![t] = 0]
  /\ UNCHANGED <<xTickCount, xNextTaskUnblockTime, xPendedTicks, xYieldPending, wake,
                 pended, idle>>

\* What a tick makes of a clock: of the tick count, the next time to unblock and
\* where the tasks are.
xTaskIncrementTick(clock) ==
  LET count == (clock.count + 1) % TickMod
      lists == IF count # 0 THEN clock.list
               ELSE [t \in Task |-> IF clock.list[t] = "overflow" THEN "delayed"
                                    ELSE clock.list[t]]
      next == IF count # 0 THEN clock.next ELSE NextUnblock(lists)
      readied == IF count < next THEN lists
                 ELSE [t \in Task |-> IF lists[t] = "delayed" /\ wake[t] <= count
                                        THEN "ready" ELSE lists[t]]
  IN  [count |-> count, list |-> readied,
       next |-> IF count < next THEN next ELSE NextUnblock(readied)]

\* And what n ticks make of it.
Increment(clock, n) ==
  LET after[k \in 0..n] == IF k = 0 THEN clock ELSE xTaskIncrementTick(after[k - 1])
  IN  after[n]

\* So many real ticks, for those that are still delayed.
Pass(ticks) == left' = [t \in Task |-> IF t \in Delayed' \ pended' THEN left[t] - ticks
                                       ELSE 0]

TickInterrupt ==
  /\ ~Sleeping
  /\ IF SchedulerSuspended
       THEN /\ xPendedTicks < PendedBound /\ xPendedTicks' = xPendedTicks + 1
            /\ UNCHANGED <<xTickCount, xNextTaskUnblockTime, list>>
       ELSE LET s == xTaskIncrementTick([count |-> xTickCount, list |-> list,
                                         next |-> xNextTaskUnblockTime])
            IN  /\ xTickCount' = s.count /\ xNextTaskUnblockTime' = s.next
                /\ list' = s.list /\ UNCHANGED xPendedTicks
  /\ UNCHANGED <<xYieldPending, wake, pended, idle>>
  /\ Pass(1)

\* What an interrupt readies while the scheduler is suspended is pended, and a
\* yield when it has a higher priority.
Pend(t) ==
  /\ pended' = pended \cup {t}
  /\ xYieldPending' = (xYieldPending \/ uxPriority[t] > 0)

\* xTaskRemoveFromEventList resets the next time to unblock; a notification from
\* an interrupt does not.
Interrupt(t, resets) ==
  /\ ~Sleeping /\ t \notin Ready \cup pended
  /\ IF SchedulerSuspended
       THEN Pend(t) /\ UNCHANGED <<list, xNextTaskUnblockTime>>
       ELSE /\ list' = [list EXCEPT ![t] = "ready"]
            /\ xNextTaskUnblockTime' = IF resets THEN NextUnblock(list')
                                       ELSE xNextTaskUnblockTime
            /\ UNCHANGED <<pended, xYieldPending>>
  /\ UNCHANGED <<xTickCount, xPendedTicks, wake, idle>>
  /\ Pass(0)

--------------------
(* The idle task.                                                             *)

\* Mutant: tasks of its own priority are forgotten.
ExpectedIfNothingAbove == IF \E t \in Ready : uxPriority[t] > 0 THEN 0
                          ELSE xNextTaskUnblockTime - xTickCount

\* The current task is the idle task, and must be the only one that is ready.
prvGetExpectedIdleTime ==
  IF Ready # {} THEN 0 ELSE xNextTaskUnblockTime - xTickCount

\* First without the scheduler suspended.
IdleChecks ==
  /\ idle.at = "loop" /\ IdleRuns
  /\ prvGetExpectedIdleTime >= configEXPECTED_IDLE_TIME_BEFORE_SLEEP
  /\ idle' = [idle EXCEPT !.at = "checked"]
  /\ UNCHANGED <<xTickCount, xNextTaskUnblockTime, xPendedTicks, xYieldPending, list,
                 wake, pended, left>>

IdleSuspendsAll ==
  /\ idle.at = "checked" /\ IdleRuns
  /\ idle' = [idle EXCEPT !.at = "locked"]
  /\ UNCHANGED <<xTickCount, xNextTaskUnblockTime, xPendedTicks, xYieldPending, list,
                 wake, pended, left>>

\* Then it is sampled again, and used.
IdleSamples ==
  /\ idle.at = "locked" /\ idle.expected = 0
  /\ LET expected == prvGetExpectedIdleTime IN
       idle' = IF expected >= configEXPECTED_IDLE_TIME_BEFORE_SLEEP
                 THEN [idle EXCEPT !.expected = expected]
                 ELSE [idle EXCEPT !.at = "resume"]
  /\ UNCHANGED <<xTickCount, xNextTaskUnblockTime, xPendedTicks, xYieldPending, list,
                 wake, pended, left>>

\* Mutant: what was pended meanwhile is overlooked.
OverlookPended ==
  IF xYieldPending THEN "eAbortSleep"
  ELSE IF \A t \in Task : list[t] = "suspended" THEN "eNoTasksWaitingTimeout"
  ELSE "eStandardSleep"

eTaskConfirmSleepModeStatus ==
  IF pended # {} \/ xYieldPending THEN "eAbortSleep"
  ELSE IF \A t \in Task : list[t] = "suspended" THEN "eNoTasksWaitingTimeout"
  ELSE "eStandardSleep"

\* portSUPPRESS_TICKS_AND_SLEEP: with no task waiting for a time the clock stops.
FallsAsleep ==
  /\ idle.at = "locked" /\ idle.expected > 0
  /\ idle' = [idle EXCEPT !.stale = xPendedTicks,
                !.at = CASE eTaskConfirmSleepModeStatus = "eAbortSleep" -> "resume"
                         [] eTaskConfirmSleepModeStatus = "eStandardSleep" -> "asleep"
                         [] OTHER -> "off"]
  /\ UNCHANGED <<xTickCount, xNextTaskUnblockTime, xPendedTicks, xYieldPending, list,
                 wake, pended, left>>

TimePassesAsleep ==
  /\ idle.at = "asleep" /\ idle.elapsed < idle.expected - 1
  /\ idle' = [idle EXCEPT !.elapsed = @ + 1]
  /\ UNCHANGED <<xTickCount, xNextTaskUnblockTime, xPendedTicks, xYieldPending, list,
                 wake, pended>>
  /\ Pass(1)

vTaskStepTick(xTicksToJump) == xTickCount' = (xTickCount + xTicksToJump) % TickMod

\* By an interrupt, which may ready a task and is served before the count is put
\* right, or by the tick that ends the sleep, which is pended.
WokenByInterrupt ==
  /\ Sleeping
  /\ \/ \E t \in Task \ pended : Pend(t)
     \/ UNCHANGED <<pended, xYieldPending>>
  /\ vTaskStepTick(idle.elapsed)
  /\ idle' = [idle EXCEPT !.at = "resume", !.elapsed = 0]
  /\ UNCHANGED <<xNextTaskUnblockTime, xPendedTicks, list, wake>>
  /\ Pass(0)

WokenByTick ==
  /\ idle.at = "asleep" /\ idle.elapsed = idle.expected - 1
  /\ vTaskStepTick(idle.elapsed)
  /\ xPendedTicks' = xPendedTicks + 1
  /\ idle' = [idle EXCEPT !.at = "resume", !.elapsed = 0]
  /\ UNCHANGED <<xNextTaskUnblockTime, xYieldPending, list, wake, pended>>
  /\ Pass(1)

\* xTaskResumeAll: what is pended is readied, and the pended ticks are counted.
IdleResumesAll ==
  /\ idle.at = "resume"
  /\ LET lists == [t \in Task |-> IF t \in pended THEN "ready" ELSE list[t]]
         next == IF pended = {} THEN xNextTaskUnblockTime ELSE NextUnblock(lists)
         s == Increment([count |-> xTickCount, next |-> next, list |-> lists],
                        xPendedTicks)
     IN  xTickCount' = s.count /\ xNextTaskUnblockTime' = s.next /\ list' = s.list
  /\ xPendedTicks' = 0 /\ pended' = {} /\ xYieldPending' = FALSE /\ idle' = Awake
  /\ UNCHANGED wake /\ Pass(0)

--------------------

Next ==
  \/ \E t \in Task : \/ \E ticks \in Delays : vTaskDelay(t, ticks)
                     \/ WaitsForever(t)
                     \/ \E resets \in BOOLEAN : Interrupt(t, resets)
  \/ TickInterrupt
  \/ IdleChecks \/ IdleSuspendsAll \/ IdleSamples \/ FallsAsleep
  \/ TimePassesAsleep \/ WokenByInterrupt \/ WokenByTick \/ IdleResumesAll

Spec == Init /\ [][Next]_vars

--------------------

\* The ticks that were slept through are all counted: of a task that waits for a
\* time, what is left of it really is what the tick count says.
TimeKept ==
  \A t \in Delayed \ pended :
    (wake[t] - xTickCount - xPendedTicks - idle.elapsed - left[t]) % TickMod = 0

\* Nobody is slept through.  Asleep, nobody is ready; with the clock stopped,
\* nobody waits for a time; and a delay ends no later than it should, but for the
\* ticks that were already pended when the sleep was planned.
SleepsInTime ==
  /\ Sleeping => Ready \cup pended = {}
  /\ idle.at = "off" => Delayed = {}
  /\ idle.at = "asleep" => \A t \in Delayed : left[t] + idle.stale > 0
  /\ ~SchedulerSuspended => \A t \in Delayed : left[t] > 0

\* The assertions of vTaskStepTick and of the idle task, tasks.c:2609 and 3490.
StepsInBounds ==
  /\ xNextTaskUnblockTime >= xTickCount
  /\ idle.at = "asleep" => xTickCount + idle.elapsed <= xNextTaskUnblockTime
=============================================================================
