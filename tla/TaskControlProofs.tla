------------------------- MODULE TaskControlProofs -------------------------
(***************************************************************************)
\* The inductive invariant of TaskControl and what follows from it, for
\* any tasks, priorities, event lists and delays: the most urgent ready
\* task runs, suspended and notified tasks are where they belong, and the
\* books of the deleted balance.  Then about the lock of CmsisKernel and
\* about Threads.
(***************************************************************************)
EXTENDS TaskControl, FiniteSetTheorems, SequenceTheorems, WellFoundedInduction, TLAPS

USE KernelAssumption

--------------------
\* The kernel's functions.

\* Kernel's record, with the two more places a task can be at here.
KernelRecord ==
  [pxCurrentTCB : Task, uxPriority : [Task -> Priority],
   container : [Task -> Container], xItemValue : [Task -> Tick],
   event : [Task -> EventList \cup {"none", "pending"}],
   xTickCount : Tick, xNumOfOverflows : Tick, xNextTaskUnblockTime : Tick,
   xPendedTicks : Nat, uxSchedulerSuspended : Nat,
   xYieldPending : BOOLEAN, pendSV : BOOLEAN]

\* A switch is asked for when a ready task outranks the running one.
Asked(q) ==
  \/ q.pendSV \/ q.xYieldPending
  \/ \A t \in Task : q.container[t] = "ready" =>
       q.uxPriority[t] <= q.uxPriority[q.pxCurrentTCB]

LEMMA TickModulo == ASSUME NEW n \in Nat PROVE n % TickMod \in Tick
  BY DEF Tick

\* Changing lists, wake times and the switch request stays within the type.
Updated(q, c, e, x, n, y) ==
  [q EXCEPT !.container = c, !.event = e, !.xItemValue = x,
            !.xNextTaskUnblockTime = n, !.xYieldPending = y]

LEMMA Update ==
  ASSUME NEW q \in KernelRecord, NEW c \in [Task -> Container],
         NEW e \in [Task -> EventList \cup {"none", "pending"}],
         NEW x \in [Task -> Tick], NEW n \in Tick, NEW y \in BOOLEAN
  PROVE  LET r == Updated(q, c, e, x, n, y)
         IN  /\ r \in KernelRecord
             /\ r.container = c /\ r.event = e
             /\ r.xYieldPending = y
             /\ r.pxCurrentTCB = q.pxCurrentTCB
             /\ r.uxPriority = q.uxPriority
             /\ r.pendSV = q.pendSV
             /\ r.xPendedTicks = q.xPendedTicks
             /\ r.uxSchedulerSuspended = q.uxSchedulerSuspended
  BY DEF KernelRecord, Updated

\* The earliest wake time of some tasks is one of theirs.
LEMMA MinWakeType ==
  ASSUME NEW q \in KernelRecord, NEW S \in SUBSET Task, S # {}
  PROVE  MinWake(q, S) \in Tick
<1> DEFINE W == {q.xItemValue[t] : t \in S}
           R == {ss \in Nat \X Nat : ss[1] < ss[2]}
<1>1. W \subseteq Nat /\ W # {} /\ W \subseteq Tick BY DEF KernelRecord, Tick
<1>2. PICK x \in W : \A y \in W : ~ (<<y, x>> \in R)
  <2>1. IsWellFoundedOn(R, Nat) BY NatLessThanWellFounded, Zenon DEF OpToRel
  <2> HIDE DEF R
  <2> QED BY <1>1, <2>1, WFMin
<1>3. \A y \in W : x <= y
  <2> SUFFICES ASSUME NEW y \in W PROVE x <= y OBVIOUS
  <2>1. x \in Nat /\ y \in Nat BY <1>1
  <2>2. ~ (y < x) BY <1>2, <2>1
  <2> QED BY <2>1, <2>2
<1>4. \E w \in Tick : /\ \E t \in S : q.xItemValue[t] = w
                      /\ \A t \in S : w <= q.xItemValue[t]
  BY <1>1, <1>2, <1>3
<1> QED BY <1>4 DEF MinWake

\* What goes on over the head of the running task: who runs, how urgent the
\* tasks are, what is pended and what is asked for stay.
Calm(q, r) ==
  /\ r \in KernelRecord
  /\ r.pxCurrentTCB = q.pxCurrentTCB
  /\ r.uxPriority = q.uxPriority
  /\ r.uxSchedulerSuspended = q.uxSchedulerSuspended
  /\ r.xPendedTicks = q.xPendedTicks
  /\ r.pendSV = q.pendSV

LEMMA ResetIs ==
  ASSUME NEW q \in KernelRecord
  PROVE  LET r == prvResetNextTaskUnblockTime(q)
         IN  /\ Calm(q, r)
             /\ r.xYieldPending = q.xYieldPending
             /\ r.container = q.container /\ r.event = q.event
<1> DEFINE n == IF Delayed(q) = {} THEN portMAX_DELAY
                                   ELSE MinWake(q, Delayed(q))
<1>1. n \in Tick
  <2>1. CASE Delayed(q) = {} BY <2>1 DEF Tick, portMAX_DELAY
  <2>2. CASE Delayed(q) # {} BY <2>2, MinWakeType DEF Delayed
  <2> QED BY <2>1, <2>2
<1>2. prvResetNextTaskUnblockTime(q) = [q EXCEPT !.xNextTaskUnblockTime = n]
  BY DEF prvResetNextTaskUnblockTime
<1> HIDE DEF n
<1> QED BY <1>1, <1>2 DEF KernelRecord, Calm

\* What may happen to the lists a task is on without the task's doing: it goes
\* from one delayed list to the other, is readied from a list it waits on, or
\* is remembered as pending ready.
Moved(q, r, t) ==
  \/ /\ \/ r.container[t] = q.container[t]
        \/ {q.container[t], r.container[t]} \subseteq {"delayed", "overflow"}
     /\ \/ r.event[t] = q.event[t]
        \/ q.event[t] # "none" /\ r.event[t] = "pending"
  \/ /\ q.container[t] \in {"delayed", "overflow"} \/ q.event[t] # "none"
     /\ r.container[t] = "ready" /\ r.event[t] = "none"

\* A tick takes nothing but the delayed lists' tasks.
Timed(q, r) ==
  /\ Calm(q, r)
  /\ r.xYieldPending = q.xYieldPending
  /\ \A t \in Task : Moved(q, r, t)

LEMMA TimedTransitive ==
  ASSUME NEW p, NEW q, NEW r, Timed(p, q), Timed(q, r)
  PROVE  Timed(p, r)
<1>1. ASSUME NEW t \in Task PROVE Moved(p, r, t) BY DEF Timed, Moved
<1> QED BY <1>1 DEF Timed, Calm

LEMMA ResetTimed ==
  ASSUME NEW q \in KernelRecord
  PROVE  Timed(q, prvResetNextTaskUnblockTime(q))
<1> DEFINE r == prvResetNextTaskUnblockTime(q)
<1>1. /\ Calm(q, r) /\ r.xYieldPending = q.xYieldPending
      /\ r.container = q.container /\ r.event = q.event
  BY ResetIs
<1> HIDE DEF r
<1>2. Timed(q, r) BY <1>1 DEF Timed, Moved
<1> QED BY <1>2 DEF r

\* Moving tasks to the ready lists, and off their event lists.
Unblocked(q, S, y) ==
  Updated(q, [t \in Task |-> IF t \in S THEN "ready" ELSE q.container[t]],
             [t \in Task |-> IF t \in S THEN "none" ELSE q.event[t]],
             q.xItemValue, q.xNextTaskUnblockTime, y)

LEMMA UnblockedIs ==
  ASSUME NEW q \in KernelRecord, NEW S \in SUBSET Task, NEW y \in BOOLEAN
  PROVE  LET r == Unblocked(q, S, y)
         IN  /\ Calm(q, r)
             /\ r.xYieldPending = y
             /\ \A t \in Task :
                  /\ t \in S => r.container[t] = "ready" /\ r.event[t] = "none"
                  /\ t \notin S => /\ r.container[t] = q.container[t]
                                   /\ r.event[t] = q.event[t]
<1> DEFINE e == [t \in Task |-> IF t \in S THEN "none" ELSE q.event[t]]
           c == [t \in Task |-> IF t \in S THEN "ready" ELSE q.container[t]]
           u == Updated(q, c, e, q.xItemValue, q.xNextTaskUnblockTime, y)
           r == Unblocked(q, S, y)
<1>1. r = u BY DEF Unblocked
<1>2. /\ c \in [Task -> Container]
      /\ e \in [Task -> EventList \cup {"none", "pending"}]
      /\ q.xItemValue \in [Task -> Tick]
      /\ q.xNextTaskUnblockTime \in Tick
  BY DEF KernelRecord, Container, StateList
<1>3. Calm(q, u) /\ u.xYieldPending = y /\ u.container = c /\ u.event = e
  <2> HIDE DEF c, e
  <2> QED BY <1>2, Update DEF Calm
<1>4. \A t \in Task : /\ c[t] = IF t \in S THEN "ready" ELSE q.container[t]
                      /\ e[t] = IF t \in S THEN "none" ELSE q.event[t]
  OBVIOUS
<1> HIDE DEF u, c, e, r
<1>5. /\ Calm(q, r) /\ r.xYieldPending = y
      /\ \A t \in Task :
           /\ t \in S => r.container[t] = "ready" /\ r.event[t] = "none"
           /\ t \notin S => /\ r.container[t] = q.container[t]
                            /\ r.event[t] = q.event[t]
  BY <1>1, <1>3, <1>4
<1> QED BY <1>5 DEF r

\* Those who are due are unblocked.
LEMMA UnblockDueTimed ==
  ASSUME NEW q \in KernelRecord
  PROVE  Timed(q, UnblockDue(q))
<1> DEFINE S == Due(q)
           woken == [q EXCEPT !.container = [t \in Task |-> IF t \in S
                                               THEN "ready" ELSE @[t]],
                              !.event = [t \in Task |-> IF t \in S
                                           THEN "none" ELSE @[t]]]
           u == Unblocked(q, S, q.xYieldPending)
<1>1. UnblockDue(q) = IF q.xTickCount < q.xNextTaskUnblockTime THEN q
                      ELSE prvResetNextTaskUnblockTime(woken)
  BY DEF UnblockDue
<1>2. S \in SUBSET Task /\ q.xYieldPending \in BOOLEAN BY DEF Due, Delayed, KernelRecord
<1>3. \A t \in S : q.container[t] = "delayed" BY DEF Due, Delayed
<1> HIDE DEF S
<1>4. woken = u
  <2> DEFINE c == [t \in Task |-> IF t \in S THEN "ready" ELSE q.container[t]]
             e == [t \in Task |-> IF t \in S THEN "none" ELSE q.event[t]]
  <2>1. /\ woken = [q EXCEPT !.container = c, !.event = e]
        /\ u = Updated(q, c, e, q.xItemValue, q.xNextTaskUnblockTime,
                       q.xYieldPending)
    BY Zenon DEF KernelRecord, Unblocked
  <2> HIDE DEF c, e, woken, u
  <2> QED BY <2>1 DEF KernelRecord, Updated
<1>5. Timed(q, u)
  <2>1. /\ Calm(q, u) /\ u.xYieldPending = q.xYieldPending
        /\ \A t \in Task :
             /\ t \in S => u.container[t] = "ready" /\ u.event[t] = "none"
             /\ t \notin S => /\ u.container[t] = q.container[t]
                              /\ u.event[t] = q.event[t]
    BY <1>2, UnblockedIs
  <2> HIDE DEF u
  <2> QED BY <1>3, <2>1 DEF Timed, Moved
<1> HIDE DEF woken, u
<1>6. Timed(u, prvResetNextTaskUnblockTime(u)) BY <1>5, ResetTimed DEF Timed, Calm
<1>7. Timed(q, q) BY DEF Timed, Calm, Moved
<1> QED BY <1>1, <1>4, <1>5, <1>6, <1>7, TimedTransitive

LEMMA SwitchListsTimed ==
  ASSUME NEW q \in KernelRecord
  PROVE  Timed(q, taskSWITCH_DELAYED_LISTS(q))
<1> DEFINE c == [t \in Task |-> CASE q.container[t] = "overflow" -> "delayed"
                                  [] q.container[t] = "delayed" -> "overflow"
                                  [] OTHER -> q.container[t]]
           n == (q.xNumOfOverflows + 1) % TickMod
           r == [q EXCEPT !.container = c, !.xNumOfOverflows = n]
<1>1. taskSWITCH_DELAYED_LISTS(q) = prvResetNextTaskUnblockTime(r)
  BY DEF taskSWITCH_DELAYED_LISTS
<1>2. n \in Tick BY TickModulo DEF KernelRecord, Tick
<1>3. /\ c \in [Task -> Container]
      /\ \A t \in Task : \/ c[t] = q.container[t]
                         \/ {q.container[t], c[t]} \subseteq {"delayed", "overflow"}
  BY DEF KernelRecord, Container, StateList
<1> HIDE DEF c, n
<1>4. /\ Calm(q, r) /\ r.container = c /\ r.event = q.event
      /\ r.xYieldPending = q.xYieldPending
  BY <1>2, <1>3, Zenon DEF KernelRecord, Calm
<1> HIDE DEF r
<1>5. Timed(q, r) BY <1>3, <1>4 DEF Timed, Moved
<1>6. Timed(r, prvResetNextTaskUnblockTime(r)) BY <1>4, ResetTimed DEF Calm
<1> QED BY <1>1, <1>5, <1>6, TimedTransitive

LEMMA CountTickTimed ==
  ASSUME NEW q \in KernelRecord
  PROVE  Timed(q, CountTick(q))
<1> DEFINE n == (q.xTickCount + 1) % TickMod
           t1 == [q EXCEPT !.xTickCount = n]
           t2 == IF t1.xTickCount = 0 THEN taskSWITCH_DELAYED_LISTS(t1) ELSE t1
<1>1. CountTick(q) = UnblockDue(t2) BY DEF CountTick
<1>2. n \in Tick BY TickModulo DEF KernelRecord, Tick
<1> HIDE DEF n
<1>3. Timed(q, t1) BY <1>2 DEF Timed, Calm, Moved, KernelRecord
<1> HIDE DEF t1
<1>4. Timed(t1, t1) /\ Timed(t1, taskSWITCH_DELAYED_LISTS(t1))
  <2>1. t1 \in KernelRecord BY <1>3 DEF Timed, Calm
  <2> QED BY <2>1, SwitchListsTimed DEF Timed, Calm, Moved
<1>5. Timed(t1, t2) BY <1>4
<1> HIDE DEF t2
<1>6. Timed(t2, UnblockDue(t2)) BY <1>5, UnblockDueTimed DEF Timed, Calm
<1> QED BY <1>1, <1>3, <1>5, <1>6, TimedTransitive

\* A tick that requires no switch readied no task that outranks the running one.
LEMMA TickAsks ==
  ASSUME NEW q \in KernelRecord, Asked(q), ~SwitchRequired(q, CountTick(q))
  PROVE  Asked(CountTick(q))
<1> DEFINE r == CountTick(q)
<1>1. Timed(q, r) BY CountTickTimed
<1>2. ~SwitchRequired(q, r) OBVIOUS
<1> HIDE DEF r
<1>3. \A t \in Task : r.container[t] = "ready" /\ q.container[t] # "ready" =>
        ~(q.uxPriority[t] >= q.uxPriority[q.pxCurrentTCB])
  BY <1>2 DEF SwitchRequired
<1>4. \A t \in Task : q.uxPriority[t] \in Int BY DEF KernelRecord, Priority
<1>5. q.uxPriority[q.pxCurrentTCB] \in Int BY <1>4 DEF KernelRecord
<1>6. Asked(r) BY <1>1, <1>3, <1>4, <1>5 DEF Asked, Timed, Calm
<1> QED BY <1>6 DEF r

\* What an interrupt leaves of the kernel: who runs stays, no request for a
\* switch is lost, and a switch is asked for where it is called for.
Served(q, r) ==
  /\ r \in KernelRecord
  /\ r.pxCurrentTCB = q.pxCurrentTCB
  /\ r.uxSchedulerSuspended = q.uxSchedulerSuspended
  /\ q.pendSV => r.pendSV
  /\ \A t \in Task : Moved(q, r, t)
  /\ Asked(r)

LEMMA YieldIs ==
  ASSUME NEW q \in KernelRecord
  PROVE  /\ Calm(q, [Yield(q) EXCEPT !.pendSV = q.pendSV])
         /\ Yield(q) \in KernelRecord /\ Yield(q).pendSV
         /\ Yield(q).pxCurrentTCB = q.pxCurrentTCB
         /\ Yield(q).uxPriority = q.uxPriority
         /\ Yield(q).container = q.container /\ Yield(q).event = q.event
         /\ Yield(q).uxSchedulerSuspended = q.uxSchedulerSuspended
         /\ Yield(q).xYieldPending = q.xYieldPending
  BY DEF Yield, KernelRecord, Calm

\* The caller of xTaskIncrementTick has no use for xNumOfOverflows.
LEMMA TickServed ==
  ASSUME NEW q \in KernelRecord, Asked(q)
  PROVE  Served(q, [TickInterrupt(q) EXCEPT !.xNumOfOverflows = 0])
<1> DEFINE p == TickInterrupt(q)
           r == [p EXCEPT !.xNumOfOverflows = 0]
           c == CountTick(q)
<1>1. Timed(q, c) BY CountTickTimed
<1>2. CASE q.uxSchedulerSuspended # 0
  <2>1. p = [q EXCEPT !.xPendedTicks = @ + 1] BY <1>2 DEF TickInterrupt
  <2> HIDE DEF p
  <2>2. /\ p \in KernelRecord /\ p.pxCurrentTCB = q.pxCurrentTCB
        /\ p.uxSchedulerSuspended = q.uxSchedulerSuspended
        /\ p.pendSV = q.pendSV /\ p.container = q.container
        /\ p.event = q.event /\ p.uxPriority = q.uxPriority
        /\ p.xYieldPending = q.xYieldPending
    BY <2>1 DEF KernelRecord
  <2>3. /\ r \in KernelRecord /\ r.pxCurrentTCB = q.pxCurrentTCB
        /\ r.uxSchedulerSuspended = q.uxSchedulerSuspended
        /\ r.pendSV = q.pendSV /\ r.container = q.container
        /\ r.event = q.event /\ r.uxPriority = q.uxPriority
        /\ r.xYieldPending = q.xYieldPending
    BY <2>2 DEF KernelRecord, Tick
  <2> HIDE DEF r
  <2>4. Served(q, r) BY <2>3 DEF Served, Moved, Asked
  <2> QED BY <2>4 DEF r, p
<1>3. CASE q.uxSchedulerSuspended = 0 /\ SwitchRequired(q, c)
  <2>1. p = Yield(c) BY <1>3 DEF TickInterrupt
  <2>2. c \in KernelRecord BY <1>1 DEF Timed, Calm
  <2> HIDE DEF p, c
  <2>3. /\ p \in KernelRecord /\ p.pxCurrentTCB = c.pxCurrentTCB /\ p.pendSV
        /\ p.uxSchedulerSuspended = c.uxSchedulerSuspended
        /\ p.container = c.container /\ p.event = c.event
    BY <2>1, <2>2, YieldIs
  <2>4. /\ r \in KernelRecord /\ r.pxCurrentTCB = p.pxCurrentTCB /\ r.pendSV
        /\ r.uxSchedulerSuspended = p.uxSchedulerSuspended
        /\ r.container = p.container /\ r.event = p.event
    BY <2>3 DEF KernelRecord, Tick
  <2> HIDE DEF r
  <2>5. Served(q, r) BY <1>1, <2>3, <2>4 DEF Served, Timed, Calm, Moved, Asked
  <2> QED BY <2>5 DEF r, p
<1>4. CASE q.uxSchedulerSuspended = 0 /\ ~SwitchRequired(q, c)
  <2>1. p = c BY <1>4 DEF TickInterrupt
  <2>2. Asked(c) BY <1>4, TickAsks
  <2> HIDE DEF p, c
  <2>3. /\ r \in KernelRecord /\ r.pxCurrentTCB = c.pxCurrentTCB
        /\ r.uxSchedulerSuspended = c.uxSchedulerSuspended
        /\ r.container = c.container /\ r.event = c.event
        /\ r.uxPriority = c.uxPriority /\ r.pendSV = c.pendSV
        /\ r.xYieldPending = c.xYieldPending
    BY <1>1, <2>1 DEF Timed, Calm, KernelRecord, Tick
  <2> HIDE DEF r
  <2>4. Served(q, r) BY <1>1, <2>2, <2>3 DEF Served, Timed, Calm, Moved, Asked
  <2> QED BY <2>4 DEF r, p
<1> QED BY <1>2, <1>3, <1>4

LEMMA ReplayServed ==
  ASSUME NEW q \in KernelRecord, Asked(q), q.xPendedTicks > 0
  PROVE  Served(q, [ReplayTick(q) EXCEPT !.xNumOfOverflows = 0])
<1> DEFINE c == CountTick(q)
           y == c.xYieldPending \/ SwitchRequired(q, c)
           n == c.xPendedTicks - 1
           r == [c EXCEPT !.xPendedTicks = n, !.xYieldPending = y,
                          !.xNumOfOverflows = 0]
<1>1. Timed(q, c) BY CountTickTimed
<1>2. [ReplayTick(q) EXCEPT !.xNumOfOverflows = 0] = r BY DEF ReplayTick
<1>3. y \in BOOLEAN BY <1>1 DEF Timed, Calm, KernelRecord, SwitchRequired
<1>4. n \in Nat BY <1>1 DEF Timed, Calm, KernelRecord
<1>5. (c.xYieldPending => y) /\ (~y => Asked(c)) BY TickAsks
<1> HIDE DEF c, y, n
<1>6. /\ r \in KernelRecord /\ r.pxCurrentTCB = c.pxCurrentTCB
      /\ r.uxSchedulerSuspended = c.uxSchedulerSuspended
      /\ r.container = c.container /\ r.event = c.event
      /\ r.uxPriority = c.uxPriority /\ r.pendSV = c.pendSV
      /\ r.xYieldPending = y
  <2>1. 0 \in Tick /\ c \in KernelRecord BY <1>1 DEF Timed, Calm, Tick
  <2> QED BY <1>3, <1>4, <2>1, Zenon DEF KernelRecord
<1> HIDE DEF r
<1>7. Served(q, r) BY <1>1, <1>5, <1>6 DEF Served, Timed, Calm, Moved, Asked
<1> QED BY <1>2, <1>7

\* A woken task is readied, or remembered while the scheduler is suspended.
LEMMA WakeServed ==
  ASSUME NEW q \in KernelRecord, NEW head \in Task, q.event[head] # "none",
         Asked(q)
  PROVE  Served(q, WakeAndYield(q, head))
<1> DEFINE c == IF q.uxSchedulerSuspended = 0
                  THEN [q.container EXCEPT ![head] = "ready"] ELSE q.container
           e == [q.event EXCEPT ![head] = IF q.uxSchedulerSuspended = 0
                                            THEN "none" ELSE "pending"]
           y == q.xYieldPending \/ Outranks(q, head)
           u == Updated(q, c, e, q.xItemValue, q.xNextTaskUnblockTime, y)
           w == IF Outranks(q, head) THEN Yield(u) ELSE u
<1>1. WakeAndYield(q, head) = w
  <2>1. xTaskRemoveFromEventList(q, head) = u
    BY Zenon DEF xTaskRemoveFromEventList, Updated, KernelRecord
  <2> HIDE DEF u
  <2> QED BY <2>1 DEF WakeAndYield
<1>2. /\ c \in [Task -> Container] /\ y \in BOOLEAN
      /\ e \in [Task -> EventList \cup {"none", "pending"}]
      /\ q.xItemValue \in [Task -> Tick] /\ q.xNextTaskUnblockTime \in Tick
  BY DEF KernelRecord, Container, StateList, Outranks
<1>3. \A t \in Task : /\ t # head => c[t] = q.container[t] /\ e[t] = q.event[t]
                      /\ \/ c[head] = "ready" /\ e[head] = "none"
                         \/ c[head] = q.container[head] /\ e[head] = "pending"
  BY DEF KernelRecord
<1>4. /\ u \in KernelRecord /\ u.container = c /\ u.event = e
      /\ u.xYieldPending = y /\ u.pxCurrentTCB = q.pxCurrentTCB
      /\ u.uxPriority = q.uxPriority /\ u.pendSV = q.pendSV
      /\ u.uxSchedulerSuspended = q.uxSchedulerSuspended
  <2> HIDE DEF c, e, y
  <2> QED BY <1>2, Update
<1>5. y <=> (q.xYieldPending \/ Outranks(q, head)) OBVIOUS
<1> HIDE DEF c, e, u, y
<1>6. /\ w \in KernelRecord /\ w.container = c /\ w.event = e
      /\ w.xYieldPending = y /\ w.pxCurrentTCB = q.pxCurrentTCB
      /\ w.uxPriority = q.uxPriority /\ (q.pendSV => w.pendSV)
      /\ w.uxSchedulerSuspended = q.uxSchedulerSuspended
  BY <1>4, YieldIs
<1> HIDE DEF w
<1>7. \A t \in Task : Moved(q, w, t) BY <1>3, <1>6 DEF Moved
<1>8. Asked(w)
  <2>1. ~y => q.uxPriority[head] <= q.uxPriority[q.pxCurrentTCB]
    BY <1>5 DEF Outranks, KernelRecord, Priority
  <2> QED BY <1>3, <1>5, <1>6, <2>1 DEF Asked
<1>9. Served(q, w) BY <1>6, <1>7, <1>8 DEF Served
<1> QED BY <1>1, <1>9

\* Releasing the scheduler readies the tasks on the pending ready list.
LEMMA ReleaseIs ==
  ASSUME NEW q \in KernelRecord, Asked(q), q.uxSchedulerSuspended = 1
  PROVE  LET r == ReleaseScheduler(q)
         IN  /\ r \in KernelRecord
             /\ r.pxCurrentTCB = q.pxCurrentTCB
             /\ r.uxSchedulerSuspended = 0
             /\ \A t \in Task : Moved(q, r, t)
             /\ Asked(r)
<1> DEFINE p == [q EXCEPT !.uxSchedulerSuspended = 0]
           S == Waiting(p, "pending")
           y == \/ p.xYieldPending
                \/ \E t \in S : p.uxPriority[t] >= p.uxPriority[p.pxCurrentTCB]
           drained == [p EXCEPT !.event = [t \in Task |-> IF t \in S
                                             THEN "none" ELSE @[t]],
                                !.container = [t \in Task |-> IF t \in S
                                                 THEN "ready" ELSE @[t]],
                                !.xYieldPending = y]
           u == Unblocked(p, S, y)
           s == prvResetNextTaskUnblockTime(u)
           r == ReleaseScheduler(q)
<1>1. /\ p \in KernelRecord /\ p.pxCurrentTCB = q.pxCurrentTCB
      /\ p.uxPriority = q.uxPriority /\ p.uxSchedulerSuspended = 0
      /\ p.container = q.container /\ p.event = q.event
      /\ p.pendSV = q.pendSV /\ p.xYieldPending = q.xYieldPending
  BY DEF KernelRecord
<1>2. r = DrainPending(p)
  <2>1. [q EXCEPT !.uxSchedulerSuspended = @ - 1] = p OBVIOUS
  <2> HIDE DEF p
  <2> QED BY <1>1, <2>1 DEF ReleaseScheduler
<1> HIDE DEF p
<1>3. /\ S \in SUBSET Task /\ y \in BOOLEAN
      /\ \A t \in S : p.event[t] = "pending"
  BY <1>1 DEF Waiting, KernelRecord
<1>4. r = IF S = {} THEN p ELSE prvResetNextTaskUnblockTime(drained)
  BY <1>2 DEF DrainPending
<1>5. /\ \A t \in S : p.uxPriority[t] >= p.uxPriority[p.pxCurrentTCB] => y
      /\ p.xYieldPending => y
  OBVIOUS
<1> HIDE DEF S, y
<1>6. drained = u
  <2> DEFINE c == [t \in Task |-> IF t \in S THEN "ready" ELSE p.container[t]]
             e == [t \in Task |-> IF t \in S THEN "none" ELSE p.event[t]]
  <2>1. /\ drained = [p EXCEPT !.event = e, !.container = c, !.xYieldPending = y]
        /\ u = Updated(p, c, e, p.xItemValue, p.xNextTaskUnblockTime, y)
    BY Zenon DEF KernelRecord, Unblocked
  <2> HIDE DEF c, e, u, drained
  <2> QED BY <2>1 DEF KernelRecord, Updated
<1>7. /\ Calm(p, u) /\ u.xYieldPending = y
      /\ \A t \in Task :
           /\ t \in S => u.container[t] = "ready" /\ u.event[t] = "none"
           /\ t \notin S => /\ u.container[t] = p.container[t]
                            /\ u.event[t] = p.event[t]
  BY <1>1, <1>3, UnblockedIs
<1> HIDE DEF drained, u
<1>8. /\ Calm(u, s) /\ s.xYieldPending = u.xYieldPending
      /\ s.container = u.container /\ s.event = u.event
  BY <1>7, ResetIs DEF Calm
<1>9. r = IF S = {} THEN p ELSE s BY <1>4, <1>6
<1> HIDE DEF s, r
<1>10. CASE S = {}
  <2>1. r = p BY <1>9, <1>10
  <2> QED BY <1>1, <2>1 DEF Moved, Asked, r
<1>11. CASE S # {}
  <2>1. r = s BY <1>9, <1>11
  <2>2. /\ r \in KernelRecord /\ r.pxCurrentTCB = q.pxCurrentTCB
        /\ r.uxPriority = q.uxPriority /\ r.uxSchedulerSuspended = 0
        /\ r.pendSV = q.pendSV /\ r.xYieldPending = y
        /\ \A t \in Task :
             /\ t \in S => r.container[t] = "ready" /\ r.event[t] = "none"
             /\ t \notin S => /\ r.container[t] = q.container[t]
                              /\ r.event[t] = q.event[t]
    BY <1>1, <1>7, <1>8, <2>1 DEF Calm
  <2>3. \A t \in Task : Moved(q, r, t) BY <1>1, <1>3, <2>2 DEF Moved
  <2>4. Asked(r)
    <3>1. \A t \in Task : q.uxPriority[t] \in Int BY DEF KernelRecord, Priority
    <3>2. q.pxCurrentTCB \in Task BY DEF KernelRecord
    <3>3. \A t \in S : y \/ q.uxPriority[t] <= q.uxPriority[q.pxCurrentTCB]
      BY <1>1, <1>3, <1>5, <3>1, <3>2
    <3> QED BY <1>1, <1>5, <2>2, <3>3 DEF Asked
  <2> QED BY <2>2, <2>3, <2>4 DEF r
<1> QED BY <1>10, <1>11

--------------------
\* The inductive invariant.

current == k.pxCurrentTCB

Typed ==
  /\ k \in KernelRecord
  /\ tcb \in [Task -> TCB]
  /\ control \in [Task -> Control]

\* The scheduler is suspended exactly while the running task is within a call
\* that suspended it, and no other task is.
Locking == {"locked", "resume", "catchUp"}

SuspendedByCurrent ==
  /\ k.uxSchedulerSuspended = IF control[current].at \in Locking THEN 1 ELSE 0
  /\ \A t \in Task \ {current} : control[t].at \notin Locking \cup {"ticks"}

\* The running task is ready, or on its way to a yield.
ReadyOrLeaving ==
  \/ k.container[current] = "ready"
  \/ control[current].at \in {"resume", "ticks"} /\ control[current].yield
  \/ control[current].at = "deleted"
  \/ control[current].at = "suspended" /\ control[current].other = current
  \/ k.pendSV /\ control[current].at \in {"user", "taken", "waited"}

\* A task that was created is on a list of tasks, and no other task is on one
\* or waits; a TCB is with the idle task once it has left its last list.
LifeOf(t) ==
  /\ tcb[t].life = "created" <=> k.container[t] \in StateList
  /\ tcb[t].life # "created" => k.event[t] = "none"
  /\ tcb[t].life = "free" => k.container[t] = "none"
  /\ tcb[t].life = "deleted" <=> control[t].at = "deleted"
  /\ (tcb[t].life = "deleted" /\ k.container[t] = "none") <=>
       (control[Idle].at = "free" /\ control[Idle].other = t)
  /\ control[t].at = "free" => t = Idle

LivesAccounted ==
  /\ tcb[Idle].life = "created" /\ tcb[current].life # "free"
  /\ \A t \in Task : LifeOf(t)

SuspensionOf(t) ==
  tcb[t].suspended => /\ k.container[t] = "suspended" /\ k.event[t] = "none"
                      /\ tcb[t].ucNotifyState # "waiting"

NotificationOf(t) ==
  /\ control[t].at \in {"taken", "waited"}
  /\ k.container[t] \in {"suspended", "delayed", "overflow"}
  /\ k.event[t] # "pending"
  /\ ~tcb[t].suspended
  => tcb[t].ucNotifyState = "waiting"

ListsHonest == \A t \in Task : SuspensionOf(t) /\ NotificationOf(t)

Terminated == {t \in Task : k.container[t] = "termination"}
Listed == {t \in Task : Created(t)} \cup Terminated

Booked ==
  /\ uxDeletedTasksWaitingCleanUp = Cardinality(Terminated)
  /\ uxCurrentNumberOfTasks = Cardinality(Listed)

IInv ==
  /\ Typed /\ SuspendedByCurrent /\ ReadyOrLeaving /\ Asked(k)
  /\ LivesAccounted /\ ListsHonest /\ Booked

--------------------
\* What a step may leave as it was.

\* A task that runs in user code, or goes on after it waited, is ready.
LEMMA RunningIs ==
  ASSUME IInv, NEW t \in Task, NEW w \in {"user", "taken", "waited"}, At(t, w)
  PROVE  /\ t = current /\ ~k.pendSV /\ control[t].at = w
         /\ k.container[t] = "ready" /\ tcb[t].life = "created"
         /\ ~tcb[t].suspended /\ k.uxSchedulerSuspended = 0
<1>1. t = current /\ ~k.pendSV /\ control[t].at = w BY DEF At, Running, current
<1>2. k.container[t] = "ready" BY <1>1 DEF IInv, ReadyOrLeaving
<1>3. tcb[t].life = "created" BY <1>2 DEF IInv, LivesAccounted, LifeOf, StateList
<1>4. ~tcb[t].suspended BY <1>2 DEF IInv, ListsHonest, SuspensionOf
<1>5. k.uxSchedulerSuspended = 0 BY <1>1 DEF IInv, SuspendedByCurrent, Locking
<1> QED BY <1>1, <1>2, <1>3, <1>4, <1>5

\* A task that the step does not touch, and one that it puts somewhere.
Quiet(t) ==
  /\ Moved(k, k', t)
  /\ tcb'[t].life = tcb[t].life /\ tcb'[t].suspended = tcb[t].suspended
  /\ tcb'[t].ucNotifyState = tcb[t].ucNotifyState
  /\ control'[t].at = control[t].at /\ control'[t].other = control[t].other

Placed(t) ==
  /\ Created(t) /\ tcb'[t].life = "created"
  /\ k'.container[t] \in StateList
  /\ \/ control'[t] = control[t]
     \/ {control[t].at, control'[t].at} \cap {"deleted", "free"} = {}
  /\ SuspensionOf(t)' /\ NotificationOf(t)'

LEMMA ListsKept ==
  ASSUME IInv, \A t \in Task : Quiet(t) \/ Placed(t), UnchangedCounts,
         tcb[k'.pxCurrentTCB].life # "free", Typed'
  PROVE  LivesAccounted' /\ ListsHonest' /\ Booked'
<1>1. ASSUME NEW t \in Task
      PROVE  /\ tcb'[t].life = tcb[t].life
             /\ k'.container[t] \in StateList <=> k.container[t] \in StateList
             /\ k.container[t] \notin StateList =>
                  k'.container[t] = k.container[t] /\ k'.event[t] = k.event[t]
             /\ tcb[t].life # "created" => k'.event[t] = "none"
             /\ (control'[t].at = "deleted") <=> (control[t].at = "deleted")
             /\ (control'[t].at = "free") <=> (control[t].at = "free")
             /\ control[t].at = "free" => control'[t].other = control[t].other
             /\ SuspensionOf(t)' /\ NotificationOf(t)'
  <2>1. LifeOf(t) /\ SuspensionOf(t) /\ NotificationOf(t)
    BY DEF IInv, LivesAccounted, ListsHonest
  <2>2. CASE Placed(t) BY <2>1, <2>2 DEF Placed, LifeOf, Created
  <2>3. CASE Quiet(t)
    <3>1. /\ k'.container[t] \in StateList <=> k.container[t] \in StateList
          /\ k.container[t] \notin StateList =>
               k'.container[t] = k.container[t] /\ k'.event[t] = k.event[t]
          /\ tcb[t].life # "created" => k'.event[t] = "none"
      BY <2>1, <2>3 DEF Quiet, Moved, LifeOf, StateList
    <3>2. SuspensionOf(t)' BY <2>1, <2>3 DEF Quiet, Moved, SuspensionOf
    <3>3. NotificationOf(t)' BY <2>1, <2>3 DEF Quiet, Moved, NotificationOf
    <3> QED BY <2>3, <3>1, <3>2, <3>3 DEF Quiet
  <2> QED BY <2>2, <2>3
<1>2. LivesAccounted'
  <2>1. tcb'[Idle].life = "created" /\ tcb'[k'.pxCurrentTCB].life # "free"
    BY <1>1 DEF IInv, LivesAccounted, Typed, KernelRecord
  <2>2. ASSUME NEW t \in Task PROVE LifeOf(t)'
    BY <1>1 DEF IInv, LivesAccounted, LifeOf, StateList
  <2> QED BY <2>1, <2>2 DEF LivesAccounted, current
<1>3. ListsHonest' BY <1>1 DEF ListsHonest
<1>4. Booked'
  <2>1. Terminated' = Terminated BY <1>1 DEF Terminated, StateList
  <2>2. Listed' = Listed BY <1>1, <2>1 DEF Listed, Created
  <2> QED BY <2>1, <2>2 DEF IInv, Booked, UnchangedCounts
<1> QED BY <1>2, <1>3, <1>4

\* A step of an interrupt, which leaves all calls where they are.
LEMMA InterruptKeeps ==
  ASSUME IInv, Typed', control' = control, UnchangedCounts,
         k'.pxCurrentTCB = current, Asked(k'), k.pendSV => k'.pendSV,
         k'.uxSchedulerSuspended = k.uxSchedulerSuspended,
         k.container[current] = "ready" => k'.container[current] = "ready",
         \A t \in Task : Quiet(t) \/ Placed(t)
  PROVE  IInv'
<1>1. LivesAccounted' /\ ListsHonest' /\ Booked' BY ListsKept DEF IInv, LivesAccounted
<1>2. SuspendedByCurrent' /\ ReadyOrLeaving'
  BY DEF IInv, SuspendedByCurrent, ReadyOrLeaving, current
<1> QED BY <1>1, <1>2 DEF IInv

LEMMA ServedKeeps ==
  ASSUME IInv, Served(k, k'), UNCHANGED <<tcb, control>>, UnchangedCounts
  PROVE  IInv'
<1>1. Typed' BY DEF IInv, Typed, Served
<1>2. \A t \in Task : Quiet(t) BY DEF Served, Quiet
<1>3. k.container[current] = "ready" => k'.container[current] = "ready"
  BY DEF Served, Moved, IInv, Typed, KernelRecord, current
<1> QED BY <1>1, <1>2, <1>3, InterruptKeeps DEF Served, current

\* A step of the running task t that leaves the lists alone and goes to c.
LEMMA OwnStep ==
  ASSUME IInv, Typed', UnchangedCounts, NEW t \in Task, t = current,
         NEW c \in Control, control' = [control EXCEPT ![t] = c],
         k'.pxCurrentTCB = t, k'.uxPriority = k.uxPriority,
         k'.container = k.container, k'.event = k.event,
         k.pendSV => k'.pendSV,
         k.xYieldPending => k'.pendSV \/ k'.xYieldPending,
         k'.uxSchedulerSuspended = IF c.at \in Locking THEN 1 ELSE 0,
         \A u \in Task \ {t} : tcb'[u] = tcb[u],
         tcb'[t].life = tcb[t].life, tcb'[t].suspended = tcb[t].suspended,
         tcb[t].suspended => tcb'[t].ucNotifyState # "waiting",
         control[t].at # "free", c.at # "free",
         c.at = "deleted" <=> control[t].at = "deleted",
         c.at \in {"taken", "waited"} => k.container[t] = "ready",
         ReadyOrLeaving'
  PROVE  IInv'
<1>1. control'[t] = c /\ \A u \in Task \ {t} : control'[u] = control[u] BY DEF IInv, Typed
<1>2. SuspendedByCurrent' BY <1>1 DEF IInv, SuspendedByCurrent, current
<1>3. Asked(k') BY DEF IInv, Asked, current
<1>4. \A u \in Task : LifeOf(u)'
  <2> SUFFICES ASSUME NEW u \in Task PROVE LifeOf(u)' OBVIOUS
  <2>1. LifeOf(u) /\ tcb'[u].life = tcb[u].life BY DEF IInv, LivesAccounted
  <2>2. /\ control'[u].at = "deleted" <=> control[u].at = "deleted"
        /\ control'[u].at = "free" <=> control[u].at = "free"
        /\ control'[Idle].at = "free" <=> control[Idle].at = "free"
        /\ control[Idle].at = "free" => control'[Idle].other = control[Idle].other
    BY <1>1
  <2> QED BY <2>1, <2>2 DEF LifeOf
<1>5. LivesAccounted' BY <1>4 DEF IInv, LivesAccounted, Typed, KernelRecord, current
<1>6. ListsHonest'
  <2> SUFFICES ASSUME NEW u \in Task PROVE SuspensionOf(u)' /\ NotificationOf(u)'
    BY DEF ListsHonest
  <2>1. SuspensionOf(u) /\ NotificationOf(u) BY DEF IInv, ListsHonest
  <2>2. CASE u # t BY <1>1, <2>1, <2>2 DEF SuspensionOf, NotificationOf
  <2>3. CASE u = t BY <1>1, <2>1, <2>3 DEF SuspensionOf, NotificationOf
  <2> QED BY <2>2, <2>3
<1>7. Booked'
  <2>1. Terminated' = Terminated BY DEF Terminated
  <2>2. Listed' = Listed BY <2>1 DEF Listed, Created
  <2> QED BY <2>1, <2>2 DEF IInv, Booked, UnchangedCounts
<1> QED BY <1>2, <1>3, <1>5, <1>6, <1>7 DEF IInv

--------------------
\* The steps of a call.

LEMMA YieldIfIs ==
  ASSUME NEW q \in KernelRecord, NEW b \in BOOLEAN
  PROVE  LET r == YieldIf(b, q)
         IN  /\ r \in KernelRecord
             /\ r.pxCurrentTCB = q.pxCurrentTCB
             /\ r.uxPriority = q.uxPriority
             /\ r.container = q.container /\ r.event = q.event
             /\ r.uxSchedulerSuspended = q.uxSchedulerSuspended
             /\ r.xYieldPending = q.xYieldPending
             /\ q.pendSV \/ b => r.pendSV
  BY YieldIs DEF YieldIf

LEMMA SuspendAllIs ==
  ASSUME NEW q \in KernelRecord
  PROVE  LET r == vTaskSuspendAll(q)
         IN  /\ r \in KernelRecord
             /\ r.pxCurrentTCB = q.pxCurrentTCB
             /\ r.uxPriority = q.uxPriority
             /\ r.container = q.container /\ r.event = q.event
             /\ r.uxSchedulerSuspended = q.uxSchedulerSuspended + 1
             /\ r.xYieldPending = q.xYieldPending
             /\ r.pendSV = q.pendSV
             /\ r.xTickCount = q.xTickCount
  BY DEF vTaskSuspendAll, KernelRecord

LEMMA StaysYields ==
  ASSUME IInv, NEW t \in Task, NEW w \in {"user", "deleted"}, At(t, w),
         k' = Yield(k), UNCHANGED <<tcb, control>>, UnchangedCounts
  PROVE  IInv'
<1>1. /\ k' \in KernelRecord /\ k'.pendSV
      /\ k'.pxCurrentTCB = current
      /\ k'.uxPriority = k.uxPriority
      /\ k'.container = k.container /\ k'.event = k.event
      /\ k'.uxSchedulerSuspended = k.uxSchedulerSuspended
  BY YieldIs DEF IInv, Typed, current
<1>2. Typed' /\ \A u \in Task : Quiet(u) BY <1>1 DEF IInv, Typed, Quiet, Moved
<1>3. Asked(k') BY <1>1 DEF Asked
<1> QED BY <1>1, <1>2, <1>3, InterruptKeeps

LEMMA LockStep ==
  ASSUME IInv, NEW t \in Task, Lock(t)
  PROVE  IInv'
<1> DEFINE c == [NoControl EXCEPT !.at = "locked"]
<1>1. /\ t = current /\ k.container[t] = "ready" /\ control[t].at = "user"
      /\ k.uxSchedulerSuspended = 0
  BY RunningIs DEF Lock
<1>2. /\ k' \in KernelRecord /\ k'.pxCurrentTCB = t
      /\ k'.uxPriority = k.uxPriority
      /\ k'.container = k.container /\ k'.event = k.event
      /\ k'.uxSchedulerSuspended = 1
      /\ k'.xYieldPending = k.xYieldPending /\ k'.pendSV = k.pendSV
  BY <1>1, SuspendAllIs DEF Lock, IInv, Typed, current
<1>3. c \in Control /\ control' = [control EXCEPT ![t] = c] /\ tcb' = tcb
  <2>1. c \in Control BY Idle \in Task DEF NoControl, Control
  <2> QED BY <2>1 DEF Lock, GoTo
<1>4. c.at = "locked" BY Idle \in Task DEF NoControl
<1>5. UnchangedCounts BY DEF Lock
<1> HIDE DEF c
<1>6. Typed' BY <1>2, <1>3 DEF IInv, Typed
<1>7. ReadyOrLeaving' BY <1>1, <1>2 DEF ReadyOrLeaving, current
<1> QED BY <1>1, <1>2, <1>3, <1>4, <1>5, <1>6, <1>7, OwnStep
     DEF Locking, IInv, ListsHonest, SuspensionOf

LEMMA CatchUpStep ==
  ASSUME IInv, NEW t \in Task, NEW n \in CatchUp, xTaskCatchUpTicks(t, n)
  PROVE  IInv'
<1> DEFINE c == [NoControl EXCEPT !.at = "catchUp", !.count = k.xPendedTicks + n]
<1>1. /\ t = current /\ k.container[t] = "ready" /\ control[t].at = "user"
      /\ k.uxSchedulerSuspended = 0
  BY RunningIs DEF xTaskCatchUpTicks
<1>2. /\ k' \in KernelRecord /\ k'.pxCurrentTCB = t
      /\ k'.uxPriority = k.uxPriority
      /\ k'.container = k.container /\ k'.event = k.event
      /\ k'.uxSchedulerSuspended = 1
      /\ k'.xYieldPending = k.xYieldPending /\ k'.pendSV = k.pendSV
  BY <1>1, SuspendAllIs DEF xTaskCatchUpTicks, IInv, Typed, current
<1>3. c \in Control /\ control' = [control EXCEPT ![t] = c] /\ tcb' = tcb
  <2>1. k.xPendedTicks + n \in Nat BY TaskControlAssumption DEF IInv, Typed, KernelRecord
  <2>2. c \in Control BY <2>1, Idle \in Task DEF NoControl, Control
  <2> QED BY <2>2 DEF xTaskCatchUpTicks
<1>4. c.at = "catchUp" BY Idle \in Task DEF NoControl
<1>5. UnchangedCounts BY DEF xTaskCatchUpTicks
<1> HIDE DEF c
<1>6. Typed' BY <1>2, <1>3 DEF IInv, Typed
<1>7. ReadyOrLeaving' BY <1>1, <1>2 DEF ReadyOrLeaving, current
<1> QED BY <1>1, <1>2, <1>3, <1>4, <1>5, <1>6, <1>7, OwnStep
     DEF Locking, IInv, ListsHonest, SuspensionOf

\* A call that locked the scheduler goes on to xTaskResumeAll.
LEMMA ToResumeStep ==
  ASSUME IInv, NEW t \in Task, Unlock(t) \/ CatchUpStore(t)
  PROVE  IInv'
<1> DEFINE c == [NoControl EXCEPT !.at = "resume"]
<1>1. t = current /\ control[t].at \in {"locked", "catchUp"}
  BY DEF Unlock, CatchUpStore, At, Running, current
<1>2. k.container[t] = "ready" /\ k.uxSchedulerSuspended = 1
  BY <1>1 DEF IInv, ReadyOrLeaving, SuspendedByCurrent, Locking
<1>3. /\ k' \in KernelRecord /\ k'.pxCurrentTCB = t
      /\ k'.uxPriority = k.uxPriority
      /\ k'.container = k.container /\ k'.event = k.event
      /\ k'.uxSchedulerSuspended = 1
      /\ k'.xYieldPending = k.xYieldPending /\ k'.pendSV = k.pendSV
  <2>1. CASE k' = k BY <1>1, <1>2, <2>1 DEF IInv, Typed, current
  <2>2. CASE k' = [k EXCEPT !.xPendedTicks = control[t].count]
    <3>1. control[t].count \in Nat BY DEF IInv, Typed, Control
    <3> QED BY <1>1, <1>2, <2>2, <3>1 DEF IInv, Typed, KernelRecord, current
  <2> QED BY <2>1, <2>2 DEF Unlock, CatchUpStore
<1>4. c \in Control /\ control' = [control EXCEPT ![t] = c] /\ tcb' = tcb
  <2>1. c \in Control BY Idle \in Task DEF NoControl, Control
  <2> QED BY <2>1 DEF Unlock, CatchUpStore, GoTo
<1>5. c.at = "resume" BY Idle \in Task DEF NoControl
<1>6. UnchangedCounts BY DEF Unlock, CatchUpStore
<1> HIDE DEF c
<1>7. Typed' BY <1>3, <1>4 DEF IInv, Typed
<1>8. ReadyOrLeaving' BY <1>2, <1>3 DEF ReadyOrLeaving, current
<1> QED BY <1>1, <1>3, <1>4, <1>5, <1>6, <1>7, <1>8, OwnStep
     DEF Locking, IInv, ListsHonest, SuspensionOf

\* xTaskResumeAll's and vTaskSuspend's ends, with the yield they may ask for.
LEMMA ReturnStep ==
  ASSUME IInv, NEW t \in Task, ResumeAllReturn(t) \/ AfterSuspend(t)
  PROVE  IInv'
<1> DEFINE c == [NoControl EXCEPT !.at = "user"]
<1>1. t = current /\ control[t].at \in {"ticks", "suspended"}
  BY DEF ResumeAllReturn, AfterSuspend, At, Running, current
<1>2. k.uxSchedulerSuspended = 0 BY <1>1 DEF IInv, SuspendedByCurrent, Locking
<1>3. /\ k' \in KernelRecord /\ k'.pxCurrentTCB = t
      /\ k'.uxPriority = k.uxPriority
      /\ k'.container = k.container /\ k'.event = k.event
      /\ k'.uxSchedulerSuspended = 0
      /\ k'.xYieldPending = k.xYieldPending /\ (k.pendSV => k'.pendSV)
      /\ k.container[t] = "ready" \/ k'.pendSV
  <2>1. CASE ResumeAllReturn(t)
    <3>1. k.xYieldPending \/ control[t].yield \in BOOLEAN
      BY DEF IInv, Typed, Control, KernelRecord
    <3>2. k' = YieldIf(k.xYieldPending \/ control[t].yield, k) BY <2>1 DEF ResumeAllReturn
    <3>3. k.container[t] = "ready" \/ control[t].yield
      BY <1>1, <2>1 DEF ResumeAllReturn, At, IInv, ReadyOrLeaving
    <3> QED BY <1>1, <1>2, <3>1, <3>2, <3>3, YieldIfIs DEF IInv, Typed, current
  <2>2. CASE AfterSuspend(t)
    <3> DEFINE q == prvResetNextTaskUnblockTime(k)
    <3>1. k' = YieldIf(control[t].other = t, q) BY <2>2 DEF AfterSuspend
    <3>2. k.container[t] = "ready" \/ control[t].other = t
      BY <1>1, <2>2 DEF AfterSuspend, At, IInv, ReadyOrLeaving
    <3>3. Calm(k, q) /\ q.xYieldPending = k.xYieldPending
          /\ q.container = k.container /\ q.event = k.event
      BY ResetIs DEF IInv, Typed
    <3> HIDE DEF q
    <3> QED BY <1>1, <1>2, <3>1, <3>2, <3>3, YieldIfIs DEF Calm, current
  <2> QED BY <2>1, <2>2
<1>4. c \in Control /\ control' = [control EXCEPT ![t] = c] /\ tcb' = tcb
  <2>1. c \in Control BY Idle \in Task DEF NoControl, Control
  <2> QED BY <2>1 DEF ResumeAllReturn, AfterSuspend, Return, GoTo
<1>5. c.at = "user" BY Idle \in Task DEF NoControl
<1>6. UnchangedCounts BY DEF ResumeAllReturn, AfterSuspend
<1> HIDE DEF c
<1>7. Typed' BY <1>3, <1>4 DEF IInv, Typed
<1>8. ReadyOrLeaving'
  <2>1. control'[t].at = "user" BY <1>4, <1>5 DEF IInv, Typed
  <2> QED BY <1>3, <2>1 DEF ReadyOrLeaving, current
<1> QED BY <1>1, <1>3, <1>4, <1>5, <1>6, <1>7, <1>8, OwnStep
     DEF Locking, IInv, ListsHonest, SuspensionOf

\* The second critical section of waiting for a notification.
LEMMA WaitEndsStep ==
  ASSUME IInv, NEW t \in Task, NEW b \in BOOLEAN,
         TakeNotification(t, b) \/ NotifyWaitReturns(t, b)
  PROVE  IInv'
<1> DEFINE c == [NoControl EXCEPT !.at = "user"]
<1>1. \E w \in {"user", "taken", "waited"} : At(t, w) /\ w # "user"
  BY DEF TakeNotification, NotifyWaitReturns
<1>2. /\ t = current /\ k.container[t] = "ready"
      /\ control[t].at \in {"taken", "waited"}
      /\ k.uxSchedulerSuspended = 0 /\ ~tcb[t].suspended
  BY <1>1, RunningIs
<1>3. c \in Control /\ control' = [control EXCEPT ![t] = c] /\ k' = k
  <2>1. c \in Control BY Idle \in Task DEF NoControl, Control
  <2> QED BY <2>1 DEF TakeNotification, NotifyWaitReturns, Return, GoTo
<1>4. c.at = "user" BY Idle \in Task DEF NoControl
<1>5. UnchangedCounts BY DEF TakeNotification, NotifyWaitReturns
<1> HIDE DEF c
<1>6. PICK v \in 0..ValueBound :
        tcb' = [tcb EXCEPT ![t].ulNotifiedValue = v,
                           ![t].ucNotifyState = "notWaiting"]
  <2>1. tcb[t].ulNotifiedValue \in 0..ValueBound BY DEF IInv, Typed, TCB
  <2>2. CASE TakeNotification(t, b)
    <3> DEFINE v == IF tcb[t].ulNotifiedValue = 0 \/ b THEN 0
                    ELSE tcb[t].ulNotifiedValue - 1
    <3>1. v \in 0..ValueBound BY <2>1, TaskControlAssumption
    <3>2. tcb' = [tcb EXCEPT ![t].ulNotifiedValue = v,
                             ![t].ucNotifyState = "notWaiting"]
      BY <2>2 DEF TakeNotification
    <3> QED BY <3>1, <3>2
  <2>3. CASE NotifyWaitReturns(t, b)
    <3> DEFINE v == IF tcb[t].ucNotifyState = "received" /\ b THEN 0
                    ELSE tcb[t].ulNotifiedValue
    <3>1. v \in 0..ValueBound BY <2>1, TaskControlAssumption
    <3>2. tcb' = [tcb EXCEPT ![t].ulNotifiedValue = v,
                             ![t].ucNotifyState = "notWaiting"]
      BY <2>3 DEF NotifyWaitReturns
    <3> QED BY <3>1, <3>2
  <2> QED BY <2>2, <2>3
<1>7. /\ tcb' \in [Task -> TCB]
      /\ \A u \in Task \ {t} : tcb'[u] = tcb[u]
      /\ tcb'[t].life = tcb[t].life /\ tcb'[t].suspended = tcb[t].suspended
  <2>1. tcb \in [Task -> TCB] /\ tcb[t] \in TCB BY DEF IInv, Typed
  <2>2. [tcb[t] EXCEPT !.ulNotifiedValue = v, !.ucNotifyState = "notWaiting"] \in TCB
    BY <2>1 DEF TCB
  <2>3. /\ tcb'[t] = [tcb[t] EXCEPT !.ulNotifiedValue = v,
                                    !.ucNotifyState = "notWaiting"]
        /\ tcb' \in [Task -> TCB] /\ \A u \in Task \ {t} : tcb'[u] = tcb[u]
    BY <1>6, <2>1, <2>2
  <2> QED BY <2>1, <2>3 DEF TCB
<1>8. Typed' BY <1>3, <1>7 DEF IInv, Typed
<1>9. ReadyOrLeaving' BY <1>2, <1>3 DEF ReadyOrLeaving, current
<1>10. k.pxCurrentTCB = t BY <1>2 DEF current
<1> QED BY <1>2, <1>3, <1>4, <1>5, <1>7, <1>8, <1>9, <1>10, OwnStep DEF Locking

LEMMA ReplayStep ==
  ASSUME IInv, NEW t \in Task, ReplayPendedTick(t)
  PROVE  IInv'
<1>1. Served(k, k') BY ReplayServed DEF ReplayPendedTick, IInv, Typed
<1> QED BY <1>1, ServedKeeps DEF ReplayPendedTick

LEMMA TickStep ==
  ASSUME IInv, xTaskIncrementTick
  PROVE  IInv'
<1>1. Served(k, k') BY TickServed DEF xTaskIncrementTick, IInv, Typed
<1> QED BY <1>1, ServedKeeps DEF xTaskIncrementTick

LEMMA EventStep ==
  ASSUME IInv, NEW l \in EventList, EventFromISR(l)
  PROVE  IInv'
<1>1. PICK head \in HeadOf(k, l) : k' = WakeAndYield(k, head) BY DEF EventFromISR
<1>2. head \in Task /\ k.event[head] # "none" BY <1>1 DEF HeadOf, Waiting
<1>3. Served(k, k') BY <1>1, <1>2, WakeServed DEF IInv, Typed
<1> QED BY <1>3, ServedKeeps DEF EventFromISR

LEMMA ResumeAllStep ==
  ASSUME IInv, NEW t \in Task, xTaskResumeAll(t)
  PROVE  IInv'
<1> DEFINE c == [control[t] EXCEPT !.at = "ticks"]
<1>1. t = current /\ control[t].at = "resume" /\ ~k.pendSV
  BY DEF xTaskResumeAll, At, Running, current
<1>2. k.uxSchedulerSuspended = 1 BY <1>1 DEF IInv, SuspendedByCurrent, Locking
<1>3. /\ k' \in KernelRecord /\ k'.pxCurrentTCB = t
      /\ k'.uxSchedulerSuspended = 0
      /\ \A u \in Task : Moved(k, k', u)
      /\ Asked(k')
  BY <1>1, <1>2, ReleaseIs DEF xTaskResumeAll, IInv, Typed, current
<1>4. /\ c \in Control /\ c.at = "ticks" /\ c.yield = control[t].yield
      /\ c.other = control[t].other
  BY DEF IInv, Typed, Control
<1>5. control' = [control EXCEPT ![t] = c] /\ tcb' = tcb /\ UnchangedCounts
  BY DEF xTaskResumeAll
<1> HIDE DEF c
<1>6. control'[t] = c /\ \A u \in Task \ {t} : control'[u] = control[u]
  BY <1>5 DEF IInv, Typed
<1>7. Typed' BY <1>3, <1>4, <1>5 DEF IInv, Typed
<1>8. SuspendedByCurrent'
  BY <1>1, <1>3, <1>4, <1>6 DEF IInv, SuspendedByCurrent, Locking, current
<1>9. ReadyOrLeaving'
  <2>1. k.container[t] = "ready" \/ control[t].yield BY <1>1 DEF IInv, ReadyOrLeaving
  <2>2. k.container[t] = "ready" => k'.container[t] = "ready" BY <1>3 DEF Moved
  <2> QED BY <1>3, <1>4, <1>6, <2>1, <2>2 DEF ReadyOrLeaving, current
<1>10. \A u \in Task \ {t} : Quiet(u) BY <1>3, <1>5, <1>6 DEF Quiet
<1>11. Quiet(t) \/ Placed(t)
  <2>1. LifeOf(t) /\ SuspensionOf(t) BY DEF IInv, LivesAccounted, ListsHonest
  <2>2. tcb[t].life = "created" BY <1>1, <2>1 DEF LifeOf, IInv, LivesAccounted, Typed, TCB
  <2>3. k'.container[t] \in StateList BY <1>3, <2>1, <2>2 DEF LifeOf, Moved, StateList
  <2>4. SuspensionOf(t)' BY <1>3, <1>5, <2>1 DEF SuspensionOf, Moved
  <2>5. NotificationOf(t)' BY <1>4, <1>6 DEF NotificationOf
  <2> QED BY <1>1, <1>4, <1>5, <1>6, <2>2, <2>3, <2>4, <2>5 DEF Placed, Created
<1>12. LivesAccounted' /\ ListsHonest' /\ Booked'
  BY <1>1, <1>3, <1>5, <1>7, <1>10, <1>11, ListsKept DEF IInv, LivesAccounted
<1> QED BY <1>3, <1>7, <1>8, <1>9, <1>12 DEF IInv

\* The switch: to a task that no ready one outranks, or put off while the
\* scheduler is suspended.
LEMMA SwitchStep ==
  ASSUME IInv, SwitchContext
  PROVE  IInv'
<1>1. PICK next \in Runnable(k) : k' = vTaskSwitchContext(k, next) BY DEF SwitchContext
<1>2. /\ next \in Task /\ k.container[next] = "ready"
      /\ \A u \in Task : k.container[u] = "ready" =>
                           k.uxPriority[u] <= k.uxPriority[next]
  BY DEF Runnable, Ready
<1>3. control[current].at # "ticks" BY DEF SwitchContext, Masked, current
<1>4. UNCHANGED <<tcb, control>> /\ UnchangedCounts BY DEF SwitchContext
<1>5. CASE k.uxSchedulerSuspended # 0
  <2>1. /\ k' \in KernelRecord /\ k'.pxCurrentTCB = current
        /\ k'.container = k.container /\ k'.event = k.event
        /\ k'.uxPriority = k.uxPriority
        /\ k'.uxSchedulerSuspended = k.uxSchedulerSuspended
        /\ k'.xYieldPending
    BY <1>1, <1>5 DEF vTaskSwitchContext, IInv, Typed, KernelRecord, current
  <2>2. Typed' /\ Asked(k') /\ \A u \in Task : Quiet(u)
    BY <1>4, <2>1 DEF IInv, Typed, Asked, Quiet, Moved
  <2>3. LivesAccounted' /\ ListsHonest' /\ Booked'
    BY <1>4, <2>1, <2>2, ListsKept DEF IInv, LivesAccounted
  <2>4. SuspendedByCurrent' /\ ReadyOrLeaving'
    <3>1. control[current].at \in Locking BY <1>5 DEF IInv, SuspendedByCurrent
    <3> QED BY <1>4, <2>1, <3>1
         DEF IInv, SuspendedByCurrent, ReadyOrLeaving, current, Locking
  <2> QED BY <2>2, <2>3, <2>4 DEF IInv
<1>6. CASE k.uxSchedulerSuspended = 0
  <2>1. /\ k' \in KernelRecord /\ k'.pxCurrentTCB = next
        /\ k'.container = k.container /\ k'.event = k.event
        /\ k'.uxPriority = k.uxPriority /\ k'.uxSchedulerSuspended = 0
    BY <1>1, <1>2, <1>6 DEF vTaskSwitchContext, IInv, Typed, KernelRecord
  <2>2. Typed' /\ Asked(k') /\ \A u \in Task : Quiet(u)
    BY <1>2, <1>4, <2>1 DEF IInv, Typed, Asked, Quiet, Moved
  <2>3. tcb[next].life # "free" BY <1>2 DEF IInv, LivesAccounted, LifeOf, StateList
  <2>4. LivesAccounted' /\ ListsHonest' /\ Booked' BY <1>4, <2>1, <2>2, <2>3, ListsKept
  <2>5. \A u \in Task : control[u].at \notin Locking \cup {"ticks"}
    BY <1>3, <1>6 DEF IInv, SuspendedByCurrent
  <2>6. SuspendedByCurrent' /\ ReadyOrLeaving'
    BY <1>2, <1>4, <2>1, <2>5 DEF SuspendedByCurrent, ReadyOrLeaving, current
  <2> QED BY <2>2, <2>4, <2>6 DEF IInv
<1> QED BY <1>5, <1>6

--------------------
\* Steps by which the running task blocks.

LEMMA PlaceIs ==
  ASSUME NEW q \in KernelRecord, NEW ticks \in Tick, NEW b \in BOOLEAN
  PROVE  LET r == prvAddCurrentTaskToDelayedList(q, ticks, b)
         IN  /\ r \in KernelRecord
             /\ r.pxCurrentTCB = q.pxCurrentTCB
             /\ r.uxPriority = q.uxPriority /\ r.event = q.event
             /\ r.uxSchedulerSuspended = q.uxSchedulerSuspended
             /\ r.xYieldPending = q.xYieldPending /\ r.pendSV = q.pendSV
             /\ r.container[q.pxCurrentTCB] \in {"suspended", "overflow", "delayed"}
             /\ \A t \in Task \ {q.pxCurrentTCB} : r.container[t] = q.container[t]
<1> DEFINE me == q.pxCurrentTCB
           wake == (q.xTickCount + ticks) % TickMod
           r == prvAddCurrentTaskToDelayedList(q, ticks, b)
<1>1. wake \in Tick BY TickModulo DEF KernelRecord, Tick
<1>2. \/ r = [q EXCEPT !.container[me] = "suspended"]
      \/ r = [q EXCEPT !.container[me] = "overflow", !.xItemValue[me] = wake]
      \/ r = [q EXCEPT !.container[me] = "delayed", !.xItemValue[me] = wake,
                       !.xNextTaskUnblockTime = IF wake < @ THEN wake ELSE @]
  BY Zenon DEF prvAddCurrentTaskToDelayedList
<1> HIDE DEF r, wake
<1>3. PICK l \in {"suspended", "overflow", "delayed"}, x \in [Task -> Tick],
           n \in Tick :
        r = Updated(q, [q.container EXCEPT ![me] = l], q.event, x, n,
                    q.xYieldPending)
  <2> DEFINE x == [q.xItemValue EXCEPT ![me] = wake]
             n == IF wake < q.xNextTaskUnblockTime THEN wake
                  ELSE q.xNextTaskUnblockTime
  <2>1. x \in [Task -> Tick] /\ n \in Tick BY <1>1 DEF KernelRecord
  <2>2. q.xItemValue \in [Task -> Tick] /\ q.xNextTaskUnblockTime \in Tick
    BY DEF KernelRecord
  <2>3. CASE r = [q EXCEPT !.container[me] = "suspended"]
    <3>1. r = Updated(q, [q.container EXCEPT ![me] = "suspended"], q.event,
                      q.xItemValue, q.xNextTaskUnblockTime, q.xYieldPending)
      BY <2>3 DEF KernelRecord, Updated
    <3> QED BY <2>2, <3>1
  <2>4. CASE r = [q EXCEPT !.container[me] = "overflow", !.xItemValue[me] = wake]
    <3>1. r = Updated(q, [q.container EXCEPT ![me] = "overflow"], q.event,
                      x, q.xNextTaskUnblockTime, q.xYieldPending)
      BY <2>4 DEF KernelRecord, Updated
    <3> HIDE DEF x
    <3> QED BY <2>1, <2>2, <3>1
  <2>5. CASE r = [q EXCEPT !.container[me] = "delayed", !.xItemValue[me] = wake,
                           !.xNextTaskUnblockTime = IF wake < @ THEN wake ELSE @]
    <3>1. r = Updated(q, [q.container EXCEPT ![me] = "delayed"], q.event,
                      x, n, q.xYieldPending)
      BY <2>5 DEF KernelRecord, Updated
    <3> HIDE DEF x, n
    <3> QED BY <2>1, <2>2, <3>1
  <2> QED BY <1>2, <2>3, <2>4, <2>5
<1> DEFINE c == [q.container EXCEPT ![me] = l]
<1>4. /\ c \in [Task -> Container]
      /\ q.event \in [Task -> EventList \cup {"none", "pending"}]
      /\ q.xYieldPending \in BOOLEAN
  BY DEF KernelRecord, Container, StateList
<1>5. c[me] = l /\ \A t \in Task \ {me} : c[t] = q.container[t] BY DEF KernelRecord
<1>6. r = Updated(q, c, q.event, x, n, q.xYieldPending) BY <1>3
<1> HIDE DEF c
<1>7. /\ r \in KernelRecord /\ r.container = c /\ r.event = q.event
      /\ r.xYieldPending = q.xYieldPending /\ r.pxCurrentTCB = me
      /\ r.uxPriority = q.uxPriority /\ r.pendSV = q.pendSV
      /\ r.uxSchedulerSuspended = q.uxSchedulerSuspended
  <2> DEFINE u == Updated(q, c, q.event, x, n, q.xYieldPending)
  <2>1. /\ u \in KernelRecord /\ u.container = c /\ u.event = q.event
        /\ u.xYieldPending = q.xYieldPending /\ u.pxCurrentTCB = me
        /\ u.uxPriority = q.uxPriority /\ u.pendSV = q.pendSV
        /\ u.uxSchedulerSuspended = q.uxSchedulerSuspended
    BY <1>4, Update
  <2> HIDE DEF u
  <2> QED BY <1>6, <2>1 DEF u
<1> QED BY <1>5, <1>7 DEF r

\* A call that blocks the running task with the scheduler suspended.
LEMMA BlockKeeps ==
  ASSUME IInv, NEW t \in Task, NEW r \in KernelRecord, Block(t, r),
         r.pxCurrentTCB = current, r.uxPriority = k.uxPriority,
         r.uxSchedulerSuspended = 1,
         r.xYieldPending = k.xYieldPending, r.pendSV = k.pendSV,
         r.container[current] \in StateList,
         \A u \in Task \ {current} : r.container[u] = k.container[u]
                                     /\ r.event[u] = k.event[u]
  PROVE  IInv'
<1> DEFINE c == [NoControl EXCEPT !.at = "resume", !.yield = TRUE]
<1>1. /\ t = current /\ control[t].at = "user" /\ k.container[t] = "ready"
      /\ tcb[t].life = "created" /\ ~tcb[t].suspended
  BY RunningIs DEF Block
<1>2. c \in Control /\ c.at = "resume" /\ c.yield BY Idle \in Task DEF NoControl, Control
<1>3. control' = [control EXCEPT ![t] = c] /\ tcb' = tcb /\ k' = r /\ UnchangedCounts
  BY DEF Block
<1> HIDE DEF c
<1>4. control'[t] = c /\ \A u \in Task \ {t} : control'[u] = control[u]
  BY <1>3 DEF IInv, Typed
<1>5. Typed' BY <1>2, <1>3 DEF IInv, Typed
<1>6. SuspendedByCurrent'
  BY <1>1, <1>2, <1>3, <1>4 DEF IInv, SuspendedByCurrent, Locking, current
<1>7. ReadyOrLeaving' BY <1>1, <1>2, <1>3, <1>4 DEF ReadyOrLeaving, current
<1>8. Asked(k') BY <1>1, <1>3 DEF IInv, Asked, current
<1>9. \A u \in Task \ {t} : Quiet(u) BY <1>1, <1>3, <1>4 DEF Quiet, Moved
<1>10. Placed(t) BY <1>1, <1>2, <1>3, <1>4
     DEF Placed, Created, SuspensionOf, NotificationOf, current
<1>11. LivesAccounted' /\ ListsHonest' /\ Booked'
  BY <1>1, <1>3, <1>5, <1>9, <1>10, ListsKept DEF IInv, LivesAccounted
<1> QED BY <1>5, <1>6, <1>7, <1>8, <1>11 DEF IInv

LEMMA DelayedInLock ==
  ASSUME IInv, NEW t \in Task, NEW ticks \in Tick,
         Block(t, prvAddCurrentTaskToDelayedList(vTaskSuspendAll(k), ticks, FALSE))
  PROVE  IInv'
<1> DEFINE q == vTaskSuspendAll(k)
           r == prvAddCurrentTaskToDelayedList(q, ticks, FALSE)
<1>1. k.uxSchedulerSuspended = 0 /\ k.pxCurrentTCB = current
  BY RunningIs DEF Block, current
<1>2. /\ q \in KernelRecord /\ q.pxCurrentTCB = current
      /\ q.uxPriority = k.uxPriority
      /\ q.container = k.container /\ q.event = k.event
      /\ q.uxSchedulerSuspended = 1
      /\ q.xYieldPending = k.xYieldPending /\ q.pendSV = k.pendSV
  BY <1>1, SuspendAllIs DEF IInv, Typed
<1> HIDE DEF q
<1>3. /\ r \in KernelRecord /\ r.pxCurrentTCB = current
      /\ r.uxPriority = q.uxPriority /\ r.event = q.event
      /\ r.uxSchedulerSuspended = q.uxSchedulerSuspended
      /\ r.xYieldPending = q.xYieldPending /\ r.pendSV = q.pendSV
      /\ r.container[current] \in {"suspended", "overflow", "delayed"}
      /\ \A u \in Task \ {current} : r.container[u] = q.container[u]
  BY <1>2, PlaceIs
<1>4. Block(t, r) BY DEF q
<1> HIDE DEF r
<1> QED BY <1>2, <1>3, <1>4, BlockKeeps DEF StateList

LEMMA DelayStep ==
  ASSUME IInv, NEW t \in Task, NEW ticks \in Delays, vTaskDelay(t, ticks)
  PROVE  IInv'
<1>1. ticks \in Tick BY TaskControlAssumption
<1>2. CASE ticks > 0 BY <1>1, <1>2, DelayedInLock DEF vTaskDelay
<1>3. CASE ~(ticks > 0)
  <2>1. /\ At(t, "user") /\ k' = Yield(k)
        /\ UNCHANGED <<tcb, control>> /\ UnchangedCounts
    BY <1>3 DEF vTaskDelay
  <2> QED BY <2>1, StaysYields
<1> QED BY <1>2, <1>3

LEMMA DelayUntilStep ==
  ASSUME IInv, NEW t \in Task, NEW previous \in Tick, NEW increment \in Increments,
         vTaskDelayUntil(t, previous, increment)
  PROVE  IInv'
<1> DEFINE wake == (previous + increment) % TickMod
           ticks == (wake + TickMod - k.xTickCount) % TickMod
<1>1. wake \in Tick BY TickModulo, TaskControlAssumption DEF Tick
<1>2. ticks \in Tick
  <2>1. wake + TickMod - k.xTickCount \in Nat
    <3>1. k.xTickCount \in Tick BY DEF IInv, Typed, KernelRecord
    <3> HIDE DEF wake
    <3> QED BY <1>1, <3>1 DEF Tick
  <2> HIDE DEF wake
  <2> QED BY <2>1, TickModulo
<1>3. CASE ShouldDelay(previous, increment, k.xTickCount)
  <2>1. Block(t, prvAddCurrentTaskToDelayedList(vTaskSuspendAll(k), ticks, FALSE))
    BY <1>3 DEF vTaskDelayUntil
  <2> HIDE DEF ticks
  <2> QED BY <1>2, <2>1, DelayedInLock
<1>4. CASE ~ShouldDelay(previous, increment, k.xTickCount)
  <2> DEFINE r == vTaskSuspendAll(k)
  <2>1. Block(t, r) BY <1>4 DEF vTaskDelayUntil
  <2>2. /\ k.uxSchedulerSuspended = 0 /\ k.pxCurrentTCB = current
        /\ k.container[current] = "ready"
    BY <2>1, RunningIs DEF Block, current
  <2>3. /\ r \in KernelRecord /\ r.pxCurrentTCB = current
        /\ r.uxPriority = k.uxPriority
        /\ r.container = k.container /\ r.event = k.event
        /\ r.uxSchedulerSuspended = 1
        /\ r.xYieldPending = k.xYieldPending /\ r.pendSV = k.pendSV
    BY <2>2, SuspendAllIs DEF IInv, Typed
  <2> HIDE DEF r
  <2> QED BY <2>1, <2>2, <2>3, BlockKeeps DEF StateList
<1> QED BY <1>3, <1>4

LEMMA BlockOnEventStep ==
  ASSUME IInv, NEW t \in Task, NEW l \in EventList, NEW ticks \in Delays,
         BlockOnEvent(t, l, ticks)
  PROVE  IInv'
<1> DEFINE p == vTaskSuspendAll(k)
           q == [p EXCEPT !.event[p.pxCurrentTCB] = l]
           r == prvAddCurrentTaskToDelayedList(q, ticks, TRUE)
<1>1. Block(t, r) BY DEF BlockOnEvent, vTaskPlaceOnEventList
<1>2. k.uxSchedulerSuspended = 0 /\ k.pxCurrentTCB = current
  BY <1>1, RunningIs DEF Block, current
<1>3. /\ p \in KernelRecord /\ p.pxCurrentTCB = current
      /\ p.uxPriority = k.uxPriority
      /\ p.container = k.container /\ p.event = k.event
      /\ p.uxSchedulerSuspended = 1
      /\ p.xYieldPending = k.xYieldPending /\ p.pendSV = k.pendSV
  BY <1>2, SuspendAllIs DEF IInv, Typed
<1> HIDE DEF p
<1>4. /\ q \in KernelRecord /\ q.pxCurrentTCB = current
      /\ q.uxPriority = k.uxPriority /\ q.container = k.container
      /\ \A u \in Task \ {current} : q.event[u] = k.event[u]
      /\ q.uxSchedulerSuspended = 1
      /\ q.xYieldPending = k.xYieldPending /\ q.pendSV = k.pendSV
  BY <1>3 DEF KernelRecord
<1> HIDE DEF q
<1>5. ticks \in Tick BY TaskControlAssumption
<1>6. /\ r \in KernelRecord /\ r.pxCurrentTCB = current
      /\ r.uxPriority = q.uxPriority /\ r.event = q.event
      /\ r.uxSchedulerSuspended = q.uxSchedulerSuspended
      /\ r.xYieldPending = q.xYieldPending /\ r.pendSV = q.pendSV
      /\ r.container[current] \in {"suspended", "overflow", "delayed"}
      /\ \A u \in Task \ {current} : r.container[u] = q.container[u]
  BY <1>4, <1>5, PlaceIs
<1> HIDE DEF r
<1> QED BY <1>1, <1>4, <1>6, BlockKeeps DEF StateList

\* The first critical section of waiting for a notification: the task goes on
\* or, not notified yet, is blocked.
LEMMA WaitKeeps ==
  ASSUME IInv, NEW t \in Task, At(t, "user"), NEW w \in {"taken", "waited"},
         NEW ticks \in Tick, GoTo(t, w), UnchangedCounts,
         tcb' \in [Task -> TCB], \A u \in Task \ {t} : tcb'[u] = tcb[u],
         tcb'[t].life = tcb[t].life, tcb'[t].suspended = tcb[t].suspended,
         \/ k' = k
         \/ /\ k' = Yield(prvAddCurrentTaskToDelayedList(k, ticks, TRUE))
            /\ tcb'[t].ucNotifyState = "waiting"
  PROVE  IInv'
<1> DEFINE c == [NoControl EXCEPT !.at = w]
<1>1. /\ t = current /\ control[t].at = "user" /\ k.container[t] = "ready"
      /\ tcb[t].life = "created" /\ ~tcb[t].suspended
      /\ k.uxSchedulerSuspended = 0
  BY RunningIs
<1>2. c \in Control /\ c.at = w BY Idle \in Task DEF NoControl, Control
<1>3. control' = [control EXCEPT ![t] = c] BY DEF GoTo
<1> HIDE DEF c
<1>4. control'[t] = c /\ \A u \in Task \ {t} : control'[u] = control[u]
  BY <1>3 DEF IInv, Typed
<1>5. CASE k' = k
  <2>1. Typed' BY <1>2, <1>3, <1>5 DEF IInv, Typed
  <2>2. ReadyOrLeaving' BY <1>1, <1>5 DEF ReadyOrLeaving, current
  <2>3. k.pxCurrentTCB = t BY <1>1 DEF current
  <2> QED BY <1>1, <1>2, <1>3, <1>5, <2>1, <2>2, <2>3, OwnStep DEF Locking
<1>6. CASE /\ k' = Yield(prvAddCurrentTaskToDelayedList(k, ticks, TRUE))
           /\ tcb'[t].ucNotifyState = "waiting"
  <2> DEFINE r == prvAddCurrentTaskToDelayedList(k, ticks, TRUE)
  <2>1. /\ r \in KernelRecord /\ r.pxCurrentTCB = t /\ r.event = k.event
        /\ r.uxSchedulerSuspended = 0
        /\ r.container[t] \in {"suspended", "overflow", "delayed"}
        /\ \A u \in Task \ {t} : r.container[u] = k.container[u]
    BY <1>1, PlaceIs DEF IInv, Typed, current
  <2> HIDE DEF r
  <2>2. /\ k' \in KernelRecord /\ k'.pendSV /\ k'.pxCurrentTCB = t
        /\ k'.container = r.container /\ k'.event = k.event
        /\ k'.uxSchedulerSuspended = 0
    BY <1>6, <2>1, YieldIs DEF r
  <2>3. Typed' BY <1>2, <1>3, <2>2 DEF IInv, Typed
  <2>4. SuspendedByCurrent'
    BY <1>1, <1>2, <1>4, <2>2 DEF IInv, SuspendedByCurrent, Locking, current
  <2>5. ReadyOrLeaving' /\ Asked(k')
    BY <1>2, <1>4, <2>2 DEF ReadyOrLeaving, Asked, current
  <2>6. \A u \in Task \ {t} : Quiet(u) BY <1>4, <2>1, <2>2 DEF Quiet, Moved
  <2>7. Placed(t) BY <1>1, <1>2, <1>4, <1>6, <2>1, <2>2
       DEF Placed, Created, SuspensionOf, NotificationOf, StateList
  <2>8. LivesAccounted' /\ ListsHonest' /\ Booked'
    BY <1>1, <2>2, <2>3, <2>6, <2>7, ListsKept
  <2> QED BY <2>3, <2>4, <2>5, <2>8 DEF IInv
<1> QED BY <1>5, <1>6

LEMMA NotifyTakeStep ==
  ASSUME IInv, NEW t \in Task, NEW ticks \in Delays, ulTaskNotifyTake(t, ticks)
  PROVE  IInv'
<1> DEFINE waits == tcb[t].ulNotifiedValue = 0
           s == IF waits THEN "waiting" ELSE tcb[t].ucNotifyState
<1>1. tcb' = [tcb EXCEPT ![t].ucNotifyState = s] BY DEF ulTaskNotifyTake
<1>2. s \in {"notWaiting", "waiting", "received"} /\ (waits => s = "waiting")
  BY DEF IInv, Typed, TCB
<1>3. \/ k' = k
      \/ waits /\ k' = Yield(prvAddCurrentTaskToDelayedList(k, ticks, TRUE))
  BY DEF ulTaskNotifyTake
<1> HIDE DEF waits, s
<1>4. /\ tcb' \in [Task -> TCB] /\ \A u \in Task \ {t} : tcb'[u] = tcb[u]
      /\ tcb'[t].life = tcb[t].life /\ tcb'[t].suspended = tcb[t].suspended
      /\ tcb'[t].ucNotifyState = s
  BY <1>1, <1>2 DEF IInv, Typed, TCB
<1>5. At(t, "user") /\ GoTo(t, "taken") /\ UnchangedCounts /\ ticks \in Tick
  BY TaskControlAssumption DEF ulTaskNotifyTake
<1> QED BY <1>2, <1>3, <1>4, <1>5, WaitKeeps

LEMMA NotifyWaitStep ==
  ASSUME IInv, NEW t \in Task, NEW ticks \in Delays, NEW clear \in BOOLEAN,
         xTaskNotifyWait(t, ticks, clear)
  PROVE  IInv'
<1> DEFINE waits == tcb[t].ucNotifyState # "received"
           s == IF waits THEN "waiting" ELSE tcb[t].ucNotifyState
           v == IF waits /\ clear THEN 0 ELSE tcb[t].ulNotifiedValue
<1>1. tcb' = [tcb EXCEPT ![t].ulNotifiedValue = v, ![t].ucNotifyState = s]
  BY DEF xTaskNotifyWait
<1>2. s \in {"notWaiting", "waiting", "received"} /\ (waits => s = "waiting")
      /\ v \in 0..ValueBound
  BY TaskControlAssumption DEF IInv, Typed, TCB
<1>3. \/ k' = k
      \/ waits /\ k' = Yield(prvAddCurrentTaskToDelayedList(k, ticks, TRUE))
  BY DEF xTaskNotifyWait
<1> HIDE DEF waits, s, v
<1>4. /\ tcb' \in [Task -> TCB] /\ \A u \in Task \ {t} : tcb'[u] = tcb[u]
      /\ tcb'[t].life = tcb[t].life /\ tcb'[t].suspended = tcb[t].suspended
      /\ tcb'[t].ucNotifyState = s
  BY <1>1, <1>2 DEF IInv, Typed, TCB
<1>5. At(t, "user") /\ GoTo(t, "waited") /\ UnchangedCounts /\ ticks \in Tick
  BY TaskControlAssumption DEF xTaskNotifyWait
<1> QED BY <1>2, <1>3, <1>4, <1>5, WaitKeeps

--------------------
\* Notifying, resuming and suspending another task.

LEMMA NotifiedIs ==
  ASSUME IInv, NEW u \in Task, NEW action \in eAction, MayNotify(u, action),
         tcb' = [tcb EXCEPT ![u] = Notified(u, action)]
  PROVE  /\ tcb' \in [Task -> TCB] /\ \A v \in Task \ {u} : tcb'[v] = tcb[v]
         /\ tcb'[u].life = "created" /\ tcb'[u].suspended = tcb[u].suspended
         /\ tcb'[u].ucNotifyState = "received"
<1> DEFINE n == CASE action = "eIncrement" -> tcb[u].ulNotifiedValue + 1
                  [] action = "eSetValueWithOverwrite" -> 1
                  [] action = "eSetValueWithoutOverwrite" ->
                       (IF tcb[u].ucNotifyState # "received" THEN 1
                        ELSE tcb[u].ulNotifiedValue)
                  [] action = "eNoAction" -> tcb[u].ulNotifiedValue
<1>1. /\ tcb[u].ulNotifiedValue \in 0..ValueBound
      /\ action = "eIncrement" => tcb[u].ulNotifiedValue < ValueBound
      /\ tcb[u] \in TCB /\ tcb[u].life = "created"
  BY DEF IInv, Typed, TCB, MayNotify, Created
<1>2. n \in 0..ValueBound BY <1>1, TaskControlAssumption DEF eAction
<1>3. Notified(u, action) = [tcb[u] EXCEPT !.ucNotifyState = "received",
                                           !.ulNotifiedValue = n]
  BY DEF Notified
<1> HIDE DEF n
<1>4. /\ Notified(u, action) \in TCB /\ Notified(u, action).life = "created"
      /\ Notified(u, action).suspended = tcb[u].suspended
      /\ Notified(u, action).ucNotifyState = "received"
  BY <1>1, <1>2, <1>3 DEF TCB
<1> QED BY <1>4 DEF IInv, Typed

\* A task that a step readies, or leaves on its list as pending ready, is on a
\* list where it belongs.
LEMMA WokenPlaced ==
  ASSUME IInv, NEW u \in Task, Created(u), tcb'[u].life = "created",
         control' = control, ~tcb'[u].suspended,
         \/ k'.container[u] = "ready"
         \/ k'.container[u] = k.container[u] /\ k'.event[u] = "pending"
  PROVE  Placed(u)
<1>1. LifeOf(u) BY DEF IInv, LivesAccounted
<1>2. k'.container[u] \in StateList BY <1>1 DEF LifeOf, Created, StateList
<1> QED
  <2>1. SuspensionOf(u)' BY Zenon DEF SuspensionOf
  <2>2. NotificationOf(u)' BY DEF NotificationOf
  <2> QED BY <1>2, <2>1, <2>2, Zenon DEF Placed

LEMMA WokenKeeps ==
  ASSUME IInv, NEW u \in Task, Created(u), UnchangedCounts, control' = control,
         tcb' \in [Task -> TCB], \A v \in Task \ {u} : tcb'[v] = tcb[v],
         tcb'[u].life = "created", ~tcb'[u].suspended,
         k' \in KernelRecord, k'.pxCurrentTCB = current,
         k'.uxPriority = k.uxPriority,
         k'.uxSchedulerSuspended = k.uxSchedulerSuspended,
         k.pendSV => k'.pendSV,
         k.xYieldPending => k'.pendSV \/ k'.xYieldPending,
         \A v \in Task \ {u} : k'.container[v] = k.container[v]
                               /\ k'.event[v] = k.event[v],
         \/ k'.container[u] = "ready"
         \/ k'.container[u] = k.container[u] /\ k'.event[u] = "pending",
         Outranks(k, u) /\ k'.container[u] = "ready" /\ k.container[u] # "ready"
           => k'.pendSV \/ k'.xYieldPending
  PROVE  IInv'
<1>1. Typed' BY DEF IInv, Typed
<1>2. \A v \in Task \ {u} : Quiet(v) BY DEF Quiet, Moved
<1>3. Placed(u) BY WokenPlaced
<1>4. Asked(k')
  <2>1. /\ k.uxPriority[u] \in Int /\ k.uxPriority[current] \in Int
        /\ current = k.pxCurrentTCB
    BY DEF IInv, Typed, KernelRecord, Priority, current
  <2>2. Outranks(k, u) \/ k.uxPriority[u] <= k.uxPriority[current] BY <2>1 DEF Outranks
  <2> QED BY <2>1, <2>2 DEF IInv, Asked
<1>5. k.container[current] = "ready" => k'.container[current] = "ready"
  BY DEF IInv, Typed, KernelRecord, current
<1> QED BY <1>1, <1>2, <1>3, <1>4, <1>5, InterruptKeeps

\* The TCB of a task changes, and nothing else.
LEMMA TCBKeeps ==
  ASSUME IInv, NEW u \in Task, Created(u), UNCHANGED <<k, control>>, UnchangedCounts,
         tcb' \in [Task -> TCB], \A v \in Task \ {u} : tcb'[v] = tcb[v],
         tcb'[u].life = "created", tcb'[u].suspended = tcb[u].suspended,
         tcb'[u].ucNotifyState = tcb[u].ucNotifyState
           \/ "waiting" \notin {tcb[u].ucNotifyState, tcb'[u].ucNotifyState}
  PROVE  IInv'
<1>1. Typed' BY DEF IInv, Typed
<1>2. \A v \in Task \ {u} : Quiet(v) BY DEF Quiet, Moved
<1>3. Placed(u)
  <2>1. LifeOf(u) /\ SuspensionOf(u) /\ NotificationOf(u)
    BY DEF IInv, LivesAccounted, ListsHonest
  <2>2. k'.container[u] \in StateList BY <2>1 DEF LifeOf, Created
  <2>3. SuspensionOf(u)' /\ NotificationOf(u)' BY <2>1 DEF SuspensionOf, NotificationOf
  <2> QED BY <2>2, <2>3 DEF Placed
<1>4. Asked(k') /\ k'.pxCurrentTCB = current BY DEF IInv, current
<1> QED BY <1>1, <1>2, <1>3, <1>4, InterruptKeeps

LEMMA ReadyIs ==
  ASSUME NEW q \in KernelRecord, NEW u \in Task
  PROVE  LET r == AddToReady(q, u)
         IN  /\ Calm(q, r)
             /\ r.xYieldPending = q.xYieldPending
             /\ r.container[u] = "ready" /\ r.event = q.event
             /\ \A v \in Task \ {u} : r.container[v] = q.container[v]
  BY DEF AddToReady, Calm, KernelRecord, Container, StateList

LEMMA ReadyFromISRIs ==
  ASSUME IInv, NEW u \in Task
  PROVE  LET r == ReadyFromISR(u)
         IN  /\ Calm(k, r)
             /\ r.xYieldPending = k.xYieldPending
             /\ \/ k.uxSchedulerSuspended = 0 /\ r.container[u] = "ready"
                \/ /\ k.uxSchedulerSuspended # 0
                   /\ r.container[u] = k.container[u] /\ r.event[u] = "pending"
             /\ \A v \in Task \ {u} : /\ r.container[v] = k.container[v]
                                      /\ r.event[v] = k.event[v]
<1>1. k \in KernelRecord BY DEF IInv, Typed
<1>2. CASE k.uxSchedulerSuspended = 0
  <2>1. ReadyFromISR(u) = AddToReady(k, u) BY <1>2 DEF ReadyFromISR
  <2> QED BY <1>1, <1>2, <2>1, ReadyIs
<1>3. CASE k.uxSchedulerSuspended # 0
  <2>1. ReadyFromISR(u) = [k EXCEPT !.event[u] = "pending"] BY <1>3 DEF ReadyFromISR
  <2> QED BY <1>1, <1>3, <2>1 DEF Calm, KernelRecord
<1> QED BY <1>2, <1>3

LEMMA NotifyStep ==
  ASSUME IInv, NEW t \in Task, NEW u \in Task, NEW action \in eAction,
         xTaskGenericNotify(t, u, action)
  PROVE  IInv'
<1>1. /\ MayNotify(u, action) /\ Created(u)
      /\ tcb' = [tcb EXCEPT ![u] = Notified(u, action)]
      /\ control' = control /\ UnchangedCounts
  BY DEF xTaskGenericNotify, MayNotify
<1>2. /\ tcb' \in [Task -> TCB] /\ \A v \in Task \ {u} : tcb'[v] = tcb[v]
      /\ tcb'[u].life = "created" /\ tcb'[u].suspended = tcb[u].suspended
      /\ tcb'[u].ucNotifyState = "received"
  BY <1>1, NotifiedIs
<1>3. CASE ~Wakes(u)
  <2>1. k' = k /\ tcb[u].ucNotifyState # "waiting" BY <1>3 DEF xTaskGenericNotify, Wakes
  <2> QED BY <1>1, <1>2, <2>1, TCBKeeps
<1>4. CASE Wakes(u)
  <2> DEFINE q == AddToReady(k, u)
  <2>1. k' = YieldIf(Outranks(k, u), q) /\ Outranks(k, u) \in BOOLEAN
    BY <1>4 DEF xTaskGenericNotify, Outranks
  <2>2. /\ Calm(k, q) /\ q.xYieldPending = k.xYieldPending
        /\ q.container[u] = "ready" /\ q.event = k.event
        /\ \A v \in Task \ {u} : q.container[v] = k.container[v]
    BY ReadyIs DEF IInv, Typed
  <2> HIDE DEF q
  <2>3. /\ k' \in KernelRecord /\ k'.pxCurrentTCB = current
        /\ k'.uxPriority = k.uxPriority
        /\ k'.container = q.container /\ k'.event = k.event
        /\ k'.uxSchedulerSuspended = k.uxSchedulerSuspended
        /\ k'.xYieldPending = k.xYieldPending
        /\ k.pendSV \/ Outranks(k, u) => k'.pendSV
    BY <2>1, <2>2, YieldIfIs DEF Calm, current
  <2>4. ~tcb'[u].suspended BY <1>2, <1>4 DEF Wakes, IInv, ListsHonest, SuspensionOf
  <2> QED BY <1>1, <1>2, <2>2, <2>3, <2>4, WokenKeeps
<1> QED BY <1>3, <1>4

LEMMA NotifyFromISRStep ==
  ASSUME IInv, NEW u \in Task, NEW action \in eAction, NotifyFromISR(u, action)
  PROVE  IInv'
<1>1. /\ MayNotify(u, action) /\ Created(u)
      /\ tcb' = [tcb EXCEPT ![u] = Notified(u, action)]
      /\ control' = control /\ UnchangedCounts
  BY DEF NotifyFromISR, MayNotify
<1>2. /\ tcb' \in [Task -> TCB] /\ \A v \in Task \ {u} : tcb'[v] = tcb[v]
      /\ tcb'[u].life = "created" /\ tcb'[u].suspended = tcb[u].suspended
      /\ tcb'[u].ucNotifyState = "received"
  BY <1>1, NotifiedIs
<1>3. CASE ~Wakes(u)
  <2>1. k' = k /\ tcb[u].ucNotifyState # "waiting" BY <1>3 DEF NotifyFromISR, Wakes
  <2> QED BY <1>1, <1>2, <2>1, TCBKeeps
<1>4. CASE Wakes(u)
  <2> DEFINE q == ReadyFromISR(u)
             w == IF Outranks(k, u) THEN [q EXCEPT !.xYieldPending = TRUE] ELSE q
  <2>1. /\ k' = YieldIf(Outranks(k, u), w) \/ k' = w
        /\ Outranks(k, u) \in BOOLEAN
    BY <1>4 DEF NotifyFromISR, Outranks
  <2>2. /\ Calm(k, q) /\ q.xYieldPending = k.xYieldPending
        /\ \/ k.uxSchedulerSuspended = 0 /\ q.container[u] = "ready"
           \/ /\ k.uxSchedulerSuspended # 0
              /\ q.container[u] = k.container[u] /\ q.event[u] = "pending"
        /\ \A v \in Task \ {u} : /\ q.container[v] = k.container[v]
                                 /\ q.event[v] = k.event[v]
    BY ReadyFromISRIs
  <2> HIDE DEF q
  <2>3. /\ w \in KernelRecord /\ w.pxCurrentTCB = current
        /\ w.uxPriority = k.uxPriority /\ w.pendSV = k.pendSV
        /\ w.container = q.container /\ w.event = q.event
        /\ w.uxSchedulerSuspended = k.uxSchedulerSuspended
        /\ k.xYieldPending \/ Outranks(k, u) => w.xYieldPending
    BY <2>2 DEF Calm, KernelRecord, current
  <2> HIDE DEF w
  <2>4. /\ k' \in KernelRecord /\ k'.pxCurrentTCB = current
        /\ k'.uxPriority = k.uxPriority
        /\ k'.container = q.container /\ k'.event = q.event
        /\ k'.uxSchedulerSuspended = k.uxSchedulerSuspended
        /\ k.pendSV => k'.pendSV
        /\ k.xYieldPending \/ Outranks(k, u) => k'.xYieldPending
    BY <2>1, <2>3, YieldIfIs
  <2>5. ~tcb'[u].suspended BY <1>2, <1>4 DEF Wakes, IInv, ListsHonest, SuspensionOf
  <2> QED BY <1>1, <1>2, <2>2, <2>4, <2>5, WokenKeeps
<1> QED BY <1>3, <1>4

LEMMA ClearStep ==
  ASSUME IInv, NEW t \in Task, NEW u \in Task,
         xTaskNotifyStateClear(t, u) \/ ulTaskNotifyValueClear(t, u)
  PROVE  IInv'
<1>1. /\ Created(u) /\ tcb[u] \in TCB /\ UNCHANGED <<k, control>> /\ UnchangedCounts
  BY DEF xTaskNotifyStateClear, ulTaskNotifyValueClear, IInv, Typed
<1>2. /\ tcb' \in [Task -> TCB] /\ \A v \in Task \ {u} : tcb'[v] = tcb[v]
      /\ tcb'[u].life = tcb[u].life /\ tcb'[u].suspended = tcb[u].suspended
      /\ \/ tcb'[u].ucNotifyState = tcb[u].ucNotifyState
         \/ "waiting" \notin {tcb[u].ucNotifyState, tcb'[u].ucNotifyState}
  <2>1. CASE xTaskNotifyStateClear(t, u)
    <3>1. /\ tcb' = [tcb EXCEPT ![u].ucNotifyState = "notWaiting"]
          /\ tcb[u].ucNotifyState = "received"
      BY <2>1 DEF xTaskNotifyStateClear
    <3> QED BY <3>1 DEF IInv, Typed, TCB
  <2>2. CASE ulTaskNotifyValueClear(t, u)
    <3>1. tcb' = [tcb EXCEPT ![u].ulNotifiedValue = 0] BY <2>2 DEF ulTaskNotifyValueClear
    <3>2. 0 \in 0..ValueBound BY TaskControlAssumption
    <3> QED BY <3>1, <3>2 DEF IInv, Typed, TCB
  <2> QED BY <2>1, <2>2
<1> QED BY <1>1, <1>2, TCBKeeps DEF Created

LEMMA ResumedIs ==
  ASSUME IInv, NEW u \in Task, Created(u),
         tcb' = [tcb EXCEPT ![u].suspended = FALSE]
  PROVE  /\ tcb' \in [Task -> TCB] /\ \A v \in Task \ {u} : tcb'[v] = tcb[v]
         /\ tcb'[u].life = "created" /\ ~tcb'[u].suspended
  BY DEF IInv, Typed, TCB, Created

LEMMA PriorityInt ==
  ASSUME IInv, NEW u \in Task
  PROVE  Outranks(k, u) => k.uxPriority[u] >= k.uxPriority[k.pxCurrentTCB]
  BY DEF IInv, Typed, KernelRecord, Priority, Outranks

LEMMA ResumeStep ==
  ASSUME IInv, NEW t \in Task, NEW u \in Task, vTaskResume(t, u)
  PROVE  IInv'
<1> DEFINE q == AddToReady(k, u)
           b == k.uxPriority[u] >= k.uxPriority[k.pxCurrentTCB]
<1>1. /\ Created(u) /\ control' = control /\ UnchangedCounts
      /\ tcb' = [tcb EXCEPT ![u].suspended = FALSE]
      /\ k' = YieldIf(b, q) /\ b \in BOOLEAN
  BY DEF vTaskResume, Resumable
<1>2. /\ tcb' \in [Task -> TCB] /\ \A v \in Task \ {u} : tcb'[v] = tcb[v]
      /\ tcb'[u].life = "created" /\ ~tcb'[u].suspended
  BY <1>1, ResumedIs
<1>3. /\ Calm(k, q) /\ q.xYieldPending = k.xYieldPending
      /\ q.container[u] = "ready" /\ q.event = k.event
      /\ \A v \in Task \ {u} : q.container[v] = k.container[v]
  BY ReadyIs DEF IInv, Typed
<1>4. Outranks(k, u) => b BY PriorityInt
<1> HIDE DEF q, b
<1>5. /\ k' \in KernelRecord /\ k'.pxCurrentTCB = current
      /\ k'.uxPriority = k.uxPriority
      /\ k'.container = q.container /\ k'.event = k.event
      /\ k'.uxSchedulerSuspended = k.uxSchedulerSuspended
      /\ k'.xYieldPending = k.xYieldPending
      /\ k.pendSV \/ b => k'.pendSV
  BY <1>1, <1>3, YieldIfIs DEF Calm, current
<1>6. /\ \A v \in Task \ {u} : k'.container[v] = k.container[v]
                                /\ k'.event[v] = k.event[v]
      /\ k'.container[u] = "ready"
      /\ k.xYieldPending => k'.pendSV \/ k'.xYieldPending
      /\ Outranks(k, u) => k'.pendSV \/ k'.xYieldPending
      /\ k.pendSV => k'.pendSV
  BY <1>3, <1>4, <1>5
<1> HIDE <1>3, <1>4
<1> QED BY <1>1, <1>2, <1>5, <1>6, WokenKeeps

LEMMA ResumeFromISRStep ==
  ASSUME IInv, NEW u \in Task, xTaskResumeFromISR(u)
  PROVE  IInv'
<1> DEFINE q == ReadyFromISR(u)
           b == /\ k.uxSchedulerSuspended = 0
                /\ k.uxPriority[u] >= k.uxPriority[k.pxCurrentTCB]
<1>1. /\ Created(u) /\ control' = control /\ UnchangedCounts
      /\ tcb' = [tcb EXCEPT ![u].suspended = FALSE]
      /\ k' = YieldIf(b, q) /\ b \in BOOLEAN
      /\ k.container[u] = "suspended"
  BY DEF xTaskResumeFromISR, Resumable, prvTaskIsTaskSuspended
<1>2. /\ tcb' \in [Task -> TCB] /\ \A v \in Task \ {u} : tcb'[v] = tcb[v]
      /\ tcb'[u].life = "created" /\ ~tcb'[u].suspended
  BY <1>1, ResumedIs
<1>3. /\ Calm(k, q) /\ q.xYieldPending = k.xYieldPending
      /\ \/ k.uxSchedulerSuspended = 0 /\ q.container[u] = "ready"
         \/ /\ k.uxSchedulerSuspended # 0
            /\ q.container[u] = k.container[u] /\ q.event[u] = "pending"
      /\ \A v \in Task \ {u} : /\ q.container[v] = k.container[v]
                               /\ q.event[v] = k.event[v]
  BY ReadyFromISRIs
<1>4. Outranks(k, u) /\ k.uxSchedulerSuspended = 0 => b BY PriorityInt
<1> HIDE DEF q, b
<1>5. /\ k' \in KernelRecord /\ k'.pxCurrentTCB = current
      /\ k'.uxPriority = k.uxPriority
      /\ k'.container = q.container /\ k'.event = q.event
      /\ k'.uxSchedulerSuspended = k.uxSchedulerSuspended
      /\ k'.xYieldPending = k.xYieldPending
      /\ k.pendSV \/ b => k'.pendSV
  BY <1>1, <1>3, YieldIfIs DEF Calm, current
<1>6. /\ \/ k'.container[u] = "ready"
         \/ k'.container[u] = k.container[u] /\ k'.event[u] = "pending"
      /\ Outranks(k, u) /\ k'.container[u] = "ready" => k'.pendSV
      /\ \A v \in Task \ {u} : /\ k'.container[v] = k.container[v]
                               /\ k'.event[v] = k.event[v]
  <2>1. CASE k.uxSchedulerSuspended = 0 /\ q.container[u] = "ready"
    BY <1>3, <1>4, <1>5, <2>1
  <2>2. CASE k.uxSchedulerSuspended # 0 BY <1>1, <1>3, <1>5, <2>2
  <2> QED BY <1>3, <2>1, <2>2
<1> QED BY <1>1, <1>2, <1>5, <1>6, WokenKeeps

LEMMA OffItsListsIs ==
  ASSUME IInv, NEW u \in Task, NEW to \in Container
  PROVE  LET r == OffItsLists(u, to)
         IN  /\ Calm(k, r)
             /\ r.xYieldPending = k.xYieldPending
             /\ r.container[u] = to /\ r.event[u] = "none"
             /\ \A v \in Task \ {u} : /\ r.container[v] = k.container[v]
                                      /\ r.event[v] = k.event[v]
  BY DEF OffItsLists, Calm, IInv, Typed, KernelRecord

\* Taking tasks off the ready lists calls for no switch.
LEMMA AskedShrinks ==
  ASSUME NEW q, NEW r, Asked(q), r.pxCurrentTCB = q.pxCurrentTCB,
         r.uxPriority = q.uxPriority, q.pendSV => r.pendSV,
         q.xYieldPending => r.xYieldPending,
         \A t \in Task : r.container[t] = "ready" => q.container[t] = "ready"
  PROVE  Asked(r)
  BY DEF Asked

LEMMA SuspendStep ==
  ASSUME IInv, NEW t \in Task, NEW u \in Task \ {Idle}, vTaskSuspend(t, u)
  PROVE  IInv'
<1> DEFINE c == [NoControl EXCEPT !.at = "suspended", !.other = u]
<1>1. /\ t = current /\ control[t].at = "user" /\ k.container[t] = "ready"
      /\ tcb[t].life = "created" /\ ~tcb[t].suspended
      /\ k.uxSchedulerSuspended = 0
  BY RunningIs DEF vTaskSuspend
<1>2. c \in Control /\ c.at = "suspended" /\ c.other = u
  BY Idle \in Task DEF Control, NoControl
<1>3. /\ control' = [control EXCEPT ![t] = c] /\ UnchangedCounts
      /\ tcb' = [tcb EXCEPT ![u] = SuspendedTCB(u)] /\ Created(u)
      /\ k' = OffItsLists(u, "suspended")
  BY DEF vTaskSuspend
<1> HIDE DEF c
<1>4. control'[t] = c /\ \A v \in Task \ {t} : control'[v] = control[v]
  BY <1>3 DEF IInv, Typed
<1>5. /\ Calm(k, k') /\ k'.xYieldPending = k.xYieldPending
      /\ k'.container[u] = "suspended" /\ k'.event[u] = "none"
      /\ \A v \in Task \ {u} : /\ k'.container[v] = k.container[v]
                               /\ k'.event[v] = k.event[v]
  BY <1>3, OffItsListsIs DEF Container, StateList
<1>6. /\ tcb' \in [Task -> TCB] /\ \A v \in Task \ {u} : tcb'[v] = tcb[v]
      /\ tcb'[u].life = "created" /\ tcb'[u].suspended
      /\ tcb'[u].ucNotifyState # "waiting"
  <2>1. tcb[u] \in TCB /\ tcb[u].life = "created" BY <1>3 DEF IInv, Typed, Created
  <2>2. /\ SuspendedTCB(u) \in TCB /\ SuspendedTCB(u).life = "created"
        /\ SuspendedTCB(u).suspended /\ SuspendedTCB(u).ucNotifyState # "waiting"
    BY <2>1 DEF SuspendedTCB, TCB
  <2> QED BY <1>3, <2>2 DEF IInv, Typed
<1>7. Typed' BY <1>2, <1>3, <1>5, <1>6 DEF IInv, Typed, Calm
<1>8. SuspendedByCurrent'
  BY <1>1, <1>2, <1>4, <1>5 DEF IInv, SuspendedByCurrent, Locking, current, Calm
<1>9. ReadyOrLeaving'
  <2>1. k'.pxCurrentTCB = t BY <1>1, <1>5 DEF Calm, current
  <2>2. CASE u = t BY <1>2, <1>4, <2>1, <2>2 DEF ReadyOrLeaving, current
  <2>3. CASE u # t BY <1>1, <1>5, <2>1, <2>3 DEF ReadyOrLeaving, current
  <2> QED BY <2>2, <2>3
<1>10. Asked(k') BY <1>5, AskedShrinks DEF IInv, Calm
<1>11. \A v \in Task : Quiet(v) \/ Placed(v)
  <2> SUFFICES ASSUME NEW v \in Task PROVE Quiet(v) \/ Placed(v) OBVIOUS
  <2>1. LifeOf(v) /\ SuspensionOf(v) /\ NotificationOf(v)
    BY DEF IInv, LivesAccounted, ListsHonest
  <2>2. LifeOf(t) BY DEF IInv, LivesAccounted
  <2>3. CASE v = u
    <3>1. v # t => control'[v] = control[v] BY <1>4
    <3>2. SuspensionOf(v)' /\ NotificationOf(v)'
      BY <1>5, <1>6, <2>3 DEF SuspensionOf, NotificationOf
    <3>3. k'.container[v] \in StateList BY <1>5, <2>3 DEF StateList
    <3> QED BY <1>1, <1>2, <1>3, <1>4, <1>6, <2>3, <3>1, <3>2, <3>3 DEF Placed
  <2>4. CASE v # u /\ v = t
    <3>1. SuspensionOf(v)' /\ NotificationOf(v)'
      BY <1>1, <1>2, <1>4, <1>6, <2>4 DEF SuspensionOf, NotificationOf
    <3>2. k'.container[v] \in StateList BY <1>1, <1>5, <2>4 DEF StateList
    <3> QED BY <1>1, <1>2, <1>4, <1>6, <2>4, <3>1, <3>2 DEF Placed, Created
  <2>5. CASE v # u /\ v # t BY <1>4, <1>5, <1>6, <2>5 DEF Quiet, Moved
  <2> QED BY <2>3, <2>4, <2>5
<1>12. LivesAccounted' /\ ListsHonest' /\ Booked'
  BY <1>1, <1>3, <1>5, <1>7, <1>11, ListsKept DEF Calm, current
<1> QED BY <1>7, <1>8, <1>9, <1>10, <1>12 DEF IInv

--------------------
\* Creation and deletion.

LEMMA ListedFinite ==
  /\ IsFiniteSet(Terminated) /\ IsFiniteSet(Listed)
  /\ Cardinality(Terminated) \in 0..Cardinality(Task)
  /\ Cardinality(Listed) \in 0..Cardinality(Task)
<1>1. Terminated \subseteq Task /\ Listed \subseteq Task BY DEF Terminated, Listed
<1>2. /\ IsFiniteSet(Terminated) /\ Cardinality(Terminated) <= Cardinality(Task)
      /\ IsFiniteSet(Listed) /\ Cardinality(Listed) <= Cardinality(Task)
  BY <1>1, TasksAreFinite, FS_Subset
<1>3. /\ Cardinality(Terminated) \in Nat /\ Cardinality(Listed) \in Nat
      /\ Cardinality(Task) \in Nat
  BY <1>2, TasksAreFinite, FS_CardinalityType
<1> QED BY <1>2, <1>3

LEMMA NewTCBIs ==
  ASSUME NEW life \in {"free", "created", "deleted"}
  PROVE  /\ NewTCB(life) \in TCB /\ NewTCB(life).life = life
         /\ ~NewTCB(life).suspended
  BY TaskControlAssumption DEF NewTCB, TCB

LEMMA CreateStep ==
  ASSUME IInv, NEW t \in Task, NEW u \in Creatable, xTaskCreate(t, u)
  PROVE  IInv'
<1> DEFINE q == AddToReady(k, u)
<1>1. /\ tcb[u].life = "free" /\ control' = control /\ u \in Task /\ u # Idle
      /\ tcb' = [tcb EXCEPT ![u] = NewTCB("created")]
      /\ k' = YieldIf(Outranks(k, u), q) /\ Outranks(k, u) \in BOOLEAN
      /\ uxCurrentNumberOfTasks' = uxCurrentNumberOfTasks + 1
      /\ uxDeletedTasksWaitingCleanUp' = uxDeletedTasksWaitingCleanUp
  BY TaskControlAssumption DEF xTaskCreate, Outranks
<1>2. /\ k.container[u] = "none" /\ k.event[u] = "none" /\ u # current
      /\ LifeOf(u)
  BY <1>1 DEF IInv, LivesAccounted, LifeOf
<1>3. /\ tcb' \in [Task -> TCB] /\ \A v \in Task \ {u} : tcb'[v] = tcb[v]
      /\ tcb'[u].life = "created" /\ ~tcb'[u].suspended
  BY <1>1, NewTCBIs DEF IInv, Typed
<1>4. /\ Calm(k, q) /\ q.xYieldPending = k.xYieldPending
      /\ q.container[u] = "ready" /\ q.event = k.event
      /\ \A v \in Task \ {u} : q.container[v] = k.container[v]
  BY <1>1, ReadyIs DEF IInv, Typed
<1> HIDE DEF q
<1>5. /\ k' \in KernelRecord /\ k'.pxCurrentTCB = current
      /\ k'.uxPriority = k.uxPriority
      /\ k'.container = q.container /\ k'.event = k.event
      /\ k'.uxSchedulerSuspended = k.uxSchedulerSuspended
      /\ k'.xYieldPending = k.xYieldPending
      /\ k.pendSV \/ Outranks(k, u) => k'.pendSV
  BY <1>1, <1>4, YieldIfIs DEF Calm, current
<1>6. Typed' BY <1>1, <1>3, <1>5 DEF IInv, Typed
<1>7. SuspendedByCurrent' /\ ReadyOrLeaving'
  <2>1. k.container[current] = "ready" => k'.container[current] = "ready"
    BY <1>2, <1>4, <1>5 DEF IInv, Typed, KernelRecord, current
  <2> QED BY <1>1, <1>5, <2>1 DEF IInv, SuspendedByCurrent, ReadyOrLeaving, current
<1>8. Asked(k')
  <2>1. Outranks(k, u) \/ k.uxPriority[u] <= k.uxPriority[current]
    BY <1>1 DEF IInv, Typed, KernelRecord, Priority, Outranks, current
  <2> QED BY <1>1, <1>4, <1>5, <2>1 DEF IInv, Asked, current
<1>9. LivesAccounted'
  <2>1. ASSUME NEW v \in Task PROVE LifeOf(v)'
    <3>1. LifeOf(v) BY DEF IInv, LivesAccounted
    <3>2. CASE v = u BY <1>1, <1>2, <1>3, <1>4, <1>5, <3>2 DEF LifeOf, StateList
    <3>3. CASE v # u BY <1>1, <1>3, <1>4, <1>5, <3>1, <3>3 DEF LifeOf
    <3> QED BY <3>2, <3>3
  <2> QED
    BY <1>1, <1>2, <1>3, <1>5, <2>1 DEF IInv, LivesAccounted, Typed, KernelRecord, current
<1>10. ListsHonest'
  <2> SUFFICES ASSUME NEW v \in Task PROVE SuspensionOf(v)' /\ NotificationOf(v)'
    BY DEF ListsHonest
  <2>1. SuspensionOf(v) /\ NotificationOf(v) BY DEF IInv, ListsHonest
  <2>2. CASE v = u BY <1>3, <1>4, <1>5, <2>2 DEF SuspensionOf, NotificationOf
  <2>3. CASE v # u BY <1>1, <1>3, <1>4, <1>5, <2>1, <2>3 DEF SuspensionOf, NotificationOf
  <2> QED BY <2>2, <2>3
<1>11. Booked'
  <2>1. Terminated' = Terminated BY <1>2, <1>4, <1>5 DEF Terminated
  <2>2. Listed' = Listed \cup {u} /\ u \notin Listed
    BY <1>1, <1>2, <1>3, <2>1 DEF Listed, Terminated, Created
  <2>3. Cardinality(Listed') = Cardinality(Listed) + 1
    BY <2>2, ListedFinite, FS_AddElement
  <2> QED BY <1>1, <2>1, <2>3 DEF IInv, Booked
<1> QED BY <1>6, <1>7, <1>8, <1>9, <1>10, <1>11 DEF IInv

LEMMA DeleteOtherStep ==
  ASSUME IInv, NEW t \in Task, NEW u \in Creatable, vTaskDeleteOther(t, u)
  PROVE  IInv'
<1> DEFINE q == OffItsLists(u, "none")
<1>1. /\ tcb[u].life = "created" /\ u \in Task /\ u # Idle /\ u # current
      /\ control' = [control EXCEPT ![u] = NoControl]
      /\ tcb' = [tcb EXCEPT ![u] = NewTCB("free")]
      /\ k' = prvResetNextTaskUnblockTime(q)
      /\ uxCurrentNumberOfTasks' = uxCurrentNumberOfTasks - 1
      /\ uxDeletedTasksWaitingCleanUp' = uxDeletedTasksWaitingCleanUp
  BY TaskControlAssumption DEF vTaskDeleteOther, Created, At, Running, current
<1>2. LifeOf(u) /\ k.container[u] \in StateList BY <1>1 DEF IInv, LivesAccounted, LifeOf
<1>3. /\ tcb' \in [Task -> TCB] /\ \A v \in Task \ {u} : tcb'[v] = tcb[v]
      /\ tcb'[u].life = "free" /\ ~tcb'[u].suspended
  BY <1>1, NewTCBIs DEF IInv, Typed
<1>4. /\ control' \in [Task -> Control] /\ control'[u].at = "user"
      /\ \A v \in Task \ {u} : control'[v] = control[v]
  <2>1. NoControl \in Control /\ NoControl.at = "user"
    BY Idle \in Task DEF NoControl, Control
  <2> QED BY <1>1, <2>1 DEF IInv, Typed
<1>5. /\ Calm(k, q) /\ q.xYieldPending = k.xYieldPending
      /\ q.container[u] = "none" /\ q.event[u] = "none"
      /\ \A v \in Task \ {u} : /\ q.container[v] = k.container[v]
                               /\ q.event[v] = k.event[v]
  BY <1>1, OffItsListsIs DEF Container
<1> HIDE DEF q
<1>6. /\ Calm(k, k') /\ k'.xYieldPending = k.xYieldPending
      /\ k'.container[u] = "none" /\ k'.event[u] = "none"
      /\ \A v \in Task \ {u} : /\ k'.container[v] = k.container[v]
                               /\ k'.event[v] = k.event[v]
  BY <1>1, <1>5, ResetIs DEF Calm
<1>7. Typed' BY <1>3, <1>4, <1>6 DEF IInv, Typed, Calm
<1>8. current \in Task /\ current' = current
  BY <1>6 DEF IInv, Typed, KernelRecord, Calm, current
<1>9. SuspendedByCurrent' /\ ReadyOrLeaving' BY <1>1, <1>4, <1>6, <1>8
     DEF IInv, SuspendedByCurrent, ReadyOrLeaving, Calm, Locking
<1>10. Asked(k')
  <2>1. \A v \in Task : k'.container[v] = "ready" => k.container[v] = "ready" BY <1>6
  <2> QED BY <1>6, <2>1, AskedShrinks DEF IInv, Calm
<1>11. LivesAccounted'
  <2>1. ASSUME NEW v \in Task PROVE LifeOf(v)'
    <3>1. LifeOf(v) BY DEF IInv, LivesAccounted
    <3>2. CASE v = u BY <1>1, <1>2, <1>3, <1>4, <1>6, <3>2 DEF LifeOf, StateList
    <3>3. CASE v # u BY <1>1, <1>3, <1>4, <1>6, <3>1, <3>3 DEF LifeOf
    <3> QED BY <3>2, <3>3
  <2> QED BY <1>1, <1>3, <1>8, <2>1 DEF IInv, LivesAccounted
<1>12. ListsHonest'
  <2> SUFFICES ASSUME NEW v \in Task PROVE SuspensionOf(v)' /\ NotificationOf(v)'
    BY DEF ListsHonest
  <2>1. SuspensionOf(v) /\ NotificationOf(v) BY DEF IInv, ListsHonest
  <2>2. CASE v = u BY <1>3, <1>4, <1>6, <2>2 DEF SuspensionOf, NotificationOf
  <2>3. CASE v # u BY <1>3, <1>4, <1>6, <2>1, <2>3 DEF SuspensionOf, NotificationOf
  <2> QED BY <2>2, <2>3
<1>13. Booked'
  <2>1. Terminated' = Terminated BY <1>2, <1>6 DEF Terminated, StateList
  <2>2. Listed' = Listed \ {u} /\ u \in Listed
    BY <1>1, <1>2, <1>3, <2>1 DEF Listed, Terminated, Created, StateList
  <2>3. Cardinality(Listed') = Cardinality(Listed) - 1
    BY <2>2, ListedFinite, FS_RemoveElement
  <2> QED BY <1>1, <2>1, <2>3 DEF IInv, Booked
<1> QED BY <1>7, <1>9, <1>10, <1>11, <1>12, <1>13 DEF IInv

LEMMA DeleteSelfStep ==
  ASSUME IInv, NEW t \in Creatable, vTaskDeleteSelf(t)
  PROVE  IInv'
<1> DEFINE c == [NoControl EXCEPT !.at = "deleted"]
<1>1. t \in Task /\ t # Idle /\ At(t, "user") BY TaskControlAssumption DEF vTaskDeleteSelf
<1>2. /\ t = current /\ control[t].at = "user" /\ k.container[t] = "ready"
      /\ tcb[t].life = "created" /\ ~tcb[t].suspended
      /\ k.uxSchedulerSuspended = 0
  BY <1>1, RunningIs
<1>3. /\ control' = [control EXCEPT ![t] = c]
      /\ tcb' = [tcb EXCEPT ![t].life = "deleted"]
      /\ k' = OffItsLists(t, "termination")
      /\ uxDeletedTasksWaitingCleanUp' = uxDeletedTasksWaitingCleanUp + 1
      /\ uxCurrentNumberOfTasks' = uxCurrentNumberOfTasks
  BY DEF vTaskDeleteSelf, GoTo
<1>4. c \in Control /\ c.at = "deleted" BY Idle \in Task DEF Control, NoControl
<1> HIDE DEF c
<1>5. control'[t] = c /\ \A v \in Task \ {t} : control'[v] = control[v]
  BY <1>1, <1>3 DEF IInv, Typed
<1>6. /\ tcb' \in [Task -> TCB] /\ \A v \in Task \ {t} : tcb'[v] = tcb[v]
      /\ tcb'[t].life = "deleted" /\ tcb'[t].suspended = tcb[t].suspended
  BY <1>1, <1>3 DEF IInv, Typed, TCB
<1>7. /\ Calm(k, k') /\ k'.xYieldPending = k.xYieldPending
      /\ k'.container[t] = "termination" /\ k'.event[t] = "none"
      /\ \A v \in Task \ {t} : /\ k'.container[v] = k.container[v]
                               /\ k'.event[v] = k.event[v]
  BY <1>1, <1>3, OffItsListsIs DEF Container
<1>8. Typed' BY <1>3, <1>4, <1>6, <1>7 DEF IInv, Typed, Calm
<1>9. current' = t BY <1>2, <1>7 DEF Calm, current
<1>10. SuspendedByCurrent' /\ ReadyOrLeaving' BY <1>2, <1>4, <1>5, <1>7, <1>9
     DEF IInv, SuspendedByCurrent, ReadyOrLeaving, Calm, Locking
<1>11. Asked(k')
  <2>1. \A v \in Task : k'.container[v] = "ready" => k.container[v] = "ready" BY <1>7
  <2> QED BY <1>7, <2>1, AskedShrinks DEF IInv, Calm
<1>12. LivesAccounted'
  <2>1. ASSUME NEW v \in Task PROVE LifeOf(v)'
    <3>1. LifeOf(v) BY DEF IInv, LivesAccounted
    <3>2. CASE v = t
      BY <1>1, <1>2, <1>4, <1>5, <1>6, <1>7, <3>1, <3>2 DEF LifeOf, StateList
    <3>3. CASE v # t BY <1>1, <1>5, <1>6, <1>7, <3>1, <3>3 DEF LifeOf
    <3> QED BY <3>2, <3>3
  <2> QED BY <1>1, <1>6, <1>9, <2>1 DEF IInv, LivesAccounted
<1>13. ListsHonest'
  <2> SUFFICES ASSUME NEW v \in Task PROVE SuspensionOf(v)' /\ NotificationOf(v)'
    BY DEF ListsHonest
  <2>1. SuspensionOf(v) /\ NotificationOf(v) BY DEF IInv, ListsHonest
  <2>2. CASE v = t BY <1>2, <1>4, <1>5, <1>6, <2>2 DEF SuspensionOf, NotificationOf
  <2>3. CASE v # t BY <1>5, <1>6, <1>7, <2>1, <2>3 DEF SuspensionOf, NotificationOf
  <2> QED BY <2>2, <2>3
<1>14. Booked'
  <2>1. Terminated' = Terminated \cup {t} /\ t \notin Terminated
    BY <1>1, <1>2, <1>7 DEF Terminated
  <2>2. Listed' = Listed BY <1>1, <1>2, <1>6, <2>1 DEF Listed, Created
  <2>3. Cardinality(Terminated') = Cardinality(Terminated) + 1
    BY <2>1, ListedFinite, FS_AddElement
  <2> QED BY <1>3, <2>2, <2>3 DEF IInv, Booked
<1> QED BY <1>8, <1>10, <1>11, <1>12, <1>13, <1>14 DEF IInv

LEMMA TakeTerminatedStep ==
  ASSUME IInv, TakeTerminated
  PROVE  IInv'
<1>1. PICK u \in Task :
        /\ k.container[u] = "termination"
        /\ k' = [k EXCEPT !.container[u] = "none"]
        /\ control' = [control EXCEPT ![Idle] = [NoControl EXCEPT
                         !.at = "free", !.other = u]]
  BY DEF TakeTerminated
<1> DEFINE c == [NoControl EXCEPT !.at = "free", !.other = u]
<1>2. At(Idle, "user") /\ tcb' = tcb
      /\ uxCurrentNumberOfTasks' = uxCurrentNumberOfTasks - 1
      /\ uxDeletedTasksWaitingCleanUp' = uxDeletedTasksWaitingCleanUp - 1
  BY DEF TakeTerminated
<1>3. /\ Idle = current /\ control[Idle].at = "user" /\ k.container[Idle] = "ready"
      /\ tcb[Idle].life = "created" /\ k.uxSchedulerSuspended = 0
  BY <1>2, RunningIs
<1>4. c \in Control /\ c.at = "free" /\ c.other = u
  BY Idle \in Task DEF Control, NoControl
<1>5. control' = [control EXCEPT ![Idle] = c] BY <1>1
<1> HIDE DEF c
<1>6. control'[Idle] = c /\ \A v \in Task \ {Idle} : control'[v] = control[v]
  BY <1>5 DEF IInv, Typed
<1>7. /\ k' \in KernelRecord /\ k'.pxCurrentTCB = current
      /\ k'.uxPriority = k.uxPriority /\ k'.event = k.event
      /\ k'.uxSchedulerSuspended = 0 /\ k'.pendSV = k.pendSV
      /\ k'.xYieldPending = k.xYieldPending /\ k'.container[u] = "none"
      /\ \A v \in Task \ {u} : k'.container[v] = k.container[v]
  BY <1>1, <1>3 DEF IInv, Typed, KernelRecord, Container, current
<1>8. LifeOf(u) /\ u # Idle /\ tcb[u].life = "deleted" /\ k.event[u] = "none"
  <2>1. LifeOf(u) /\ tcb[u].life \in {"free", "created", "deleted"}
    BY DEF IInv, LivesAccounted, Typed, TCB
  <2> QED BY <1>1, <1>3, <2>1 DEF LifeOf, StateList
<1>9. Typed' BY <1>2, <1>4, <1>5, <1>7 DEF IInv, Typed
<1>10. SuspendedByCurrent' /\ ReadyOrLeaving' BY <1>3, <1>4, <1>6, <1>7, <1>8
     DEF IInv, SuspendedByCurrent, ReadyOrLeaving, Locking, current
<1>11. Asked(k')
  <2>1. \A v \in Task : k'.container[v] = "ready" => k.container[v] = "ready" BY <1>7
  <2> QED BY <1>7, <2>1, AskedShrinks DEF IInv, current
<1>12. LivesAccounted'
  <2>1. ASSUME NEW v \in Task PROVE LifeOf(v)'
    <3>1. LifeOf(v) BY DEF IInv, LivesAccounted
    <3>2. CASE v = u BY <1>2, <1>4, <1>6, <1>7, <1>8, <3>1, <3>2 DEF LifeOf, StateList
    <3>3. CASE v # u BY <1>2, <1>3, <1>4, <1>6, <1>7, <3>1, <3>3 DEF LifeOf
    <3> QED BY <3>2, <3>3
  <2> QED BY <1>2, <1>7, <2>1 DEF IInv, LivesAccounted, current
<1>13. ListsHonest'
  <2> SUFFICES ASSUME NEW v \in Task PROVE SuspensionOf(v)' /\ NotificationOf(v)'
    BY DEF ListsHonest
  <2>1. SuspensionOf(v) /\ NotificationOf(v) BY DEF IInv, ListsHonest
  <2>2. CASE v = u BY <1>1, <1>2, <1>7, <2>1, <2>2 DEF SuspensionOf, NotificationOf
  <2>3. CASE v # u BY <1>2, <1>4, <1>6, <1>7, <2>1, <2>3 DEF SuspensionOf, NotificationOf
  <2> QED BY <2>2, <2>3
<1>14. Booked'
  <2>1. Terminated' = Terminated \ {u} /\ u \in Terminated BY <1>1, <1>7 DEF Terminated
  <2>2. Listed' = Listed \ {u} /\ u \in Listed BY <1>2, <1>8, <2>1 DEF Listed, Created
  <2>3. /\ Cardinality(Terminated') = Cardinality(Terminated) - 1
        /\ Cardinality(Listed') = Cardinality(Listed) - 1
    BY <2>1, <2>2, ListedFinite, FS_RemoveElement
  <2> QED BY <1>2, <2>3 DEF IInv, Booked
<1> QED BY <1>9, <1>10, <1>11, <1>12, <1>13, <1>14 DEF IInv

LEMMA FreeStep ==
  ASSUME IInv, prvDeleteTCB
  PROVE  IInv'
<1> DEFINE u == control[Idle].other
<1>1. /\ Idle = current /\ control[Idle].at = "free" /\ k' = k /\ UnchangedCounts
      /\ tcb' = [tcb EXCEPT ![u] = NewTCB("free")]
      /\ control' = [control EXCEPT ![Idle] = NoControl, ![u] = NoControl]
  BY DEF prvDeleteTCB, At, Running, current
<1>2. u \in Task BY DEF IInv, Typed, Control
<1>3. /\ tcb[u].life = "deleted" /\ k.container[u] = "none" /\ u # Idle
      /\ k.event[u] = "none"
  BY <1>1, <1>2 DEF IInv, LivesAccounted, LifeOf
<1>4. \A v \in Task \ {u} : ~(tcb[v].life = "deleted" /\ k.container[v] = "none")
  BY <1>2 DEF IInv, LivesAccounted, LifeOf
<1> HIDE DEF u
<1>5. /\ tcb' \in [Task -> TCB] /\ \A v \in Task \ {u} : tcb'[v] = tcb[v]
      /\ tcb'[u].life = "free" /\ ~tcb'[u].suspended
  BY <1>1, <1>2, NewTCBIs DEF IInv, Typed
<1>6. /\ control' \in [Task -> Control]
      /\ control'[u].at = "user" /\ control'[Idle].at = "user"
      /\ \A v \in Task \ {u, Idle} : control'[v] = control[v]
  <2>1. NoControl \in Control /\ NoControl.at = "user"
    BY Idle \in Task DEF NoControl, Control
  <2> QED BY <1>1, <1>2, <2>1 DEF IInv, Typed
<1>7. Typed' BY <1>1, <1>5, <1>6 DEF IInv, Typed
<1>8. current' = Idle /\ Asked(k') BY <1>1 DEF IInv, current
<1>9. SuspendedByCurrent' /\ ReadyOrLeaving'
  <2>1. k.uxSchedulerSuspended = 0 /\ k.container[Idle] = "ready"
    BY <1>1 DEF IInv, SuspendedByCurrent, ReadyOrLeaving, Locking
  <2> QED BY <1>1, <1>6, <1>8, <2>1 DEF IInv, SuspendedByCurrent, ReadyOrLeaving, Locking
<1>10. LivesAccounted'
  <2>1. ASSUME NEW v \in Task PROVE LifeOf(v)'
    <3>1. LifeOf(v) /\ tcb[Idle].life = "created" BY DEF IInv, LivesAccounted
    <3>2. CASE v = u BY <1>1, <1>3, <1>5, <1>6, <3>2 DEF LifeOf, StateList
    <3>3. CASE v = Idle BY <1>1, <1>3, <1>5, <1>6, <3>1, <3>3 DEF LifeOf
    <3>4. CASE v # u /\ v # Idle BY <1>1, <1>4, <1>5, <1>6, <3>1, <3>4 DEF LifeOf
    <3> QED BY <3>2, <3>3, <3>4
  <2> QED BY <1>3, <1>5, <1>8, <2>1 DEF IInv, LivesAccounted
<1>11. ListsHonest'
  <2> SUFFICES ASSUME NEW v \in Task PROVE SuspensionOf(v)' /\ NotificationOf(v)'
    BY DEF ListsHonest
  <2>1. SuspensionOf(v) /\ NotificationOf(v) BY DEF IInv, ListsHonest
  <2> QED BY <1>1, <1>3, <1>5, <1>6, <2>1 DEF SuspensionOf, NotificationOf
<1>12. Booked'
  <2>1. Terminated' = Terminated BY <1>1 DEF Terminated
  <2>2. Listed' = Listed BY <1>2, <1>3, <1>5, <2>1 DEF Listed, Created
  <2> QED BY <1>1, <2>1, <2>2 DEF IInv, Booked, UnchangedCounts
<1> QED BY <1>7, <1>8, <1>9, <1>10, <1>11, <1>12 DEF IInv

--------------------
\* The invariant holds from the start.

\* Among the tasks that are there at the start one is the most urgent.
LEMMA FirstIs ==
  LET there == Task \ Creatable
      first == CHOOSE t \in there : \A u \in there :
                 TaskPriority[u] <= TaskPriority[t]
  IN  /\ first \in there
      /\ \A u \in there : TaskPriority[u] <= TaskPriority[first]
<1> DEFINE there == Task \ Creatable
           below(t) == MaxPriority - TaskPriority[t]
           W == {below(t) : t \in there}
           R == {ss \in Nat \X Nat : ss[1] < ss[2]}
<1>1. \A t \in Task : TaskPriority[t] \in Int /\ below(t) \in Nat
  <2> SUFFICES ASSUME NEW t \in Task PROVE TaskPriority[t] \in Int /\ below(t) \in Nat
    OBVIOUS
  <2>1. TaskPriority[t] \in 0..(MaxPriority - 1) BY TaskControlAssumption DEF Priority
  <2> QED BY <2>1
<1>2. Idle \in there BY TaskControlAssumption
<1>3. W \subseteq Nat /\ W # {} BY <1>1, <1>2
<1>4. PICK w \in W : \A y \in W : ~ (<<y, w>> \in R)
  <2>1. IsWellFoundedOn(R, Nat) BY NatLessThanWellFounded, Zenon DEF OpToRel
  <2> HIDE DEF R, W
  <2> QED BY <1>3, <2>1, WFMin
<1>5. PICK t \in there : w = below(t) BY <1>4
<1>6. \A u \in there : TaskPriority[u] <= TaskPriority[t]
  <2> SUFFICES ASSUME NEW u \in there PROVE TaskPriority[u] <= TaskPriority[t] OBVIOUS
  <2> DEFINE p == TaskPriority[u]
             q == TaskPriority[t]
  <2>1. below(u) \in W /\ below(u) \in Nat /\ below(t) \in Nat BY <1>1
  <2>2. ~ (below(u) < below(t)) BY <1>4, <1>5, <2>1
  <2>3. p \in Int /\ q \in Int /\ MaxPriority \in Int BY <1>1
  <2>4. ~ (MaxPriority - p < MaxPriority - q) BY <2>2
  <2> HIDE DEF p, q
  <2>5. p <= q BY <2>3, <2>4
  <2> QED BY <2>5 DEF p, q
<1>7. \E x \in there : \A u \in there : TaskPriority[u] <= TaskPriority[x] BY <1>6
<1> HIDE DEF there, below, W, R
<1> QED BY <1>7, Zenon DEF there

LEMMA InitIInv == Init => IInv
<1> SUFFICES ASSUME Init PROVE IInv OBVIOUS
<1> DEFINE there == Task \ Creatable
           first == CHOOSE t \in there : \A u \in there :
                      TaskPriority[u] <= TaskPriority[t]
           c == [t \in Task |-> IF t \in there THEN "ready" ELSE "none"]
<1>1. /\ first \in there
      /\ \A u \in there : TaskPriority[u] <= TaskPriority[first]
  BY FirstIs
<1>2. /\ k = [KernelStart(TaskPriority, first, 0) EXCEPT !.container = c]
      /\ tcb = [t \in Task |-> NewTCB(IF t \in there THEN "created" ELSE "free")]
      /\ control = [t \in Task |-> NoControl]
      /\ uxCurrentNumberOfTasks = Cardinality(there)
      /\ uxDeletedTasksWaitingCleanUp = 0
  BY DEF Init
<1> HIDE DEF first
<1>3. Idle \in there BY TaskControlAssumption
<1>4. c \in [Task -> Container] BY DEF Container, StateList
<1> HIDE DEF c
<1>5. /\ 0 \in Tick /\ portMAX_DELAY \in Tick BY DEF Tick, portMAX_DELAY
<1>6. /\ k \in KernelRecord /\ k.pxCurrentTCB = first
      /\ k.uxPriority = TaskPriority /\ k.container = c
      /\ k.uxSchedulerSuspended = 0
      /\ \A t \in Task : k.event[t] = "none"
  BY <1>1, <1>2, <1>4, <1>5, TaskControlAssumption DEF KernelStart, KernelRecord
<1>7. \A t \in Task : /\ NewTCB("created") \in TCB /\ NewTCB("free") \in TCB
                      /\ tcb[t].life = IF t \in there THEN "created" ELSE "free"
                      /\ ~tcb[t].suspended
  BY <1>2, NewTCBIs
<1>8. NoControl \in Control /\ NoControl.at = "user"
  BY Idle \in Task DEF NoControl, Control
<1>9. Typed BY <1>2, <1>6, <1>7, <1>8 DEF Typed
<1>10. \A t \in Task : c[t] = IF t \in there THEN "ready" ELSE "none" BY DEF c
<1>11. SuspendedByCurrent /\ ReadyOrLeaving BY <1>1, <1>2, <1>6, <1>8, <1>10
     DEF SuspendedByCurrent, ReadyOrLeaving, current, Locking
<1>12. Asked(k) BY <1>1, <1>6, <1>10 DEF Asked
<1>13. LivesAccounted
  <2>1. ASSUME NEW t \in Task PROVE LifeOf(t)
    BY <1>2, <1>6, <1>7, <1>8, <1>10 DEF LifeOf, StateList
  <2> QED BY <1>1, <1>3, <1>6, <1>7, <2>1 DEF LivesAccounted, current
<1>14. ListsHonest BY <1>2, <1>7, <1>8 DEF ListsHonest, SuspensionOf, NotificationOf
<1>15. Booked
  <2>1. Terminated = {} /\ Listed = there
    BY <1>6, <1>7, <1>10 DEF Terminated, Listed, Created
  <2> QED BY <1>2, <2>1, FS_EmptySet DEF Booked
<1> QED BY <1>9, <1>11, <1>12, <1>13, <1>14, <1>15 DEF IInv

--------------------
\* Every step preserves it.

LEMMA TaskSteps ==
  ASSUME IInv, NEW t \in Task, TaskStep(t)
  PROVE  IInv'
<1>1. CASE YieldDeleted(t)
  <2>1. /\ At(t, "deleted") /\ k' = Yield(k)
        /\ UNCHANGED <<tcb, control>> /\ UnchangedCounts
    BY <1>1 DEF YieldDeleted
  <2> QED BY <2>1, StaysYields
<1>2. CASE AfterSuspend(t) \/ ResumeAllReturn(t) BY <1>2, ReturnStep
<1>3. CASE Unlock(t) \/ CatchUpStore(t) BY <1>3, ToResumeStep
<1>4. CASE xTaskResumeAll(t) BY <1>4, ResumeAllStep
<1>5. CASE ReplayPendedTick(t) BY <1>5, ReplayStep
<1>6. CASE \E clear \in BOOLEAN : TakeNotification(t, clear) \/ NotifyWaitReturns(t, clear)
  BY <1>6, WaitEndsStep
<1> QED BY <1>1, <1>2, <1>3, <1>4, <1>5, <1>6 DEF TaskStep

LEMMA DelayingSteps ==
  ASSUME IInv, NEW t \in Task, Delaying(t)
  PROVE  IInv'
  BY DelayStep, DelayUntilStep, BlockOnEventStep, LockStep, CatchUpStep DEF Delaying

LEMMA ControllingSteps ==
  ASSUME IInv, NEW t \in Task, NEW u \in Task, Controlling(t, u)
  PROVE  IInv'
  BY CreateStep, DeleteOtherStep, SuspendStep, ResumeStep DEF Controlling

LEMMA NextIInv == IInv /\ [Next]_vars => IInv'
<1> SUFFICES ASSUME IInv, [Next]_vars PROVE IInv' OBVIOUS
<1>1. CASE UNCHANGED vars
  <2>1. UNCHANGED <<k, tcb, control>> /\ UnchangedCounts BY <1>1 DEF vars, UnchangedCounts
  <2>2. Typed' /\ Asked(k') /\ k'.pxCurrentTCB = current BY <2>1 DEF IInv, Typed, current
  <2>3. \A t \in Task : Quiet(t) BY <2>1 DEF Quiet, Moved
  <2> QED BY <2>1, <2>2, <2>3, InterruptKeeps
<1>2. CASE \E t \in Task : TaskStep(t) BY <1>2, TaskSteps
<1>3. CASE \E t \in Task : Delaying(t) BY <1>3, DelayingSteps
<1>4. CASE \E t \in Task : Taking(t) BY <1>4, NotifyTakeStep, NotifyWaitStep DEF Taking
<1>5. CASE \E t, u \in Task : Controlling(t, u) BY <1>5, ControllingSteps
<1>6. CASE \E t, u \in Task : Notifying(t, u) BY <1>6, NotifyStep, ClearStep DEF Notifying
<1>7. CASE \E t \in Creatable : vTaskDeleteSelf(t) BY <1>7, DeleteSelfStep
<1>8. CASE TakeTerminated BY <1>8, TakeTerminatedStep
<1>9. CASE prvDeleteTCB BY <1>9, FreeStep
<1>10. CASE \E u \in Taker, action \in eAction : xTaskGenericNotifyFromISR(u, action)
  <2>1. PICK u \in Taker, action \in eAction : NotifyFromISR(u, action)
    BY <1>10 DEF xTaskGenericNotifyFromISR
  <2> QED BY <2>1, NotifyFromISRStep, TaskControlAssumption
<1>11. CASE \E u \in Taker : vTaskNotifyGiveFromISR(u)
  BY <1>11, NotifyFromISRStep, TaskControlAssumption
     DEF vTaskNotifyGiveFromISR, eAction
<1>12. CASE \E u \in Task \ {Idle} : xTaskResumeFromISR(u) BY <1>12, ResumeFromISRStep
<1>13. CASE \E l \in EventList : EventFromISR(l) BY <1>13, EventStep
<1>14. CASE xTaskIncrementTick BY <1>14, TickStep
<1>15. CASE SwitchContext BY <1>15, SwitchStep
<1> QED BY <1>1, <1>2, <1>3, <1>4, <1>5, <1>6, <1>7, <1>8, <1>9, <1>10, <1>11, <1>12,
     <1>13, <1>14, <1>15 DEF Next

--------------------
\* What the invariant says.

\* The scheduler lock, the lists, the notifications, the suspensions and the
\* books of the deleted tasks fit together at every step: creation, deletion,
\* suspension, delays, notifications, ticks and interrupts of tasks.c.
THEOREM TaskInvariant == Spec => []IInv
  BY InitIInv, NextIInv, PTL DEF Spec

LEMMA InvTypeOK == IInv => TypeOK
<1> SUFFICES ASSUME IInv PROVE TypeOK OBVIOUS
<1>1. k \in KernelRecord /\ tcb \in [Task -> TCB] /\ control \in [Task -> Control]
  BY DEF IInv, Typed
<1>2. ASSUME NEW S \in SUBSET Task
      PROVE  Cardinality(S) \in 0..Cardinality(Task)
  <2>1. IsFiniteSet(S) /\ Cardinality(S) <= Cardinality(Task) BY TasksAreFinite, FS_Subset
  <2>2. Cardinality(S) \in Nat /\ Cardinality(Task) \in Nat
    BY <2>1, TasksAreFinite, FS_CardinalityType
  <2> QED BY <2>1, <2>2
<1>3. Terminated \in SUBSET Task /\ Listed \in SUBSET Task BY DEF Terminated, Listed
<1>4. /\ uxDeletedTasksWaitingCleanUp \in 0..Cardinality(Task)
      /\ uxCurrentNumberOfTasks \in 0..Cardinality(Task)
  BY <1>2, <1>3 DEF IInv, Booked
<1> QED BY <1>1, <1>4 DEF TypeOK, KernelRecord

\* Every task is on one of the kernel's lists, or on none, and the counts of
\* the tasks never leave their range.
THEOREM TypeCorrect == Spec => []TypeOK
  BY TaskInvariant, InvTypeOK, PTL

LEMMA InvMostUrgent == IInv => HighestPriorityRuns
<1> SUFFICES ASSUME IInv, k.uxSchedulerSuspended = 0, ~k.pendSV,
                    ~k.xYieldPending, ~Masked
             PROVE  \/ current \in Runnable(k)
                    \/ control[current].at = "deleted"
                    \/ /\ control[current].at = "suspended"
                       /\ control[current].other = current
  BY DEF HighestPriorityRuns, current
<1>1. current \in Task /\ control[current].at # "ticks"
  BY DEF IInv, Typed, KernelRecord, Masked, current
<1>2. control[current].at # "resume" BY DEF IInv, SuspendedByCurrent, Locking
<1>3. \A t \in Task : k.container[t] = "ready" =>
        k.uxPriority[t] <= k.uxPriority[current]
  BY DEF IInv, Asked, current
<1>4. CASE k.container[current] = "ready" BY <1>1, <1>3, <1>4 DEF Runnable, Ready
<1>5. CASE k.container[current] # "ready" BY <1>1, <1>2, <1>5 DEF IInv, ReadyOrLeaving
<1> QED BY <1>4, <1>5

\* Whatever tasks and interrupts do, with the scheduler running and no switch
\* asked for the running task is the most urgent of those that are ready: the
\* yields and yield-pending flags of every operation are the ones it needs.
THEOREM MostUrgentRuns == Spec => []HighestPriorityRuns
  BY TaskInvariant, InvMostUrgent, PTL

LEMMA InvAccounted == IInv => TasksAccounted
<1> SUFFICES ASSUME IInv PROVE TasksAccounted OBVIOUS
<1>1. SuspendedStays BY DEF IInv, ListsHonest, SuspensionOf, SuspendedStays
<1>2. NoNotifiedTaskBlocked
  BY DEF IInv, ListsHonest, NotificationOf, NoNotifiedTaskBlocked
<1>3. ASSUME NEW t \in Task
      PROVE  /\ tcb[t].life = "free" => /\ k.container[t] = "none"
                                        /\ k.event[t] = "none"
                                        /\ k.pxCurrentTCB # t
             /\ tcb[t].life = "deleted" => \/ k.container[t] = "termination"
                                           \/ control[Idle].other = t
  <2>1. LifeOf(t) /\ tcb[current].life # "free" BY DEF IInv, LivesAccounted
  <2>2. k.container[t] \in Container BY DEF IInv, Typed, KernelRecord
  <2> QED BY <2>1, <2>2 DEF LifeOf, Container, current
<1>4. DeletionAccounted BY <1>3 DEF IInv, Booked, Terminated, Listed, DeletionAccounted
<1> QED BY <1>1, <1>2, <1>4 DEF TasksAccounted

\* A suspended task stays so until it is resumed, no notified task goes on
\* waiting, and the books of the deleted balance: no TCB is freed twice, lost,
\* or freed while a list or the processor holds it.
THEOREM TasksAreAccounted == Spec => []TasksAccounted
  BY TaskInvariant, InvAccounted, PTL

--------------------
\* Delays across the wrap of the tick count.

LEMMA OnceAround ==
  ASSUME NEW m \in Nat, m > 0, NEW x \in Nat, x < 2 * m
  PROVE  x % m = IF x < m THEN x ELSE x - m
  OBVIOUS

\* The sum and the difference of two ticks are reduced by one round at most.
LEMMA TickSums ==
  ASSUME NEW a \in Tick, NEW b \in Tick
  PROVE  /\ (a + b) % TickMod = IF a + b < TickMod THEN a + b ELSE a + b - TickMod
         /\ (a + TickMod - b) % TickMod = IF a < b THEN a + TickMod - b ELSE a - b
<1>1. /\ a \in Nat /\ b \in Nat /\ TickMod \in Nat /\ TickMod > 0
      /\ a < TickMod /\ b < TickMod
  BY DEF Tick
<1>2. /\ a + b \in Nat /\ a + b < 2 * TickMod
      /\ a + TickMod - b \in Nat /\ a + TickMod - b < 2 * TickMod
      /\ a + TickMod - b < TickMod <=> a < b
      /\ a + TickMod - b - TickMod = a - b
  BY <1>1
<1> QED BY <1>1, <1>2, OnceAround

LEMMA InvDelayUntil == IInv => DelayUntilByElapsed
<1> SUFFICES ASSUME IInv, NEW previous \in Tick, NEW increment \in Increments
             PROVE  ShouldDelay(previous, increment, k.xTickCount) <=>
                      (k.xTickCount + TickMod - previous) % TickMod < increment
  BY DEF DelayUntilByElapsed
<1> DEFINE now == k.xTickCount
           wake == (previous + increment) % TickMod
           elapsed == (now + TickMod - previous) % TickMod
<1>1. now \in Tick /\ increment \in Tick
  BY TaskControlAssumption DEF IInv, Typed, KernelRecord
<1>2. /\ wake = IF previous + increment < TickMod THEN previous + increment
                ELSE previous + increment - TickMod
      /\ elapsed = IF now < previous THEN now + TickMod - previous
                   ELSE now - previous
  BY <1>1, TickSums
<1>3. ShouldDelay(previous, increment, now) <=>
        IF now < previous THEN wake < previous /\ wake > now
                          ELSE wake < previous \/ wake > now
  BY DEF ShouldDelay
<1>4. /\ now \in Nat /\ previous \in Nat /\ increment \in Nat /\ TickMod \in Nat
      /\ now < TickMod /\ previous < TickMod /\ increment < TickMod
  BY <1>1 DEF Tick
<1> HIDE DEF now, wake, elapsed
<1>5. (IF now < previous THEN wake < previous /\ wake > now
                         ELSE wake < previous \/ wake > now) <=> elapsed < increment
  BY <1>2, <1>4
<1> QED BY <1>3, <1>5 DEF now, elapsed

\* vTaskDelayUntil delays exactly if less than the increment has passed since
\* the previous wake-up, for every width of the tick count and wherever it
\* wraps between the two.
THEOREM DelayUntilIsExact == Spec => []DelayUntilByElapsed
  BY TaskInvariant, InvDelayUntil, PTL

--------------------
\* The lock of the kernel that the CMSIS layer hands to threads follows their
\* regions, for any number of threads and of regions within each other.

CONSTANTS Thread, NestBound, SuspendBound
VARIABLES kernelState, uxSchedulerSuspended, running, regions, redundant, halted

KL == INSTANCE CmsisKernel WITH KernelState <- kernelState

InLocked(s) == s # <<>> /\ s[Len(s)].kind = "locked"

\* Locked and open regions alternate, and each was told to restore the other.
WellNested(s) ==
  /\ s \in Seq(KL!Region)
  /\ \A i \in 1..Len(s) :
       /\ s[i].kind = "locked" => s[i].lock = 0
       /\ s[i].kind = "open" => s[i].lock = 1
       /\ i = 1 => s[i].kind = "locked"
       /\ i > 1 => s[i].kind # s[i - 1].kind

\* A thread that does not run has left the kernel open.
Nested ==
  /\ halted = FALSE /\ running \in Thread /\ DOMAIN regions = Thread
  /\ \A t \in Thread : WellNested(regions[t])
  /\ \A t \in Thread : t # running => ~InLocked(regions[t])
  /\ uxSchedulerSuspended = IF InLocked(regions[running]) THEN 1 ELSE 0

KernelLockInv == redundant \in BOOLEAN /\ (~redundant => Nested)

\* To enter a region of the other kind keeps them in turn.
LEMMA EnteringNests ==
  ASSUME NEW s, WellNested(s), NEW r \in KL!Region,
         r.kind = "locked" <=> ~InLocked(s),
         r.lock = IF r.kind = "locked" THEN 0 ELSE 1
  PROVE  WellNested(Append(s, r)) /\ (InLocked(Append(s, r)) <=> r.kind = "locked")
<1> DEFINE n == Len(s)
<1>1. s \in Seq(KL!Region) /\ n \in Nat  BY DEF WellNested
<1>2. /\ Append(s, r) \in Seq(KL!Region) /\ Len(Append(s, r)) = n + 1
      /\ Append(s, r)[n + 1] = r /\ Append(s, r) # <<>>
      /\ \A i \in 1..n : Append(s, r)[i] = s[i]
  BY <1>1, AppendProperties
<1>3. s = <<>> <=> n = 0  BY <1>1, EmptySeq
<1>4. r.kind \in {"locked", "open"}  BY DEF KL!Region
<1>5. n > 0 => s[n].kind \in {"locked", "open"}
  <2> SUFFICES ASSUME n > 0 PROVE s[n].kind \in {"locked", "open"}  OBVIOUS
  <2>1. s[n] \in KL!Region  BY <1>1, ElementOfSeq
  <2> QED  BY <2>1 DEF KL!Region
<1>6. n > 0 => r.kind # s[n].kind  BY <1>3, <1>4, <1>5 DEF InLocked
<1>7. n = 0 => r.kind = "locked"  BY <1>3 DEF InLocked
<1>8. ASSUME NEW i \in 1..(n + 1)
      PROVE  /\ Append(s, r)[i].kind = "locked" => Append(s, r)[i].lock = 0
             /\ Append(s, r)[i].kind = "open" => Append(s, r)[i].lock = 1
             /\ i = 1 => Append(s, r)[i].kind = "locked"
             /\ i > 1 => Append(s, r)[i].kind # Append(s, r)[i - 1].kind
  <2>1. CASE i \in 1..n
    <3>1. i > 1 => i - 1 \in 1..n  BY <1>1, <2>1
    <3> QED  BY <1>2, <2>1, <3>1 DEF WellNested
  <2>2. CASE i = n + 1
    <3>1. Append(s, r)[i] = r  BY <1>2, <2>2
    <3>2. i > 1 => n \in 1..n /\ i - 1 = n /\ n > 0  BY <1>1, <2>2
    <3>3. i > 1 => Append(s, r)[i - 1] = s[n]  BY <1>2, <3>2
    <3>4. i = 1 => n = 0  BY <1>1, <2>2
    <3>5. i > 1 => Append(s, r)[i].kind # Append(s, r)[i - 1].kind
      BY <1>6, <3>1, <3>2, <3>3
    <3> QED  BY <1>4, <1>7, <3>1, <3>4, <3>5
  <2> QED  BY <1>1, <2>1, <2>2
<1> QED  BY <1>2, <1>8 DEF WellNested, InLocked

\* To leave the innermost region leads back to one of the other kind.
LEMMA LeavingNests ==
  ASSUME NEW s, WellNested(s), s # <<>>
  PROVE  /\ WellNested(SubSeq(s, 1, Len(s) - 1))
         /\ InLocked(SubSeq(s, 1, Len(s) - 1)) <=> ~InLocked(s)
         /\ s[Len(s)].lock = IF InLocked(s) THEN 0 ELSE 1
<1> DEFINE n == Len(s)
           p == SubSeq(s, 1, n - 1)
<1>1. s \in Seq(KL!Region) /\ n \in Nat /\ n > 0  BY EmptySeq DEF WellNested
<1>2. \A i \in 1..n : s[i] \in KL!Region  BY <1>1, ElementOfSeq
<1>3. /\ p \in Seq(KL!Region) /\ Len(p) = n - 1
      /\ \A i \in 1..(n - 1) : p[i] = s[i]
  <2>1. \A i \in 1..(n - 1) : s[i] \in KL!Region  BY <1>1, <1>2
  <2>2. /\ p \in Seq(KL!Region)
        /\ Len(p) = IF 1 <= n - 1 THEN (n - 1) - 1 + 1 ELSE 0
        /\ \A i \in 1..((n - 1) - 1 + 1) : p[i] = s[1 + i - 1]
    BY <1>1, <2>1, SubSeqProperties
  <2> HIDE DEF n, p
  <2>3. (n - 1) - 1 + 1 = n - 1 /\ \A i \in 1..(n - 1) : 1 + i - 1 = i  BY <1>1
  <2>4. \A i \in 1..(n - 1) : p[i] = s[i]  BY <2>2, <2>3
  <2> QED  BY <1>1, <2>2, <2>4
<1> HIDE DEF p
<1>4. s[n].kind \in {"locked", "open"}  BY <1>1, <1>2 DEF KL!Region
<1>5. p = <<>> <=> n = 1  BY <1>1, <1>3, EmptySeq
<1>6. WellNested(p)
  <2>1. \A i \in 1..(n - 1) : i \in 1..n /\ (i > 1 => i - 1 \in 1..(n - 1)) BY <1>1
  <2> QED  BY <1>3, <2>1 DEF WellNested
<1>7. n > 1 => p[n - 1] = s[n - 1] /\ s[n - 1].kind \in {"locked", "open"}
  <2> SUFFICES ASSUME n > 1 PROVE p[n - 1] = s[n - 1] /\ s[n - 1].kind \in {"locked", "open"}
    OBVIOUS
  <2>1. n - 1 \in 1..(n - 1) /\ n - 1 \in 1..n  BY <1>1
  <2> QED  BY <1>2, <1>3, <2>1 DEF KL!Region
<1>8. /\ n > 1 => s[n].kind # s[n - 1].kind
      /\ n = 1 => s[n].kind = "locked"
      /\ s[n].kind = "locked" => s[n].lock = 0
      /\ s[n].kind = "open" => s[n].lock = 1
  BY <1>1 DEF WellNested
<1>9. InLocked(p) <=> n > 1 /\ s[n - 1].kind = "locked"
  BY <1>1, <1>3, <1>5, <1>7 DEF InLocked
<1>10. InLocked(s) <=> s[n].kind = "locked"  BY DEF InLocked
<1>11. InLocked(p) <=> ~InLocked(s)
  <2> HIDE DEF n
  <2>1. CASE n = 1  BY <1>8, <1>9, <1>10, <2>1
  <2>2. CASE n > 1  BY <1>4, <1>7, <1>8, <1>9, <1>10, <2>2
  <2>3. n = 1 \/ n > 1  BY <1>1
  <2> QED  BY <2>1, <2>2, <2>3, Zenon
<1>12. s[n].lock = IF InLocked(s) THEN 0 ELSE 1  BY <1>4, <1>8, <1>10
<1> QED  BY <1>6, <1>11, <1>12 DEF p

LEMMA InitNested == KL!Init => KernelLockInv
<1> SUFFICES ASSUME KL!Init PROVE KernelLockInv  OBVIOUS
<1>1. \A t \in Thread : regions[t] = <<>>  BY DEF KL!Init
<1>2. WellNested(<<>>) /\ ~InLocked(<<>>)
  <2>1. <<>> \in Seq(KL!Region) /\ Len(<<>>) = 0  BY EmptySeq
  <2> QED  BY <2>1 DEF WellNested, InLocked
<1>3. \A t \in Thread : WellNested(regions[t]) /\ ~InLocked(regions[t])  BY <1>1, <1>2
<1> QED  BY <1>3 DEF KL!Init, KernelLockInv, Nested

\* What a thread does to its innermost region it does to the kernel.
LEMMA LockNested ==
  ASSUME KernelLockInv, NEW t \in Thread, KL!osKernelLock(t), ~redundant'
  PROVE  Nested'
<1>1. ~redundant /\ Nested /\ running = t
  BY DEF KernelLockInv, KL!osKernelLock, KL!Enters, KL!Runs
<1>2. uxSchedulerSuspended = 0 /\ uxSchedulerSuspended' = 1 /\ KL!Enters(t, "locked", 0)
  <2>1. ~KL!Enters(t, "locked", 1)  BY DEF KL!Enters
  <2>2. uxSchedulerSuspended \in {0, 1}  BY <1>1 DEF Nested
  <2> QED  BY <2>1, <2>2 DEF KL!osKernelLock
<1> DEFINE r == [kind |-> "locked", lock |-> 0]
<1>3. r \in KL!Region  BY DEF KL!Region
<1>4. ~InLocked(regions[t]) /\ WellNested(regions[t])  BY <1>1, <1>2 DEF Nested
<1>5. WellNested(Append(regions[t], r)) /\ InLocked(Append(regions[t], r))
  BY <1>3, <1>4, EnteringNests
<1>6. regions' = [regions EXCEPT ![t] = Append(regions[t], r)]  BY <1>2 DEF KL!Enters
<1>7. /\ DOMAIN regions' = Thread /\ regions'[t] = Append(regions[t], r)
      /\ \A u \in Thread : u # t => regions'[u] = regions[u]
  BY <1>1, <1>6 DEF Nested
<1>8. halted' = halted /\ running' = running  BY DEF KL!osKernelLock
<1> HIDE DEF r
<1> QED  BY <1>1, <1>2, <1>5, <1>7, <1>8 DEF Nested

LEMMA UnlockNested ==
  ASSUME KernelLockInv, NEW t \in Thread, KL!osKernelUnlock(t), ~redundant'
  PROVE  Nested'
<1>1. ~redundant /\ Nested /\ running = t
  BY DEF KernelLockInv, KL!osKernelUnlock, KL!Enters, KL!Runs
<1>2. uxSchedulerSuspended = 1 /\ uxSchedulerSuspended' = 0 /\ KL!Enters(t, "open", 1)
  <2>1. ~KL!Enters(t, "open", 0)
    <3>1. "open" # "locked" /\ 0 # 1  OBVIOUS
    <3> QED  BY <3>1, Zenon DEF KL!Enters
  <2>2. uxSchedulerSuspended \in {0, 1}  BY <1>1 DEF Nested
  <2> QED  BY <2>1, <2>2 DEF KL!osKernelUnlock
<1> DEFINE r == [kind |-> "open", lock |-> 1]
<1>3. r \in KL!Region  BY DEF KL!Region
<1>4. InLocked(regions[t]) /\ WellNested(regions[t])  BY <1>1, <1>2 DEF Nested
<1>5. WellNested(Append(regions[t], r)) /\ ~InLocked(Append(regions[t], r))
  BY <1>3, <1>4, EnteringNests
<1>6. regions' = [regions EXCEPT ![t] = Append(regions[t], r)]  BY <1>2 DEF KL!Enters
<1>7. /\ DOMAIN regions' = Thread /\ regions'[t] = Append(regions[t], r)
      /\ \A u \in Thread : u # t => regions'[u] = regions[u]
  BY <1>1, <1>6 DEF Nested
<1>8. halted' = halted /\ running' = running  BY DEF KL!osKernelUnlock
<1> HIDE DEF r
<1> QED  BY <1>1, <1>2, <1>5, <1>7, <1>8 DEF Nested

LEMMA RestoreNested ==
  ASSUME KernelLockInv, NEW t \in Thread, KL!osKernelRestoreLock(t), ~redundant'
  PROVE  Nested'
<1>1. ~redundant /\ Nested /\ running = t
  BY DEF KernelLockInv, KL!osKernelRestoreLock, KL!Runs
<1> DEFINE s == regions[t]
           p == SubSeq(s, 1, Len(s) - 1)
<1>2. s # <<>> /\ regions' = [regions EXCEPT ![t] = p]
  BY DEF KL!osKernelRestoreLock, KL!Leaves
<1>3. WellNested(s)  BY <1>1 DEF Nested
<1>4. /\ WellNested(p) /\ (InLocked(p) <=> ~InLocked(s))
      /\ s[Len(s)].lock = IF InLocked(s) THEN 0 ELSE 1
  BY <1>2, <1>3, LeavingNests
<1>5. uxSchedulerSuspended = IF InLocked(s) THEN 1 ELSE 0  BY <1>1 DEF Nested
<1>6. halted' = FALSE /\ uxSchedulerSuspended' = IF InLocked(p) THEN 1 ELSE 0
  <2>1. CASE InLocked(s)
    <3>1. s[Len(s)].lock = 0 /\ uxSchedulerSuspended = 1  BY <1>4, <1>5, <2>1
    <3>2. uxSchedulerSuspended' = 0 /\ halted' = halted
      BY <3>1 DEF KL!osKernelRestoreLock, KL!Wanted, KL!osError
    <3> QED  BY <1>1, <1>4, <2>1, <3>2 DEF Nested
  <2>2. CASE ~InLocked(s)
    <3>1. s[Len(s)].lock = 1 /\ uxSchedulerSuspended = 0  BY <1>4, <1>5, <2>2
    <3>2. uxSchedulerSuspended' = 1 /\ halted' = halted
      BY <3>1 DEF KL!osKernelRestoreLock, KL!Wanted, KL!osError
    <3> QED  BY <1>1, <1>4, <2>2, <3>2 DEF Nested
  <2> QED  BY <2>1, <2>2
<1>7. /\ DOMAIN regions' = Thread /\ regions'[t] = p
      /\ \A u \in Thread : u # t => regions'[u] = regions[u]
  BY <1>1, <1>2 DEF Nested
<1>8. running' = running  BY DEF KL!osKernelRestoreLock
<1> HIDE DEF p, s
<1> QED  BY <1>1, <1>4, <1>6, <1>7, <1>8 DEF Nested

\* While the kernel is open another thread may run: its own regions are open, too.
LEMMA SwitchNested ==
  ASSUME KernelLockInv, KL!Switch, ~redundant'
  PROVE  Nested'
<1>1. ~redundant /\ Nested /\ uxSchedulerSuspended = 0  BY DEF KernelLockInv, KL!Switch
<1>2. \A t \in Thread : ~InLocked(regions[t])  BY <1>1 DEF Nested
<1>3. running' \in Thread /\ UNCHANGED <<uxSchedulerSuspended, regions, halted>>
  BY DEF KL!Switch
<1> QED  BY <1>1, <1>2, <1>3 DEF Nested

LEMMA StepNested == KernelLockInv /\ [KL!Next]_(KL!vars) => KernelLockInv'
<1> SUFFICES ASSUME KernelLockInv, [KL!Next]_(KL!vars) PROVE KernelLockInv'  OBVIOUS
<1>1. CASE UNCHANGED KL!vars  BY <1>1 DEF KL!vars, KernelLockInv, Nested
<1>2. CASE KL!Halt  BY <1>2 DEF KL!Halt, KL!vars, KernelLockInv, Nested
<1>3. CASE KL!osKernelInitialize  BY <1>3 DEF KL!osKernelInitialize, KernelLockInv, Nested
<1>4. CASE KL!osKernelStart  BY <1>4 DEF KL!osKernelStart, KernelLockInv, Nested
<1>5. CASE KL!Switch
  <2>1. redundant' = redundant  BY <1>5 DEF KL!Switch
  <2> QED  BY <1>5, <2>1, SwitchNested DEF KernelLockInv
<1>6. ASSUME NEW t \in Thread, KL!osKernelLock(t) PROVE KernelLockInv'
  <2>1. redundant' \in BOOLEAN  BY <1>6 DEF KL!osKernelLock, KL!Enters
  <2> QED  BY <1>6, <2>1, LockNested DEF KernelLockInv
<1>7. ASSUME NEW t \in Thread, KL!osKernelUnlock(t) PROVE KernelLockInv'
  <2>1. redundant' \in BOOLEAN  BY <1>7 DEF KL!osKernelUnlock, KL!Enters
  <2> QED  BY <1>7, <2>1, UnlockNested DEF KernelLockInv
<1>8. ASSUME NEW t \in Thread, KL!osKernelRestoreLock(t) PROVE KernelLockInv'
  <2>1. redundant' = redundant  BY <1>8 DEF KL!osKernelRestoreLock
  <2> QED  BY <1>8, <2>1, RestoreNested DEF KernelLockInv
<1> QED  BY <1>1, <1>2, <1>3, <1>4, <1>5, <1>6, <1>7, <1>8 DEF KL!Next

LEMMA NestedFollows == KernelLockInv => KL!LockFollowsRegions
<1> SUFFICES ASSUME KernelLockInv, ~redundant
             PROVE  /\ ~halted
                    /\ uxSchedulerSuspended =
                         IF regions[running] # <<>>
                            /\ regions[running][Len(regions[running])].kind = "locked"
                           THEN 1 ELSE 0
  BY DEF KL!LockFollowsRegions
<1> QED  BY DEF KernelLockInv, Nested, InLocked

\* The kernel is locked exactly in the locked regions of the thread that runs,
\* and never more than once: osKernelLock, osKernelUnlock, osKernelRestoreLock.
THEOREM KernelLockFollowsRegions == KL!Spec => []KL!LockFollowsRegions
<1>1. KL!Init => KernelLockInv  BY InitNested
<1>2. KernelLockInv /\ [KL!Next]_(KL!vars) => KernelLockInv'  BY StepNested
<1>3. KernelLockInv => KL!LockFollowsRegions  BY NestedFollows
<1> QED  BY <1>1, <1>2, <1>3, PTL DEF KL!Spec

--------------------
\* Threads: what one of them asks while the others go on.

CONSTANTS Exiting, ArrayItems

VARIABLES container, event, notify, suspended, dynamic, heap, call, answer

Th == INSTANCE Threads

LEMMA SameFiniteThreads == ASSUME NEW S PROVE Th!IsFiniteSet(S) <=> IsFiniteSet(S)
BY DEF Th!IsFiniteSet, IsFiniteSet

LEMMA SameThreadCount == \A S : Th!Cardinality(S) = Cardinality(S)
BY DEF Th!Cardinality, Cardinality

\* What the lists can be that a question still has to go through.
Orders == {Th!SystemStateOrder, <<"delayed", "termination", "suspended">>,
           <<"termination", "suspended">>, <<"suspended">>, <<>>}
Searches == {Th!SearchOrder, <<"delayed", "suspended", "termination">>,
             <<"suspended", "termination">>, <<"termination">>, <<>>}

ToGo(lists) == {lists[i] : i \in 1..Len(lists)}

Functions == {"none", "xTaskCreate", "eTaskGetState", "uxTaskGetSystemState",
              "xTaskGetHandle"}

\* What a call holds, by the function it is in.
Started(c) == c = [fn |-> c.fn, task |-> c.task, at |-> c.at] /\ c.task \in Thread
Query(c) ==
  /\ c = [fn |-> c.fn, task |-> c.task, at |-> c.at, by |-> c.by, list |-> c.list,
          seen |-> c.seen]
  /\ c.task \in Th!Task /\ c.at \in {"list", "notify", "done"}
  /\ c.by \in {"osThreadGetState", "osThreadTerminate"}
  /\ c.list \in Th!StateList
Collected(c) ==
  /\ c = [fn |-> c.fn, task |-> c.task, full |-> c.full, lists |-> c.lists,
          array |-> c.array, items |-> c.items]
  /\ c.lists \in Orders /\ c.array \subseteq Th!Task \X Th!State
  /\ c.full \in BOOLEAN
Sought(c) ==
  /\ c = [fn |-> c.fn, task |-> c.task, lists |-> c.lists]
  /\ c.task \in Th!Task /\ c.lists \in Searches

ThreadsTyped ==
  /\ container \in [Th!Task -> Th!StateList \cup {"unknown"}]
  /\ event \in [Th!Task -> {"none", "object", "pending"}]
  /\ notify \in [Th!Task -> BOOLEAN] /\ suspended \in [Th!Task -> BOOLEAN]
  /\ dynamic \in [Th!Task -> BOOLEAN]

\* How the lists of a task and its marks go together.
Lodged(t) ==
  /\ event[t] # "none" =>
       container[t] \in {"ready", "delayed", "suspended"} /\ ~suspended[t]
  /\ event[t] = "object" => container[t] \in {"delayed", "suspended"}
  /\ event[t] = "pending" => Th!SchedulerSuspended
  /\ suspended[t] => container[t] = "suspended" /\ ~notify[t]
  /\ container[t] = "suspended" => suspended[t] \/ event[t] # "none" \/ notify[t]
  /\ container[t] = "termination" => t \in Exiting
  /\ container[t] \in {"unknown", "none"} => ~notify[t]
  /\ container[t] = "none" => ~dynamic[t]

SelfRuns == /\ container[Th!Self] = "ready" /\ event[Th!Self] = "none"
            /\ ~notify[Th!Self] /\ ~suspended[Th!Self] /\ ~dynamic[Th!Self]

\* A wait in the list of suspended tasks.
Dormant(t) == /\ container[t] = "suspended" /\ ~suspended[t]
              /\ (event[t] # "none" \/ notify[t])

Excused(seen) == "eSuspended" \in seen \/ {"eBlocked", "eReady"} \subseteq seen

\* What the list said that the task was in is what the task was, or, of the list of
\* suspended tasks, is yet to be told.
ListTold(c) ==
  /\ c.list = "ready" /\ c.task # Th!Self => "eReady" \in c.seen
  /\ c.list = "delayed" => "eBlocked" \in c.seen
  /\ c.list \in {"termination", "none"} => "eDeleted" \in c.seen
  /\ c.task = Th!Self => c.list = "ready" /\ "eRunning" \in c.seen
  /\ c.at = "notify" => c.list = "suspended"

SuspendedTold(c) ==
  c.list = "suspended" =>
    /\ notify[c.task] => "eBlocked" \in c.seen
    /\ c.at = "done" => "eBlocked" \in c.seen
    /\ c.at # "done" => \/ Excused(c.seen)
                         \/ /\ "eBlocked" \in c.seen /\ Dormant(c.task)
                            /\ c.at = "notify" => event[c.task] = "none"

\* Who is to be terminated does not go meanwhile.
StillThere(c) ==
  /\ container[c.task] # "unknown"
  /\ c.by = "osThreadTerminate" =>
       /\ c.task \notin Exiting /\ c.task # Th!Self
       /\ c.list \notin {"termination", "none"} => Th!Known(c.task)

Reported(e) ==
  \/ e[2] \in Th!StatesOf(e[1])
  \/ /\ e[2] = "eSuspended" /\ container[e[1]] = "suspended"
     /\ event[e[1]] # "object"

\* The array has one entry for each task on the lists that were gone through.
ArrayFits(c) ==
  /\ ~c.full => c.lists = <<>>
  /\ c.full =>
       /\ \A e \in c.array : /\ Th!Listed(e[1]) /\ container[e[1]] \notin ToGo(c.lists)
                             /\ Reported(e)
       /\ \A t \in Th!Task : Th!Listed(t) /\ container[t] \notin ToGo(c.lists) =>
            \E s \in Th!State : <<t, s>> \in c.array
       /\ \A e, f \in c.array : e[1] = f[1] => e = f

CreateFits(c) == Started(c) /\ container[c.task] = "unknown"
ReadFits(c) == /\ Query(c) /\ Th!StatesOf(c.task) \subseteq c.seen
               /\ ListTold(c) /\ SuspendedTold(c) /\ StillThere(c)
CollectFits(c) == Collected(c) /\ ArrayFits(c)
SearchFits(c) ==
  Sought(c) /\ (Th!Listed(c.task) => container[c.task] \in ToGo(c.lists))

CallFits ==
  /\ call.fn \in Functions
  /\ call.fn = "none" => call = Th!NoCall
  /\ call.fn = "xTaskCreate" => CreateFits(call)
  /\ call.fn = "eTaskGetState" => ReadFits(call)
  /\ call.fn = "uxTaskGetSystemState" => CollectFits(call)
  /\ call.fn = "xTaskGetHandle" => SearchFits(call)

\* What the last step answered.
Told == /\ Th!StateIsOneItHad
        /\ answer.fn = "xTaskGetHandle" => answer.found = answer.exists

AllLodged == \A t \in Th!Task : Lodged(t)

ThreadInv == /\ ThreadsTyped /\ AllLodged /\ SelfRuns /\ CallFits
             /\ Th!ThreadsAccounted /\ Told

--------------------
\* Counting the threads.

ListedIn(c) == {t \in Th!Task : c[t] \notin {"unknown", "none"}}
EndedIn(c) == {t \in Th!Task : c[t] = "termination"}
Differ(c, d, t) == \A u \in Th!Task : u # t => d[u] = c[u]

LEMMA ThreadsFinite ==
  ASSUME Th!ThreadsFit
  PROVE  IsFiniteSet(Th!Task) /\ Th!Self \in Th!Task /\ Th!Self \notin Thread
BY SameFiniteThreads, FS_AddElement DEF Th!ThreadsFit, Th!Task

\* A set that differs from another in one task at most.
LEMMA CountMoves ==
  ASSUME Th!ThreadsFit, NEW S \in SUBSET Th!Task, NEW T \in SUBSET Th!Task,
         NEW t \in Th!Task, \A u \in Th!Task : u # t => (u \in S <=> u \in T)
  PROVE  /\ Cardinality(S) \in Nat /\ Cardinality(T) \in Nat
         /\ (t \in S <=> t \in T) => T = S
         /\ t \in T /\ t \notin S => Cardinality(T) = Cardinality(S) + 1
         /\ t \notin T /\ t \in S => Cardinality(T) = Cardinality(S) - 1
<1>1. IsFiniteSet(S) /\ IsFiniteSet(T) BY ThreadsFinite, FS_Subset
<1>2. Cardinality(S) \in Nat /\ Cardinality(T) \in Nat BY <1>1, FS_CardinalityType
<1>3. ASSUME t \in S <=> t \in T PROVE T = S BY <1>3
<1>4. ASSUME t \in T, t \notin S PROVE Cardinality(T) = Cardinality(S) + 1
  <2>1. T = S \cup {t} BY <1>4
  <2> QED BY <1>1, <1>4, <2>1, FS_AddElement
<1>5. ASSUME t \notin T, t \in S PROVE Cardinality(T) = Cardinality(S) - 1
  <2>1. S = T \cup {t} BY <1>5
  <2> QED BY <1>1, <1>2, <1>5, <2>1, FS_AddElement
<1> QED BY <1>2, <1>3, <1>4, <1>5

\* The counts of ThreadsAccounted, and what is on the heap.
HeapIs(c, d, fn, task) ==
  {m \in Th!Task \X {"stack", "tcb"} :
     \/ d[m[1]] /\ c[m[1]] # "unknown"
     \/ m[2] = "stack" /\ fn = "xTaskCreate" /\ task = m[1]}

LEMMA AccountedIs ==
  Th!ThreadsAccounted <=>
    /\ heap = HeapIs(container, dynamic, call.fn, call.task)
    /\ uxCurrentNumberOfTasks = Cardinality(ListedIn(container))
    /\ uxDeletedTasksWaitingCleanUp = Cardinality(EndedIn(container))
<1>1. ListedIn(container) = {t \in Th!Task : Th!Listed(t)} BY DEF ListedIn, Th!Listed
<1> QED BY <1>1, SameThreadCount DEF Th!ThreadsAccounted, HeapIs, EndedIn

LEMMA AccountedNext ==
  Th!ThreadsAccounted' <=>
    /\ heap' = HeapIs(container', dynamic', call'.fn, call'.task)
    /\ uxCurrentNumberOfTasks' = Cardinality(ListedIn(container'))
    /\ uxDeletedTasksWaitingCleanUp' = Cardinality(EndedIn(container'))
<1>1. ListedIn(container') = {t \in Th!Task : Th!Listed(t)'} BY DEF ListedIn, Th!Listed
<1> QED BY <1>1, SameThreadCount DEF Th!ThreadsAccounted, HeapIs, EndedIn

--------------------
\* What the others do meanwhile.

LEMMA NoAnswerTells == ASSUME answer' = Th!NoAnswer PROVE Told'
BY DEF Told, Th!StateIsOneItHad, Th!NoAnswer, Th!NoCall

\* What Self asked for is told of every state the task comes to.
LEMMA WitnessIs ==
  ASSUME CallFits, Th!Witness, NEW u, u = call.task
  PROVE  /\ call'.fn = call.fn
         /\ call.fn # "eTaskGetState" => call' = call
         /\ call.fn = "eTaskGetState" =>
              /\ Query(call) /\ Query(call') /\ call'.task = u /\ call'.at = call.at
              /\ call'.by = call.by /\ call'.list = call.list
              /\ call'.seen = call.seen \cup Th!StatesOf(u)'
<1>1. CASE call.fn # "eTaskGetState" BY <1>1 DEF Th!Witness
<1>2. CASE call.fn = "eTaskGetState"
  <2>1. Query(call) BY <1>2 DEF CallFits, ReadFits
  <2>2. call' = [call EXCEPT !.seen = @ \cup Th!StatesOf(u)'] BY <1>2 DEF Th!Witness
  <2>3. call = [fn |-> call.fn, task |-> call.task, at |-> call.at, by |-> call.by,
                list |-> call.list, seen |-> call.seen]
    BY <2>1 DEF Query
  <2>4. call' = [fn |-> call.fn, task |-> u, at |-> call.at, by |-> call.by,
                 list |-> call.list, seen |-> call.seen \cup Th!StatesOf(u)']
    BY <2>2, <2>3
  <2>5. /\ call'.fn = call.fn /\ call'.task = u /\ call'.at = call.at
        /\ call'.by = call.by /\ call'.list = call.list
        /\ call'.seen = call.seen \cup Th!StatesOf(u)'
    BY <2>4
  <2>6. Query(call') BY <2>1, <2>4, <2>5 DEF Query
  <2> QED BY <1>2, <2>1, <2>5, <2>6
<1> QED BY <1>1, <1>2

\* A step of another thread, or of the kernel for it, that leaves it a task.
OneMoves(t) ==
  /\ Differ(container, container', t) /\ Differ(event, event', t)
  /\ Differ(notify, notify', t) /\ Differ(suspended, suspended', t)

Moves(t) ==
  /\ ThreadsTyped' /\ OneMoves(t) /\ UNCHANGED dynamic
  /\ Th!Known(t) /\ Th!Known(t)' /\ Lodged(t)'
  /\ Th!SchedulerSuspended =>
       /\ container'[t] = container[t] /\ event'[t] # "object"
       /\ event[t] = "pending" => event'[t] = "pending"
       /\ suspended'[t] => suspended[t]
  /\ ~Th!SchedulerSuspended =>
       /\ Dormant(t) => \/ Dormant(t)' /\ event'[t] = event[t]
                        \/ "eReady" \in Th!StatesOf(t)'
                        \/ "eSuspended" \in Th!StatesOf(t)'
       /\ notify'[t] => notify[t] \/ "eBlocked" \in Th!StatesOf(t)'

\* What a read of the state of a task tells stays true when it goes on.
LEMMA ReadStays ==
  ASSUME Th!ThreadsFit, ThreadInv, NEW t \in Thread, Moves(t), Th!Witness,
         call.fn = "eTaskGetState"
  PROVE  ReadFits(call)'
<1> PICK u : u = call.task OBVIOUS
<1>0. ReadFits(call) /\ CallFits /\ ~Th!SchedulerSuspended
  BY DEF ThreadInv, CallFits, Th!SchedulerSuspended
<1>1. /\ Query(call) /\ Query(call') /\ call'.task = u /\ call'.at = call.at
      /\ call'.by = call.by /\ call'.list = call.list
      /\ call'.seen = call.seen \cup Th!StatesOf(u)'
  BY <1>0, WitnessIs
<1>2. u \in Th!Task BY <1>0 DEF Query, ReadFits
<1>3. ListTold(call)' BY <1>0, <1>1 DEF ListTold, ReadFits
<1>4. StillThere(call)'
  <2>1. container'[u] # "unknown"
    <3>1. CASE u = t BY <3>1 DEF Moves, Th!Known, Th!Listed
    <3>2. CASE u # t BY <1>0, <1>2, <3>2 DEF Moves, OneMoves, Differ, ReadFits, StillThere
    <3> QED BY <3>1, <3>2
  <2>2. Th!Known(u) => Th!Known(u)'
    BY <1>2 DEF Moves, OneMoves, Differ, Th!Known, Th!Listed
  <2> QED BY <1>0, <1>1, <2>1, <2>2 DEF StillThere, ReadFits, Th!Known, Th!Listed
<1>5. SuspendedTold(call)'
  <2> SUFFICES ASSUME call.list = "suspended"
               PROVE  /\ notify'[u] => "eBlocked" \in call'.seen
                      /\ call.at = "done" => "eBlocked" \in call'.seen
                      /\ call.at # "done" =>
                           \/ Excused(call'.seen)
                           \/ /\ "eBlocked" \in call'.seen /\ Dormant(u)'
                              /\ call.at = "notify" => event'[u] = "none"
    <3>1. Dormant(call.task)' <=> Dormant(u)' BY <1>1 DEF Dormant
    <3> QED BY <1>1, <3>1 DEF SuspendedTold
  <2>1. SuspendedTold(call) BY <1>0 DEF ReadFits
  <2>2. CASE u # t
    <3>1. notify'[u] = notify[u] /\ event'[u] = event[u] /\ (Dormant(u)' <=> Dormant(u))
      BY <1>2, <2>2 DEF Moves, OneMoves, Differ, Dormant
    <3> QED BY <1>1, <2>1, <3>1 DEF SuspendedTold, Excused
  <2>3. CASE u = t
    <3>1. notify'[u] => "eBlocked" \in call'.seen
      BY <1>0, <1>1, <2>1, <2>3 DEF SuspendedTold, Moves
    <3>2. ASSUME call.at # "done", ~Excused(call.seen), "eBlocked" \in call.seen, Dormant(u),
                 call.at = "notify" => event[u] = "none"
          PROVE  \/ Excused(call'.seen)
                 \/ /\ "eBlocked" \in call'.seen /\ Dormant(u)'
                    /\ call.at = "notify" => event'[u] = "none"
      BY <1>0, <1>1, <2>3, <3>2 DEF Moves, Excused
    <3> QED BY <1>1, <2>1, <3>1, <3>2 DEF SuspendedTold, Excused
  <2> QED BY <2>2, <2>3
<1>6. Th!StatesOf(call.task)' = Th!StatesOf(u)' BY <1>1 DEF Th!StatesOf
<1> QED BY <1>1, <1>3, <1>4, <1>5, <1>6 DEF ReadFits

\* While the scheduler is suspended the lists stay as they are, and a task that is
\* pended is blocked as well as ready.
LEMMA ReportsStay ==
  ASSUME Th!ThreadsFit, ThreadInv, NEW t \in Thread, Moves(t), Th!SchedulerSuspended
  PROVE  /\ \A u \in Th!Task : container'[u] = container[u]
         /\ \A u \in Th!Task, s \in Th!State : Reported(<<u, s>>) => Reported(<<u, s>>)'
<1>1. \A u \in Th!Task : container'[u] = container[u] BY DEF Moves, OneMoves, Differ
<1>2. ASSUME NEW u \in Th!Task, NEW s \in Th!State, Reported(<<u, s>>)
      PROVE  Reported(<<u, s>>)'
  <2>1. CASE u # t
    <3>1. Th!StatesOf(u)' = Th!StatesOf(u)
      BY <2>1 DEF Moves, OneMoves, Differ, Th!StatesOf
    <3> QED BY <1>2, <2>1, <3>1 DEF Reported, Moves, OneMoves, Differ
  <2>2. CASE u = t
    <3>1. t # Th!Self /\ container'[t] = container[t] /\ event'[t] # "object"
      BY ThreadsFinite, <1>1, <2>2 DEF Moves
    <3>2. CASE s \in Th!StatesOf(t)
      <4>1. CASE container[t] \in {"delayed", "suspended"}
        <5>1. Th!StatesOf(t) = {IF suspended[t] THEN "eSuspended" ELSE "eBlocked"}
                                 \cup (IF event[t] = "pending" THEN {"eReady"} ELSE {})
          BY <3>1, <4>1 DEF Th!StatesOf
        <5>2. Th!StatesOf(t)' = {IF suspended'[t] THEN "eSuspended" ELSE "eBlocked"}
                                  \cup (IF event'[t] = "pending" THEN {"eReady"} ELSE {})
          BY <3>1, <4>1 DEF Th!StatesOf
        <5>3. suspended[t] => container[t] = "suspended"
          BY <2>2 DEF ThreadInv, AllLodged, Lodged
        <5> QED BY <2>2, <3>1, <3>2, <5>1, <5>2, <5>3 DEF Moves, Reported
      <4>2. CASE container[t] \notin {"delayed", "suspended"}
        <5>1. Th!StatesOf(t)' = Th!StatesOf(t) BY <3>1, <4>2 DEF Th!StatesOf
        <5> QED BY <2>2, <3>2, <5>1 DEF Reported
      <4> QED BY <4>1, <4>2
    <3>3. CASE s \notin Th!StatesOf(t) BY <1>2, <2>2, <3>1, <3>3 DEF Reported
    <3> QED BY <3>2, <3>3
  <2> QED BY <2>1, <2>2
<1> QED BY <1>1, <1>2

LEMMA CollectStays ==
  ASSUME Th!ThreadsFit, ThreadInv, NEW t \in Thread, Moves(t), call' = call,
         call.fn = "uxTaskGetSystemState"
  PROVE  CollectFits(call)'
<1>1. CollectFits(call) /\ Th!SchedulerSuspended
  BY DEF ThreadInv, CallFits, Th!SchedulerSuspended
<1>2. \A u \in Th!Task : container'[u] = container[u] BY <1>1, ReportsStay
<1>3. \A u \in Th!Task : Th!Listed(u)' <=> Th!Listed(u) BY <1>2 DEF Th!Listed
<1>4. ASSUME NEW e \in call.array, Reported(e) PROVE Reported(e)'
  <2>1. PICK u \in Th!Task, s \in Th!State : e = <<u, s>>
    BY <1>1 DEF CollectFits, Collected
  <2> QED BY <1>1, <1>4, <2>1, ReportsStay
<1>5. \A e \in call.array : e[1] \in Th!Task BY <1>1 DEF CollectFits, Collected
<1>6. ArrayFits(call)' BY <1>1, <1>2, <1>3, <1>4, <1>5 DEF CollectFits, ArrayFits
<1> QED BY <1>1, <1>6 DEF CollectFits, ArrayFits

LEMMA MoveCallFits ==
  ASSUME Th!ThreadsFit, ThreadInv, NEW t \in Thread, Moves(t), Th!Witness
  PROVE  CallFits'
<1>0. CallFits BY DEF ThreadInv
<1>1. CASE call.fn = "eTaskGetState" BY <1>0, <1>1, WitnessIs, ReadStays DEF CallFits
<1>2. CASE call.fn # "eTaskGetState"
  <2>1. call' = call BY <1>0, <1>2, WitnessIs
  <2>2. call.fn = "xTaskCreate" => CreateFits(call)'
    BY <1>0, <2>1 DEF CallFits, CreateFits, Started, Moves, OneMoves, Differ,
       Th!Known, Th!Listed, Th!Task
  <2>3. call.fn = "xTaskGetHandle" => SearchFits(call)'
    <3> SUFFICES ASSUME call.fn = "xTaskGetHandle" PROVE SearchFits(call)' OBVIOUS
    <3>1. Th!SchedulerSuspended /\ SearchFits(call) /\ call.task \in Th!Task
      BY <1>0 DEF CallFits, SearchFits, Sought, Th!SchedulerSuspended
    <3>2. container'[call.task] = container[call.task] BY <3>1, ReportsStay
    <3> QED BY <2>1, <3>1, <3>2 DEF SearchFits, Th!Listed, Sought
  <2> QED BY <1>0, <1>2, <2>1, <2>2, <2>3, CollectStays DEF CallFits
<1> QED BY <1>1, <1>2

\* The others are as they were.
LEMMA OthersPlaced ==
  ASSUME ThreadInv, NEW t \in Thread, OneMoves(t), Differ(dynamic, dynamic', t), Lodged(t)',
         Th!SchedulerSuspended => Th!SchedulerSuspended'
  PROVE  AllLodged'
<1>1. ASSUME NEW u \in Th!Task, u # t PROVE Lodged(u)'
  BY <1>1 DEF ThreadInv, AllLodged, Lodged, OneMoves, Differ
<1> QED BY <1>1 DEF AllLodged

LEMMA SelfStays ==
  ASSUME Th!ThreadsFit, ThreadInv, NEW t \in Thread, OneMoves(t),
         Differ(dynamic, dynamic', t)
  PROVE  SelfRuns'
BY ThreadsFinite DEF ThreadInv, SelfRuns, OneMoves, Differ

LEMMA MoveKeeps ==
  ASSUME Th!ThreadsFit, ThreadInv, NEW t \in Thread, Moves(t), Th!KernelStep
  PROVE  ThreadInv'
<1>0. /\ UNCHANGED <<dynamic, heap, uxCurrentNumberOfTasks, uxDeletedTasksWaitingCleanUp>>
      /\ answer' = Th!NoAnswer /\ Th!Witness /\ CallFits
  BY DEF Th!KernelStep, Th!memory, Th!counts, ThreadInv
<1>1. call'.fn = call.fn /\ (call.fn = "xTaskCreate" => call' = call) BY <1>0, WitnessIs
<1>2. AllLodged' /\ SelfRuns'
  BY <1>0, <1>1, OthersPlaced, SelfStays DEF Moves, Differ, Th!SchedulerSuspended
<1>3. \A u \in Th!Task : /\ container[u] # "unknown" <=> container'[u] # "unknown"
                         /\ container[u] # "none" <=> container'[u] # "none"
                         /\ container[u] = "termination" <=> container'[u] = "termination"
  BY DEF Moves, OneMoves, Differ, Th!Known, Th!Listed
<1>4. /\ ListedIn(container') = ListedIn(container) /\ EndedIn(container') = EndedIn(container)
      /\ HeapIs(container', dynamic', call'.fn, call'.task)
           = HeapIs(container, dynamic, call.fn, call.task)
  <2>1. ListedIn(container') = ListedIn(container) /\ EndedIn(container') = EndedIn(container)
    BY <1>3 DEF ListedIn, EndedIn
  <2>2. \A m \in Th!Task \X {"stack", "tcb"} :
          m \in HeapIs(container', dynamic', call'.fn, call'.task)
            <=> m \in HeapIs(container, dynamic, call.fn, call.task)
    BY <1>0, <1>1, <1>3 DEF HeapIs
  <2> QED BY <2>1, <2>2 DEF HeapIs
<1>5. Th!ThreadsAccounted' BY <1>0, <1>4, AccountedIs, AccountedNext DEF ThreadInv
<1> QED BY <1>0, <1>2, <1>5, MoveCallFits, NoAnswerTells DEF ThreadInv, Moves

\* The state of another task, of what its lists and marks are.
LEMMA StateIs ==
  ASSUME Th!ThreadsFit, NEW t \in Thread
  PROVE  /\ container[t] = "ready" => Th!StatesOf(t) = {"eReady"}
         /\ container[t] \in {"delayed", "suspended"} =>
              Th!StatesOf(t) = {IF suspended[t] THEN "eSuspended" ELSE "eBlocked"}
                                 \cup (IF event[t] = "pending" THEN {"eReady"} ELSE {})
         /\ container[t] \notin {"ready", "delayed", "suspended"} =>
              Th!StatesOf(t) = {"eDeleted"}
BY ThreadsFinite DEF Th!StatesOf

LEMMA StateNext ==
  ASSUME Th!ThreadsFit, NEW t \in Thread
  PROVE  /\ container'[t] = "ready" => Th!StatesOf(t)' = {"eReady"}
         /\ container'[t] \in {"delayed", "suspended"} =>
              Th!StatesOf(t)' = {IF suspended'[t] THEN "eSuspended" ELSE "eBlocked"}
                                 \cup (IF event'[t] = "pending" THEN {"eReady"} ELSE {})
         /\ container'[t] \notin {"ready", "delayed", "suspended"} =>
              Th!StatesOf(t)' = {"eDeleted"}
BY ThreadsFinite DEF Th!StatesOf

LEMMA NowPlaced ==
  ASSUME ThreadInv, NEW t \in Thread
  PROVE  Lodged(t) /\ t \in Th!Task /\ ThreadsTyped /\ CallFits
BY DEF ThreadInv, AllLodged, Th!Task

\* Whose lists and marks one step sets.
Sets(t, c, e, n, s) ==
  /\ container' = [container EXCEPT ![t] = c] /\ event' = [event EXCEPT ![t] = e]
  /\ notify' = [notify EXCEPT ![t] = n] /\ suspended' = [suspended EXCEPT ![t] = s]

Values(c, e, n, s) ==
  /\ c \in Th!StateList \cup {"unknown"} /\ e \in {"none", "object", "pending"}
  /\ n \in BOOLEAN /\ s \in BOOLEAN

Became(t, c, e, n, s) ==
  /\ OneMoves(t) /\ ThreadsTyped' /\ container'[t] = c /\ event'[t] = e
  /\ notify'[t] = n /\ suspended'[t] = s

LEMMA SetsIs ==
  ASSUME ThreadsTyped, UNCHANGED dynamic, NEW t \in Th!Task, NEW c, NEW e, NEW n, NEW s,
         Values(c, e, n, s), Sets(t, c, e, n, s)
  PROVE  Became(t, c, e, n, s)
BY DEF Sets, Values, Became, ThreadsTyped, OneMoves, Differ

LEMMA Same ==
  ASSUME ThreadsTyped, NEW t \in Th!Task
  PROVE  /\ container = [container EXCEPT ![t] = container[t]]
         /\ event = [event EXCEPT ![t] = event[t]]
         /\ notify = [notify EXCEPT ![t] = notify[t]]
         /\ suspended = [suspended EXCEPT ![t] = suspended[t]]
         /\ container[t] \in Th!StateList \cup {"unknown"}
         /\ event[t] \in {"none", "object", "pending"}
         /\ notify[t] \in BOOLEAN /\ suspended[t] \in BOOLEAN
BY DEF ThreadsTyped

\* What of the scheduler is the same after a step of the kernel.
LEMMA StepIs ==
  ASSUME CallFits, Th!KernelStep
  PROVE  /\ UNCHANGED dynamic
         /\ Th!SchedulerSuspended' <=> Th!SchedulerSuspended
<1>1. call'.fn = call.fn BY WitnessIs DEF Th!KernelStep
<1> QED BY <1>1 DEF Th!KernelStep, Th!memory, Th!SchedulerSuspended

LEMMA BlocksKeeps ==
  ASSUME Th!ThreadsFit, ThreadInv, NEW t \in Thread, NEW list \in {"delayed", "suspended"},
         NEW on \in {"nothing", "object", "notification"}, Th!Blocks(t, list, on)
  PROVE  ThreadInv'
<1>0. Lodged(t) /\ t \in Th!Task /\ ThreadsTyped /\ CallFits BY NowPlaced
<1>1. /\ ~Th!SchedulerSuspended /\ container[t] = "ready" /\ (on = "nothing" => list = "delayed")
      /\ Th!KernelStep
  BY DEF Th!Blocks, Th!Others
<1>2. ~suspended[t] BY <1>0, <1>1 DEF Lodged
<1> DEFINE e == IF on = "object" THEN "object" ELSE "none"
<1>3. Sets(t, list, e, on = "notification", suspended[t])
  BY <1>0, Same DEF Th!Blocks, Sets
<1>4. Values(list, e, on = "notification", suspended[t])
  BY <1>0, Same DEF Values, Th!StateList
<1>5. UNCHANGED dynamic /\ (Th!SchedulerSuspended' <=> Th!SchedulerSuspended)
  BY <1>0, <1>1, StepIs
<1>6. /\ OneMoves(t) /\ container'[t] = list /\ event'[t] = e /\ suspended'[t] = suspended[t]
      /\ notify'[t] = (on = "notification") /\ ThreadsTyped'
  <2>1. Became(t, list, e, on = "notification", suspended[t])
    <3> HIDE DEF e
    <3> QED BY <1>0, <1>3, <1>4, <1>5, SetsIs
  <2> QED BY <2>1 DEF Became
<1>7. Lodged(t)' BY <1>1, <1>2, <1>6 DEF Lodged
<1>8. "eBlocked" \in Th!StatesOf(t)' BY <1>2, <1>6, StateNext
<1>9. Moves(t) BY <1>1, <1>5, <1>6, <1>7, <1>8 DEF Moves, Th!Known, Th!Listed, Dormant
<1> QED BY <1>1, <1>9, MoveKeeps

LEMMA EventKeeps ==
  ASSUME Th!ThreadsFit, ThreadInv, NEW t \in Thread, Th!EventOccurs(t)
  PROVE  ThreadInv'
<1>0. Lodged(t) /\ t \in Th!Task /\ ThreadsTyped /\ CallFits BY NowPlaced
<1>1. event[t] = "object" /\ Th!KernelStep BY DEF Th!EventOccurs
<1>2. ~suspended[t] /\ container[t] \in {"delayed", "suspended"} BY <1>0, <1>1 DEF Lodged
<1>5. UNCHANGED dynamic /\ (Th!SchedulerSuspended' <=> Th!SchedulerSuspended)
  BY <1>0, <1>1, StepIs
<1>6. CASE Th!SchedulerSuspended
  <2>1. Sets(t, container[t], "pending", notify[t], suspended[t])
    BY <1>0, <1>6, Same DEF Th!EventOccurs, Sets
  <2>2. Values(container[t], "pending", notify[t], suspended[t])
    BY <1>0, Same DEF Values, Th!StateList
  <2>3. Became(t, container[t], "pending", notify[t], suspended[t])
    BY <1>0, <1>5, <2>1, <2>2, SetsIs
  <2>4. /\ OneMoves(t) /\ container'[t] = container[t] /\ event'[t] = "pending"
        /\ notify'[t] = notify[t] /\ suspended'[t] = suspended[t] /\ ThreadsTyped'
    BY <2>3 DEF Became
  <2>5. Lodged(t)' BY <1>0, <1>2, <1>5, <1>6, <2>4 DEF Lodged
  <2>6. Moves(t) BY <1>1, <1>2, <1>5, <1>6, <2>4, <2>5 DEF Moves, Th!Known, Th!Listed
  <2> QED BY <1>1, <2>6, MoveKeeps
<1>7. CASE ~Th!SchedulerSuspended
  <2>1. Sets(t, "ready", "none", notify[t], suspended[t])
    BY <1>0, <1>7, Same DEF Th!EventOccurs, Th!Readied, Sets
  <2>2. Values("ready", "none", notify[t], suspended[t])
    BY <1>0, Same DEF Values, Th!StateList
  <2>3. Became(t, "ready", "none", notify[t], suspended[t])
    BY <1>0, <1>5, <2>1, <2>2, SetsIs
  <2>4. /\ OneMoves(t) /\ container'[t] = "ready" /\ event'[t] = "none"
        /\ notify'[t] = notify[t] /\ suspended'[t] = suspended[t] /\ ThreadsTyped'
    BY <2>3 DEF Became
  <2>5. Lodged(t)' BY <1>0, <1>2, <1>5, <2>4 DEF Lodged
  <2>6. "eReady" \in Th!StatesOf(t)' BY <2>4, StateNext
  <2>7. Moves(t)
    BY <1>1, <1>2, <1>5, <1>7, <2>4, <2>5, <2>6 DEF Moves, Th!Known, Th!Listed
  <2> QED BY <1>1, <2>7, MoveKeeps
<1> QED BY <1>6, <1>7

LEMMA NotificationKeeps ==
  ASSUME Th!ThreadsFit, ThreadInv, NEW t \in Thread, Th!NotificationArrives(t)
  PROVE  ThreadInv'
<1>0. Lodged(t) /\ t \in Th!Task /\ ThreadsTyped /\ CallFits BY NowPlaced
<1>1. notify[t] /\ Th!Known(t) /\ Th!KernelStep BY DEF Th!NotificationArrives
<1>2. ~suspended[t] /\ container[t] \in {"ready", "delayed", "suspended"}
  BY <1>0, <1>1, Same DEF Lodged, Th!Known, Th!Listed, Th!StateList
<1>5. UNCHANGED dynamic /\ (Th!SchedulerSuspended' <=> Th!SchedulerSuspended)
  BY <1>0, <1>1, StepIs
<1>6. CASE Th!SchedulerSuspended
  <2>1. Sets(t, container[t], "pending", FALSE, suspended[t])
    BY <1>0, <1>6, Same DEF Th!NotificationArrives, Sets
  <2>2. Values(container[t], "pending", FALSE, suspended[t])
    BY <1>0, Same DEF Values, Th!StateList
  <2>3. Became(t, container[t], "pending", FALSE, suspended[t])
    BY <1>0, <1>5, <2>1, <2>2, SetsIs
  <2>4. /\ OneMoves(t) /\ container'[t] = container[t] /\ event'[t] = "pending"
        /\ notify'[t] = FALSE /\ suspended'[t] = suspended[t] /\ ThreadsTyped'
    BY <2>3 DEF Became
  <2>5. Lodged(t)' BY <1>0, <1>2, <1>5, <1>6, <2>4 DEF Lodged
  <2>6. Moves(t) BY <1>1, <1>2, <1>5, <1>6, <2>4, <2>5 DEF Moves, Th!Known, Th!Listed
  <2> QED BY <1>1, <2>6, MoveKeeps
<1>7. CASE ~Th!SchedulerSuspended
  <2>1. Sets(t, "ready", "none", FALSE, suspended[t])
    BY <1>0, <1>7, Same DEF Th!NotificationArrives, Th!Readied, Sets
  <2>2. Values("ready", "none", FALSE, suspended[t])
    BY <1>0, Same DEF Values, Th!StateList
  <2>3. Became(t, "ready", "none", FALSE, suspended[t]) BY <1>0, <1>5, <2>1, <2>2, SetsIs
  <2>4. /\ OneMoves(t) /\ container'[t] = "ready" /\ event'[t] = "none"
        /\ notify'[t] = FALSE /\ suspended'[t] = suspended[t] /\ ThreadsTyped'
    BY <2>3 DEF Became
  <2>5. Lodged(t)' BY <1>0, <1>2, <1>5, <2>4 DEF Lodged
  <2>6. "eReady" \in Th!StatesOf(t)' BY <2>4, StateNext
  <2>7. Moves(t)
    BY <1>1, <1>2, <1>5, <1>7, <2>4, <2>5, <2>6 DEF Moves, Th!Known, Th!Listed
  <2> QED BY <1>1, <2>7, MoveKeeps
<1> QED BY <1>6, <1>7

LEMMA TimesOutKeeps ==
  ASSUME Th!ThreadsFit, ThreadInv, NEW t \in Thread, Th!TimeOut(t)
  PROVE  ThreadInv'
<1>0. Lodged(t) /\ t \in Th!Task /\ ThreadsTyped /\ CallFits BY NowPlaced
<1>1. container[t] = "delayed" /\ Th!KernelStep /\ ~Th!SchedulerSuspended
  BY DEF Th!TimeOut, Th!Others
<1>2. ~suspended[t] BY <1>0, <1>1 DEF Lodged
<1>3. UNCHANGED dynamic BY <1>0, <1>1, StepIs
<1>4. Sets(t, "ready", "none", notify[t], suspended[t])
  BY <1>0, Same DEF Th!TimeOut, Th!Readied, Sets
<1>5. /\ OneMoves(t) /\ container'[t] = "ready" /\ event'[t] = "none"
      /\ notify'[t] = notify[t] /\ suspended'[t] = suspended[t] /\ ThreadsTyped'
  <2>1. Values("ready", "none", notify[t], suspended[t])
    BY <1>0, Same DEF Values, Th!StateList
  <2>2. Became(t, "ready", "none", notify[t], suspended[t])
    BY <1>0, <1>3, <1>4, <2>1, SetsIs
  <2> QED BY <2>2 DEF Became
<1>6. Lodged(t)' BY <1>2, <1>5 DEF Lodged
<1>7. Moves(t) BY <1>1, <1>3, <1>5, <1>6 DEF Moves, Th!Known, Th!Listed, Dormant
<1> QED BY <1>1, <1>7, MoveKeeps

LEMMA SuspendKeeps ==
  ASSUME Th!ThreadsFit, ThreadInv, NEW t \in Thread, Th!osThreadSuspend(t)
  PROVE  ThreadInv'
<1>0. Lodged(t) /\ t \in Th!Task /\ ThreadsTyped /\ CallFits BY NowPlaced
<1>1. Th!Known(t) /\ Th!KernelStep /\ ~Th!SchedulerSuspended
  BY DEF Th!osThreadSuspend, Th!Others
<1>3. UNCHANGED dynamic BY <1>0, <1>1, StepIs
<1>4. Sets(t, "suspended", "none", FALSE, TRUE) BY DEF Th!osThreadSuspend, Sets
<1>5. /\ OneMoves(t) /\ container'[t] = "suspended" /\ event'[t] = "none"
      /\ notify'[t] = FALSE /\ suspended'[t] = TRUE /\ ThreadsTyped'
  <2>1. Values("suspended", "none", FALSE, TRUE) BY <1>0, Same DEF Values, Th!StateList
  <2>2. Became(t, "suspended", "none", FALSE, TRUE) BY <1>0, <1>3, <1>4, <2>1, SetsIs
  <2> QED BY <2>2 DEF Became
<1>6. Lodged(t)' BY <1>5 DEF Lodged
<1>7. "eSuspended" \in Th!StatesOf(t)' BY <1>5, StateNext
<1>8. Moves(t) BY <1>1, <1>3, <1>5, <1>6, <1>7 DEF Moves, Th!Known, Th!Listed
<1> QED BY <1>1, <1>8, MoveKeeps

LEMMA ResumeKeeps ==
  ASSUME Th!ThreadsFit, ThreadInv, NEW t \in Thread, Th!osThreadResume(t)
  PROVE  ThreadInv'
<1>0. Lodged(t) /\ t \in Th!Task /\ ThreadsTyped /\ CallFits BY NowPlaced
<1>1. container[t] = "suspended" /\ event[t] = "none" /\ Th!KernelStep
  BY DEF Th!osThreadResume
<1>5. UNCHANGED dynamic /\ (Th!SchedulerSuspended' <=> Th!SchedulerSuspended)
  BY <1>0, <1>1, StepIs
<1>6. CASE Th!SchedulerSuspended
  <2>1. Sets(t, "suspended", "pending", notify[t], FALSE)
    BY <1>0, <1>1, <1>6, Same DEF Th!osThreadResume, Sets
  <2>2. Values("suspended", "pending", notify[t], FALSE)
    BY <1>0, Same DEF Values, Th!StateList
  <2>3. Became(t, "suspended", "pending", notify[t], FALSE)
    BY <1>0, <1>5, <2>1, <2>2, SetsIs
  <2>4. /\ OneMoves(t) /\ container'[t] = "suspended" /\ event'[t] = "pending"
        /\ notify'[t] = notify[t] /\ suspended'[t] = FALSE /\ ThreadsTyped'
    BY <2>3 DEF Became
  <2>5. Lodged(t)' BY <1>5, <1>6, <2>4 DEF Lodged
  <2>6. Moves(t) BY <1>1, <1>5, <1>6, <2>4, <2>5 DEF Moves, Th!Known, Th!Listed
  <2> QED BY <1>1, <2>6, MoveKeeps
<1>7. CASE ~Th!SchedulerSuspended
  <2>1. Sets(t, "ready", "none", notify[t], FALSE)
    BY <1>0, <1>7, Same DEF Th!osThreadResume, Th!Readied, Sets
  <2>2. Values("ready", "none", notify[t], FALSE) BY <1>0, Same DEF Values, Th!StateList
  <2>3. Became(t, "ready", "none", notify[t], FALSE) BY <1>0, <1>5, <2>1, <2>2, SetsIs
  <2>4. /\ OneMoves(t) /\ container'[t] = "ready" /\ event'[t] = "none"
        /\ notify'[t] = notify[t] /\ suspended'[t] = FALSE /\ ThreadsTyped'
    BY <2>3 DEF Became
  <2>5. Lodged(t)' BY <2>4 DEF Lodged
  <2>6. "eReady" \in Th!StatesOf(t)' BY <2>4, StateNext
  <2>7. Moves(t) BY <1>1, <1>5, <1>7, <2>4, <2>5, <2>6 DEF Moves, Th!Known, Th!Listed
  <2> QED BY <1>1, <2>7, MoveKeeps
<1> QED BY <1>6, <1>7

--------------------
\* The end of a thread.

\* A thread that ends is not one that is terminated.
LEMMA GoneRead ==
  ASSUME ThreadInv, NEW t \in Thread, OneMoves(t), t \in Exiting, ~Dormant(t), ~notify'[t],
         call.task = t => container'[t] # "unknown",
         Th!Witness, call.fn = "eTaskGetState"
  PROVE  ReadFits(call)'
<1> PICK u : u = call.task OBVIOUS
<1>0. ReadFits(call) /\ CallFits BY DEF ThreadInv, CallFits
<1>1. /\ Query(call) /\ Query(call') /\ call'.task = u /\ call'.at = call.at
      /\ call'.by = call.by /\ call'.list = call.list
      /\ call'.seen = call.seen \cup Th!StatesOf(u)'
  BY <1>0, WitnessIs
<1>2. u \in Th!Task BY <1>0 DEF Query, ReadFits
<1>3. ListTold(call)' BY <1>0, <1>1 DEF ListTold, ReadFits
<1>4. StillThere(call)'
  <2>1. CASE u = t BY <1>0, <1>1, <2>1 DEF StillThere, ReadFits
  <2>2. CASE u # t
    <3>1. container'[u] = container[u] BY <1>2, <2>2 DEF OneMoves, Differ
    <3> QED BY <1>0, <1>1, <3>1 DEF StillThere, ReadFits, Th!Known, Th!Listed
  <2> QED BY <2>1, <2>2
<1>5. SuspendedTold(call)'
  <2>1. SuspendedTold(call) BY <1>0 DEF ReadFits
  <2>2. notify'[u] => notify[u] BY <1>2 DEF OneMoves, Differ
  <2>3. Dormant(u) => (Dormant(u)' /\ event'[u] = event[u])
    BY <1>2 DEF OneMoves, Differ, Dormant
  <2>4. Dormant(call.task)' <=> Dormant(u)' BY <1>1 DEF Dormant
  <2> QED BY <1>1, <2>1, <2>2, <2>3, <2>4 DEF SuspendedTold, Excused
<1>6. Th!StatesOf(call.task)' = Th!StatesOf(u)' BY <1>1 DEF Th!StatesOf
<1> QED BY <1>1, <1>3, <1>4, <1>5, <1>6 DEF ReadFits

LEMMA GoneCallFits ==
  ASSUME ThreadInv, NEW t \in Thread, OneMoves(t), t \in Exiting, ~Dormant(t), ~notify'[t],
         call.fn = "eTaskGetState" /\ call.task = t => container'[t] # "unknown",
         container[t] # "unknown", ~Th!SchedulerSuspended, Th!Witness
  PROVE  CallFits' /\ ~Th!SchedulerSuspended' /\ call'.fn = call.fn
         /\ (call.fn = "xTaskCreate" => call' = call /\ call.task # t)
<1>0. CallFits BY DEF ThreadInv
<1>1. call'.fn = call.fn /\ call.fn \in {"none", "xTaskCreate", "eTaskGetState"}
  BY <1>0, WitnessIs DEF Th!SchedulerSuspended, CallFits, Functions
<1>2. call.fn = "eTaskGetState" => ReadFits(call)' BY GoneRead
<1>3. call.fn # "eTaskGetState" => call' = call BY <1>0, WitnessIs
<1>4. call.fn = "xTaskCreate" => CreateFits(call)' /\ call.task # t
  BY <1>0, <1>3 DEF CallFits, CreateFits, Started, OneMoves, Differ, Th!Task
<1> QED BY <1>0, <1>1, <1>2, <1>3, <1>4 DEF CallFits, Th!SchedulerSuspended

LEMMA OffIs ==
  ASSUME ThreadsTyped, NEW t \in Th!Task, NEW to \in Th!StateList \cup {"unknown"},
         Th!OffItsLists(t, to), UNCHANGED dynamic
  PROVE  /\ OneMoves(t) /\ container'[t] = to /\ event'[t] = "none" /\ ~notify'[t]
         /\ ~suspended'[t] /\ ThreadsTyped'
BY DEF Th!OffItsLists, ThreadsTyped, OneMoves, Differ

\* What of the heap is one task's, and what is the others'.
OneCreates(fn, u, to, v, t) ==
  \A w \in Th!Task : w # t => (fn = "xTaskCreate" /\ u = w <=> to = "xTaskCreate" /\ v = w)

RestKept(H, I, t) ==
  /\ I \subseteq Th!Task \X {"stack", "tcb"}
  /\ \A m \in Th!Task \X {"stack", "tcb"} : m[1] # t => (m \in I <=> m \in H)

PartsOf(I, e, g, to, v, t) ==
  \A part \in {"stack", "tcb"} :
    <<t, part>> \in I <=> \/ g[t] /\ e[t] # "unknown"
                          \/ part = "stack" /\ to = "xTaskCreate" /\ v = t

LEMMA HeapMoves ==
  ASSUME NEW c, NEW d, NEW e, NEW g, NEW fn, NEW to, NEW u, NEW v, NEW t \in Th!Task,
         Differ(c, e, t), Differ(d, g, t), OneCreates(fn, u, to, v, t),
         NEW H, NEW I, H = HeapIs(c, d, fn, u), RestKept(H, I, t),
         PartsOf(I, e, g, to, v, t)
  PROVE  I = HeapIs(e, g, to, v)
<1>1. ASSUME NEW m \in Th!Task \X {"stack", "tcb"}
      PROVE  m \in I <=> m \in HeapIs(e, g, to, v)
  <2>1. PICK w \in Th!Task, part \in {"stack", "tcb"} : m = <<w, part>> OBVIOUS
  <2>2. m[1] = w /\ m[2] = part BY <2>1
  <2>3. m \in HeapIs(e, g, to, v) <=> \/ g[w] /\ e[w] # "unknown"
                                      \/ part = "stack" /\ to = "xTaskCreate" /\ v = w
    BY <2>2 DEF HeapIs
  <2>4. m \in HeapIs(c, d, fn, u) <=> \/ d[w] /\ c[w] # "unknown"
                                      \/ part = "stack" /\ fn = "xTaskCreate" /\ u = w
    BY <2>2 DEF HeapIs
  <2>5. CASE w = t BY <2>1, <2>3, <2>5 DEF PartsOf
  <2>6. CASE w # t
    <3>1. g[w] = d[w] /\ e[w] = c[w] BY <2>6 DEF Differ
    <3>2. m \in I <=> m \in H BY <2>2, <2>6 DEF RestKept
    <3> QED BY <2>3, <2>4, <2>6, <3>1, <3>2 DEF OneCreates
  <2> QED BY <2>5, <2>6
<1>2. HeapIs(e, g, to, v) \subseteq Th!Task \X {"stack", "tcb"} BY DEF HeapIs
<1> QED BY <1>1, <1>2 DEF RestKept

LEMMA HeapNow ==
  ASSUME ThreadInv, NEW t \in Th!Task
  PROVE  /\ heap \subseteq Th!Task \X {"stack", "tcb"}
         /\ PartsOf(heap, container, dynamic, call.fn, call.task, t)
BY AccountedIs DEF ThreadInv, HeapIs, PartsOf

\* One thread becomes one that is there, or is there no more.
LEMMA CountsMove ==
  ASSUME Th!ThreadsFit, ThreadInv, NEW t \in Th!Task, Differ(container, container', t)
  PROVE  /\ uxCurrentNumberOfTasks \in Nat /\ uxDeletedTasksWaitingCleanUp \in Nat
         /\ Cardinality(ListedIn(container')) =
              IF Th!Listed(t)' /\ ~Th!Listed(t) THEN uxCurrentNumberOfTasks + 1
              ELSE IF Th!Listed(t) /\ ~Th!Listed(t)' THEN uxCurrentNumberOfTasks - 1
              ELSE uxCurrentNumberOfTasks
         /\ Cardinality(EndedIn(container')) =
              IF container'[t] = "termination" /\ container[t] # "termination"
                THEN uxDeletedTasksWaitingCleanUp + 1
              ELSE IF container[t] = "termination" /\ container'[t] # "termination"
                THEN uxDeletedTasksWaitingCleanUp - 1
              ELSE uxDeletedTasksWaitingCleanUp
<1>0. /\ uxCurrentNumberOfTasks = Cardinality(ListedIn(container))
      /\ uxDeletedTasksWaitingCleanUp = Cardinality(EndedIn(container))
  BY AccountedIs DEF ThreadInv
<1>1. /\ ListedIn(container) \in SUBSET Th!Task /\ ListedIn(container') \in SUBSET Th!Task
      /\ t \in ListedIn(container) <=> Th!Listed(t)
      /\ t \in ListedIn(container') <=> Th!Listed(t)'
      /\ \A u \in Th!Task : u # t => (u \in ListedIn(container) <=> u \in ListedIn(container'))
  BY DEF ListedIn, Th!Listed, Differ
<1>2. /\ EndedIn(container) \in SUBSET Th!Task /\ EndedIn(container') \in SUBSET Th!Task
      /\ t \in EndedIn(container) <=> container[t] = "termination"
      /\ t \in EndedIn(container') <=> container'[t] = "termination"
      /\ \A u \in Th!Task : u # t => (u \in EndedIn(container) <=> u \in EndedIn(container'))
  BY DEF EndedIn, Differ
<1> HIDE DEF ListedIn, EndedIn
<1>3. /\ Cardinality(ListedIn(container)) \in Nat
      /\ Cardinality(ListedIn(container')) =
           IF Th!Listed(t)' /\ ~Th!Listed(t) THEN Cardinality(ListedIn(container)) + 1
           ELSE IF Th!Listed(t) /\ ~Th!Listed(t)' THEN Cardinality(ListedIn(container)) - 1
           ELSE Cardinality(ListedIn(container))
  BY <1>1, CountMoves
<1>4. /\ Cardinality(EndedIn(container)) \in Nat
      /\ Cardinality(EndedIn(container')) =
           IF container'[t] = "termination" /\ container[t] # "termination"
             THEN Cardinality(EndedIn(container)) + 1
           ELSE IF container[t] = "termination" /\ container'[t] # "termination"
             THEN Cardinality(EndedIn(container)) - 1
           ELSE Cardinality(EndedIn(container))
  BY <1>2, CountMoves
<1> QED BY <1>0, <1>3, <1>4

LEMMA ExitKeeps ==
  ASSUME Th!ThreadsFit, ThreadInv, NEW t \in Thread, Th!osThreadExit(t)
  PROVE  ThreadInv'
<1>0. Lodged(t) /\ t \in Th!Task /\ ThreadsTyped /\ CallFits BY NowPlaced
<1>1. /\ ~Th!SchedulerSuspended /\ t \in Exiting /\ container[t] = "ready"
      /\ Th!OffItsLists(t, "termination") /\ Th!Witness /\ answer' = Th!NoAnswer
      /\ uxDeletedTasksWaitingCleanUp' = uxDeletedTasksWaitingCleanUp + 1
      /\ UNCHANGED <<dynamic, heap, uxCurrentNumberOfTasks>>
  BY DEF Th!osThreadExit, Th!Others, Th!memory
<1>2. /\ OneMoves(t) /\ container'[t] = "termination" /\ event'[t] = "none" /\ ~notify'[t]
      /\ ~suspended'[t] /\ ThreadsTyped'
  BY <1>0, <1>1, OffIs DEF Th!StateList
<1>3. CallFits' /\ ~Th!SchedulerSuspended' /\ call'.fn = call.fn
      /\ (call.fn = "xTaskCreate" => call' = call /\ call.task # t)
  BY <1>1, <1>2, GoneCallFits DEF Dormant
<1>4. Lodged(t)' BY <1>1, <1>2 DEF Lodged
<1>5. Differ(dynamic, dynamic', t) /\ Differ(container, container', t)
  BY <1>1, <1>2 DEF Differ, OneMoves
<1>6. AllLodged' /\ SelfRuns' BY <1>1, <1>2, <1>4, <1>5, OthersPlaced, SelfStays
<1>7. heap' = HeapIs(container', dynamic', call'.fn, call'.task)
  <2>1. PartsOf(heap, container', dynamic', call'.fn, call'.task, t)
    BY <1>0, <1>1, <1>2, <1>3, HeapNow DEF PartsOf
  <2>2. heap = HeapIs(container, dynamic, call.fn, call.task) BY AccountedIs DEF ThreadInv
  <2>3. RestKept(heap, heap, t) /\ OneCreates(call.fn, call.task, call'.fn, call'.task, t)
    BY <1>0, <1>3, HeapNow DEF RestKept, OneCreates
  <2>4. heap = HeapIs(container', dynamic', call'.fn, call'.task)
    BY <1>0, <1>5, <2>1, <2>2, <2>3, HeapMoves
  <2> QED BY <1>1, <2>4
<1>8. Th!ThreadsAccounted'
  BY <1>0, <1>1, <1>2, <1>5, <1>7, AccountedNext, CountsMove DEF Th!Listed
<1> QED BY <1>1, <1>2, <1>3, <1>6, <1>8, NoAnswerTells DEF ThreadInv

\* The memory a thread had is what is given back.
LEMMA HeapGivenBack ==
  ASSUME ThreadInv, NEW t \in Th!Task, Differ(container, container', t), UNCHANGED dynamic,
         container[t] # "unknown", heap' = Th!prvDeleteTCB(t),
         container'[t] = IF dynamic[t] THEN "unknown" ELSE "none",
         call.fn = "xTaskCreate" => call' = call /\ call.task # t,
         call.fn # "xTaskCreate" => call'.fn # "xTaskCreate"
  PROVE  heap' = HeapIs(container', dynamic', call'.fn, call'.task)
<1>1. heap = HeapIs(container, dynamic, call.fn, call.task) BY AccountedIs DEF ThreadInv
<1>2. heap \subseteq Th!Task \X {"stack", "tcb"} BY HeapNow
<1>3. heap' = IF dynamic[t] THEN heap \ {<<t, "stack">>, <<t, "tcb">>} ELSE heap
  BY DEF Th!prvDeleteTCB
<1>4. heap' \subseteq Th!Task \X {"stack", "tcb"} BY <1>2, <1>3
<1>5. PartsOf(heap', container', dynamic', call'.fn, call'.task, t)
  <2>1. ~(call'.fn = "xTaskCreate" /\ call'.task = t) OBVIOUS
  <2>2. CASE dynamic[t] BY <1>3, <2>1, <2>2 DEF PartsOf
  <2>3. CASE ~dynamic[t] BY <1>3, <2>1, <2>3, HeapNow DEF PartsOf
  <2> QED BY <2>2, <2>3
<1>6. RestKept(heap, heap', t) BY <1>3, <1>4 DEF RestKept
<1>7. OneCreates(call.fn, call.task, call'.fn, call'.task, t) BY DEF OneCreates
<1>8. Differ(dynamic, dynamic', t) /\ dynamic' = dynamic BY DEF Differ
<1> QED BY <1>1, <1>5, <1>6, <1>7, <1>8, HeapMoves

LEMMA CleanUpKeeps ==
  ASSUME Th!ThreadsFit, ThreadInv, NEW t \in Thread, Th!prvCheckTasksWaitingTermination(t)
  PROVE  ThreadInv'
<1>0. Lodged(t) /\ t \in Th!Task /\ ThreadsTyped /\ CallFits BY NowPlaced
<1> DEFINE to == IF dynamic[t] THEN "unknown" ELSE "none"
<1>1. /\ ~Th!SchedulerSuspended /\ container[t] = "termination"
      /\ Th!OffItsLists(t, to) /\ Th!Witness /\ answer' = Th!NoAnswer
      /\ uxDeletedTasksWaitingCleanUp' = uxDeletedTasksWaitingCleanUp - 1
      /\ uxCurrentNumberOfTasks' = uxCurrentNumberOfTasks - 1
      /\ heap' = Th!prvDeleteTCB(t) /\ UNCHANGED dynamic
      /\ (dynamic[t] /\ call # Th!NoCall) => call.task # t
  BY DEF Th!prvCheckTasksWaitingTermination, Th!Others
<1>2. /\ OneMoves(t) /\ container'[t] = to /\ event'[t] = "none" /\ ~notify'[t]
      /\ ~suspended'[t] /\ ThreadsTyped'
  <2>1. to \in Th!StateList \cup {"unknown"} BY DEF Th!StateList
  <2> HIDE DEF to
  <2> QED BY <1>0, <1>1, <2>1, OffIs
<1>3. CallFits' /\ ~Th!SchedulerSuspended' /\ call'.fn = call.fn
      /\ (call.fn = "xTaskCreate" => call' = call /\ call.task # t)
  <2>1. call.fn = "eTaskGetState" /\ call.task = t => container'[t] # "unknown"
    <3>1. call.fn = "eTaskGetState" => call # Th!NoCall BY DEF Th!NoCall
    <3> QED BY <1>1, <1>2, <3>1
  <2> QED BY <1>0, <1>1, <1>2, <2>1, GoneCallFits DEF Dormant, Lodged
<1>4. Lodged(t)' BY <1>1, <1>2 DEF Lodged
<1>5. Differ(dynamic, dynamic', t) /\ Differ(container, container', t)
  BY <1>1, <1>2 DEF Differ, OneMoves
<1>6. AllLodged' /\ SelfRuns' BY <1>1, <1>2, <1>4, <1>5, OthersPlaced, SelfStays
<1>7. heap' = HeapIs(container', dynamic', call'.fn, call'.task)
  BY <1>0, <1>1, <1>2, <1>3, <1>5, HeapGivenBack
<1>8. Th!ThreadsAccounted'
  BY <1>0, <1>1, <1>2, <1>5, <1>7, AccountedNext, CountsMove DEF Th!Listed
<1> QED BY <1>1, <1>2, <1>3, <1>6, <1>8, NoAnswerTells DEF ThreadInv

LEMMA TerminateKeeps ==
  ASSUME Th!ThreadsFit, ThreadInv, Th!osThreadTerminate, Th!Answered # "eDeleted"
  PROVE  ThreadInv'
<1> PICK t : t = call.task OBVIOUS
<1> DEFINE to == IF dynamic[t] THEN "unknown" ELSE "none"
<1>1. /\ call.fn = "eTaskGetState" /\ call.at # "list" /\ call.by = "osThreadTerminate"
      /\ Th!OffItsLists(t, to) /\ call' = Th!NoCall
      /\ answer' = [fn |-> "osThreadTerminate", status |-> "osOK"]
      /\ uxCurrentNumberOfTasks' = uxCurrentNumberOfTasks - 1
      /\ heap' = Th!prvDeleteTCB(t) /\ UNCHANGED <<dynamic, uxDeletedTasksWaitingCleanUp>>
  BY DEF Th!osThreadTerminate, Th!Return
<1>2. ReadFits(call) /\ ThreadsTyped /\ ~Th!SchedulerSuspended
  BY <1>1 DEF ThreadInv, CallFits, Th!SchedulerSuspended
<1>3. t \in Thread /\ t \in Th!Task BY <1>1, <1>2 DEF ReadFits, Query, StillThere, Th!Task
<1>4. Th!Known(t)
  <2>1. call.list \notin {"termination", "none"}
    <3> SUFFICES ASSUME call.list \in {"termination", "none"} PROVE Th!Answered = "eDeleted"
      OBVIOUS
    <3>1. t # Th!Self /\ call.at \in {"notify", "done"} /\ call.at # "notify"
      BY <1>1, <1>2 DEF ReadFits, StillThere, ListTold, Query
    <3> QED BY <3>1 DEF Th!Answered, Th!eReturn
  <2> QED BY <1>1, <1>2, <2>1 DEF ReadFits, StillThere
<1>5. /\ OneMoves(t) /\ container'[t] = to /\ event'[t] = "none" /\ ~notify'[t]
      /\ ~suspended'[t] /\ ThreadsTyped'
  <2>1. to \in Th!StateList \cup {"unknown"} BY DEF Th!StateList
  <2> HIDE DEF to
  <2> QED BY <1>1, <1>2, <1>3, <2>1, OffIs
<1>6. call'.fn = "none" /\ CallFits' /\ ~Th!SchedulerSuspended'
  BY <1>1 DEF Th!NoCall, CallFits, Functions, Th!SchedulerSuspended
<1>7. Lodged(t)' BY <1>1, <1>5 DEF Lodged
<1>8. Differ(dynamic, dynamic', t) /\ Differ(container, container', t)
  BY <1>1, <1>5 DEF Differ, OneMoves
<1>9. AllLodged' /\ SelfRuns' BY <1>2, <1>3, <1>5, <1>7, <1>8, OthersPlaced, SelfStays
<1>10. heap' = HeapIs(container', dynamic', call'.fn, call'.task)
  BY <1>1, <1>3, <1>4, <1>5, <1>6, <1>8, HeapGivenBack DEF Th!Known, Th!Listed
<1>11. Th!ThreadsAccounted'
  BY <1>1, <1>3, <1>4, <1>5, <1>8, <1>10, AccountedNext, CountsMove DEF Th!Listed, Th!Known
<1>12. Told' BY <1>1 DEF Told, Th!StateIsOneItHad
<1> QED BY <1>5, <1>6, <1>9, <1>11, <1>12 DEF ThreadInv

LEMMA StorageKeeps ==
  ASSUME Th!ThreadsFit, ThreadInv, NEW t \in Thread, Th!StorageTakenBack(t)
  PROVE  ThreadInv'
<1>0. Lodged(t) /\ t \in Th!Task /\ ThreadsTyped /\ CallFits BY NowPlaced
<1>1. /\ call.fn = "none" /\ container[t] = "none" /\ answer' = Th!NoAnswer
      /\ container' = [container EXCEPT ![t] = "unknown"]
      /\ UNCHANGED <<event, notify, suspended, dynamic, heap, uxCurrentNumberOfTasks,
                     uxDeletedTasksWaitingCleanUp, call>>
  BY DEF Th!StorageTakenBack, Th!memory, Th!counts
<1>2. OneMoves(t) /\ container'[t] = "unknown" /\ ThreadsTyped'
  BY <1>0, <1>1 DEF OneMoves, Differ, ThreadsTyped
<1>3. ~Th!SchedulerSuspended /\ ~Th!SchedulerSuspended' /\ CallFits'
  BY <1>0, <1>1 DEF Th!SchedulerSuspended, CallFits
<1>4. Lodged(t)' BY <1>0, <1>1, <1>2 DEF Lodged
<1>5. Differ(dynamic, dynamic', t) /\ Differ(container, container', t)
  BY <1>1, <1>2 DEF Differ, OneMoves
<1>6. AllLodged' /\ SelfRuns' BY <1>3, <1>2, <1>4, <1>5, OthersPlaced, SelfStays
<1>7. heap' = HeapIs(container', dynamic', call'.fn, call'.task)
  <2>1. ~dynamic[t] BY <1>0, <1>1 DEF Lodged
  <2>2. PartsOf(heap, container', dynamic', call.fn, call.task, t)
    BY <1>0, <1>1, <2>1, HeapNow DEF PartsOf
  <2>3. heap = HeapIs(container, dynamic, call.fn, call.task) BY AccountedIs DEF ThreadInv
  <2>4. RestKept(heap, heap, t) /\ OneCreates(call.fn, call.task, call.fn, call.task, t)
    BY <1>0, HeapNow DEF RestKept, OneCreates
  <2>5. heap = HeapIs(container', dynamic', call.fn, call.task)
    BY <1>0, <1>5, <2>2, <2>3, <2>4, HeapMoves
  <2> QED BY <1>1, <2>5
<1>8. Th!ThreadsAccounted'
  BY <1>0, <1>1, <1>2, <1>5, <1>7, AccountedNext, CountsMove DEF Th!Listed
<1> QED BY <1>1, <1>2, <1>3, <1>6, <1>8, NoAnswerTells DEF ThreadInv

--------------------
\* osThreadNew.

\* A task that is new, with its memory on the heap.
LEMMA NewKeepsAll ==
  ASSUME Th!ThreadsFit, ThreadInv, NEW t \in Thread, NEW b \in BOOLEAN,
         container[t] = "unknown", Th!NewTask(t), dynamic' = [dynamic EXCEPT ![t] = b],
         ~Th!SchedulerSuspended, call' = Th!NoCall,
         call.fn = "xTaskCreate" => call.task = t,
         answer'.fn = "osThreadNew",
         heap' = IF b THEN heap \cup {<<t, "tcb">>} ELSE heap,
         b <=> call.fn = "xTaskCreate"
  PROVE  ThreadInv'
<1>0. Lodged(t) /\ t \in Th!Task /\ ThreadsTyped BY NowPlaced
<1>1. /\ container' = [container EXCEPT ![t] = "ready"]
      /\ uxCurrentNumberOfTasks' = uxCurrentNumberOfTasks + 1
      /\ UNCHANGED <<event, notify, suspended, uxDeletedTasksWaitingCleanUp>>
  BY DEF Th!NewTask
<1>2. OneMoves(t) /\ container'[t] = "ready" /\ Differ(dynamic, dynamic', t) /\ dynamic'[t] = b
  BY <1>0, <1>1 DEF OneMoves, Differ, ThreadsTyped
<1>3. ThreadsTyped' BY <1>0, <1>1 DEF ThreadsTyped, Th!StateList
<1>4. call'.fn = "none" /\ CallFits' /\ ~Th!SchedulerSuspended'
  BY DEF Th!NoCall, CallFits, Functions, Th!SchedulerSuspended
<1>5. Lodged(t)' BY <1>0, <1>1, <1>2 DEF Lodged
<1>6. AllLodged' /\ SelfRuns' BY <1>2, <1>5, OthersPlaced, SelfStays
<1>7. Differ(container, container', t) BY <1>2 DEF OneMoves
<1>8. heap' = HeapIs(container', dynamic', call'.fn, call'.task)
  <2>1. heap = HeapIs(container, dynamic, call.fn, call.task) BY AccountedIs DEF ThreadInv
  <2>2. heap \subseteq Th!Task \X {"stack", "tcb"} BY <1>0, HeapNow
  <2>3. heap' \subseteq Th!Task \X {"stack", "tcb"} BY <1>0, <2>2
  <2>4. RestKept(heap, heap', t) BY <2>3 DEF RestKept
  <2>5. PartsOf(heap', container', dynamic', call'.fn, call'.task, t)
    <3>1. \A part \in {"stack", "tcb"} : <<t, part>> \in heap <=> part = "stack" /\ b
      BY <1>0, HeapNow DEF PartsOf
    <3>2. <<t, "stack">> \in heap' <=> b BY <3>1
    <3>3. <<t, "tcb">> \in heap' <=> b BY <3>1
    <3> QED BY <1>2, <1>4, <3>2, <3>3 DEF PartsOf
  <2>6. OneCreates(call.fn, call.task, call'.fn, call'.task, t) BY <1>4 DEF OneCreates
  <2> QED BY <1>0, <1>2, <1>7, <2>1, <2>4, <2>5, <2>6, HeapMoves
<1>9. Th!ThreadsAccounted'
  BY <1>0, <1>1, <1>2, <1>7, <1>8, AccountedNext, CountsMove DEF Th!Listed
<1>10. Told' BY DEF Told, Th!StateIsOneItHad
<1> QED BY <1>3, <1>4, <1>6, <1>9, <1>10 DEF ThreadInv

\* The heap while a task is being created.
LEMMA CreationKeeps ==
  ASSUME Th!ThreadsFit, ThreadInv, NEW t \in Thread, container[t] = "unknown",
         UNCHANGED <<container, event, notify, suspended, dynamic,
                     uxCurrentNumberOfTasks, uxDeletedTasksWaitingCleanUp>>,
         ~Th!SchedulerSuspended, CallFits', Told',
         \/ /\ call.fn = "none" /\ call'.fn = "xTaskCreate" /\ call'.task = t
            /\ heap' = heap \cup {<<t, "stack">>}
         \/ /\ call.fn = "xTaskCreate" /\ call.task = t /\ call'.fn = "none"
            /\ heap' = heap \ {<<t, "stack">>}
  PROVE  ThreadInv'
<1>0. t \in Th!Task /\ ThreadsTyped /\ Lodged(t) BY NowPlaced
<1>1. Differ(container, container', t) /\ Differ(dynamic, dynamic', t) /\ OneMoves(t)
  BY DEF Differ, OneMoves
<1>2. ThreadsTyped' /\ Lodged(t)' BY <1>0 DEF ThreadsTyped, Lodged
<1>3. AllLodged' /\ SelfRuns' BY <1>1, <1>2, OthersPlaced, SelfStays
<1>4. heap' = HeapIs(container', dynamic', call'.fn, call'.task)
  <2>1. heap = HeapIs(container, dynamic, call.fn, call.task) BY AccountedIs DEF ThreadInv
  <2>2. RestKept(heap, heap', t) BY <1>0, HeapNow DEF RestKept
  <2>3. PartsOf(heap', container', dynamic', call'.fn, call'.task, t)
    <3>1. \A part \in {"stack", "tcb"} :
            <<t, part>> \in heap <=> part = "stack" /\ call.fn = "xTaskCreate" /\ call.task = t
      BY <1>0, HeapNow DEF PartsOf
    <3>2. <<t, "tcb">> \notin heap' BY <3>1
    <3>3. <<t, "stack">> \in heap' <=> call'.fn = "xTaskCreate" OBVIOUS
    <3> QED BY <3>2, <3>3 DEF PartsOf
  <2>4. OneCreates(call.fn, call.task, call'.fn, call'.task, t) BY DEF OneCreates
  <2> QED BY <1>0, <1>1, <2>1, <2>2, <2>3, <2>4, HeapMoves
<1>5. Th!ThreadsAccounted' BY <1>4, AccountedIs, AccountedNext DEF ThreadInv
<1> QED BY <1>2, <1>3, <1>5 DEF ThreadInv

\* A step that only changes the call.
LEMMA QuietKeeps ==
  ASSUME ThreadInv,
         UNCHANGED <<container, event, notify, suspended, dynamic, heap,
                     uxCurrentNumberOfTasks, uxDeletedTasksWaitingCleanUp>>,
         Th!SchedulerSuspended => Th!SchedulerSuspended',
         call.fn # "xTaskCreate", call'.fn # "xTaskCreate", CallFits', Told'
  PROVE  ThreadInv'
<1>1. ThreadsTyped' /\ SelfRuns' BY DEF ThreadInv, ThreadsTyped, SelfRuns
<1>2. ASSUME NEW t \in Th!Task PROVE Lodged(t)' BY DEF ThreadInv, AllLodged, Lodged
<1>3. HeapIs(container', dynamic', call'.fn, call'.task)
        = HeapIs(container, dynamic, call.fn, call.task)
  BY DEF HeapIs
<1>4. Th!ThreadsAccounted' BY <1>3, AccountedIs, AccountedNext DEF ThreadInv
<1> QED BY <1>1, <1>2, <1>4 DEF ThreadInv, AllLodged

LEMMA NothingCalled ==
  ASSUME call' = Th!NoCall
  PROVE  CallFits' /\ call'.fn = "none" /\ ~Th!SchedulerSuspended'
BY DEF Th!NoCall, CallFits, Functions, Th!SchedulerSuspended

LEMMA NobodyCalls ==
  ASSUME call = Th!NoCall
  PROVE  call.fn = "none" /\ ~Th!SchedulerSuspended
BY DEF Th!NoCall, Th!SchedulerSuspended

LEMMA NewStaticKeeps ==
  ASSUME Th!ThreadsFit, ThreadInv, NEW t \in Th!Task, Th!osThreadNewStatic(t)
  PROVE  ThreadInv'
<1>1. /\ call = Th!NoCall /\ container[t] = "unknown" /\ t # Th!Self
      /\ dynamic' = [dynamic EXCEPT ![t] = FALSE] /\ Th!NewTask(t) /\ heap' = heap
      /\ call' = Th!NoCall /\ answer'.fn = "osThreadNew"
  BY DEF Th!osThreadNewStatic, Th!Return
<1>2. t \in Thread BY <1>1 DEF Th!Task
<1> QED BY <1>1, <1>2, NobodyCalls, NewKeepsAll

LEMMA NewDynamicKeeps ==
  ASSUME Th!ThreadsFit, ThreadInv, NEW t \in Th!Task, Th!osThreadNewDynamic(t)
  PROVE  ThreadInv'
<1>1. /\ container[t] = "unknown" /\ t \in Thread
      /\ UNCHANGED <<container, event, notify, suspended, dynamic,
                     uxCurrentNumberOfTasks, uxDeletedTasksWaitingCleanUp>>
  BY DEF Th!osThreadNewDynamic, Th!kernel, Th!counts, Th!Task
<1>2. CASE /\ Th!Begin("xTaskCreate", t, "tcb")
           /\ heap' = heap \cup {<<t, "stack">>} /\ answer' = Th!NoAnswer
  <2>1. /\ call = Th!NoCall
        /\ call' = [fn |-> "xTaskCreate", task |-> t, at |-> "tcb"]
    BY <1>2 DEF Th!Begin
  <2>2. CallFits' BY <1>1, <2>1 DEF CallFits, CreateFits, Started, Functions
  <2> QED BY <1>1, <1>2, <2>1, <2>2, NobodyCalls, NoAnswerTells, CreationKeeps
<1>3. CASE /\ call = Th!NoCall
           /\ Th!Return([fn |-> "osThreadNew", task |-> "NULL"]) /\ UNCHANGED heap
  <2>1. call' = Th!NoCall /\ Told' BY <1>3 DEF Th!Return, Told, Th!StateIsOneItHad
  <2> QED BY <1>1, <1>3, <2>1, NobodyCalls, NothingCalled, QuietKeeps
<1> QED BY <1>2, <1>3 DEF Th!osThreadNewDynamic

LEMMA CreateKeeps ==
  ASSUME Th!ThreadsFit, ThreadInv, Th!xTaskCreate
  PROVE  ThreadInv'
<1> PICK t : t = call.task OBVIOUS
<1>1. call.fn = "xTaskCreate" /\ t \in Thread /\ container[t] = "unknown"
      /\ ~Th!SchedulerSuspended
  BY DEF Th!xTaskCreate, ThreadInv, CallFits, CreateFits, Started, Th!SchedulerSuspended
<1>2. CASE /\ heap' = heap \cup {<<t, "tcb">>}
           /\ dynamic' = [dynamic EXCEPT ![t] = TRUE]
           /\ Th!NewTask(t) /\ Th!Return([fn |-> "osThreadNew", task |-> t])
  <2>1. call' = Th!NoCall /\ answer'.fn = "osThreadNew" BY <1>2 DEF Th!Return
  <2> QED BY <1>1, <1>2, <2>1, NewKeepsAll
<1>3. CASE /\ heap' = heap \ {<<t, "stack">>}
           /\ Th!Return([fn |-> "osThreadNew", task |-> "NULL"])
           /\ UNCHANGED <<Th!kernel, dynamic, Th!counts>>
  <2>1. call' = Th!NoCall /\ Told' BY <1>3 DEF Th!Return, Told, Th!StateIsOneItHad
  <2> QED BY <1>1, <1>3, <2>1, NothingCalled, CreationKeeps DEF Th!kernel, Th!counts
<1> QED BY <1>2, <1>3 DEF Th!xTaskCreate

LEMMA RefusedKeeps ==
  ASSUME ThreadInv, Th!osThreadNewRefused
  PROVE  ThreadInv'
<1>1. /\ call = Th!NoCall /\ call' = Th!NoCall /\ Told'
      /\ UNCHANGED <<Th!kernel, Th!memory, Th!counts>>
  BY DEF Th!osThreadNewRefused, Th!Return, Told, Th!StateIsOneItHad
<1> QED
  BY <1>1, NobodyCalls, NothingCalled, QuietKeeps DEF Th!kernel, Th!memory, Th!counts

--------------------
\* eTaskGetState.

LEMMA SameStates ==
  ASSUME UNCHANGED <<container, event, notify, suspended>>, NEW t
  PROVE  Th!StatesOf(t)' = Th!StatesOf(t) /\ (Dormant(t)' <=> Dormant(t))
BY DEF Th!StatesOf, Dormant

LEMMA AskKeeps ==
  ASSUME Th!ThreadsFit, ThreadInv, NEW t \in Th!Task,
         NEW by \in {"osThreadGetState", "osThreadTerminate"}, Th!eTaskGetState(t, by)
  PROVE  ThreadInv'
<1>1. /\ call = Th!NoCall /\ container[t] # "unknown"
      /\ by = "osThreadTerminate" => t \notin Exiting /\ t # Th!Self
      /\ call' = [fn |-> "eTaskGetState", task |-> t, at |-> "list", by |-> by,
                  list |-> container[t], seen |-> Th!StatesOf(t)]
      /\ answer' = Th!NoAnswer
      /\ UNCHANGED <<container, event, notify, suspended, dynamic, heap,
                     uxCurrentNumberOfTasks, uxDeletedTasksWaitingCleanUp>>
  BY DEF Th!eTaskGetState, Th!kernel, Th!memory, Th!counts
<1>2. ThreadsTyped /\ Lodged(t) /\ SelfRuns BY DEF ThreadInv, AllLodged
<1>3. container[t] \in Th!StateList BY <1>1, <1>2, Same
<1>4. /\ call'.fn = "eTaskGetState" /\ call'.task = t /\ call'.at = "list" /\ call'.by = by
      /\ call'.list = container[t] /\ call'.seen = Th!StatesOf(t)
  BY <1>1
<1>5. /\ t = Th!Self => container[t] = "ready" /\ Th!StatesOf(t) = {"eRunning"}
      /\ t # Th!Self => t \in Thread
  BY <1>2 DEF SelfRuns, Th!StatesOf, Th!Task
<1>6. Query(call)' BY <1>1, <1>3 DEF Query
<1>7. ListTold(call)'
  <2>1. container[t] = "delayed" => ~suspended[t] BY <1>2 DEF Lodged
  <2>2. CASE t = Th!Self BY <1>4, <1>5, <2>2 DEF ListTold
  <2>3. CASE t # Th!Self BY <1>4, <1>5, <2>1, <2>3, StateIs DEF ListTold
  <2> QED BY <2>2, <2>3
<1>8. SuspendedTold(call)'
  <2> SUFFICES ASSUME container[t] = "suspended"
               PROVE  /\ notify[t] => "eBlocked" \in Th!StatesOf(t)
                      /\ Excused(Th!StatesOf(t)) \/ ("eBlocked" \in Th!StatesOf(t) /\ Dormant(t))
    <3>1. Dormant(call.task)' <=> Dormant(t) BY <1>1, <1>4 DEF Dormant
    <3>2. notify'[t] = notify[t] BY <1>1
    <3> QED BY <1>4, <3>1, <3>2 DEF SuspendedTold
  <2>1. t \in Thread BY <1>5
  <2> QED BY <1>2, <2>1, StateIs DEF Lodged, Dormant, Excused
<1>9. StillThere(call)' BY <1>1, <1>4 DEF StillThere, Th!Known, Th!Listed
<1>10. Th!StatesOf(call.task)' = Th!StatesOf(t) BY <1>1, <1>4 DEF Th!StatesOf
<1>11. CallFits' BY <1>4, <1>6, <1>7, <1>8, <1>9, <1>10 DEF CallFits, ReadFits, Functions
<1> QED BY <1>1, <1>4, <1>11, NobodyCalls, NoAnswerTells, QuietKeeps

LEMMA ReadEventKeeps ==
  ASSUME Th!ThreadsFit, ThreadInv, Th!ReadEventList
  PROVE  ThreadInv'
<1> PICK t : t = call.task OBVIOUS
<1> DEFINE at == IF call.list = "suspended" /\ event[t] = "none" THEN "notify" ELSE "done"
<1>1. /\ call.fn = "eTaskGetState" /\ call.at = "list"
      /\ call' = [call EXCEPT !.at = at] /\ answer' = Th!NoAnswer
      /\ UNCHANGED <<container, event, notify, suspended, dynamic, heap,
                     uxCurrentNumberOfTasks, uxDeletedTasksWaitingCleanUp>>
  BY DEF Th!ReadEventList, Th!kernel, Th!memory, Th!counts
<1>2. ReadFits(call) BY <1>1 DEF ThreadInv, CallFits
<1>3. t \in Th!Task /\ call = [fn |-> call.fn, task |-> t, at |-> call.at, by |-> call.by,
                               list |-> call.list, seen |-> call.seen]
  BY <1>2 DEF ReadFits, Query
<1>4. call' = [fn |-> call.fn, task |-> t, at |-> at, by |-> call.by,
               list |-> call.list, seen |-> call.seen]
  <2> HIDE DEF at
  <2> QED BY <1>1, <1>3
<1>5. /\ call'.fn = call.fn /\ call'.task = t /\ call'.at = at /\ call'.by = call.by
      /\ call'.list = call.list /\ call'.seen = call.seen
  BY <1>4
<1>6. Query(call)' /\ ListTold(call)'
  <2>1. at \in {"notify", "done"} /\ (at = "notify" => call.list = "suspended") OBVIOUS
  <2> HIDE DEF at
  <2> QED BY <1>2, <1>4, <1>5, <2>1 DEF ReadFits, Query, ListTold
<1>7. SuspendedTold(call)'
  <2> SUFFICES ASSUME call.list = "suspended"
               PROVE  /\ notify[t] => "eBlocked" \in call.seen
                      /\ at = "done" => "eBlocked" \in call.seen
                      /\ at # "done" => \/ Excused(call.seen)
                                        \/ /\ "eBlocked" \in call.seen /\ Dormant(t)
                                           /\ at = "notify" => event[t] = "none"
    <3>1. Dormant(call.task)' <=> Dormant(t) BY <1>1, <1>5 DEF Dormant
    <3>2. notify'[t] = notify[t] /\ event'[t] = event[t] BY <1>1
    <3> HIDE DEF at
    <3> QED BY <1>5, <3>1, <3>2 DEF SuspendedTold
  <2>1. SuspendedTold(call) /\ Th!StatesOf(t) \subseteq call.seen /\ Lodged(t)
    BY <1>2, <1>3 DEF ReadFits, ThreadInv, AllLodged
  <2>2. ASSUME event[t] # "none" PROVE "eBlocked" \in call.seen
    <3>1. t \in Thread BY <1>3, <2>2 DEF ThreadInv, SelfRuns, Th!Task
    <3>2. event[t] = "object" /\ ~suspended[t] /\ container[t] \in {"delayed", "suspended"}
      BY <1>1, <1>3, <2>1, <2>2, Same DEF Lodged, ThreadInv, Th!SchedulerSuspended
    <3> QED BY <2>1, <3>1, <3>2, StateIs
  <2> QED BY <1>1, <2>1, <2>2 DEF SuspendedTold
<1>8. StillThere(call)'
  <2>1. Th!Known(call.task)' <=> Th!Known(t) BY <1>1, <1>5 DEF Th!Known, Th!Listed
  <2> QED BY <1>1, <1>2, <1>5, <2>1 DEF StillThere, ReadFits
<1>9. Th!StatesOf(call.task)' = Th!StatesOf(t) BY <1>1, <1>5 DEF Th!StatesOf
<1>10. CallFits'
  BY <1>1, <1>2, <1>5, <1>6, <1>7, <1>8, <1>9 DEF CallFits, ReadFits, Functions
<1>11. Th!SchedulerSuspended => Th!SchedulerSuspended' BY <1>5 DEF Th!SchedulerSuspended
<1> QED BY <1>1, <1>5, <1>10, <1>11, NoAnswerTells, QuietKeeps

\* What is answered is what the task was.
LEMMA AnswerTrue ==
  ASSUME ThreadInv, call.fn = "eTaskGetState", call.at # "list"
  PROVE  \/ Th!Answered \in call.seen
         \/ Th!Answered = "eSuspended" /\ {"eBlocked", "eReady"} \subseteq call.seen
<1>1. ReadFits(call) BY DEF ThreadInv, CallFits
<1>2. ListTold(call) /\ SuspendedTold(call) /\ call.at \in {"notify", "done"}
      /\ call.list \in Th!StateList
  BY <1>1 DEF ReadFits, Query
<1>3. CASE call.task = Th!Self BY <1>2, <1>3 DEF Th!Answered, ListTold
<1>4. CASE call.task # Th!Self
  <2>1. Th!Answered = Th!eReturn(call.list, call.at, notify[call.task])
    BY <1>4 DEF Th!Answered
  <2>2. CASE call.list = "suspended" /\ call.at = "notify"
    <3>1. Th!Answered = IF notify[call.task] THEN "eBlocked" ELSE "eSuspended"
      BY <2>1, <2>2 DEF Th!eReturn
    <3> QED BY <1>2, <2>2, <3>1 DEF SuspendedTold, Excused, Dormant
  <2>3. CASE call.list = "suspended" /\ call.at = "done"
    <3>1. Th!Answered = "eBlocked" BY <2>1, <2>3 DEF Th!eReturn
    <3> QED BY <1>2, <2>3, <3>1 DEF SuspendedTold
  <2>4. CASE call.list = "delayed"
    <3>1. Th!Answered = "eBlocked" BY <2>1, <2>4 DEF Th!eReturn
    <3> QED BY <1>2, <2>4, <3>1 DEF ListTold
  <2>5. CASE call.list \in {"termination", "none"}
    <3>1. Th!Answered = "eDeleted" BY <2>1, <2>5 DEF Th!eReturn
    <3> QED BY <1>2, <2>5, <3>1 DEF ListTold
  <2>6. CASE call.list = "ready"
    <3>1. Th!Answered = "eReady" BY <2>1, <2>6 DEF Th!eReturn
    <3> QED BY <1>2, <1>4, <2>6, <3>1 DEF ListTold
  <2> QED BY <1>2, <2>2, <2>3, <2>4, <2>5, <2>6 DEF Th!StateList
<1> QED BY <1>3, <1>4

LEMMA GetStateKeeps ==
  ASSUME ThreadInv, Th!osThreadGetState
  PROVE  ThreadInv'
<1>1. /\ call.fn = "eTaskGetState" /\ call.at # "list" /\ call' = Th!NoCall
      /\ answer' = [fn |-> "osThreadGetState", state |-> Th!Answered, seen |-> call.seen]
      /\ UNCHANGED <<Th!kernel, Th!memory, Th!counts>>
  BY DEF Th!osThreadGetState, Th!Return
<1>2. Told'
  <2>1. answer'.fn = "osThreadGetState" /\ answer'.state = Th!Answered /\ answer'.seen = call.seen
    BY <1>1
  <2> QED BY <1>1, <2>1, AnswerTrue DEF Told, Th!StateIsOneItHad
<1>3. ~Th!SchedulerSuspended BY <1>1 DEF Th!SchedulerSuspended
<1> QED BY <1>1, <1>2, <1>3, NothingCalled, QuietKeeps DEF Th!kernel, Th!memory, Th!counts

LEMMA TerminateStep ==
  ASSUME Th!ThreadsFit, ThreadInv, Th!osThreadTerminate
  PROVE  ThreadInv'
<1>1. CASE Th!Answered = "eDeleted"
  <2>1. /\ call.fn = "eTaskGetState" /\ call' = Th!NoCall
        /\ answer' = [fn |-> "osThreadTerminate", status |-> "osErrorResource"]
        /\ UNCHANGED <<Th!kernel, Th!memory, Th!counts>>
    BY <1>1 DEF Th!osThreadTerminate, Th!Return
  <2>2. Told' /\ ~Th!SchedulerSuspended
    BY <2>1 DEF Told, Th!StateIsOneItHad, Th!SchedulerSuspended
  <2> QED BY <2>1, <2>2, NothingCalled, QuietKeeps DEF Th!kernel, Th!memory, Th!counts
<1> QED BY <1>1, TerminateKeeps

--------------------
\* The lists of all tasks.

LEMMA ListsGo ==
  ASSUME NEW lists \in Orders \cup Searches
  PROVE  /\ ToGo(<<>>) = {}
         /\ lists # <<>> =>
              /\ Head(lists) \in {"ready", "delayed", "suspended", "termination"}
              /\ ToGo(lists) = {Head(lists)} \cup ToGo(Tail(lists))
              /\ Head(lists) \notin ToGo(Tail(lists))
              /\ lists \in Orders => Tail(lists) \in Orders
              /\ lists \in Searches => Tail(lists) \in Searches
<1>1. /\ ToGo(<<>>) = {}
      /\ \A a : ToGo(<<a>>) = {a}
      /\ \A a, b : ToGo(<<a, b>>) = {a, b}
      /\ \A a, b, c : ToGo(<<a, b, c>>) = {a, b, c}
      /\ \A a, b, c, d : ToGo(<<a, b, c, d>>) = {a, b, c, d}
  BY DEF ToGo
<1>2. CASE lists = Th!SystemStateOrder
  <2>1. lists = <<"ready", "delayed", "termination", "suspended">>
    BY <1>2 DEF Th!SystemStateOrder
  <2>2. Head(lists) = "ready" /\ Tail(lists) = <<"delayed", "termination", "suspended">>
    BY <2>1
  <2> QED BY <1>1, <2>1, <2>2 DEF Orders, Searches, Th!SearchOrder
<1>3. CASE lists = Th!SearchOrder
  <2>1. lists = <<"ready", "delayed", "suspended", "termination">>
    BY <1>3 DEF Th!SearchOrder
  <2>2. Head(lists) = "ready" /\ Tail(lists) = <<"delayed", "suspended", "termination">>
    BY <2>1
  <2> QED BY <1>1, <2>1, <2>2 DEF Orders, Searches, Th!SystemStateOrder
<1>4. CASE lists = <<"delayed", "termination", "suspended">>
  <2>1. Head(lists) = "delayed" /\ Tail(lists) = <<"termination", "suspended">> BY <1>4
  <2> QED BY <1>1, <1>4, <2>1 DEF Orders, Searches, Th!SearchOrder
<1>5. CASE lists = <<"delayed", "suspended", "termination">>
  <2>1. Head(lists) = "delayed" /\ Tail(lists) = <<"suspended", "termination">> BY <1>5
  <2> QED BY <1>1, <1>5, <2>1 DEF Orders, Searches, Th!SystemStateOrder
<1>6. CASE lists = <<"termination", "suspended">>
  <2>1. Head(lists) = "termination" /\ Tail(lists) = <<"suspended">> BY <1>6
  <2> QED BY <1>1, <1>6, <2>1 DEF Orders, Searches, Th!SearchOrder
<1>7. CASE lists = <<"suspended", "termination">>
  <2>1. Head(lists) = "suspended" /\ Tail(lists) = <<"termination">> BY <1>7
  <2> QED BY <1>1, <1>7, <2>1 DEF Orders, Searches, Th!SystemStateOrder
<1>8. CASE lists = <<"suspended">>
  <2>1. Head(lists) = "suspended" /\ Tail(lists) = <<>> BY <1>8
  <2> QED BY <1>1, <1>8, <2>1 DEF Orders, Searches, Th!SearchOrder
<1>9. CASE lists = <<"termination">>
  <2>1. Head(lists) = "termination" /\ Tail(lists) = <<>> BY <1>9
  <2> QED BY <1>1, <1>9, <2>1 DEF Orders, Searches, Th!SystemStateOrder
<1> QED BY <1>1, <1>2, <1>3, <1>4, <1>5, <1>6, <1>7, <1>8, <1>9 DEF Orders, Searches

LEMMA AllLists ==
  ASSUME ThreadsTyped, NEW t \in Th!Task, Th!Listed(t)
  PROVE  container[t] \in ToGo(Th!SystemStateOrder) /\ container[t] \in ToGo(Th!SearchOrder)
<1>1. container[t] \in {"ready", "delayed", "suspended", "termination"}
  BY Same DEF Th!Listed, Th!StateList
<1>2. \A a, b, c, d : ToGo(<<a, b, c, d>>) = {a, b, c, d} BY DEF ToGo
<1> QED BY <1>1, <1>2 DEF Th!SystemStateOrder, Th!SearchOrder

\* The array is empty, and all lists are to be gone through.
LEMMA CollectStarts ==
  ASSUME ThreadInv, call = Th!NoCall, NEW b \in BOOLEAN, NEW items,
         call' = [fn |-> "uxTaskGetSystemState", task |-> Th!Self, full |-> b,
                  lists |-> IF b THEN Th!SystemStateOrder ELSE <<>>,
                  array |-> {}, items |-> items],
         answer' = Th!NoAnswer,
         UNCHANGED <<Th!kernel, Th!memory, Th!counts>>
  PROVE  ThreadInv'
<1> DEFINE lists == IF b THEN Th!SystemStateOrder ELSE <<>>
<1>1. /\ call'.fn = "uxTaskGetSystemState" /\ call'.task = Th!Self /\ call'.full = b
      /\ call'.lists = lists /\ call'.array = {} /\ call'.items = items
  OBVIOUS
<1>2. Collected(call)' BY <1>1 DEF Collected, Orders
<1>3. ArrayFits(call)'
  <2>1. \A t \in Th!Task : Th!Listed(t) => container[t] \in ToGo(Th!SystemStateOrder)
    BY AllLists DEF ThreadInv
  <2>2. container' = container BY DEF Th!kernel
  <2>3. \A t \in Th!Task : Th!Listed(t)' => container'[t] \in ToGo(Th!SystemStateOrder)
    BY <2>1, <2>2 DEF Th!Listed
  <2> QED BY <1>1, <2>3 DEF ArrayFits
<1>4. CallFits' BY <1>1, <1>2, <1>3 DEF CallFits, CollectFits, Functions
<1> QED
  BY <1>1, <1>4, NobodyCalls, NoAnswerTells, QuietKeeps DEF Th!kernel, Th!memory, Th!counts

LEMMA CollectKeeps ==
  ASSUME Th!ThreadsFit, ThreadInv, NEW size \in Int, Th!uxTaskGetSystemState(size)
  PROVE  ThreadInv'
<1>0. uxCurrentNumberOfTasks \in Nat
  <2>1. ListedIn(container) \subseteq Th!Task BY DEF ListedIn
  <2> QED BY <2>1, ThreadsFinite, FS_Subset, FS_CardinalityType, AccountedIs DEF ThreadInv
<1> DEFINE b == size >= uxCurrentNumberOfTasks
<1>1. b \in BOOLEAN BY <1>0
<1>2. /\ call = Th!NoCall /\ answer' = Th!NoAnswer
      /\ UNCHANGED <<Th!kernel, Th!memory, Th!counts>>
      /\ call' = [fn |-> "uxTaskGetSystemState", task |-> Th!Self, full |-> b,
                  lists |-> IF b THEN Th!SystemStateOrder ELSE <<>>,
                  array |-> {}, items |-> 0]
  BY DEF Th!uxTaskGetSystemState
<1> HIDE DEF b
<1> QED BY <1>1, <1>2, CollectStarts

LEMMA EnumerateKeeps ==
  ASSUME ThreadInv, Th!osThreadEnumerate
  PROVE  ThreadInv'
<1>1. call = Th!NoCall /\ UNCHANGED <<Th!kernel, Th!memory, Th!counts>>
  BY DEF Th!osThreadEnumerate
<1>2. CASE Th!Return([fn |-> "osThreadEnumerate", count |-> uxCurrentNumberOfTasks])
  <2>1. call' = Th!NoCall /\ Told' BY <1>2 DEF Th!Return, Told, Th!StateIsOneItHad
  <2> QED
    BY <1>1, <2>1, NobodyCalls, NothingCalled, QuietKeeps DEF Th!kernel, Th!memory, Th!counts
<1>3. CASE /\ call' = [fn |-> "uxTaskGetSystemState", task |-> Th!Self, full |-> TRUE,
                       lists |-> Th!SystemStateOrder, array |-> {}, items |-> ArrayItems]
           /\ answer' = Th!NoAnswer
  <2>1. call' = [fn |-> "uxTaskGetSystemState", task |-> Th!Self, full |-> TRUE,
                 lists |-> IF TRUE THEN Th!SystemStateOrder ELSE <<>>, array |-> {},
                 items |-> ArrayItems]
    BY <1>3
  <2> QED BY <1>1, <1>3, <2>1, CollectStarts
<1> QED BY <1>2, <1>3 DEF Th!osThreadEnumerate

\* What is told of a task of a list is what it is.
LEMMA InfoTrue ==
  ASSUME Th!ThreadsFit, ThreadInv, NEW t \in Th!Task,
         NEW list \in {"ready", "delayed", "suspended", "termination"}, container[t] = list
  PROVE  /\ Th!vTaskGetInfo(t, Th!Reports(list)) \in Th!State
         /\ Reported(<<t, Th!vTaskGetInfo(t, Th!Reports(list))>>)
<1> DEFINE s == Th!vTaskGetInfo(t, Th!Reports(list))
<1>1. <<t, s>>[1] = t /\ <<t, s>>[2] = s OBVIOUS
<1>2. Lodged(t) BY DEF ThreadInv, AllLodged
<1>3. CASE t = Th!Self
  <2>1. s = "eRunning" /\ Th!StatesOf(t) = {"eRunning"}
    BY <1>3 DEF Th!vTaskGetInfo, Th!StatesOf
  <2> QED BY <1>1, <2>1 DEF Reported, Th!State
<1>4. CASE t # Th!Self
  <2>1. t \in Thread BY <1>4 DEF Th!Task
  <2>2. s = IF Th!Reports(list) = "eSuspended" /\ event[t] # "none" THEN "eBlocked"
            ELSE Th!Reports(list)
    BY <1>4 DEF Th!vTaskGetInfo
  <2>3. CASE list = "ready"
    <3>1. s = "eReady" BY <2>2, <2>3 DEF Th!Reports
    <3> QED BY <1>1, <2>1, <2>3, <3>1, StateIs DEF Reported, Th!State
  <2>4. CASE list = "delayed"
    <3>1. s = "eBlocked" BY <2>2, <2>4 DEF Th!Reports
    <3> QED BY <1>1, <1>2, <2>1, <2>4, <3>1, StateIs DEF Reported, Th!State, Lodged
  <2>5. CASE list = "termination"
    <3>1. s = "eDeleted" BY <2>2, <2>5 DEF Th!Reports
    <3> QED BY <1>1, <2>1, <2>5, <3>1, StateIs DEF Reported, Th!State
  <2>6. CASE list = "suspended"
    <3>1. s = IF event[t] # "none" THEN "eBlocked" ELSE "eSuspended"
      BY <2>2, <2>6 DEF Th!Reports
    <3> QED BY <1>1, <1>2, <2>1, <2>6, <3>1, StateIs DEF Reported, Th!State, Lodged
  <2> QED BY <2>3, <2>4, <2>5, <2>6
<1> QED BY <1>3, <1>4

LEMMA ListTasksKeeps ==
  ASSUME Th!ThreadsFit, ThreadInv, Th!prvListTasksWithinSingleList
  PROVE  ThreadInv'
<1> PICK list : list = Head(call.lists) OBVIOUS
<1> DEFINE info(t) == Th!vTaskGetInfo(t, Th!Reports(list))
<1> DEFINE found == {<<t, info(t)>> : t \in {u \in Th!Task : container[u] = list}}
<1>1. /\ call.fn = "uxTaskGetSystemState" /\ call.lists # <<>> /\ answer' = Th!NoAnswer
      /\ call' = [call EXCEPT !.lists = Tail(@), !.array = @ \cup found]
      /\ UNCHANGED <<container, event, notify, suspended, dynamic, heap,
                     uxCurrentNumberOfTasks, uxDeletedTasksWaitingCleanUp>>
  BY DEF Th!prvListTasksWithinSingleList, Th!kernel, Th!memory, Th!counts
<1>2. Collected(call) /\ ArrayFits(call) BY <1>1 DEF ThreadInv, CallFits, CollectFits
<1>3. call.full BY <1>1, <1>2 DEF ArrayFits, Collected
<1>4. /\ list \in {"ready", "delayed", "suspended", "termination"}
      /\ ToGo(call.lists) = {list} \cup ToGo(Tail(call.lists))
      /\ list \notin ToGo(Tail(call.lists)) /\ Tail(call.lists) \in Orders
  BY <1>1, <1>2, ListsGo DEF Collected
<1>5. \A t \in Th!Task : container[t] = list => info(t) \in Th!State /\ Reported(<<t, info(t)>>)
  BY <1>4, InfoTrue
<1> HIDE DEF info
<1>6. \A e \in found : /\ e[1] \in Th!Task /\ container[e[1]] = list
                       /\ e = <<e[1], info(e[1])>>
  OBVIOUS
<1>7. \A t \in Th!Task : container[t] = list => <<t, info(t)>> \in found OBVIOUS
<1>8. found \subseteq Th!Task \X Th!State /\ \A e \in found : Reported(e) BY <1>5, <1>6
<1> HIDE DEF found
<1>9. call' = [fn |-> call.fn, task |-> call.task, full |-> call.full,
               lists |-> Tail(call.lists), array |-> call.array \cup found,
               items |-> call.items]
  <2>1. call = [fn |-> call.fn, task |-> call.task, full |-> call.full, lists |-> call.lists,
                array |-> call.array, items |-> call.items]
    BY <1>2 DEF Collected
  <2> QED BY <1>1, <2>1
<1>10. /\ call'.fn = call.fn /\ call'.task = call.task /\ call'.full = call.full
       /\ call'.lists = Tail(call.lists) /\ call'.array = call.array \cup found
       /\ call'.items = call.items
  BY <1>9
<1>11. Collected(call)' BY <1>2, <1>4, <1>8, <1>9, <1>10 DEF Collected
<1>12. /\ \A e \in call.array : /\ e[1] \in Th!Task /\ Th!Listed(e[1]) /\ Reported(e)
                                /\ container[e[1]] \notin ToGo(call.lists)
       /\ \A t \in Th!Task : Th!Listed(t) /\ container[t] \notin ToGo(call.lists) =>
            \E s \in Th!State : <<t, s>> \in call.array
       /\ \A e, f \in call.array : e[1] = f[1] => e = f
  BY <1>2, <1>3 DEF ArrayFits, Collected
<1>13. \A e \in call.array \cup found : /\ Th!Listed(e[1]) /\ Reported(e)
                                        /\ container[e[1]] \notin ToGo(Tail(call.lists))
  BY <1>4, <1>6, <1>8, <1>12 DEF Th!Listed
<1>14. ASSUME NEW t \in Th!Task, Th!Listed(t), container[t] \notin ToGo(Tail(call.lists))
       PROVE  \E s \in Th!State : <<t, s>> \in call.array \cup found
  <2>1. CASE container[t] = list BY <1>5, <1>7, <2>1
  <2>2. CASE container[t] # list BY <1>4, <1>12, <1>14, <2>2
  <2> QED BY <2>1, <2>2
<1>15. ASSUME NEW e \in call.array \cup found, NEW f \in call.array \cup found, e[1] = f[1]
       PROVE  e = f
  <2>1. CASE e \in call.array /\ f \in call.array BY <1>12, <1>15, <2>1
  <2>2. CASE e \in found /\ f \in found BY <1>6, <1>15, <2>2
  <2>3. CASE e \in call.array /\ f \in found BY <1>4, <1>6, <1>12, <1>15, <2>3
  <2>4. CASE e \in found /\ f \in call.array BY <1>4, <1>6, <1>12, <1>15, <2>4
  <2> QED BY <2>1, <2>2, <2>3, <2>4
<1>16. ArrayFits(call)'
  <2>1. ASSUME NEW t PROVE Th!Listed(t)' <=> Th!Listed(t) BY <1>1 DEF Th!Listed
  <2>2. ASSUME NEW e PROVE Reported(e)' <=> Reported(e) BY <1>1, SameStates DEF Reported
  <2>3. \A e \in call'.array : /\ Th!Listed(e[1])' /\ container'[e[1]] \notin ToGo(call'.lists)
                               /\ Reported(e)'
    BY <1>1, <1>10, <1>13, <2>1, <2>2
  <2>4. \A t \in Th!Task : Th!Listed(t)' /\ container'[t] \notin ToGo(call'.lists) =>
          \E s \in Th!State : <<t, s>> \in call'.array
    BY <1>1, <1>10, <1>14, <2>1
  <2>5. \A e, f \in call'.array : e[1] = f[1] => e = f BY <1>10, <1>15
  <2> QED BY <1>3, <1>10, <2>3, <2>4, <2>5 DEF ArrayFits
<1>17. CallFits' BY <1>1, <1>10, <1>11, <1>16 DEF CallFits, CollectFits, Functions
<1> QED BY <1>1, <1>10, <1>17, NoAnswerTells, QuietKeeps DEF Th!SchedulerSuspended

\* What is pended is readied when the scheduler goes on.
LEMMA ResumeAllKeeps ==
  ASSUME Th!ThreadsFit, ThreadInv, Th!SchedulerSuspended, Th!ResumeAll, call' = Th!NoCall,
         Told',
         UNCHANGED <<dynamic, heap, uxCurrentNumberOfTasks, uxDeletedTasksWaitingCleanUp>>
  PROVE  ThreadInv'
<1>1. /\ container' = [t \in Th!Task |-> IF event[t] = "pending" THEN "ready" ELSE container[t]]
      /\ event' = [t \in Th!Task |-> IF event[t] = "pending" THEN "none" ELSE event[t]]
      /\ UNCHANGED <<notify, suspended>>
  BY DEF Th!ResumeAll
<1>2. \A t \in Th!Task : Lodged(t) BY DEF ThreadInv, AllLodged
<1>3. ThreadsTyped' BY <1>1 DEF ThreadInv, ThreadsTyped, Th!StateList
<1>4. CallFits' /\ call'.fn = "none" /\ call.fn # "xTaskCreate"
  BY NothingCalled DEF Th!SchedulerSuspended
<1>5. ASSUME NEW t \in Th!Task PROVE Lodged(t)' BY <1>1, <1>2 DEF Lodged
<1>6. SelfRuns' BY <1>1, ThreadsFinite DEF ThreadInv, SelfRuns
<1>7. \A t \in Th!Task : /\ container[t] # "unknown" <=> container'[t] # "unknown"
                         /\ container[t] # "none" <=> container'[t] # "none"
                         /\ container[t] = "termination" <=> container'[t] = "termination"
  BY <1>1, <1>2 DEF Lodged
<1>8. ListedIn(container') = ListedIn(container) /\ EndedIn(container') = EndedIn(container)
  BY <1>7 DEF ListedIn, EndedIn
<1>9. HeapIs(container', dynamic', call'.fn, call'.task)
        = HeapIs(container, dynamic, call.fn, call.task)
  <2>1. \A m \in Th!Task \X {"stack", "tcb"} :
          m \in HeapIs(container', dynamic', call'.fn, call'.task)
            <=> m \in HeapIs(container, dynamic, call.fn, call.task)
    BY <1>4, <1>7 DEF HeapIs
  <2> QED BY <2>1 DEF HeapIs
<1>10. Th!ThreadsAccounted' BY <1>8, <1>9, AccountedIs, AccountedNext DEF ThreadInv
<1> QED BY <1>3, <1>4, <1>5, <1>6, <1>10 DEF ThreadInv, AllLodged

LEMMA SystemStateKeeps ==
  ASSUME Th!ThreadsFit, ThreadInv, Th!SystemStateReturns
  PROVE  ThreadInv'
<1>1. call.fn = "uxTaskGetSystemState" /\ Th!ResumeAll /\ UNCHANGED <<Th!memory, Th!counts>>
  BY DEF Th!SystemStateReturns
<1>2. PICK count : Th!Return([fn |-> "osThreadEnumerate", count |-> count])
  BY DEF Th!SystemStateReturns
<1>3. call' = Th!NoCall /\ Told' BY <1>2 DEF Th!Return, Told, Th!StateIsOneItHad
<1>4. Th!SchedulerSuspended BY <1>1 DEF Th!SchedulerSuspended
<1> QED BY <1>1, <1>3, <1>4, ResumeAllKeeps DEF Th!memory, Th!counts

LEMMA HandleKeeps ==
  ASSUME ThreadInv, NEW t \in Th!Task, Th!xTaskGetHandle(t)
  PROVE  ThreadInv'
<1>1. /\ call = Th!NoCall /\ answer' = Th!NoAnswer
      /\ call' = [fn |-> "xTaskGetHandle", task |-> t, lists |-> Th!SearchOrder]
      /\ UNCHANGED <<container, event, notify, suspended, dynamic, heap,
                     uxCurrentNumberOfTasks, uxDeletedTasksWaitingCleanUp>>
  BY DEF Th!xTaskGetHandle, Th!kernel, Th!memory, Th!counts
<1>2. call'.fn = "xTaskGetHandle" /\ call'.task = t /\ call'.lists = Th!SearchOrder
  BY <1>1
<1>3. Sought(call)' BY <1>1, <1>2 DEF Sought, Searches
<1>4. Th!Listed(t)' => container'[t] \in ToGo(Th!SearchOrder)
  BY <1>1, AllLists DEF ThreadInv, Th!Listed
<1>5. SearchFits(call)' BY <1>2, <1>3, <1>4 DEF SearchFits, Th!Listed
<1>6. CallFits' BY <1>2, <1>5 DEF CallFits, Functions
<1> QED BY <1>1, <1>2, <1>6, NobodyCalls, NoAnswerTells, QuietKeeps

LEMMA SearchKeeps ==
  ASSUME Th!ThreadsFit, ThreadInv, Th!prvSearchForNameWithinSingleList
  PROVE  ThreadInv'
<1> PICK t : t = call.task OBVIOUS
<1>1. call.fn = "xTaskGetHandle" /\ UNCHANGED <<Th!memory, Th!counts>>
  BY DEF Th!prvSearchForNameWithinSingleList
<1>2. SearchFits(call) /\ Th!SchedulerSuspended
  BY <1>1 DEF ThreadInv, CallFits, Th!SchedulerSuspended
<1>3. t \in Th!Task /\ call.lists \in Searches /\ (Th!Listed(t) => container[t] \in ToGo(call.lists))
      /\ call = [fn |-> call.fn, task |-> t, lists |-> call.lists]
  BY <1>2 DEF SearchFits, Sought
<1>4. CASE /\ call.lists = <<>> /\ Th!ResumeAll
           /\ Th!Return([fn |-> call.fn, found |-> FALSE, exists |-> Th!Listed(call.task)])
  <2>1. call' = Th!NoCall /\ answer' = [fn |-> call.fn, found |-> FALSE, exists |-> Th!Listed(t)]
    BY <1>4 DEF Th!Return
  <2>2. Th!Listed(t) = FALSE
    <3>1. ~Th!Listed(t) BY <1>3, <1>4, ListsGo
    <3> QED BY <3>1 DEF Th!Listed
  <2>3. Told' BY <1>1, <2>1, <2>2 DEF Told, Th!StateIsOneItHad
  <2> QED BY <1>1, <1>2, <1>4, <2>1, <2>3, ResumeAllKeeps DEF Th!memory, Th!counts
<1>5. CASE /\ call.lists # <<>> /\ container[call.task] = Head(call.lists) /\ Th!ResumeAll
           /\ Th!Return([fn |-> call.fn, found |-> TRUE, exists |-> Th!Listed(call.task)])
  <2>1. call' = Th!NoCall /\ answer' = [fn |-> call.fn, found |-> TRUE, exists |-> Th!Listed(t)]
    BY <1>5 DEF Th!Return
  <2>2. Th!Listed(t) = TRUE BY <1>3, <1>5, ListsGo DEF Th!Listed
  <2>3. Told' BY <1>1, <2>1, <2>2 DEF Told, Th!StateIsOneItHad
  <2> QED BY <1>1, <1>2, <1>5, <2>1, <2>3, ResumeAllKeeps DEF Th!memory, Th!counts
<1>6. CASE /\ call.lists # <<>> /\ container[call.task] # Head(call.lists)
           /\ call' = [call EXCEPT !.lists = Tail(@)]
           /\ answer' = Th!NoAnswer /\ UNCHANGED Th!kernel
  <2>1. call' = [fn |-> call.fn, task |-> t, lists |-> Tail(call.lists)] BY <1>3, <1>6
  <2>2. call'.fn = call.fn /\ call'.task = t /\ call'.lists = Tail(call.lists) BY <2>1
  <2>3. Tail(call.lists) \in Searches /\ (Th!Listed(t) => container[t] \in ToGo(Tail(call.lists)))
    BY <1>3, <1>6, ListsGo
  <2>4. Sought(call)' BY <1>3, <2>1, <2>2, <2>3 DEF Sought
  <2>5. Th!Listed(t)' => container'[t] \in ToGo(Tail(call.lists))
    BY <1>6, <2>3 DEF Th!Listed, Th!kernel
  <2>6. SearchFits(call)' BY <2>2, <2>4, <2>5 DEF SearchFits, Th!Listed
  <2>7. CallFits' BY <1>1, <2>2, <2>6 DEF CallFits, Functions
  <2> QED BY <1>1, <1>6, <2>2, <2>7, NoAnswerTells, QuietKeeps
       DEF Th!kernel, Th!memory, Th!counts, Th!SchedulerSuspended
<1> QED BY <1>4, <1>5, <1>6 DEF Th!prvSearchForNameWithinSingleList

\* Once all lists were gone through the array has one entry for each thread.
LEMMA ArrayComplete ==
  ASSUME Th!ThreadsFit, ThreadInv
  PROVE  Th!AllReported
<1> SUFFICES ASSUME call.fn = "uxTaskGetSystemState", call.lists = <<>>, call.full
             PROVE  /\ Th!Cardinality(call.array) = uxCurrentNumberOfTasks
                    /\ {e[1] : e \in call.array} = {t \in Th!Task : Th!Listed(t)}
                    /\ \A e \in call.array : Reported(e)
  BY DEF Th!AllReported, ThreadInv, Told, Reported
<1>1. Collected(call) /\ ArrayFits(call) BY DEF ThreadInv, CallFits, CollectFits
<1>2. ToGo(call.lists) = {} BY DEF ToGo
<1>3. /\ \A e \in call.array : e[1] \in Th!Task /\ Th!Listed(e[1]) /\ Reported(e)
      /\ \A t \in Th!Task : Th!Listed(t) => \E e \in call.array : e[1] = t
      /\ \A e, f \in call.array : e[1] = f[1] => e = f
  <2>1. \A t \in Th!Task : Th!Listed(t) => \E s \in Th!State : <<t, s>> \in call.array
    BY <1>1, <1>2 DEF ArrayFits
  <2>2. \A t, s : <<t, s>>[1] = t OBVIOUS
  <2> QED BY <1>1, <2>1, <2>2 DEF ArrayFits, Collected
<1>4. {e[1] : e \in call.array} = {t \in Th!Task : Th!Listed(t)} BY <1>3
<1>5. Th!Cardinality(call.array) = uxCurrentNumberOfTasks
  <2> DEFINE L == ListedIn(container)
  <2> DEFINE g == [t \in L |-> CHOOSE e \in call.array : e[1] = t]
  <2>1. \A t : t \in L <=> t \in Th!Task /\ Th!Listed(t) BY DEF ListedIn, Th!Listed
  <2>2. IsFiniteSet(L) BY <2>1, ThreadsFinite, FS_Subset
  <2>3. \A t \in L : g[t] \in call.array /\ g[t][1] = t BY <1>3, <2>1
  <2>4. \A e \in call.array : e[1] \in L /\ g[e[1]] = e BY <1>3, <2>1, <2>3
  <2>5. g \in [L -> call.array] /\ DOMAIN g = L BY <2>3
  <2> HIDE DEF g, L
  <2>6. g \in Bijection(L, call.array)
    <3>1. \A a, b \in L : g[a] = g[b] => a = b BY <2>3
    <3>2. \A e \in call.array : \E t \in L : g[t] = e BY <2>4
    <3> QED BY <2>5, <3>1, <3>2 DEF Bijection, Injection, Surjection, IsInjective
  <2>7. Cardinality(call.array) = Cardinality(L)
    BY <2>2, <2>6, FS_Bijection DEF ExistsBijection
  <2>8. uxCurrentNumberOfTasks = Cardinality(L) BY AccountedIs DEF L, ThreadInv
  <2> QED BY <2>7, <2>8, SameThreadCount
<1> QED BY <1>3, <1>4, <1>5

LEMMA ThreadsStart == ASSUME Th!ThreadsFit, Th!Init PROVE ThreadInv
<1>1. call.fn = "none" /\ call = Th!NoCall /\ answer.fn = "none"
  BY DEF Th!Init, Th!NoAnswer, Th!NoCall
<1>2. Th!Self \in Th!Task BY ThreadsFinite
<1>3. ThreadsTyped /\ SelfRuns /\ AllLodged
  BY <1>2 DEF Th!Init, ThreadsTyped, SelfRuns, AllLodged, Lodged, Th!StateList
<1>4. CallFits /\ Told BY <1>1 DEF CallFits, Functions, Told, Th!StateIsOneItHad
<1>5. ListedIn(container) = {Th!Self} /\ EndedIn(container) = {}
  BY <1>2 DEF Th!Init, ListedIn, EndedIn
<1>6. Cardinality({Th!Self}) = 1 /\ Cardinality({}) = 0 BY FS_Singleton, FS_EmptySet
<1>7. heap = HeapIs(container, dynamic, call.fn, call.task) BY <1>1 DEF Th!Init, HeapIs
<1>8. Th!ThreadsAccounted BY <1>5, <1>6, <1>7, AccountedIs DEF Th!Init
<1> QED BY <1>3, <1>4, <1>8 DEF ThreadInv

LEMMA ThreadsStep ==
  ASSUME Th!ThreadsFit, ThreadInv, [Th!Next]_(Th!vars)
  PROVE  ThreadInv'
<1>1. CASE UNCHANGED Th!vars
  <2>1. /\ UNCHANGED <<container, event, notify, suspended, dynamic, heap,
                       uxCurrentNumberOfTasks, uxDeletedTasksWaitingCleanUp, call, answer>>
    BY <1>1 DEF Th!vars, Th!kernel, Th!memory, Th!counts
  <2>2. (Th!ThreadsAccounted' <=> Th!ThreadsAccounted) /\ (CallFits' <=> CallFits)
    <3>1. CallFits' <=> CallFits
      BY <2>1 DEF CallFits, CreateFits, Started, ReadFits, Query, ListTold, SuspendedTold,
         StillThere, CollectFits, Collected, ArrayFits, SearchFits, Sought, Reported,
         Dormant, Th!StatesOf, Th!Known, Th!Listed
    <3>2. Th!ThreadsAccounted' <=> Th!ThreadsAccounted BY <2>1, AccountedIs, AccountedNext
    <3> QED BY <3>1, <3>2
  <2> QED BY <2>1, <2>2 DEF ThreadInv, ThreadsTyped, AllLodged, Lodged, SelfRuns, Told,
       Th!StateIsOneItHad, Th!SchedulerSuspended
<1>2. CASE Th!CallOfSelf
  <2>1. CASE \E t \in Th!Task : \/ Th!osThreadNewStatic(t) \/ Th!osThreadNewDynamic(t)
                                \/ Th!eTaskGetState(t, "osThreadGetState")
                                \/ Th!eTaskGetState(t, "osThreadTerminate")
                                \/ Th!xTaskGetHandle(t)
    BY <2>1, NewStaticKeeps, NewDynamicKeeps, AskKeeps, HandleKeeps
  <2>2. CASE Th!osThreadNewRefused \/ Th!xTaskCreate BY <2>2, RefusedKeeps, CreateKeeps
  <2>3. CASE Th!ReadEventList \/ Th!osThreadGetState \/ Th!osThreadTerminate
    BY <2>3, ReadEventKeeps, GetStateKeeps, TerminateStep
  <2>4. CASE \E size \in 1..Th!Cardinality(Th!Task) : Th!uxTaskGetSystemState(size)
    BY <2>4, CollectKeeps
  <2>5. CASE \/ Th!osThreadEnumerate \/ Th!prvListTasksWithinSingleList
             \/ Th!SystemStateReturns \/ Th!prvSearchForNameWithinSingleList
    BY <2>5, EnumerateKeeps, ListTasksKeeps, SystemStateKeeps, SearchKeeps
  <2> QED BY <1>2, <2>1, <2>2, <2>3, <2>4, <2>5 DEF Th!CallOfSelf
<1>3. CASE \E t \in Thread : Th!OtherThreads(t)
  <2>1. PICK t \in Thread : Th!OtherThreads(t) BY <1>3
  <2>2. CASE \E list \in {"delayed", "suspended"}, on \in {"nothing", "object", "notification"} :
               Th!Blocks(t, list, on)
    BY <2>2, BlocksKeeps
  <2>3. CASE \/ Th!EventOccurs(t) \/ Th!NotificationArrives(t) \/ Th!TimeOut(t)
             \/ Th!osThreadSuspend(t) \/ Th!osThreadResume(t)
    BY <2>3, EventKeeps, NotificationKeeps, TimesOutKeeps, SuspendKeeps, ResumeKeeps
  <2>4. CASE \/ Th!osThreadExit(t) \/ Th!prvCheckTasksWaitingTermination(t)
             \/ Th!StorageTakenBack(t)
    BY <2>4, ExitKeeps, CleanUpKeeps, StorageKeeps
  <2> QED BY <2>1, <2>2, <2>3, <2>4 DEF Th!OtherThreads
<1> QED BY <1>1, <1>2, <1>3 DEF Th!Next

LEMMA ThreadsInvariance == ASSUME Th!ThreadsFit PROVE Th!Spec => []ThreadInv
BY ThreadsStart, ThreadsStep, PTL DEF Th!Spec

\* Of any threads, created, suspended, resumed, ended and terminated in any order, with
\* memory that may be exhausted: the heap holds the stack and the TCB of each as long as
\* it is one and no longer, and the kernel's counts are those of its lists (xTaskCreate,
\* vTaskDelete and prvCheckTasksWaitingTermination, tasks.c:733, 1164, 3651).
THEOREM ThreadsStayAccounted ==
  ASSUME Th!ThreadsFit PROVE Th!Spec => []Th!ThreadsAccounted
<1>1. ThreadInv => Th!ThreadsAccounted BY DEF ThreadInv
<1> QED BY <1>1, ThreadsInvariance, PTL

\* Of any threads, while they and interrupts go on: the state osThreadGetState answers is
\* one the thread had while it was asked for, or eSuspended of one that was blocked and
\* then ready; the list osThreadEnumerate is given has each thread there is once, and
\* xTaskGetHandle finds those that are there and no other (eTaskGetState, tasks.c:1389;
\* uxTaskGetSystemState, tasks.c:2514).
THEOREM ThreadsAreReported ==
  ASSUME Th!ThreadsFit PROVE Th!Spec => [](Th!StateIsOneItHad /\ Th!AllReported)
<1>1. ThreadInv => Th!StateIsOneItHad /\ Th!AllReported
  BY ArrayComplete DEF ThreadInv, Told
<1> QED BY <1>1, ThreadsInvariance, PTL

=============================================================================
