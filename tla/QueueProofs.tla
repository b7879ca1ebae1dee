---------------------------- MODULE QueueProofs ----------------------------
(***************************************************************************)
\* Proofs about Queue, for every set of tasks, priorities, capacity, tick
\* width and bound: type correctness, priority scheduling, the refinement
\* of BoundedQueue, that no wake-up is lost and that time-outs are exact.
(***************************************************************************)
EXTENDS Queue, TLAPS, WellFoundedInduction, FiniteSetTheorems

--------------------
\* Time: the tick count and the count of its overflows.

\* Times count in turns of M ticks.
LEMMA Turns ==
  ASSUME NEW a \in Nat, NEW b \in Nat, NEW M \in Nat, a < b
  PROVE  /\ a * M \in Nat /\ b * M \in Nat
         /\ (a + 1) * M = a * M + M
         /\ a * M + M <= b * M
<1>1. PICK d \in Nat : b = a + 1 + d
  <2>1. b - a - 1 \in Nat /\ b = a + 1 + (b - a - 1) OBVIOUS
  <2> QED BY <2>1
<1>2. a * M \in Nat /\ d * M \in Nat OBVIOUS
<1>3. (a + 1) * M = a * M + M OBVIOUS
<1>4. (a + 1 + d) * M = a * M + M + d * M OBVIOUS
<1> QED BY <1>1, <1>2, <1>3, <1>4

LEMMA TickModType == TickMod \in Nat /\ TickMod > 1
  BY KernelAssumption

\* A tick later is one more, and one overflow later starts from 0.
LEMMA TimeOfFacts ==
  ASSUME NEW n \in Nat, NEW v \in Nat
  PROVE  /\ TimeOf(n, v) \in Nat
         /\ TimeOf(n, v + 1) = TimeOf(n, v) + 1
         /\ TimeOf(n + 1, v) = TimeOf(n, v) + TickMod
         /\ TimeOf(n + 1, 0) = TimeOf(n, TickMod - 1) + 1
<1> DEFINE p == n * TickMod
           p1 == (n + 1) * TickMod
<1>1. p \in Nat /\ p1 = p + TickMod BY TickModType, Turns
<1>2. /\ TimeOf(n, v) = p + v /\ TimeOf(n, v + 1) = p + (v + 1)
      /\ TimeOf(n + 1, v) = p1 + v
      /\ TimeOf(n + 1, 0) = p1 + 0 /\ TimeOf(n, TickMod - 1) = p + (TickMod - 1)
  BY DEF TimeOf
<1> HIDE DEF p, p1
<1> QED BY <1>1, <1>2, TickModType

\* Times are ordered by the number of overflows, then by the tick count.
LEMMA TimeOfOrder ==
  ASSUME NEW m \in Nat, NEW n \in Nat, NEW v \in Tick, NEW w \in Tick
  PROVE  TimeOf(m, v) <= TimeOf(n, w) <=> m < n \/ (m = n /\ v <= w)
<1>1. ASSUME NEW a \in Nat, NEW b \in Nat, a < b,
             NEW x \in Tick, NEW y \in Tick
      PROVE  TimeOf(a, x) < TimeOf(b, y)
  <2> DEFINE p == a * TickMod
             r == b * TickMod
  <2>1. p \in Nat /\ r \in Nat /\ p + TickMod <= r BY <1>1, TickModType, Turns
  <2>2. TimeOf(a, x) = p + x /\ TimeOf(b, y) = r + y BY DEF TimeOf
  <2> HIDE DEF p, r
  <2> QED BY <2>1, <2>2, TickModType DEF Tick
<1>2. v \in Nat /\ w \in Nat /\ TimeOf(m, v) \in Nat /\ TimeOf(n, w) \in Nat
  <2>1. v \in Nat /\ w \in Nat BY DEF Tick
  <2> QED BY <2>1, TimeOfFacts
<1>3. CASE m < n BY <1>1, <1>2, <1>3
<1>4. CASE n < m BY <1>1, <1>2, <1>4
<1>5. CASE m = n
  <2> DEFINE p == n * TickMod
  <2>1. TimeOf(m, v) = p + v /\ TimeOf(n, w) = p + w BY <1>5 DEF TimeOf
  <2>2. p \in Nat BY TickModType, Turns, n < n + 1, n + 1 \in Nat
  <2> HIDE DEF p
  <2> QED BY <1>2, <1>5, <2>1, <2>2
<1> QED BY <1>3, <1>4, <1>5

LEMMA TimeLater ==
  ASSUME NEW m \in Nat, NEW n \in Nat, NEW v \in Tick, NEW w \in Tick,
         m < n \/ (m = n /\ v < w)
  PROVE  TimeOf(m, v) < TimeOf(n, w)
<1>1. v \in Nat /\ w \in Nat BY DEF Tick
<1>2. ~(TimeOf(n, w) <= TimeOf(m, v)) BY <1>1, TimeOfOrder
<1> QED BY <1>1, <1>2, TimeOfFacts

\* xNumOfOverflows does not wrap within TickMod * TickMod ticks.
LEMMA OverflowsFit ==
  ASSUME NEW n \in Tick, TimeOf(n, TickMod - 1) + 1 < TickMod * TickMod
  PROVE  n + 1 \in Tick /\ (n + 1) % TickMod = n + 1
<1>1. n + 1 # TickMod
  <2> SUFFICES ASSUME n + 1 = TickMod PROVE FALSE OBVIOUS
  <2> DEFINE p == n * TickMod
             r == TickMod * TickMod
  <2>1. p \in Nat /\ r = p + TickMod
    BY TickModType, Turns, n \in Nat, n < n + 1, n + 1 \in Nat DEF Tick
  <2>2. p + (TickMod - 1) + 1 < r BY DEF TimeOf
  <2> HIDE DEF p, r
  <2> QED BY <2>1, <2>2, TickModType
<1> QED BY <1>1, TickModType DEF Tick

USE KernelAssumption, QueueAssumption

--------------------
\* What the kernel's functions preserve.

\* Counting modulo TickMod stays within TickType_t.
LEMMA TickModulo == ASSUME NEW n \in Nat PROVE n % TickMod \in Tick
  BY DEF Tick

\* Changing lists, wake times and the switch request stays within the type.
Updated(q, c, e, x, n, y) ==
  [q EXCEPT !.container = c, !.event = e, !.xItemValue = x,
            !.xNextTaskUnblockTime = n, !.xYieldPending = y]

LEMMA Update ==
  ASSUME NEW q \in KernelState, NEW c \in [Task -> StateList],
         NEW e \in [Task -> EventList \cup {"none", "pending"}],
         NEW x \in [Task -> Tick], NEW n \in Tick, NEW y \in BOOLEAN
  PROVE  LET r == Updated(q, c, e, x, n, y)
         IN  /\ r \in KernelState
             /\ r.container = c
             /\ r.xYieldPending = y
             /\ r.pxCurrentTCB = q.pxCurrentTCB
             /\ r.uxPriority = q.uxPriority
             /\ r.pendSV = q.pendSV
             /\ r.uxSchedulerSuspended = q.uxSchedulerSuspended
  BY DEF KernelState, Updated

\* The head of a delayed list has a wake time, the earliest.
LEMMA MinWakeType ==
  ASSUME NEW q \in KernelState, NEW S \in SUBSET Task, S # {}
  PROVE  /\ MinWake(q, S) \in Tick
         /\ \A t \in S : MinWake(q, S) <= q.xItemValue[t]
<1> DEFINE W == {q.xItemValue[t] : t \in S}
<1>1. W \subseteq Nat /\ W # {} /\ W \subseteq Tick BY DEF KernelState, Tick
<1> DEFINE R == {ss \in Nat \X Nat : ss[1] < ss[2]}
<1>2. \E x \in W : \A y \in W : ~ (<<y, x>> \in R)
  <2>1. IsWellFoundedOn(R, Nat) BY NatLessThanWellFounded, Zenon DEF OpToRel
  <2> HIDE DEF R
  <2> QED BY <1>1, <2>1, WFMin
<1>3. PICK x \in W : \A y \in W : x <= y
  <2>1. PICK x \in W : \A y \in W : ~ (<<y, x>> \in R) BY <1>2
  <2>2. ASSUME NEW y \in W PROVE x <= y
    <3>1. x \in Nat /\ y \in Nat BY <1>1
    <3>2. ~ (y < x) BY <2>1, <3>1
    <3> QED BY <3>1, <3>2
  <2> QED BY <2>2
<1>4. \E w \in Tick : /\ \E t \in S : q.xItemValue[t] = w
                      /\ \A t \in S : w <= q.xItemValue[t]
  BY <1>1, <1>3
<1> QED BY <1>4 DEF MinWake

LEMMA ResetUnblockTimeType ==
  ASSUME NEW q \in KernelState
  PROVE  /\ prvResetNextTaskUnblockTime(q) \in KernelState
         /\ \E n \in Tick : prvResetNextTaskUnblockTime(q)
                              = [q EXCEPT !.xNextTaskUnblockTime = n]
<1> DEFINE n == IF Delayed(q) = {} THEN portMAX_DELAY
                                   ELSE MinWake(q, Delayed(q))
<1>1. n \in Tick
  <2>1. CASE Delayed(q) = {} BY <2>1 DEF Tick, portMAX_DELAY
  <2>2. CASE Delayed(q) # {} BY <2>2, MinWakeType DEF Delayed
  <2> QED BY <2>1, <2>2
<1>2. prvResetNextTaskUnblockTime(q) = [q EXCEPT !.xNextTaskUnblockTime = n]
  BY DEF prvResetNextTaskUnblockTime
<1> HIDE DEF n
<1> QED BY <1>1, <1>2 DEF KernelState

\* What the running task can rely on when q becomes r: it goes on running, no
\* ready task leaves the ready lists and no request for a switch is lost.
Undisturbed(q, r) ==
  /\ r \in KernelState
  /\ r.pxCurrentTCB = q.pxCurrentTCB
  /\ r.uxPriority = q.uxPriority
  /\ Ready(q) \subseteq Ready(r)
  /\ q.pendSV => r.pendSV
  /\ q.xYieldPending => r.xYieldPending

LEMMA YieldPreserves ==
  ASSUME NEW q \in KernelState
  PROVE  /\ Undisturbed(q, Yield(q))
         /\ Yield(q).uxSchedulerSuspended = q.uxSchedulerSuspended
         /\ SwitchAskedFor(Yield(q))
         /\ Yield(q).pendSV
  BY DEF Yield, KernelState, Undisturbed, SwitchAskedFor, Ready

\* Waking the head of an event list asks for the switch it makes necessary.
LEMMA RemovePreserves ==
  ASSUME NEW q \in KernelState, NEW head \in Task, SwitchAskedFor(q)
  PROVE  LET r == xTaskRemoveFromEventList(q, head)
         IN  /\ Undisturbed(q, r)
             /\ r.uxSchedulerSuspended = q.uxSchedulerSuspended
             /\ SwitchAskedFor(r)
<1> DEFINE woken == IF q.uxSchedulerSuspended = 0
                      THEN [q EXCEPT !.event[head] = "none",
                                     !.container[head] = "ready"]
                      ELSE [q EXCEPT !.event[head] = "pending"]
           r == xTaskRemoveFromEventList(q, head)
<1>1. /\ woken \in KernelState
      /\ Undisturbed(q, woken)
      /\ woken.uxSchedulerSuspended = q.uxSchedulerSuspended
      /\ Ready(woken) \subseteq Ready(q) \cup {head}
      /\ woken.xYieldPending = q.xYieldPending
      /\ woken.pendSV = q.pendSV
  <2>1. CASE q.uxSchedulerSuspended = 0
    <3> DEFINE c == [q.container EXCEPT ![head] = "ready"]
               e == [q.event EXCEPT ![head] = "none"]
    <3>1. woken = Updated(q, c, e, q.xItemValue, q.xNextTaskUnblockTime,
                          q.xYieldPending)
      BY <2>1 DEF KernelState, Updated
    <3>2. c \in [Task -> StateList]
          /\ e \in [Task -> EventList \cup {"none", "pending"}]
      BY DEF KernelState, StateList
    <3>3. \A t \in Task : c[t] = IF t = head THEN "ready" ELSE q.container[t]
      BY DEF KernelState
    <3>4. /\ woken \in KernelState /\ woken.container = c
          /\ woken.xYieldPending = q.xYieldPending
          /\ woken.pxCurrentTCB = q.pxCurrentTCB
          /\ woken.uxPriority = q.uxPriority
          /\ woken.pendSV = q.pendSV
          /\ woken.uxSchedulerSuspended = q.uxSchedulerSuspended
      <4>1. /\ q.xItemValue \in [Task -> Tick]
            /\ q.xNextTaskUnblockTime \in Tick
            /\ q.xYieldPending \in BOOLEAN
        BY DEF KernelState
      <4> HIDE DEF woken, c, e
      <4> QED BY <3>1, <3>2, <4>1, Update
    <3> HIDE DEF woken, c, e
    <3> QED BY <3>3, <3>4 DEF Undisturbed, Ready
  <2>2. CASE q.uxSchedulerSuspended # 0
    <3>1. woken = [q EXCEPT !.event[head] = "pending"] BY <2>2
    <3> HIDE DEF woken
    <3> QED BY <3>1 DEF KernelState, StateList, Undisturbed, Ready
  <2> QED BY <2>1, <2>2
<1>2. r = IF Outranks(q, head) THEN [woken EXCEPT !.xYieldPending = TRUE]
                               ELSE woken
  BY DEF xTaskRemoveFromEventList
<1> HIDE DEF woken, r
<1>3. CASE Outranks(q, head)
  <2>1. r = [woken EXCEPT !.xYieldPending = TRUE] BY <1>2, <1>3
  <2>2. /\ Undisturbed(woken, r)
        /\ r.uxSchedulerSuspended = woken.uxSchedulerSuspended
        /\ r.xYieldPending
    BY <1>1, <2>1 DEF KernelState, Undisturbed, Ready
  <2> QED BY <1>1, <2>2 DEF Undisturbed, SwitchAskedFor, r
<1>4. CASE ~Outranks(q, head)
  <2>1. r = woken BY <1>2, <1>4
  <2>2. SwitchAskedFor(woken)
    <3>1. q.uxPriority[head] <= q.uxPriority[q.pxCurrentTCB]
      BY <1>4 DEF Outranks, KernelState, Priority
    <3> QED BY <1>1, <3>1 DEF SwitchAskedFor, Undisturbed
  <2> QED BY <1>1, <2>1, <2>2 DEF r
<1> QED BY <1>3, <1>4

LEMMA WakePreserves ==
  ASSUME NEW q \in KernelState, NEW head \in Task, SwitchAskedFor(q)
  PROVE  LET r == WakeAndYield(q, head)
         IN  /\ Undisturbed(q, r)
             /\ r.uxSchedulerSuspended = q.uxSchedulerSuspended
             /\ SwitchAskedFor(r)
<1> DEFINE woken == xTaskRemoveFromEventList(q, head)
<1>1. /\ Undisturbed(q, woken)
      /\ woken.uxSchedulerSuspended = q.uxSchedulerSuspended
      /\ SwitchAskedFor(woken)
  BY RemovePreserves
<1>2. WakeAndYield(q, head) = IF Outranks(q, head) THEN Yield(woken) ELSE woken
  BY DEF WakeAndYield
<1> HIDE DEF woken
<1>3. /\ Undisturbed(woken, Yield(woken))
      /\ Yield(woken).uxSchedulerSuspended = woken.uxSchedulerSuspended
      /\ SwitchAskedFor(Yield(woken))
  BY <1>1, YieldPreserves DEF Undisturbed
<1> QED BY <1>1, <1>2, <1>3 DEF Undisturbed

\* A task that blocks leaves the ready lists and nothing else changes for the
\* others.
LEMMA PlacePreserves ==
  ASSUME NEW q \in KernelState, NEW l \in EventList, NEW ticks \in Tick,
         SwitchAskedFor(q)
  PROVE  LET r == vTaskPlaceOnEventList(q, l, ticks)
         IN  /\ r \in KernelState
             /\ r.pxCurrentTCB = q.pxCurrentTCB
             /\ r.uxPriority = q.uxPriority
             /\ r.uxSchedulerSuspended = q.uxSchedulerSuspended
             /\ r.pendSV = q.pendSV
             /\ SwitchAskedFor(r)
<1> DEFINE me == q.pxCurrentTCB
           p == [q EXCEPT !.event[me] = l]
           wake == (p.xTickCount + ticks) % TickMod
           r == vTaskPlaceOnEventList(q, l, ticks)
<1>1. /\ p \in KernelState
      /\ p.pxCurrentTCB = me
      /\ p.uxSchedulerSuspended = q.uxSchedulerSuspended
      /\ p.pendSV = q.pendSV /\ p.xYieldPending = q.xYieldPending
      /\ p.uxPriority = q.uxPriority /\ p.container = q.container
  BY DEF KernelState
<1>2. wake \in Tick BY <1>1, TickModulo DEF KernelState, Tick
<1>3. r = prvAddCurrentTaskToDelayedList(p, ticks, TRUE) BY DEF vTaskPlaceOnEventList
<1>4. \/ r = [p EXCEPT !.container[me] = "suspended"]
      \/ r = [p EXCEPT !.container[me] = "overflow", !.xItemValue[me] = wake]
      \/ r = [p EXCEPT !.container[me] = "delayed", !.xItemValue[me] = wake,
                       !.xNextTaskUnblockTime = IF wake < @ THEN wake ELSE @]
  BY <1>1, <1>3, Zenon DEF prvAddCurrentTaskToDelayedList
<1> HIDE DEF p, r, wake
<1>5. /\ r \in KernelState
      /\ r.pxCurrentTCB = me
      /\ r.uxPriority = p.uxPriority
      /\ r.uxSchedulerSuspended = p.uxSchedulerSuspended
      /\ r.pendSV = p.pendSV /\ r.xYieldPending = p.xYieldPending
      /\ Ready(r) \subseteq Ready(p)
  <2>1. CASE r = [p EXCEPT !.container[me] = "suspended"]
    BY <1>1, <2>1 DEF KernelState, StateList, Ready
  <2>2. CASE r = [p EXCEPT !.container[me] = "overflow", !.xItemValue[me] = wake]
    <3> DEFINE c == [p.container EXCEPT ![me] = "overflow"]
               x == [p.xItemValue EXCEPT ![me] = wake]
    <3>1. r = Updated(p, c, p.event, x, p.xNextTaskUnblockTime, p.xYieldPending)
      BY <1>1, <2>2 DEF KernelState, Updated
    <3>2. /\ c \in [Task -> StateList] /\ x \in [Task -> Tick]
          /\ p.xNextTaskUnblockTime \in Tick
      BY <1>1, <1>2 DEF KernelState, StateList
    <3>3. \A t \in Task : c[t] = IF t = me THEN "overflow" ELSE p.container[t]
      BY <1>1 DEF KernelState
    <3>4. /\ p.event \in [Task -> EventList \cup {"none", "pending"}]
          /\ p.xYieldPending \in BOOLEAN
      BY <1>1 DEF KernelState
    <3> HIDE DEF c, x
    <3> DEFINE u == Updated(p, c, p.event, x, p.xNextTaskUnblockTime, p.xYieldPending)
    <3>5. /\ u \in KernelState /\ u.container = c
          /\ u.xYieldPending = p.xYieldPending
          /\ u.pxCurrentTCB = p.pxCurrentTCB
          /\ u.uxPriority = p.uxPriority
          /\ u.pendSV = p.pendSV
          /\ u.uxSchedulerSuspended = p.uxSchedulerSuspended
      BY <1>1, <3>2, <3>4, Update
    <3>6. r = u BY <3>1
    <3> HIDE DEF u
    <3> QED BY <1>1, <3>3, <3>5, <3>6 DEF Ready
  <2>3. CASE r = [p EXCEPT !.container[me] = "delayed", !.xItemValue[me] = wake,
                           !.xNextTaskUnblockTime = IF wake < @ THEN wake ELSE @]
    <3> DEFINE c == [p.container EXCEPT ![me] = "delayed"]
               x == [p.xItemValue EXCEPT ![me] = wake]
               n == IF wake < p.xNextTaskUnblockTime
                      THEN wake ELSE p.xNextTaskUnblockTime
    <3>1. r = Updated(p, c, p.event, x, n, p.xYieldPending)
      BY <1>1, <2>3 DEF KernelState, Updated
    <3>2. /\ c \in [Task -> StateList] /\ x \in [Task -> Tick]
          /\ n \in Tick
      BY <1>1, <1>2 DEF KernelState, StateList
    <3>3. \A t \in Task : c[t] = IF t = me THEN "delayed" ELSE p.container[t]
      BY <1>1 DEF KernelState
    <3>4. /\ p.event \in [Task -> EventList \cup {"none", "pending"}]
          /\ p.xYieldPending \in BOOLEAN
      BY <1>1 DEF KernelState
    <3> HIDE DEF c, x, n
    <3> DEFINE u == Updated(p, c, p.event, x, n, p.xYieldPending)
    <3>5. /\ u \in KernelState /\ u.container = c
          /\ u.xYieldPending = p.xYieldPending
          /\ u.pxCurrentTCB = p.pxCurrentTCB
          /\ u.uxPriority = p.uxPriority
          /\ u.pendSV = p.pendSV
          /\ u.uxSchedulerSuspended = p.uxSchedulerSuspended
      BY <1>1, <3>2, <3>4, Update
    <3>6. r = u BY <3>1
    <3> HIDE DEF u
    <3> QED BY <1>1, <3>3, <3>5, <3>6 DEF Ready
  <2> QED BY <1>4, <2>1, <2>2, <2>3
<1> QED BY <1>1, <1>5 DEF SwitchAskedFor, Ready, r

--------------------
\* The tick and the scheduler lock.

\* What taking tasks off the delayed lists leaves alone.
Steady(q, r) ==
  /\ r \in KernelState
  /\ r.pxCurrentTCB = q.pxCurrentTCB
  /\ r.uxPriority = q.uxPriority
  /\ r.uxSchedulerSuspended = q.uxSchedulerSuspended
  /\ r.pendSV = q.pendSV
  /\ r.xYieldPending = q.xYieldPending
  /\ Ready(q) \subseteq Ready(r)

LEMMA SteadyTransitive ==
  ASSUME NEW p, NEW q, NEW r, Steady(p, q), Steady(q, r)
  PROVE  Steady(p, r)
  BY DEF Steady

LEMMA ResetSteady ==
  ASSUME NEW q \in KernelState
  PROVE  Steady(q, prvResetNextTaskUnblockTime(q))
<1> DEFINE r == prvResetNextTaskUnblockTime(q)
<1>1. PICK n \in Tick : r = [q EXCEPT !.xNextTaskUnblockTime = n] BY ResetUnblockTimeType
<1>2. r \in KernelState BY ResetUnblockTimeType
<1> HIDE DEF r
<1>3. Steady(q, r) BY <1>1, <1>2 DEF Steady, KernelState, Ready
<1> QED BY <1>3 DEF r

\* Moving tasks to the ready lists, and off their event lists.
Unblocked(q, S, y) ==
  Updated(q, [t \in Task |-> IF t \in S THEN "ready" ELSE q.container[t]],
             [t \in Task |-> IF t \in S THEN "none" ELSE q.event[t]],
             q.xItemValue, q.xNextTaskUnblockTime, y)

LEMMA UnblockSteady ==
  ASSUME NEW q \in KernelState, NEW S \in SUBSET Task, NEW y \in BOOLEAN
  PROVE  LET r == Unblocked(q, S, y)
         IN  /\ r \in KernelState
             /\ r.pxCurrentTCB = q.pxCurrentTCB
             /\ r.uxPriority = q.uxPriority
             /\ r.uxSchedulerSuspended = q.uxSchedulerSuspended
             /\ r.pendSV = q.pendSV
             /\ r.xYieldPending = y
             /\ Ready(r) = Ready(q) \cup S
<1> DEFINE e == [t \in Task |-> IF t \in S THEN "none" ELSE q.event[t]]
           c == [t \in Task |-> IF t \in S THEN "ready" ELSE q.container[t]]
           r == Unblocked(q, S, y)
           u == Updated(q, c, e, q.xItemValue, q.xNextTaskUnblockTime, y)
<1>1. r = u BY DEF Unblocked
<1>2. /\ c \in [Task -> StateList]
      /\ e \in [Task -> EventList \cup {"none", "pending"}]
      /\ q.xItemValue \in [Task -> Tick]
      /\ q.xNextTaskUnblockTime \in Tick
  BY DEF KernelState, StateList
<1>3. {t \in Task : c[t] = "ready"} = Ready(q) \cup S BY DEF Ready
<1>4. /\ u \in KernelState /\ u.container = c
      /\ u.xYieldPending = y
      /\ u.pxCurrentTCB = q.pxCurrentTCB
      /\ u.uxPriority = q.uxPriority
      /\ u.pendSV = q.pendSV
      /\ u.uxSchedulerSuspended = q.uxSchedulerSuspended
  <2> HIDE DEF c, e
  <2> QED BY <1>2, Update
<1> HIDE DEF u, c, e, r
<1>5. Ready(u) = Ready(q) \cup S BY <1>3, <1>4 DEF Ready
<1>6. r = u BY <1>1
<1> QED BY <1>4, <1>5, <1>6 DEF r

\* What a tick does to the delayed list: those who are due are unblocked.
LEMMA UnblockDueIs ==
  ASSUME NEW q \in KernelState
  PROVE  /\ Due(q) \in SUBSET Task /\ q.xYieldPending \in BOOLEAN
         /\ UnblockDue(q) =
              IF q.xTickCount < q.xNextTaskUnblockTime THEN q
              ELSE prvResetNextTaskUnblockTime(Unblocked(q, Due(q), q.xYieldPending))
<1> DEFINE S == Due(q)
           woken == [q EXCEPT !.container = [t \in Task |-> IF t \in S
                                               THEN "ready" ELSE @[t]],
                              !.event = [t \in Task |-> IF t \in S
                                           THEN "none" ELSE @[t]]]
           same == Unblocked(q, S, q.xYieldPending)
<1>1. UnblockDue(q) = IF q.xTickCount < q.xNextTaskUnblockTime THEN q
                      ELSE prvResetNextTaskUnblockTime(woken)
  BY DEF UnblockDue
<1>2. S \in SUBSET Task /\ q.xYieldPending \in BOOLEAN BY DEF Due, Delayed, KernelState
<1> HIDE DEF S
<1>3. woken = same
  <2> DEFINE c == [t \in Task |-> IF t \in S THEN "ready" ELSE q.container[t]]
             e == [t \in Task |-> IF t \in S THEN "none" ELSE q.event[t]]
  <2>1. /\ woken = [q EXCEPT !.container = c, !.event = e]
        /\ same = Updated(q, c, e, q.xItemValue, q.xNextTaskUnblockTime,
                          q.xYieldPending)
    BY Zenon DEF KernelState, Unblocked
  <2> HIDE DEF c, e, woken, same
  <2> QED BY <2>1 DEF KernelState, Updated
<1> HIDE DEF woken, same
<1>4. UnblockDue(q) = IF q.xTickCount < q.xNextTaskUnblockTime THEN q
                      ELSE prvResetNextTaskUnblockTime(same)
  BY <1>1, <1>3
<1> QED BY <1>2, <1>4 DEF S, same

LEMMA UnblockDueSteady ==
  ASSUME NEW q \in KernelState
  PROVE  Steady(q, UnblockDue(q))
<1> DEFINE u == Unblocked(q, Due(q), q.xYieldPending)
<1>1. UnblockDue(q) = IF q.xTickCount < q.xNextTaskUnblockTime THEN q
                      ELSE prvResetNextTaskUnblockTime(u)
  BY UnblockDueIs
<1>2. Steady(q, u) BY UnblockDueIs, UnblockSteady DEF Steady
<1>3. Steady(q, q) BY DEF Steady
<1> HIDE DEF u
<1>4. Steady(u, prvResetNextTaskUnblockTime(u)) BY <1>2, ResetSteady DEF Steady
<1> QED BY <1>1, <1>2, <1>3, <1>4, SteadyTransitive

LEMMA SwitchListsSteady ==
  ASSUME NEW q \in KernelState
  PROVE  Steady(q, taskSWITCH_DELAYED_LISTS(q))
<1> DEFINE c == [t \in Task |-> CASE q.container[t] = "overflow" -> "delayed"
                                  [] q.container[t] = "delayed" -> "overflow"
                                  [] OTHER -> q.container[t]]
           n == (q.xNumOfOverflows + 1) % TickMod
           r == [q EXCEPT !.container = c, !.xNumOfOverflows = n]
<1>1. taskSWITCH_DELAYED_LISTS(q) = prvResetNextTaskUnblockTime(r)
  BY DEF taskSWITCH_DELAYED_LISTS
<1>2. n \in Tick BY TickModulo DEF KernelState, Tick
<1>3. c \in [Task -> StateList]
      /\ \A t \in Task : q.container[t] = "ready" => c[t] = "ready"
  BY DEF KernelState, StateList
<1> HIDE DEF c, n
<1>4. /\ r \in KernelState /\ r.container = c
      /\ r.pxCurrentTCB = q.pxCurrentTCB
      /\ r.uxPriority = q.uxPriority
      /\ r.uxSchedulerSuspended = q.uxSchedulerSuspended
      /\ r.pendSV = q.pendSV
      /\ r.xYieldPending = q.xYieldPending
  BY <1>2, <1>3, Zenon DEF KernelState
<1> HIDE DEF r
<1>5. Steady(q, r) BY <1>3, <1>4 DEF Steady, Ready
<1>6. Steady(r, prvResetNextTaskUnblockTime(r)) BY <1>4, ResetSteady
<1> QED BY <1>1, <1>5, <1>6, SteadyTransitive

LEMMA CountTickSteady ==
  ASSUME NEW q \in KernelState
  PROVE  Steady(q, CountTick(q))
<1> DEFINE n == (q.xTickCount + 1) % TickMod
           t1 == [q EXCEPT !.xTickCount = n]
           t2 == IF t1.xTickCount = 0 THEN taskSWITCH_DELAYED_LISTS(t1) ELSE t1
<1>1. CountTick(q) = UnblockDue(t2) BY DEF CountTick
<1>2. n \in Tick BY TickModulo DEF KernelState, Tick
<1> HIDE DEF n
<1>3. Steady(q, t1) BY <1>2 DEF Steady, KernelState, Ready
<1> HIDE DEF t1
<1>4. Steady(t1, t1) /\ Steady(t1, taskSWITCH_DELAYED_LISTS(t1))
  BY <1>3, SwitchListsSteady DEF Steady
<1>5. Steady(t1, t2) BY <1>4
<1> HIDE DEF t2
<1>6. Steady(t2, UnblockDue(t2)) BY <1>5, UnblockDueSteady DEF Steady
<1> QED BY <1>1, <1>3, <1>5, <1>6, SteadyTransitive

\* A tick asks for a switch when it readies a task as urgent as the running
\* one.
LEMMA TickAsks ==
  ASSUME NEW q \in KernelState, SwitchAskedFor(q),
         ~SwitchRequired(q, CountTick(q))
  PROVE  SwitchAskedFor(CountTick(q))
<1> DEFINE r == CountTick(q)
<1>1. Steady(q, r) BY CountTickSteady
<1>2. ~SwitchRequired(q, r) OBVIOUS
<1> HIDE DEF r
<1>3. \A t \in Task : r.container[t] = "ready" /\ q.container[t] # "ready" =>
        ~(q.uxPriority[t] >= q.uxPriority[q.pxCurrentTCB])
  BY <1>2 DEF SwitchRequired
<1>4. \A t \in Ready(r) \ Ready(q) :
        q.uxPriority[t] <= q.uxPriority[q.pxCurrentTCB]
  BY <1>3 DEF Ready, KernelState, Priority
<1>5. SwitchAskedFor(r) BY <1>1, <1>4 DEF SwitchAskedFor, Steady
<1> QED BY <1>5 DEF r

LEMMA TickPreserves ==
  ASSUME NEW q \in KernelState, SwitchAskedFor(q)
  PROVE  /\ Undisturbed(q, TickInterrupt(q))
         /\ TickInterrupt(q).uxSchedulerSuspended = q.uxSchedulerSuspended
         /\ SwitchAskedFor(TickInterrupt(q))
<1> DEFINE p == [q EXCEPT !.xPendedTicks = @ + 1]
           r == CountTick(q)
<1>1. CASE q.uxSchedulerSuspended # 0
  <2>1. TickInterrupt(q) = p BY <1>1 DEF TickInterrupt
  <2>2. p \in KernelState BY DEF KernelState
  <2> QED BY <2>1, <2>2 DEF Undisturbed, SwitchAskedFor, KernelState, Ready
<1>2. CASE q.uxSchedulerSuspended = 0 /\ SwitchRequired(q, CountTick(q))
  <2>1. TickInterrupt(q) = Yield(r) BY <1>2 DEF TickInterrupt
  <2>2. Steady(q, r) BY CountTickSteady
  <2> HIDE DEF r
  <2>3. /\ Undisturbed(r, Yield(r))
        /\ Yield(r).uxSchedulerSuspended = r.uxSchedulerSuspended
        /\ SwitchAskedFor(Yield(r))
    BY <2>2, YieldPreserves DEF Steady
  <2> QED BY <2>1, <2>2, <2>3 DEF Undisturbed, Steady
<1>3. CASE q.uxSchedulerSuspended = 0 /\ ~SwitchRequired(q, CountTick(q))
  <2>1. TickInterrupt(q) = r BY <1>3 DEF TickInterrupt
  <2>2. Steady(q, r) /\ SwitchAskedFor(r) BY <1>3, CountTickSteady, TickAsks
  <2> HIDE DEF r
  <2> QED BY <2>1, <2>2 DEF Undisturbed, Steady
<1> QED BY <1>1, <1>2, <1>3

LEMMA ReplayPreserves ==
  ASSUME NEW q \in KernelState, SwitchAskedFor(q), q.xPendedTicks > 0
  PROVE  /\ Undisturbed(q, ReplayTick(q))
         /\ ReplayTick(q).uxSchedulerSuspended = q.uxSchedulerSuspended
         /\ SwitchAskedFor(ReplayTick(q))
<1> DEFINE r == CountTick(q)
           y == r.xYieldPending \/ SwitchRequired(q, r)
           n == r.xPendedTicks - 1
           s == [r EXCEPT !.xPendedTicks = n, !.xYieldPending = y]
<1>1. Steady(q, r) /\ r.xPendedTicks = q.xPendedTicks
  <2>1. r.xPendedTicks = q.xPendedTicks
    BY DEF CountTick, UnblockDue, taskSWITCH_DELAYED_LISTS,
           prvResetNextTaskUnblockTime, KernelState
  <2> QED BY <2>1, CountTickSteady
<1>2. ReplayTick(q) = s BY DEF ReplayTick
<1>3. ~SwitchRequired(q, r) => SwitchAskedFor(r) BY TickAsks
<1>4. y \in BOOLEAN BY <1>1, CountTickSteady DEF Steady, KernelState, SwitchRequired
<1>5. n \in Nat BY <1>1 DEF KernelState
<1> HIDE DEF r
<1>6. (~y => SwitchAskedFor(r)) /\ (r.xYieldPending => y) BY <1>3
<1> HIDE DEF y, n
<1>7. /\ s \in KernelState
      /\ s.pxCurrentTCB = r.pxCurrentTCB
      /\ s.uxPriority = r.uxPriority
      /\ s.container = r.container
      /\ s.uxSchedulerSuspended = r.uxSchedulerSuspended
      /\ s.pendSV = r.pendSV
      /\ s.xYieldPending = y
  BY <1>1, <1>4, <1>5 DEF Steady, KernelState
<1> HIDE DEF s
<1>8. Undisturbed(q, s) BY <1>1, <1>6, <1>7 DEF Steady, Undisturbed, Ready
<1>9. SwitchAskedFor(s) BY <1>6, <1>7 DEF SwitchAskedFor, Ready
<1> QED BY <1>1, <1>2, <1>7, <1>8, <1>9 DEF Steady

\* What emptying the pending ready list does: its tasks are unblocked.
PendingYield(p) ==
  \/ p.xYieldPending
  \/ \E t \in Waiting(p, "pending") : p.uxPriority[t] >= p.uxPriority[p.pxCurrentTCB]

LEMMA DrainIs ==
  ASSUME NEW p \in KernelState
  PROVE  /\ Waiting(p, "pending") \in SUBSET Task /\ PendingYield(p) \in BOOLEAN
         /\ DrainPending(p) =
              IF Waiting(p, "pending") = {} THEN p
              ELSE prvResetNextTaskUnblockTime(
                     Unblocked(p, Waiting(p, "pending"), PendingYield(p)))
<1> DEFINE S == Waiting(p, "pending")
           y == PendingYield(p)
           drained == [p EXCEPT !.event = [t \in Task |-> IF t \in S
                                             THEN "none" ELSE @[t]],
                                !.container = [t \in Task |-> IF t \in S
                                                 THEN "ready" ELSE @[t]],
                                !.xYieldPending = y]
           moved == Unblocked(p, S, y)
<1>1. S \in SUBSET Task /\ y \in BOOLEAN BY DEF Waiting, KernelState, PendingYield
<1>2. DrainPending(p) = IF S = {} THEN p ELSE prvResetNextTaskUnblockTime(drained)
  BY DEF DrainPending, PendingYield
<1> HIDE DEF S, y
<1>3. drained = moved
  <2> DEFINE c == [t \in Task |-> IF t \in S THEN "ready" ELSE p.container[t]]
             e == [t \in Task |-> IF t \in S THEN "none" ELSE p.event[t]]
  <2>1. /\ drained = [p EXCEPT !.event = e, !.container = c, !.xYieldPending = y]
        /\ moved = Updated(p, c, e, p.xItemValue, p.xNextTaskUnblockTime, y)
    BY Zenon DEF KernelState, Unblocked
  <2> HIDE DEF c, e, moved, drained
  <2> QED BY <2>1 DEF KernelState, Updated
<1> HIDE DEF drained, moved
<1>4. DrainPending(p) = IF S = {} THEN p ELSE prvResetNextTaskUnblockTime(moved)
  BY <1>2, <1>3
<1> QED BY <1>1, <1>4 DEF S, y, moved

\* Releasing the scheduler readies the tasks on the pending ready list.
LEMMA ReleasePreserves ==
  ASSUME NEW q \in KernelState, SwitchAskedFor(q), q.uxSchedulerSuspended = 1
  PROVE  /\ Undisturbed(q, ReleaseScheduler(q))
         /\ ReleaseScheduler(q).uxSchedulerSuspended = 0
         /\ SwitchAskedFor(ReleaseScheduler(q))
<1> DEFINE p == [q EXCEPT !.uxSchedulerSuspended = 0]
           S == Waiting(p, "pending")
           y == PendingYield(p)
           moved == Unblocked(p, S, y)
<1>1. /\ p \in KernelState
      /\ Undisturbed(q, p)
      /\ p.uxSchedulerSuspended = 0
      /\ SwitchAskedFor(p)
  BY DEF KernelState, Undisturbed, SwitchAskedFor, Ready
<1>2. ReleaseScheduler(q) = DrainPending(p)
  <2>1. [q EXCEPT !.uxSchedulerSuspended = @ - 1] = p OBVIOUS
  <2> HIDE DEF p
  <2> QED BY <1>1, <2>1 DEF ReleaseScheduler
<1> HIDE DEF p
<1>3. S \in SUBSET Task /\ y \in BOOLEAN BY <1>1, DrainIs
<1>4. DrainPending(p) = IF S = {} THEN p ELSE prvResetNextTaskUnblockTime(moved)
  BY <1>1, DrainIs
<1>5. \A t \in S : p.uxPriority[t] <= p.uxPriority[p.pxCurrentTCB] \/ y
  BY <1>1, <1>3 DEF PendingYield, KernelState, Priority
<1>6. p.xYieldPending => y BY DEF PendingYield
<1> HIDE DEF S, y
<1>7. /\ moved \in KernelState
      /\ moved.pxCurrentTCB = p.pxCurrentTCB
      /\ moved.uxPriority = p.uxPriority
      /\ moved.uxSchedulerSuspended = 0
      /\ moved.pendSV = p.pendSV
      /\ moved.xYieldPending = y
      /\ Ready(moved) = Ready(p) \cup S
  BY <1>1, <1>3, UnblockSteady
<1> HIDE DEF moved
<1>8. Steady(moved, prvResetNextTaskUnblockTime(moved)) BY <1>7, ResetSteady
<1>9. SwitchAskedFor(moved) BY <1>1, <1>5, <1>6, <1>7 DEF SwitchAskedFor
<1>10. Ready(prvResetNextTaskUnblockTime(moved)) = Ready(moved)
  <2>1. PICK n \in Tick : prvResetNextTaskUnblockTime(moved)
                            = [moved EXCEPT !.xNextTaskUnblockTime = n]
    BY <1>7, ResetUnblockTimeType
  <2> QED BY <1>7, <2>1 DEF Ready, KernelState
<1>11. SwitchAskedFor(prvResetNextTaskUnblockTime(moved))
  BY <1>8, <1>9, <1>10 DEF SwitchAskedFor, Steady
<1> QED BY <1>1, <1>2, <1>4, <1>6, <1>7, <1>8, <1>11 DEF Steady, Undisturbed

--------------------
\* The inductive invariant.

LEMMA InitInductive == Init => Inductive
<1> SUFFICES ASSUME Init PROVE Inductive OBVIOUS
<1>1. PICK first \in Task : /\ \A t \in Task : TaskPriority[t] <= TaskPriority[first]
                            /\ k = KernelStart(TaskPriority, first, InitialTick)
  BY DEF Init
<1>2. 0 \in Tick /\ portMAX_DELAY \in Tick BY DEF Tick, portMAX_DELAY
<1>3. k \in KernelState BY <1>1, <1>2 DEF KernelStart, KernelState, StateList
<1>4. NoCall \in Call BY <1>2 DEF NoCall, Call, Where, Op
<1>5. TypeOK BY <1>3, <1>4 DEF Init, TypeOK, queueUNLOCKED
<1>6. SwitchAskedFor(k) BY <1>1 DEF KernelStart, SwitchAskedFor, Ready
<1>7. \A t \in Task : call[t].at = "idle" BY DEF Init, NoCall
<1>8. k.uxSchedulerSuspended = 0 /\ k.container[k.pxCurrentTCB] = "ready"
  BY <1>1 DEF KernelStart
<1>9. k.pxCurrentTCB \in Task BY <1>1 DEF KernelStart
<1> QED BY <1>5, <1>6, <1>7, <1>8, <1>9
  DEF Inductive, OwnSuspension, ReadyOrLeaving, Leaving, CallProgress, Suspended

\* A step in which no call moves and that leaves the running task undisturbed.
LEMMA InterruptInductive ==
  ASSUME Inductive, TypeOK', call' = call, Undisturbed(k, k'),
         k'.uxSchedulerSuspended = k.uxSchedulerSuspended, SwitchAskedFor(k')
  PROVE  Inductive'
<1>1. k.pxCurrentTCB \in Task BY DEF Inductive, TypeOK, KernelState
<1>2. k.container[k.pxCurrentTCB] = "ready" => k'.container[k.pxCurrentTCB] = "ready"
  BY <1>1 DEF Undisturbed, Ready
<1>3. OwnSuspension' BY DEF Inductive, OwnSuspension, Undisturbed
<1>4. ReadyOrLeaving' BY <1>2 DEF Inductive, ReadyOrLeaving, Leaving, Undisturbed
<1>5. CallProgress' BY DEF Inductive, CallProgress
<1> QED BY <1>3, <1>4, <1>5 DEF Inductive

\* The running task moves from one step of its call to another.
LEMMA MoveInductive ==
  ASSUME Inductive, TypeOK', NEW t \in Task, k.pxCurrentTCB = t,
         NEW c \in Call, call' = [call EXCEPT ![t] = c],
         Undisturbed(k, k'), SwitchAskedFor(k'),
         k'.uxSchedulerSuspended = IF c.at \in Suspended THEN 1 ELSE 0,
         \/ k.container[t] = "ready"
         \/ k'.container[t] = "ready"
         \/ c.next = "yield" /\ c.at \in {"unlockTx", "unlockRx", "resume", "ticks"}
         \/ k'.uxSchedulerSuspended = 0 /\ k'.pendSV /\ c.at = "try",
         c.at = "place" => c.next = "yield",
         c.at \notin {"idle", "try"} => c.xEntryTimeSet,
         c.at = "recheck" => c.op # "send"
  PROVE  Inductive'
<1>1. /\ call \in [Task -> Call]
      /\ \A u \in Task : call'[u] = IF u = t THEN c ELSE call[u]
  BY DEF Inductive, TypeOK
<1>2. k'.pxCurrentTCB = t BY DEF Undisturbed
<1>3. k.container[t] = "ready" => k'.container[t] = "ready" BY DEF Undisturbed, Ready
<1>4. OwnSuspension'
  <2>1. \A u \in Task \ {t} : call'[u].at \notin Suspended \cup {"ticks"}
    BY <1>1 DEF Inductive, OwnSuspension
  <2>2. call'[t] = c BY <1>1
  <2> QED BY <1>2, <2>1, <2>2 DEF OwnSuspension
<1>5. ReadyOrLeaving' BY <1>1, <1>2, <1>3 DEF ReadyOrLeaving, Leaving
<1>6. CallProgress' BY <1>1 DEF Inductive, CallProgress
<1> QED BY <1>4, <1>5, <1>6 DEF Inductive

LEMMA SelfUndisturbed ==
  ASSUME NEW q \in KernelState PROVE Undisturbed(q, q)
  BY DEF Undisturbed

\* A call that only changes place.
Moved(c, where) == [c EXCEPT !.at = where]

LEMMA MovedCall ==
  ASSUME NEW c \in Call, NEW where \in Where
  PROVE  /\ Moved(c, where) \in Call
         /\ Moved(c, where).at = where
         /\ Moved(c, where).op = c.op
         /\ Moved(c, where).next = c.next
         /\ Moved(c, where).xEntryTimeSet = c.xEntryTimeSet
  BY DEF Moved, Call

LEMMA GoToMoved ==
  ASSUME NEW t \in Task, NEW where, GoTo(t, where)
  PROVE  call' = [call EXCEPT ![t] = Moved(call[t], where)]
  BY DEF GoTo, Moved

LEMMA NoCallType ==
  /\ NoCall \in Call /\ NoCall.at = "idle"
<1>1. 0 \in Tick BY DEF Tick
<1> QED BY <1>1 DEF NoCall, Call, Where, Op

\* What the invariant says of a running task.
LEMMA AtFacts ==
  ASSUME Inductive, NEW t \in Task, NEW where, At(t, where)
  PROVE  /\ k \in KernelState
         /\ call \in [Task -> Call]
         /\ call[t] \in Call
         /\ call[t].at = where
         /\ k.pxCurrentTCB = t
         /\ ~k.pendSV
         /\ k.uxSchedulerSuspended = IF where \in Suspended THEN 1 ELSE 0
         /\ SwitchAskedFor(k)
         /\ Undisturbed(k, k)
         /\ \/ k.container[t] = "ready"
            \/ /\ call[t].next = "yield"
               /\ where \in {"unlockTx", "unlockRx", "resume", "ticks"}
  BY SelfUndisturbed
  DEF Inductive, TypeOK, At, Running, OwnSuspension, ReadyOrLeaving, Leaving

LEMMA InvokeStep ==
  ASSUME Inductive, NEW t \in Task, NEW op \in Op, NEW ticks \in Wait,
         Invoke(t, op, ticks)
  PROVE  Inductive'
<1> DEFINE c == [NoCall EXCEPT !.at = "try", !.op = op, !.xTicksToWait = ticks]
<1>1. At(t, "idle") /\ k' = k /\ call' = [call EXCEPT ![t] = c] BY DEF Invoke
<1>2. /\ c \in Call /\ c.at = "try"
  <2>1. ticks \in Tick /\ 0 \in Tick BY DEF Tick
  <2> QED BY <2>1 DEF NoCall, Call, Where
<1> HIDE DEF c
<1>3. TypeOK' BY <1>1, <1>2 DEF Invoke, Inductive, TypeOK
<1>4. k.uxSchedulerSuspended = 0 /\ k.container[t] = "ready"
  BY <1>1, AtFacts DEF Suspended
<1> QED BY <1>1, <1>2, <1>3, <1>4, AtFacts, MoveInductive DEF Suspended

\* A call returns; the kernel may have been disturbed by a wake-up.
LEMMA ReturnStep ==
  ASSUME Inductive, TypeOK', NEW t \in Task, NEW where \in {"try", "recheck", "ticks"},
         At(t, where), Return(t), Undisturbed(k, k'), SwitchAskedFor(k'),
         k'.uxSchedulerSuspended = k.uxSchedulerSuspended,
         k.container[t] = "ready"
  PROVE  Inductive'
<1>1. call' = [call EXCEPT ![t] = NoCall] BY DEF Return
<1>2. k.pxCurrentTCB = t /\ k'.uxSchedulerSuspended = 0 BY AtFacts DEF Suspended
<1> QED BY <1>1, <1>2, NoCallType, MoveInductive DEF Suspended

LEMMA SucceedStep ==
  ASSUME Inductive, NEW t \in Task, Succeed(t)
  PROVE  Inductive'
<1>1. At(t, "try") /\ Return(t) BY DEF Succeed
<1>2. /\ Undisturbed(k, k') /\ SwitchAskedFor(k')
      /\ k'.uxSchedulerSuspended = k.uxSchedulerSuspended
  <2>1. k' = k \/ \E head \in Task : k' = WakeAndYield(k, head)
    BY DEF Succeed, HeadOf, Waiting
  <2> QED BY <1>1, <2>1, AtFacts, WakePreserves
<1>3. uxMessagesWaiting' \in 0..uxLength
  <2>1. /\ uxMessagesWaiting \in 0..uxLength /\ call[t].op \in Op
    BY <1>1, AtFacts DEF Inductive, TypeOK, Call
  <2> QED BY <2>1 DEF Succeed, Blocked, Effect, Op, prvIsQueueEmpty, prvIsQueueFull
<1>4. call' \in [Task -> Call] BY <1>1, NoCallType, AtFacts DEF Return
<1>5. TypeOK' BY <1>2, <1>3, <1>4 DEF Succeed, Inductive, TypeOK, Undisturbed
<1> QED BY <1>1, <1>2, <1>5, AtFacts, ReturnStep

LEMMA FailAtOnceStep ==
  ASSUME Inductive, NEW t \in Task, FailAtOnce(t)
  PROVE  Inductive'
<1>1. At(t, "try") /\ Return(t) /\ k' = k BY DEF FailAtOnce
<1>2. TypeOK' BY <1>1, NoCallType DEF FailAtOnce, Return, Inductive, TypeOK
<1> QED BY <1>1, <1>2, AtFacts, ReturnStep

LEMMA PrepareToBlockStep ==
  ASSUME Inductive, NEW t \in Task, PrepareToBlock(t)
  PROVE  Inductive'
<1> DEFINE stamped == IF call[t].xEntryTimeSet THEN call[t]
                      ELSE vTaskInternalSetTimeOutState(k, call[t])
           c == [stamped EXCEPT !.at = "suspend", !.xEntryTimeSet = TRUE]
<1>1. At(t, "try") /\ k' = k /\ call' = [call EXCEPT ![t] = c] BY DEF PrepareToBlock
<1>2. stamped \in Call
  <2>1. call[t] \in Call /\ k.xTickCount \in Tick /\ k.xNumOfOverflows \in Tick
    BY <1>1, AtFacts DEF KernelState
  <2> QED BY <2>1 DEF vTaskInternalSetTimeOutState, Call
<1> HIDE DEF stamped
<1>3. /\ c \in Call /\ c.at = "suspend" /\ c.xEntryTimeSet BY <1>2 DEF Call, Where
<1> HIDE DEF c
<1>4. TypeOK' BY <1>1, <1>3 DEF PrepareToBlock, Inductive, TypeOK
<1>5. k.uxSchedulerSuspended = 0 /\ k.container[t] = "ready"
  BY <1>1, AtFacts DEF Suspended
<1> QED BY <1>1, <1>3, <1>4, <1>5, AtFacts, MoveInductive DEF Suspended

LEMMA SuspendAllStep ==
  ASSUME Inductive, NEW t \in Task, SuspendAll(t)
  PROVE  Inductive'
<1>1. At(t, "suspend") /\ k' = vTaskSuspendAll(k) /\ GoTo(t, "lock") BY DEF SuspendAll
<1> DEFINE c == Moved(call[t], "lock")
<1>2. call' = [call EXCEPT ![t] = c] BY <1>1, GoToMoved
<1>3. /\ c \in Call /\ c.at = "lock" /\ c.xEntryTimeSet
  <2>1. call[t].xEntryTimeSet BY <1>1, AtFacts DEF Inductive, CallProgress
  <2> QED BY <1>1, <2>1, AtFacts, MovedCall DEF Where
<1> HIDE DEF c
<1>4. /\ Undisturbed(k, k') /\ SwitchAskedFor(k')
      /\ k'.uxSchedulerSuspended = 1
  <2>1. k \in KernelState /\ k.uxSchedulerSuspended = 0 /\ SwitchAskedFor(k)
    BY <1>1, AtFacts DEF Suspended
  <2> QED BY <1>1, <2>1
    DEF vTaskSuspendAll, KernelState, Undisturbed, SwitchAskedFor, Ready
<1>5. TypeOK' BY <1>1, <1>2, <1>3, <1>4 DEF SuspendAll, Inductive, TypeOK, Undisturbed
<1>6. k.container[t] = "ready" /\ k.pxCurrentTCB = t BY <1>1, AtFacts
<1> QED BY <1>2, <1>3, <1>4, <1>5, <1>6, MoveInductive DEF Suspended

LEMMA LockQueueStep ==
  ASSUME Inductive, NEW t \in Task, prvLockQueue(t)
  PROVE  Inductive'
<1>1. At(t, "lock") /\ k' = k /\ GoTo(t, "check") BY DEF prvLockQueue
<1> DEFINE c == Moved(call[t], "check")
<1>2. call' = [call EXCEPT ![t] = c] BY <1>1, GoToMoved
<1>3. /\ c \in Call /\ c.at = "check" /\ c.xEntryTimeSet
  <2>1. call[t].xEntryTimeSet BY <1>1, AtFacts DEF Inductive, CallProgress
  <2> QED BY <1>1, <2>1, AtFacts, MovedCall DEF Where
<1> HIDE DEF c
<1>4. cTxLock' \in queueUNLOCKED..LockBound /\ cRxLock' \in queueUNLOCKED..LockBound
  BY DEF prvLockQueue, Inductive, TypeOK, queueUNLOCKED, queueLOCKED_UNMODIFIED
<1>5. TypeOK' BY <1>1, <1>2, <1>3, <1>4 DEF prvLockQueue, Inductive, TypeOK
<1>6. /\ k.container[t] = "ready" /\ k.pxCurrentTCB = t
      /\ k.uxSchedulerSuspended = 1
  BY <1>1, AtFacts DEF Suspended
<1> QED BY <1>1, <1>2, <1>3, <1>5, <1>6, AtFacts, MoveInductive DEF Suspended

LEMMA CheckedCall ==
  ASSUME NEW q \in KernelState, NEW c \in Call
  PROVE  /\ xTaskCheckForTimeOut(q, c) \in Call
         /\ xTaskCheckForTimeOut(q, c).xEntryTimeSet = c.xEntryTimeSet
<1> DEFINE n == c.xTicksToWait - Elapsed(q, c)
<1>1. Elapsed(q, c) \in Nat BY DEF Elapsed, KernelState, Call, Tick
<1>2. Elapsed(q, c) < c.xTicksToWait => n \in Tick BY <1>1 DEF Call, Tick
<1>3. 0 \in Tick /\ q.xTickCount \in Tick /\ q.xNumOfOverflows \in Tick
  BY DEF Tick, KernelState
<1> HIDE DEF n
<1>4. CASE Elapsed(q, c) < c.xTicksToWait
  <2> DEFINE d == vTaskInternalSetTimeOutState(q, [c EXCEPT !.xTicksToWait = n])
  <2>1. d \in Call /\ d.xEntryTimeSet = c.xEntryTimeSet
    BY <1>2, <1>3, <1>4 DEF vTaskInternalSetTimeOutState, Call
  <2>2. xTaskCheckForTimeOut(q, c) \in {c, d} BY <1>4 DEF xTaskCheckForTimeOut, n
  <2> QED BY <2>1, <2>2
<1>5. CASE ~(Elapsed(q, c) < c.xTicksToWait)
  <2>1. xTaskCheckForTimeOut(q, c) \in {c, [c EXCEPT !.xTicksToWait = 0]}
    BY <1>5 DEF xTaskCheckForTimeOut
  <2>2. /\ [c EXCEPT !.xTicksToWait = 0] \in Call
        /\ [c EXCEPT !.xTicksToWait = 0].xEntryTimeSet = c.xEntryTimeSet
    BY <1>3 DEF Call
  <2> QED BY <2>1, <2>2
<1> QED BY <1>4, <1>5

LEMMA CheckTimeOutStep ==
  ASSUME Inductive, NEW t \in Task, CheckTimeOut(t)
  PROVE  Inductive'
<1> DEFINE d == xTaskCheckForTimeOut(k, call[t])
<1>1. At(t, "check") /\ k' = k BY DEF CheckTimeOut
<1>2. PICK c : /\ call' = [call EXCEPT ![t] = c]
               /\ \/ c = [d EXCEPT !.at = "unlockTx", !.next = "timeout"]
                  \/ c = [d EXCEPT !.at = "place", !.next = "yield"]
                  \/ c = [d EXCEPT !.at = "unlockTx", !.next = "loop"]
  BY DEF CheckTimeOut
<1>3. d \in Call /\ d.xEntryTimeSet
  BY <1>1, AtFacts, CheckedCall DEF Inductive, CallProgress
<1> HIDE DEF d
<1>4. /\ c \in Call /\ c.xEntryTimeSet /\ c.at \in {"unlockTx", "place"}
      /\ c.at = "place" => c.next = "yield"
  BY <1>2, <1>3 DEF Call, Where
<1>5. TypeOK' BY <1>1, <1>2, <1>4 DEF CheckTimeOut, Inductive, TypeOK
<1>6. /\ k.container[t] = "ready" /\ k.pxCurrentTCB = t
      /\ k.uxSchedulerSuspended = 1
  BY <1>1, AtFacts DEF Suspended
<1> QED BY <1>1, <1>2, <1>4, <1>5, <1>6, AtFacts, MoveInductive DEF Suspended

LEMMA PlaceStep ==
  ASSUME Inductive, NEW t \in Task, PlaceOnEventList(t)
  PROVE  Inductive'
<1> DEFINE c == Moved(call[t], "unlockTx")
           l == WaitList(call[t].op)
           ticks == call[t].xTicksToWait
<1>1. /\ At(t, "place") /\ GoTo(t, "unlockTx")
      /\ k' = vTaskPlaceOnEventList(k, l, ticks)
  BY DEF PlaceOnEventList
<1>2. call' = [call EXCEPT ![t] = c] BY <1>1, GoToMoved
<1>3. /\ c \in Call /\ c.at = "unlockTx" /\ c.xEntryTimeSet /\ c.next = "yield"
  <2>1. call[t].xEntryTimeSet /\ call[t].next = "yield"
    BY <1>1, AtFacts DEF Inductive, CallProgress
  <2> QED BY <1>1, <2>1, AtFacts, MovedCall DEF Where
<1> HIDE DEF c
<1>4. l \in EventList /\ ticks \in Tick BY <1>1, AtFacts DEF WaitList, Call
<1> HIDE DEF l, ticks
<1>5. /\ k' \in KernelState
      /\ k'.pxCurrentTCB = t
      /\ k'.uxSchedulerSuspended = 1
      /\ SwitchAskedFor(k')
  BY <1>1, <1>4, AtFacts, PlacePreserves DEF Suspended
<1>6. TypeOK' BY <1>2, <1>3, <1>5 DEF PlaceOnEventList, Inductive, TypeOK
<1>7. /\ call \in [Task -> Call]
      /\ \A u \in Task : call'[u] = IF u = t THEN c ELSE call[u]
  BY <1>2 DEF Inductive, TypeOK
<1>8. OwnSuspension'
  <2>1. \A u \in Task \ {t} : call'[u].at \notin Suspended \cup {"ticks"}
    BY <1>1, <1>7, AtFacts DEF Inductive, OwnSuspension
  <2> QED BY <1>3, <1>5, <1>7, <2>1 DEF OwnSuspension, Suspended
<1>9. ReadyOrLeaving' BY <1>3, <1>5, <1>7 DEF ReadyOrLeaving, Leaving
<1>10. CallProgress' BY <1>3, <1>7 DEF Inductive, CallProgress
<1> QED BY <1>5, <1>6, <1>8, <1>9, <1>10 DEF Inductive

\* prvUnlockQueue moves tasks to the pending ready list, which readies none.
LEMMA WakeForPreserves ==
  ASSUME k \in KernelState, SwitchAskedFor(k), NEW l, NEW n, WakeFor(l, n)
  PROVE  /\ Undisturbed(k, k') /\ SwitchAskedFor(k')
         /\ k'.uxSchedulerSuspended = k.uxSchedulerSuspended
<1>1. PICK W \in SUBSET Waiting(k, l) :
        k' = [k EXCEPT !.event = [t \in Task |-> IF t \in W THEN "pending"
                                                            ELSE @[t]],
                       !.xYieldPending = @ \/ \E t \in W : Outranks(k, t)]
  BY DEF WakeFor
<1> DEFINE e == [t \in Task |-> IF t \in W THEN "pending" ELSE k.event[t]]
           y == k.xYieldPending \/ \E t \in W : Outranks(k, t)
<1>2. k' = [k EXCEPT !.event = e, !.xYieldPending = y] BY <1>1
<1>3. /\ e \in [Task -> EventList \cup {"none", "pending"}]
      /\ y \in BOOLEAN
      /\ k.xYieldPending => y
  BY DEF KernelState
<1> HIDE DEF e, y
<1> QED BY <1>2, <1>3 DEF KernelState, Undisturbed, SwitchAskedFor, Ready

LEMMA UnlockTxStep ==
  ASSUME Inductive, NEW t \in Task, UnlockTx(t)
  PROVE  Inductive'
<1> DEFINE c == Moved(call[t], "unlockRx")
<1>1. At(t, "unlockTx") /\ GoTo(t, "unlockRx") BY DEF UnlockTx
<1>2. call' = [call EXCEPT ![t] = c] BY <1>1, GoToMoved
<1>3. /\ c \in Call /\ c.at = "unlockRx" /\ c.xEntryTimeSet
      /\ c.next = call[t].next
  <2>1. call[t].xEntryTimeSet BY <1>1, AtFacts DEF Inductive, CallProgress
  <2> QED BY <1>1, <2>1, AtFacts, MovedCall DEF Where
<1> HIDE DEF c
<1>4. /\ Undisturbed(k, k') /\ SwitchAskedFor(k')
      /\ k'.uxSchedulerSuspended = 1
  <2>1. k' = k \/ WakeFor("xTasksWaitingToReceive", cTxLock) BY DEF UnlockTx
  <2> QED BY <1>1, <2>1, AtFacts, WakeForPreserves DEF Suspended
<1>5. TypeOK' BY <1>2, <1>3, <1>4
  DEF UnlockTx, Inductive, TypeOK, Undisturbed, queueUNLOCKED
<1>6. /\ k.pxCurrentTCB = t
      /\ k.container[t] = "ready" \/ call[t].next = "yield"
  BY <1>1, AtFacts
<1> QED BY <1>2, <1>3, <1>4, <1>5, <1>6, MoveInductive DEF Suspended

LEMMA UnlockRxStep ==
  ASSUME Inductive, NEW t \in Task, UnlockRx(t)
  PROVE  Inductive'
<1> DEFINE c == Moved(call[t], "resume")
<1>1. At(t, "unlockRx") /\ GoTo(t, "resume") BY DEF UnlockRx
<1>2. call' = [call EXCEPT ![t] = c] BY <1>1, GoToMoved
<1>3. /\ c \in Call /\ c.at = "resume" /\ c.xEntryTimeSet
      /\ c.next = call[t].next
  <2>1. call[t].xEntryTimeSet BY <1>1, AtFacts DEF Inductive, CallProgress
  <2> QED BY <1>1, <2>1, AtFacts, MovedCall DEF Where
<1> HIDE DEF c
<1>4. /\ Undisturbed(k, k') /\ SwitchAskedFor(k')
      /\ k'.uxSchedulerSuspended = 1
  <2>1. k' = k \/ WakeFor("xTasksWaitingToSend", cRxLock) BY DEF UnlockRx
  <2> QED BY <1>1, <2>1, AtFacts, WakeForPreserves DEF Suspended
<1>5. TypeOK' BY <1>2, <1>3, <1>4
  DEF UnlockRx, Inductive, TypeOK, Undisturbed, queueUNLOCKED
<1>6. /\ k.pxCurrentTCB = t
      /\ k.container[t] = "ready" \/ call[t].next = "yield"
  BY <1>1, AtFacts
<1> QED BY <1>2, <1>3, <1>4, <1>5, <1>6, MoveInductive DEF Suspended

LEMMA ResumeAllStep ==
  ASSUME Inductive, NEW t \in Task, ResumeAll(t)
  PROVE  Inductive'
<1> DEFINE c == Moved(call[t], "ticks")
<1>1. At(t, "resume") /\ GoTo(t, "ticks") /\ k' = ReleaseScheduler(k) BY DEF ResumeAll
<1>2. call' = [call EXCEPT ![t] = c] BY <1>1, GoToMoved
<1>3. /\ c \in Call /\ c.at = "ticks" /\ c.xEntryTimeSet
      /\ c.next = call[t].next
  <2>1. call[t].xEntryTimeSet BY <1>1, AtFacts DEF Inductive, CallProgress
  <2> QED BY <1>1, <2>1, AtFacts, MovedCall DEF Where
<1> HIDE DEF c
<1>4. /\ Undisturbed(k, k') /\ SwitchAskedFor(k')
      /\ k'.uxSchedulerSuspended = 0
  BY <1>1, AtFacts, ReleasePreserves DEF Suspended
<1>5. TypeOK' BY <1>2, <1>3, <1>4 DEF ResumeAll, Inductive, TypeOK, Undisturbed
<1>6. /\ k.pxCurrentTCB = t
      /\ k.container[t] = "ready" \/ call[t].next = "yield"
  BY <1>1, AtFacts
<1> QED BY <1>2, <1>3, <1>4, <1>5, <1>6, MoveInductive DEF Suspended

LEMMA ReplayStep ==
  ASSUME Inductive, NEW t \in Task, ReplayPendedTick(t)
  PROVE  Inductive'
<1>1. At(t, "ticks") /\ k' = ReplayTick(k) /\ call' = call /\ k.xPendedTicks > 0
  BY DEF ReplayPendedTick
<1>2. /\ Undisturbed(k, k') /\ SwitchAskedFor(k')
      /\ k'.uxSchedulerSuspended = k.uxSchedulerSuspended
  BY <1>1, AtFacts, ReplayPreserves
<1>3. TypeOK' BY <1>1, <1>2 DEF ReplayPendedTick, Inductive, TypeOK, Undisturbed
<1> QED BY <1>1, <1>2, <1>3, InterruptInductive

LEMMA ResumeAllReturnStep ==
  ASSUME Inductive, NEW t \in Task, ResumeAllReturn(t)
  PROVE  Inductive'
<1>1. At(t, "ticks") BY DEF ResumeAllReturn
<1>2. k.uxSchedulerSuspended = 0 /\ k.pxCurrentTCB = t BY <1>1, AtFacts DEF Suspended
<1>3. /\ Undisturbed(k, k') /\ SwitchAskedFor(k')
      /\ k'.uxSchedulerSuspended = 0
      /\ call[t].next = "yield" => k'.pendSV
  <2>1. k' = Yield(k) \/ (k' = k /\ call[t].next # "yield") BY DEF ResumeAllReturn
  <2> QED BY <1>1, <1>2, <2>1, AtFacts, YieldPreserves
<1>4. CASE call[t].next # "timeout"
  <2> DEFINE c == Moved(call[t], "try")
  <2>1. call' = [call EXCEPT ![t] = c] BY <1>4, GoToMoved DEF ResumeAllReturn
  <2>2. c \in Call /\ c.at = "try" BY <1>1, AtFacts, MovedCall DEF Where
  <2> HIDE DEF c
  <2>3. TypeOK' BY <1>3, <2>1, <2>2 DEF ResumeAllReturn, Inductive, TypeOK, Undisturbed
  <2>4. k.container[t] = "ready" \/ k'.pendSV BY <1>1, <1>3, AtFacts
  <2> QED BY <1>2, <1>3, <2>1, <2>2, <2>3, <2>4, MoveInductive DEF Suspended
<1>5. CASE call[t].next = "timeout" /\ call[t].op = "send"
  <2>1. Return(t) BY <1>5 DEF ResumeAllReturn
  <2>2. TypeOK' BY <1>3, <2>1, NoCallType
    DEF ResumeAllReturn, Return, Inductive, TypeOK, Undisturbed
  <2>3. k.container[t] = "ready" BY <1>1, <1>5, AtFacts
  <2> QED BY <1>1, <1>2, <1>3, <2>1, <2>2, <2>3, ReturnStep
<1>6. CASE call[t].next = "timeout" /\ call[t].op # "send"
  <2> DEFINE c == Moved(call[t], "recheck")
  <2>1. call' = [call EXCEPT ![t] = c] BY <1>6, GoToMoved DEF ResumeAllReturn
  <2>2. /\ c \in Call /\ c.at = "recheck" /\ c.xEntryTimeSet
        /\ c.op # "send"
    <3>1. call[t].xEntryTimeSet BY <1>1, AtFacts DEF Inductive, CallProgress
    <3> QED BY <1>1, <1>6, <3>1, AtFacts, MovedCall DEF Where
  <2> HIDE DEF c
  <2>3. TypeOK' BY <1>3, <2>1, <2>2 DEF ResumeAllReturn, Inductive, TypeOK, Undisturbed
  <2>4. k.container[t] = "ready" BY <1>1, <1>6, AtFacts
  <2> QED BY <1>2, <1>3, <2>1, <2>2, <2>3, <2>4, MoveInductive DEF Suspended
<1> QED BY <1>4, <1>5, <1>6

LEMMA RecheckStep ==
  ASSUME Inductive, NEW t \in Task, RecheckAfterTimeOut(t)
  PROVE  Inductive'
<1>1. At(t, "recheck") /\ k' = k BY DEF RecheckAfterTimeOut
<1>2. k.uxSchedulerSuspended = 0 /\ k.container[t] = "ready"
  BY <1>1, AtFacts DEF Suspended
<1>3. CASE prvIsQueueEmpty
  <2>1. Return(t) BY <1>3 DEF RecheckAfterTimeOut
  <2>2. TypeOK'
    BY <1>1, <2>1, NoCallType DEF RecheckAfterTimeOut, Return, Inductive, TypeOK
  <2> QED BY <1>1, <1>2, <2>1, <2>2, AtFacts, ReturnStep
<1>4. CASE ~prvIsQueueEmpty
  <2> DEFINE c == Moved(call[t], "try")
  <2>1. call' = [call EXCEPT ![t] = c] BY <1>4, GoToMoved DEF RecheckAfterTimeOut
  <2>2. c \in Call /\ c.at = "try" BY <1>1, AtFacts, MovedCall DEF Where
  <2> HIDE DEF c
  <2>3. TypeOK' BY <1>1, <2>1, <2>2 DEF RecheckAfterTimeOut, Inductive, TypeOK
  <2> QED BY <1>1, <1>2, <2>1, <2>2, <2>3, AtFacts, MoveInductive DEF Suspended
<1> QED BY <1>3, <1>4

LEMMA ResetStep ==
  ASSUME Inductive, NEW t \in Task, xQueueGenericReset(t)
  PROVE  Inductive'
<1>1. At(t, "idle") /\ call' = call BY DEF xQueueGenericReset
<1>2. /\ Undisturbed(k, k') /\ SwitchAskedFor(k')
      /\ k'.uxSchedulerSuspended = k.uxSchedulerSuspended
  <2>1. k' = k \/ \E head \in Task : k' = WakeAndYield(k, head)
    BY DEF xQueueGenericReset, HeadOf, Waiting
  <2> QED BY <1>1, <2>1, AtFacts, WakePreserves
<1>3. TypeOK' BY <1>1, <1>2
  DEF xQueueGenericReset, Inductive, TypeOK, Undisturbed, queueUNLOCKED
<1> QED BY <1>1, <1>2, <1>3, InterruptInductive

--------------------
\* Interrupts and the context switch.

LEMMA FromISRPreserves ==
  ASSUME k \in KernelState, SwitchAskedFor(k), NEW l, FromISR(l) \/ k' = k
  PROVE  /\ Undisturbed(k, k') /\ SwitchAskedFor(k')
         /\ k'.uxSchedulerSuspended = k.uxSchedulerSuspended
<1>1. \/ k' = k
      \/ \E head \in Task : \/ k' = WakeAndYield(k, head)
                            \/ k' = xTaskRemoveFromEventList(k, head)
  BY DEF FromISR, HeadOf, Waiting
<1> QED BY <1>1, SelfUndisturbed, WakePreserves, RemovePreserves

LEMMA SendFromISRStep ==
  ASSUME Inductive, xQueueSendFromISR
  PROVE  Inductive'
<1>1. /\ Undisturbed(k, k') /\ SwitchAskedFor(k')
      /\ k'.uxSchedulerSuspended = k.uxSchedulerSuspended
  BY FromISRPreserves DEF xQueueSendFromISR, Inductive, TypeOK
<1>2. /\ uxMessagesWaiting' \in 0..uxLength
      /\ cTxLock' \in queueUNLOCKED..LockBound
  BY DEF xQueueSendFromISR, Inductive, TypeOK, prvIsQueueFull, queueUNLOCKED
<1>3. call' = call /\ cRxLock' = cRxLock BY DEF xQueueSendFromISR
<1>4. TypeOK' BY <1>1, <1>2, <1>3 DEF Inductive, TypeOK, Undisturbed
<1> QED BY <1>1, <1>3, <1>4, InterruptInductive

LEMMA ReceiveFromISRStep ==
  ASSUME Inductive, xQueueReceiveFromISR
  PROVE  Inductive'
<1>1. /\ Undisturbed(k, k') /\ SwitchAskedFor(k')
      /\ k'.uxSchedulerSuspended = k.uxSchedulerSuspended
  BY FromISRPreserves DEF xQueueReceiveFromISR, Inductive, TypeOK
<1>2. /\ uxMessagesWaiting' \in 0..uxLength
      /\ cRxLock' \in queueUNLOCKED..LockBound
  BY DEF xQueueReceiveFromISR, Inductive, TypeOK, prvIsQueueEmpty, queueUNLOCKED
<1>3. call' = call /\ cTxLock' = cTxLock BY DEF xQueueReceiveFromISR
<1>4. TypeOK' BY <1>1, <1>2, <1>3 DEF Inductive, TypeOK, Undisturbed
<1> QED BY <1>1, <1>3, <1>4, InterruptInductive

LEMMA TickStep ==
  ASSUME Inductive, xTaskIncrementTick
  PROVE  Inductive'
<1>1. k' = TickInterrupt(k) /\ call' = call BY DEF xTaskIncrementTick
<1>2. /\ Undisturbed(k, k') /\ SwitchAskedFor(k')
      /\ k'.uxSchedulerSuspended = k.uxSchedulerSuspended
  BY <1>1, TickPreserves DEF Inductive, TypeOK
<1>3. TypeOK' BY <1>1, <1>2 DEF xTaskIncrementTick, Inductive, TypeOK, Undisturbed
<1> QED BY <1>1, <1>2, <1>3, InterruptInductive

LEMMA SwitchStep ==
  ASSUME Inductive, SwitchContext
  PROVE  Inductive'
<1>1. PICK next \in Runnable(k) : k' = vTaskSwitchContext(k, next) BY DEF SwitchContext
<1>2. /\ k \in KernelState /\ call \in [Task -> Call] /\ call' = call
      /\ next \in Task /\ k.container[next] = "ready"
      /\ \A u \in Ready(k) : k.uxPriority[u] <= k.uxPriority[next]
      /\ call[k.pxCurrentTCB].at # "ticks"
  BY DEF SwitchContext, Inductive, TypeOK, Runnable, Ready, Masked
<1>3. CASE k.uxSchedulerSuspended # 0
  <2>1. k' = [k EXCEPT !.xYieldPending = TRUE, !.pendSV = FALSE]
    BY <1>1, <1>3 DEF vTaskSwitchContext
  <2>2. /\ k' \in KernelState
        /\ k'.pxCurrentTCB = k.pxCurrentTCB
        /\ k'.container = k.container
        /\ k'.uxSchedulerSuspended = k.uxSchedulerSuspended
        /\ k'.xYieldPending
    BY <1>2, <2>1 DEF KernelState
  <2>3. TypeOK' BY <2>2 DEF SwitchContext, Inductive, TypeOK
  <2>4. SwitchAskedFor(k') BY <2>2 DEF SwitchAskedFor
  <2>5. OwnSuspension' /\ CallProgress'
    BY <1>2, <2>2 DEF Inductive, OwnSuspension, CallProgress
  <2>6. ReadyOrLeaving' BY <1>2, <1>3, <2>2 DEF Inductive, ReadyOrLeaving, Leaving
  <2> QED BY <2>3, <2>4, <2>5, <2>6 DEF Inductive
<1>4. CASE k.uxSchedulerSuspended = 0
  <2>1. k' = [k EXCEPT !.xYieldPending = FALSE, !.pendSV = FALSE,
                       !.pxCurrentTCB = next]
    BY <1>1, <1>4 DEF vTaskSwitchContext
  <2>2. /\ k' \in KernelState
        /\ k'.pxCurrentTCB = next
        /\ k'.container = k.container
        /\ k'.uxPriority = k.uxPriority
        /\ k'.uxSchedulerSuspended = 0
    BY <1>2, <1>4, <2>1 DEF KernelState
  <2>3. TypeOK' BY <2>2 DEF SwitchContext, Inductive, TypeOK
  <2>4. SwitchAskedFor(k') BY <1>2, <2>2 DEF SwitchAskedFor, Ready
  <2>5. \A t \in Task : call[t].at \notin Suspended \cup {"ticks"}
    BY <1>2, <1>4 DEF Inductive, OwnSuspension
  <2>6. OwnSuspension' /\ CallProgress'
    BY <1>2, <2>2, <2>5 DEF Inductive, OwnSuspension, CallProgress
  <2>7. ReadyOrLeaving' BY <1>2, <2>2 DEF ReadyOrLeaving, Leaving
  <2> QED BY <2>3, <2>4, <2>6, <2>7 DEF Inductive
<1> QED BY <1>3, <1>4

--------------------
\* The theorems.

LEMMA NextInductive == Inductive /\ [Next]_vars => Inductive'
<1> SUFFICES ASSUME Inductive, [Next]_vars PROVE Inductive' OBVIOUS
<1>1. CASE \E t \in Task : Invocation(t) BY <1>1, InvokeStep DEF Invocation, Op
<1>2. CASE \E t \in Task : Reset(t) BY <1>2, ResetStep DEF Reset
<1>3. CASE \E t \in Task : Step(t)
  BY <1>3, SucceedStep, FailAtOnceStep, PrepareToBlockStep, SuspendAllStep,
     LockQueueStep, CheckTimeOutStep, PlaceStep, UnlockTxStep, UnlockRxStep,
     ResumeAllStep, ReplayStep, ResumeAllReturnStep, RecheckStep DEF Step
<1>4. CASE Interrupt BY <1>4, SendFromISRStep, ReceiveFromISRStep, TickStep DEF Interrupt
<1>5. CASE SwitchContext BY <1>5, SwitchStep
<1>6. CASE UNCHANGED vars
  <2>1. UNCHANGED <<k, uxMessagesWaiting, cTxLock, cRxLock, call>> BY <1>6 DEF vars
  <2> QED
    BY <2>1 DEF Inductive, TypeOK, OwnSuspension, ReadyOrLeaving, Leaving, CallProgress
<1> QED BY <1>1, <1>2, <1>3, <1>4, <1>5, <1>6 DEF Next

\* The scheduler suspended by a call stays with that call, a task that blocks
\* reaches the switch, and every switch a wake-up calls for is asked for, with
\* any number of tasks, priorities, queue places and ticks.
THEOREM InductiveInvariant == Spec => []Inductive
<1>1. Init => Inductive BY InitInductive
<1>2. Inductive /\ [Next]_vars => Inductive' BY NextInductive
<1> QED BY <1>1, <1>2, PTL DEF Spec

\* Every variable keeps its type: counts stay within the capacity, time stays
\* within TickType_t and no lock count leaves its range.
THEOREM TypeCorrect == Spec => []TypeOK
<1>1. Inductive => TypeOK BY DEF Inductive
<1> QED BY <1>1, InductiveInvariant, PTL

\* Whenever the scheduler runs and no switch is asked for, the running task is
\* ready and no ready task outranks it.
THEOREM PriorityScheduling == Spec => []HighestPriorityRuns
<1>1. Inductive => HighestPriorityRuns
  <2> SUFFICES ASSUME Inductive, k.uxSchedulerSuspended = 0, ~k.pendSV,
                      ~k.xYieldPending, ~Masked
               PROVE  k.pxCurrentTCB \in Runnable(k)
    BY DEF HighestPriorityRuns
  <2>1. k.container[k.pxCurrentTCB] = "ready"
    BY DEF Inductive, ReadyOrLeaving, Leaving, OwnSuspension, Suspended, Masked
  <2>2. k.pxCurrentTCB \in Task BY DEF Inductive, TypeOK, KernelState
  <2> QED BY <2>1, <2>2 DEF Inductive, SwitchAskedFor, Runnable, Ready
<1> QED BY <1>1, InductiveInvariant, PTL

--------------------
\* The refinement of BoundedQueue.

\* What BoundedQueue sees of a call.
Status(c) == IF c.at = "idle" THEN [op |-> "none", waits |-> FALSE]
             ELSE [op |-> c.op, waits |-> c.xEntryTimeSet \/ c.xTicksToWait # 0]

status == [t \in Task |-> Status(call[t])]

\* A step inside a call that neither changes the count nor what is seen of the
\* call is a stuttering step of BoundedQueue.
LEMMA SameStatus ==
  ASSUME TypeOK, NEW t \in Task, NEW c \in Call, call' = [call EXCEPT ![t] = c],
         Status(c) = Status(call[t])
  PROVE  status' = status
<1>1. \A u \in Task : Status(call'[u]) = Status(call[u]) BY DEF TypeOK
<1> QED BY <1>1 DEF status

LEMMA ReturnStatus ==
  ASSUME TypeOK, NEW t \in Task, Return(t)
  PROVE  status' = [status EXCEPT ![t] = [op |-> "none", waits |-> FALSE]]
<1>1. \A u \in Task : Status(call'[u]) = IF u = t THEN [op |-> "none", waits |-> FALSE]
                                                  ELSE Status(call[u])
  BY DEF TypeOK, Return, Status, NoCall
<1> QED BY <1>1 DEF status

LEMMA ContractInit == Init => Contract!Init
  BY DEF Init, Contract!Init, Contract!NoOperation, NoCall

\* An invocation is a Call of the contract.
LEMMA InvokeContract ==
  ASSUME Inductive, NEW t \in Task, NEW op \in Op, NEW ticks \in Wait,
         Invoke(t, op, ticks)
  PROVE  Contract!Next
<1> DEFINE c == [NoCall EXCEPT !.at = "try", !.op = op, !.xTicksToWait = ticks]
           p == [op |-> op, waits |-> ticks # 0]
<1>1. /\ call' = [call EXCEPT ![t] = c] /\ call[t].at = "idle"
      /\ uxMessagesWaiting' = uxMessagesWaiting
  BY DEF Invoke, At
<1>2. Status(c) = p /\ Status(call[t]) = [op |-> "none", waits |-> FALSE]
  BY <1>1 DEF Status, NoCall
<1>3. p \in Contract!Pending BY DEF Contract!Pending, Contract!Operation, Op
<1> HIDE DEF c, p
<1>4. status' = [status EXCEPT ![t] = p]
  <2>1. \A u \in Task : Status(call'[u]) = IF u = t THEN p ELSE Status(call[u])
    BY <1>1, <1>2 DEF Inductive, TypeOK
  <2> QED BY <2>1 DEF status
<1>5. status[t] = [op |-> "none", waits |-> FALSE] BY <1>2 DEF status
<1>6. Contract!Call(t) BY <1>1, <1>3, <1>4, <1>5
  DEF Contract!Call, Contract!NoOperation, status, Status
<1> QED BY <1>6 DEF Contract!Next

\* A step that returns is the instant at which the call takes effect or fails.
LEMMA SucceedContract ==
  ASSUME Inductive, NEW t \in Task, Succeed(t)
  PROVE  Contract!Next
<1>1. /\ call[t] \in Call /\ call[t].at = "try"
      /\ uxMessagesWaiting \in 0..uxLength
  BY AtFacts DEF Succeed, Inductive, TypeOK
<1>2. status' = [status EXCEPT ![t] = [op |-> "none", waits |-> FALSE]]
  BY ReturnStatus DEF Succeed, Inductive
<1>3. status[t].op = call[t].op BY <1>1 DEF status, Status
<1>4. Contract!Done(t) BY <1>2 DEF Contract!Done, Contract!NoOperation, status, Status
<1>5. CASE call[t].op = "send"
  <2>1. uxMessagesWaiting < uxLength /\ uxMessagesWaiting' = uxMessagesWaiting + 1
    BY <1>1, <1>5 DEF Succeed, Blocked, prvIsQueueFull, Effect
  <2>2. Contract!Send(t) BY <1>3, <1>4, <1>5, <2>1 DEF Contract!Send, status, Status
  <2> QED BY <2>2 DEF Contract!Next
<1>6. CASE call[t].op = "receive"
  <2>1. uxMessagesWaiting > 0 /\ uxMessagesWaiting' = uxMessagesWaiting - 1
    BY <1>1, <1>6 DEF Succeed, Blocked, prvIsQueueEmpty, Effect
  <2>2. Contract!Receive(t) BY <1>3, <1>4, <1>6, <2>1 DEF Contract!Receive, status, Status
  <2> QED BY <2>2 DEF Contract!Next
<1>7. CASE call[t].op = "peek"
  <2>1. uxMessagesWaiting > 0 /\ uxMessagesWaiting' = uxMessagesWaiting
    BY <1>1, <1>7 DEF Succeed, Blocked, prvIsQueueEmpty, Effect
  <2>2. Contract!Peek(t) BY <1>3, <1>4, <1>7, <2>1 DEF Contract!Peek, status, Status
  <2> QED BY <2>2 DEF Contract!Next
<1> QED BY <1>1, <1>5, <1>6, <1>7 DEF Call, Op

LEMMA FailContract ==
  ASSUME Inductive, NEW t \in Task, Return(t), call[t].at # "idle",
         uxMessagesWaiting' = uxMessagesWaiting,
         \/ call[t].op = "send" /\ (prvIsQueueFull \/ call[t].xEntryTimeSet)
         \/ call[t].op # "send" /\ prvIsQueueEmpty
  PROVE  Contract!Next
<1>1. call[t] \in Call BY DEF Inductive, TypeOK
<1>2. status' = [status EXCEPT ![t] = [op |-> "none", waits |-> FALSE]]
  BY ReturnStatus DEF Inductive
<1>3. /\ status[t].op = call[t].op
      /\ call[t].xEntryTimeSet => status[t].waits
  BY <1>1 DEF status, Status
<1>4. Contract!Done(t) BY <1>2 DEF Contract!Done, Contract!NoOperation, status, Status
<1>5. \/ status[t].op = "send" /\ (uxMessagesWaiting = uxLength \/ status[t].waits)
      \/ status[t].op \in {"receive", "peek"} /\ uxMessagesWaiting = 0
  BY <1>1, <1>3 DEF Call, Op, prvIsQueueFull, prvIsQueueEmpty
<1>6. Contract!Fail(t) BY <1>4, <1>5 DEF Contract!Fail, status, Status
<1> QED BY <1>6 DEF Contract!Next

\* What CheckTimeOut does to the remaining wait does not show: a caller that
\* took its entry time waits.
LEMMA CheckStatus ==
  ASSUME Inductive, NEW t \in Task, CheckTimeOut(t)
  PROVE  status' = status
<1> DEFINE d == xTaskCheckForTimeOut(k, call[t])
<1>1. /\ call[t] \in Call /\ call[t].at = "check" /\ k \in KernelState
      /\ call[t].xEntryTimeSet
  BY AtFacts DEF CheckTimeOut, Inductive, CallProgress
<1>2. d \in Call /\ d.xEntryTimeSet /\ d.op = call[t].op
  <2>1. d.op = call[t].op
    BY <1>1 DEF xTaskCheckForTimeOut, vTaskInternalSetTimeOutState, Call
  <2> QED BY <1>1, <2>1, CheckedCall
<1>3. PICK c : /\ call' = [call EXCEPT ![t] = c]
               /\ \/ c = [d EXCEPT !.at = "unlockTx", !.next = "timeout"]
                  \/ c = [d EXCEPT !.at = "place", !.next = "yield"]
                  \/ c = [d EXCEPT !.at = "unlockTx", !.next = "loop"]
  BY DEF CheckTimeOut
<1> HIDE DEF d
<1>4. /\ c \in Call /\ c.xEntryTimeSet /\ c.op = call[t].op
      /\ c.at \in {"unlockTx", "place"}
  BY <1>2, <1>3 DEF Call, Where
<1>5. Status(c) = Status(call[t]) BY <1>1, <1>4 DEF Status
<1> QED BY <1>3, <1>4, <1>5, SameStatus DEF Inductive

LEMMA PrepareStatus ==
  ASSUME Inductive, NEW t \in Task, PrepareToBlock(t)
  PROVE  status' = status
<1> DEFINE stamped == IF call[t].xEntryTimeSet THEN call[t]
                      ELSE vTaskInternalSetTimeOutState(k, call[t])
           c == [stamped EXCEPT !.at = "suspend", !.xEntryTimeSet = TRUE]
<1>1. /\ call[t] \in Call /\ call[t].at = "try" /\ k \in KernelState
      /\ call[t].xTicksToWait # 0
      /\ call' = [call EXCEPT ![t] = c]
  BY AtFacts DEF PrepareToBlock
<1>2. stamped \in Call /\ stamped.op = call[t].op
  <2>1. k.xTickCount \in Tick /\ k.xNumOfOverflows \in Tick BY <1>1 DEF KernelState
  <2> QED BY <1>1, <2>1 DEF vTaskInternalSetTimeOutState, Call
<1> HIDE DEF stamped
<1>3. c \in Call /\ c.at = "suspend" /\ c.xEntryTimeSet /\ c.op = call[t].op
  BY <1>2 DEF Call, Where
<1> HIDE DEF c
<1>4. Status(c) = Status(call[t]) BY <1>1, <1>3 DEF Status
<1> QED BY <1>1, <1>3, <1>4, SameStatus DEF Inductive

LEMMA GoToStatus ==
  ASSUME Inductive, NEW t \in Task, NEW where \in Where \ {"idle"},
         GoTo(t, where), call[t].at # "idle"
  PROVE  status' = status
<1>1. call[t] \in Call BY DEF Inductive, TypeOK
<1>2. call' = [call EXCEPT ![t] = Moved(call[t], where)] BY GoToMoved
<1>3. /\ Moved(call[t], where) \in Call
      /\ Status(Moved(call[t], where)) = Status(call[t])
  BY <1>1 DEF Moved, Call, Status
<1> QED BY <1>2, <1>3, SameStatus DEF Inductive

LEMMA StepContract ==
  ASSUME Inductive, NEW t \in Task, Step(t)
  PROVE  Contract!Next \/ (uxMessagesWaiting' = uxMessagesWaiting /\ status' = status)
<1>1. CASE Succeed(t) BY <1>1, SucceedContract
<1>2. CASE FailAtOnce(t)
  <2>1. call[t] \in Call /\ call[t].at = "try" BY <1>2, AtFacts DEF FailAtOnce
  <2>2. \/ call[t].op = "send" /\ prvIsQueueFull
        \/ call[t].op # "send" /\ prvIsQueueEmpty
    BY <1>2 DEF FailAtOnce, Blocked
  <2> QED BY <1>2, <2>1, <2>2, FailContract DEF FailAtOnce
<1>3. CASE PrepareToBlock(t) BY <1>3, PrepareStatus DEF PrepareToBlock
<1>4. CASE CheckTimeOut(t) BY <1>4, CheckStatus DEF CheckTimeOut
<1>5. CASE SuspendAll(t) BY <1>5, GoToStatus DEF SuspendAll, At, Where
<1>6. CASE prvLockQueue(t) BY <1>6, GoToStatus DEF prvLockQueue, At, Where
<1>7. CASE PlaceOnEventList(t) BY <1>7, GoToStatus DEF PlaceOnEventList, At, Where
<1>8. CASE UnlockTx(t) BY <1>8, GoToStatus DEF UnlockTx, At, Where
<1>9. CASE UnlockRx(t) BY <1>9, GoToStatus DEF UnlockRx, At, Where
<1>10. CASE ResumeAll(t) BY <1>10, GoToStatus DEF ResumeAll, At, Where
<1>11. CASE ReplayPendedTick(t) BY <1>11 DEF ReplayPendedTick, status
<1>12. CASE ResumeAllReturn(t)
  <2>1. call[t].at = "ticks" /\ call[t].xEntryTimeSet
    BY <1>12, AtFacts DEF ResumeAllReturn, Inductive, CallProgress
  <2>2. CASE call[t].next = "timeout" /\ call[t].op = "send"
    BY <1>12, <2>1, <2>2, FailContract DEF ResumeAllReturn
  <2>3. CASE ~(call[t].next = "timeout" /\ call[t].op = "send")
    <3>1. GoTo(t, "try") \/ GoTo(t, "recheck") BY <1>12, <2>3 DEF ResumeAllReturn
    <3> QED BY <1>12, <2>1, <3>1, GoToStatus DEF ResumeAllReturn, Where
  <2> QED BY <2>2, <2>3
<1>13. CASE RecheckAfterTimeOut(t)
  <2>1. call[t].at = "recheck" /\ call[t].op # "send"
    BY <1>13, AtFacts DEF RecheckAfterTimeOut, Inductive, CallProgress
  <2>2. CASE prvIsQueueEmpty BY <1>13, <2>1, <2>2, FailContract DEF RecheckAfterTimeOut
  <2>3. CASE ~prvIsQueueEmpty
    BY <1>13, <2>1, <2>3, GoToStatus DEF RecheckAfterTimeOut, Where
  <2> QED BY <2>2, <2>3
<1> QED BY <1>1, <1>2, <1>3, <1>4, <1>5, <1>6, <1>7, <1>8, <1>9, <1>10, <1>11,
     <1>12, <1>13 DEF Step

LEMMA NextContract ==
  Inductive /\ [Next]_vars => [Contract!Next]_(Contract!vars)
<1> SUFFICES ASSUME Inductive, [Next]_vars
             PROVE  Contract!Next \/ (uxMessagesWaiting' = uxMessagesWaiting
                                        /\ status' = status)
  BY DEF Contract!vars, status, Status
<1>1. CASE \E t \in Task : Invocation(t) BY <1>1, InvokeContract DEF Invocation, Op
<1>2. CASE \E t \in Task : Reset(t)
  <2>1. uxMessagesWaiting' = 0 /\ call' = call BY <1>2 DEF Reset, xQueueGenericReset
  <2>2. Contract!Reset BY <2>1 DEF Contract!Reset
  <2> QED BY <2>2 DEF Contract!Next
<1>3. CASE \E t \in Task : Step(t) BY <1>3, StepContract
<1>4. CASE xQueueSendFromISR \/ xQueueReceiveFromISR
  <2>1. /\ call' = call
        /\ \/ uxMessagesWaiting < uxLength /\ uxMessagesWaiting' = uxMessagesWaiting + 1
           \/ uxMessagesWaiting > 0 /\ uxMessagesWaiting' = uxMessagesWaiting - 1
    BY <1>4 DEF xQueueSendFromISR, xQueueReceiveFromISR, prvIsQueueFull,
                prvIsQueueEmpty, Inductive, TypeOK
  <2>2. Contract!Interrupt BY <2>1 DEF Contract!Interrupt
  <2> QED BY <2>2 DEF Contract!Next
<1>5. CASE xTaskIncrementTick \/ SwitchContext \/ UNCHANGED vars
  <2>1. uxMessagesWaiting' = uxMessagesWaiting /\ call' = call
    BY <1>5 DEF xTaskIncrementTick, SwitchContext, vars
  <2> QED BY <2>1 DEF status
<1> QED BY <1>1, <1>2, <1>3, <1>4, <1>5 DEF Next, Interrupt

\* Every behaviour of the blocking protocol is one of BoundedQueue: whatever
\* interleaving of calls, interrupts and ticks, each call takes effect at one
\* instant, or fails at an instant at which the contract lets it.
THEOREM Refinement == Spec => ImplementsContract
<1>1. Init => Contract!Init BY ContractInit
<1>2. Inductive /\ [Next]_vars => [Contract!Next]_(Contract!vars) BY NextContract
<1> QED BY <1>1, <1>2, InductiveInvariant, PTL DEF Spec, ImplementsContract, Contract!Spec

--------------------
\* Who sleeps on the event lists, and who of the others will look again.

LEMMA ClaimantsFinite ==
  ASSUME NEW q, NEW c, NEW l
  PROVE  IsFiniteSet(Claimants(q, c, l)) /\ Cardinality(Claimants(q, c, l)) \in Nat
<1>1. Claimants(q, c, l) \in SUBSET Task BY DEF Claimants
<1>2. IsFiniteSet(Claimants(q, c, l)) BY <1>1, TasksAreFinite, FS_Subset
<1> QED BY <1>2, FS_CardinalityType

\* Claimants that leave and claimants that come, against what is used up and added.
LEMMA ClaimedMoves ==
  ASSUME NEW q, NEW c, NEW r, NEW d, NEW l, NEW m \in Int, NEW n \in Int,
         Claimed(q, c, l, m),
         Waiting(r, l) # {} => Waiting(q, l) # {},
         NEW Out \in SUBSET Claimants(q, c, l),
         NEW In \in SUBSET Claimants(r, d, l),
         In \cap Claimants(q, c, l) = {},
         Claimants(q, c, l) \ Out \subseteq Claimants(r, d, l),
         n - Cardinality(In) <= m - Cardinality(Out)
  PROVE  Claimed(r, d, l, n)
<1> DEFINE C == Claimants(q, c, l)
           D == Claimants(r, d, l)
           Stay == C \ Out
<1>1. /\ IsFiniteSet(C) /\ Cardinality(C) \in Nat
      /\ IsFiniteSet(D) /\ Cardinality(D) \in Nat
  BY ClaimantsFinite
<1>2. Stay \in SUBSET C /\ Out \in SUBSET C /\ In \in SUBSET D /\ Stay \cup In \in SUBSET D
  OBVIOUS
<1>3. Stay \cup Out = C /\ Stay \cap Out = {} /\ Stay \cap In = {} OBVIOUS
<1>4. SUFFICES ASSUME Waiting(r, l) # {} PROVE n <= Cardinality(D) BY DEF Claimed
<1>5. m <= Cardinality(C) BY <1>4 DEF Claimed
<1> HIDE DEF C, D, Stay
<1>6. /\ IsFiniteSet(Stay) /\ IsFiniteSet(Out) /\ IsFiniteSet(In)
      /\ Cardinality(Stay) \in Nat /\ Cardinality(Out) \in Nat /\ Cardinality(In) \in Nat
  BY <1>1, <1>2, FS_Subset, FS_CardinalityType
<1>7. Cardinality(C) = Cardinality(Stay) + Cardinality(Out)
  <2>1. Cardinality(Stay \cup Out)
          = Cardinality(Stay) + Cardinality(Out) - Cardinality(Stay \cap Out)
    BY <1>6, FS_Union
  <2>2. Cardinality(Stay \cap Out) = 0 BY <1>3, FS_EmptySet
  <2>3. Cardinality(C) = Cardinality(Stay \cup Out) BY <1>3
  <2> QED BY <1>1, <1>6, <2>1, <2>2, <2>3
<1>8. Cardinality(Stay \cup In) = Cardinality(Stay) + Cardinality(In)
  <2>1. Cardinality(Stay \cup In)
          = Cardinality(Stay) + Cardinality(In) - Cardinality(Stay \cap In)
    BY <1>6, FS_Union
  <2>2. Cardinality(Stay \cap In) = 0 BY <1>3, FS_EmptySet
  <2> QED BY <1>3, <1>6, <2>1, <2>2
<1>9. Cardinality(Stay \cup In) <= Cardinality(D) BY <1>1, <1>2, FS_Subset
<1> QED BY <1>1, <1>5, <1>6, <1>7, <1>8, <1>9

LEMMA ClaimedKept ==
  ASSUME NEW q, NEW c, NEW r, NEW d, NEW l, NEW m \in Int, NEW n \in Int,
         Claimed(q, c, l, m),
         Waiting(r, l) # {} => Waiting(q, l) # {},
         Claimants(q, c, l) \subseteq Claimants(r, d, l),
         n <= m
  PROVE  Claimed(r, d, l, n)
<1>1. Cardinality({}) = 0 BY FS_EmptySet
<1> DEFINE none == {}
<1>2. n - Cardinality(none) <= m - Cardinality(none) BY <1>1
<1>3. /\ none \in SUBSET Claimants(q, c, l) /\ none \in SUBSET Claimants(r, d, l)
      /\ none \cap Claimants(q, c, l) = {}
      /\ Claimants(q, c, l) \ none \subseteq Claimants(r, d, l)
  OBVIOUS
<1> HIDE DEF none
<1> QED BY <1>2, <1>3, ClaimedMoves

\* One more is offered and the head of the list is woken for it.
LEMMA ClaimedWoken ==
  ASSUME NEW q, NEW c, NEW r, NEW d, NEW l, NEW m \in Int, NEW n \in Int,
         Claimed(q, c, l, m),
         Waiting(r, l) # {} => Waiting(q, l) # {},
         NEW head \in Claimants(r, d, l) \ Claimants(q, c, l),
         Claimants(q, c, l) \subseteq Claimants(r, d, l),
         n <= m + 1
  PROVE  Claimed(r, d, l, n)
<1> DEFINE none == {}
           one == {head}
<1>1. Cardinality(none) = 0 /\ Cardinality(one) = 1 BY FS_EmptySet, FS_Singleton
<1>2. n - Cardinality(one) <= m - Cardinality(none) BY <1>1
<1>3. /\ none \in SUBSET Claimants(q, c, l) /\ one \in SUBSET Claimants(r, d, l)
      /\ one \cap Claimants(q, c, l) = {}
      /\ Claimants(q, c, l) \ none \subseteq Claimants(r, d, l)
  OBVIOUS
<1> HIDE DEF none, one
<1> QED BY <1>2, <1>3, ClaimedMoves

\* A claimant uses one and claims no more.
LEMMA ClaimedUsed ==
  ASSUME NEW q, NEW c, NEW r, NEW d, NEW l, NEW m \in Int, NEW n \in Int,
         Claimed(q, c, l, m),
         Waiting(r, l) # {} => Waiting(q, l) # {},
         NEW t \in Claimants(q, c, l),
         Claimants(q, c, l) \ {t} \subseteq Claimants(r, d, l),
         n <= m - 1
  PROVE  Claimed(r, d, l, n)
<1> DEFINE none == {}
           one == {t}
<1>1. Cardinality(none) = 0 /\ Cardinality(one) = 1 BY FS_EmptySet, FS_Singleton
<1>2. n - Cardinality(none) <= m - Cardinality(one) BY <1>1
<1>3. /\ one \in SUBSET Claimants(q, c, l) /\ none \in SUBSET Claimants(r, d, l)
      /\ none \cap Claimants(q, c, l) = {}
      /\ Claimants(q, c, l) \ one \subseteq Claimants(r, d, l)
  OBVIOUS
<1> HIDE DEF none, one
<1> QED BY <1>2, <1>3, ClaimedMoves

\* A claimant leaves what it saw to the head of the list, which it wakes.
LEMMA ClaimedPassedOn ==
  ASSUME NEW q, NEW c, NEW r, NEW d, NEW l, NEW m \in Int, NEW n \in Int,
         Claimed(q, c, l, m),
         Waiting(r, l) # {} => Waiting(q, l) # {},
         NEW t \in Claimants(q, c, l),
         NEW head \in Claimants(r, d, l) \ Claimants(q, c, l),
         Claimants(q, c, l) \ {t} \subseteq Claimants(r, d, l),
         n <= m
  PROVE  Claimed(r, d, l, n)
<1> DEFINE gone == {t}
           one == {head}
<1>1. Cardinality(gone) = 1 /\ Cardinality(one) = 1 BY FS_Singleton
<1>2. n - Cardinality(one) <= m - Cardinality(gone) BY <1>1
<1>3. /\ gone \in SUBSET Claimants(q, c, l) /\ one \in SUBSET Claimants(r, d, l)
      /\ one \cap Claimants(q, c, l) = {}
      /\ Claimants(q, c, l) \ gone \subseteq Claimants(r, d, l)
  OBVIOUS
<1> HIDE DEF gone, one
<1> QED BY <1>2, <1>3, ClaimedMoves

--------------------
\* No kernel function but the blocking of the caller puts a task on an event
\* list, and none readies a task and leaves it on one.

OnlyWakes(q, r) ==
  \A t \in Task : r.event[t] \in EventList =>
    /\ r.event[t] = q.event[t]
    /\ r.container[t] = "ready" => q.container[t] = "ready"

LEMMA OnlyWakesTransitive ==
  ASSUME NEW p, NEW q, NEW r, OnlyWakes(p, q), OnlyWakes(q, r)
  PROVE  OnlyWakes(p, r)
  BY DEF OnlyWakes

LEMMA OnlyWakesSame ==
  ASSUME NEW q, NEW r, r.event = q.event, r.container = q.container
  PROVE  OnlyWakes(q, r)
  BY DEF OnlyWakes

LEMMA ResetOnlyWakes ==
  ASSUME NEW q \in KernelState
  PROVE  OnlyWakes(q, prvResetNextTaskUnblockTime(q))
<1> DEFINE r == prvResetNextTaskUnblockTime(q)
<1>1. PICK n \in Tick : r = [q EXCEPT !.xNextTaskUnblockTime = n] BY ResetUnblockTimeType
<1> HIDE DEF r
<1>2. r.event = q.event /\ r.container = q.container BY <1>1 DEF KernelState
<1> QED BY <1>2, OnlyWakesSame DEF r

LEMMA UnblockedLists ==
  ASSUME NEW q \in KernelState, NEW S \in SUBSET Task, NEW y
  PROVE  LET r == Unblocked(q, S, y)
         IN  \A t \in Task : /\ r.event[t] = IF t \in S THEN "none" ELSE q.event[t]
                             /\ t \notin S => r.container[t] = q.container[t]
<1> DEFINE e == [t \in Task |-> IF t \in S THEN "none" ELSE q.event[t]]
           c == [t \in Task |-> IF t \in S THEN "ready" ELSE q.container[t]]
           r == Unblocked(q, S, y)
<1>1. r = Updated(q, c, e, q.xItemValue, q.xNextTaskUnblockTime, y) BY DEF Unblocked
<1>2. \A t \in Task : /\ e[t] = IF t \in S THEN "none" ELSE q.event[t]
                      /\ t \notin S => c[t] = q.container[t]
  OBVIOUS
<1> HIDE DEF e, c
<1>3. r.event = e /\ r.container = c BY <1>1 DEF Updated, KernelState
<1> HIDE DEF r
<1>4. \A t \in Task : /\ r.event[t] = IF t \in S THEN "none" ELSE q.event[t]
                      /\ t \notin S => r.container[t] = q.container[t]
  BY <1>2, <1>3
<1> QED BY <1>4 DEF r

LEMMA UnblockedOnlyWakes ==
  ASSUME NEW q \in KernelState, NEW S \in SUBSET Task, NEW y
  PROVE  OnlyWakes(q, Unblocked(q, S, y))
  BY UnblockedLists DEF OnlyWakes

LEMMA UnblockDueOnlyWakes ==
  ASSUME NEW q \in KernelState
  PROVE  OnlyWakes(q, UnblockDue(q))
<1> DEFINE u == Unblocked(q, Due(q), q.xYieldPending)
<1>1. u \in KernelState /\ OnlyWakes(q, u)
  BY UnblockDueIs, UnblockSteady, UnblockedOnlyWakes
<1>2. UnblockDue(q) = IF q.xTickCount < q.xNextTaskUnblockTime THEN q
                      ELSE prvResetNextTaskUnblockTime(u)
  BY UnblockDueIs
<1> HIDE DEF u
<1>3. OnlyWakes(u, prvResetNextTaskUnblockTime(u)) /\ OnlyWakes(q, q)
  BY <1>1, ResetOnlyWakes, OnlyWakesSame
<1> QED BY <1>1, <1>2, <1>3, OnlyWakesTransitive

LEMMA SwitchListsOnlyWakes ==
  ASSUME NEW q \in KernelState
  PROVE  OnlyWakes(q, taskSWITCH_DELAYED_LISTS(q))
<1> DEFINE c == [t \in Task |-> CASE q.container[t] = "overflow" -> "delayed"
                                  [] q.container[t] = "delayed" -> "overflow"
                                  [] OTHER -> q.container[t]]
           n == (q.xNumOfOverflows + 1) % TickMod
           r == [q EXCEPT !.container = c, !.xNumOfOverflows = n]
<1>1. taskSWITCH_DELAYED_LISTS(q) = prvResetNextTaskUnblockTime(r)
  BY DEF taskSWITCH_DELAYED_LISTS
<1>2. n \in Tick BY TickModulo DEF KernelState, Tick
<1>3. c \in [Task -> StateList]
      /\ \A t \in Task : c[t] = "ready" => q.container[t] = "ready"
  BY DEF KernelState, StateList
<1> HIDE DEF c, n
<1>4. r \in KernelState /\ r.container = c /\ r.event = q.event
  BY <1>2, <1>3, Zenon DEF KernelState
<1> HIDE DEF r
<1>5. OnlyWakes(q, r) BY <1>3, <1>4 DEF OnlyWakes
<1>6. OnlyWakes(r, prvResetNextTaskUnblockTime(r)) BY <1>4, ResetOnlyWakes
<1> QED BY <1>1, <1>5, <1>6, OnlyWakesTransitive

LEMMA CountTickOnlyWakes ==
  ASSUME NEW q \in KernelState
  PROVE  OnlyWakes(q, CountTick(q))
<1> DEFINE n == (q.xTickCount + 1) % TickMod
           t1 == [q EXCEPT !.xTickCount = n]
           t2 == IF t1.xTickCount = 0 THEN taskSWITCH_DELAYED_LISTS(t1) ELSE t1
<1>1. CountTick(q) = UnblockDue(t2) BY DEF CountTick
<1>2. n \in Tick BY TickModulo DEF KernelState, Tick
<1> HIDE DEF n
<1>3. t1 \in KernelState /\ t1.event = q.event /\ t1.container = q.container
  BY <1>2 DEF KernelState
<1> HIDE DEF t1
<1>4. t2 \in KernelState /\ OnlyWakes(t1, t2)
  BY <1>3, SwitchListsSteady, SwitchListsOnlyWakes, OnlyWakesSame DEF Steady
<1> HIDE DEF t2
<1>5. OnlyWakes(t2, UnblockDue(t2)) /\ OnlyWakes(q, t1)
  BY <1>3, <1>4, UnblockDueOnlyWakes, OnlyWakesSame
<1> QED BY <1>1, <1>4, <1>5, OnlyWakesTransitive

LEMMA TickOnlyWakes ==
  ASSUME NEW q \in KernelState
  PROVE  OnlyWakes(q, TickInterrupt(q))
<1> DEFINE r == CountTick(q)
           p == [q EXCEPT !.xPendedTicks = @ + 1]
<1>1. TickInterrupt(q) \in {p, Yield(r), r} BY DEF TickInterrupt
<1>2. OnlyWakes(q, p)
  <2>1. p.event = q.event /\ p.container = q.container BY DEF KernelState
  <2> QED BY <2>1, OnlyWakesSame
<1>3. r \in KernelState /\ OnlyWakes(q, r)
  BY CountTickSteady, CountTickOnlyWakes DEF Steady
<1> HIDE DEF r, p
<1>4. OnlyWakes(r, Yield(r))
  <2>1. Yield(r).event = r.event /\ Yield(r).container = r.container
    BY <1>3 DEF Yield, KernelState
  <2> QED BY <2>1, OnlyWakesSame
<1> QED BY <1>1, <1>2, <1>3, <1>4, OnlyWakesTransitive

LEMMA ReplayOnlyWakes ==
  ASSUME NEW q \in KernelState
  PROVE  OnlyWakes(q, ReplayTick(q))
<1> DEFINE r == CountTick(q)
<1>1. r \in KernelState /\ OnlyWakes(q, r)
  BY CountTickSteady, CountTickOnlyWakes DEF Steady
<1>2. ReplayTick(q) = [r EXCEPT !.xPendedTicks = @ - 1,
                                !.xYieldPending = @ \/ SwitchRequired(q, r)]
  BY DEF ReplayTick
<1> HIDE DEF r
<1>3. ReplayTick(q).event = r.event /\ ReplayTick(q).container = r.container
  BY <1>1, <1>2 DEF KernelState
<1> QED BY <1>1, <1>3, OnlyWakesSame, OnlyWakesTransitive

LEMMA YieldOnlyWakes ==
  ASSUME NEW q \in KernelState
  PROVE  OnlyWakes(q, Yield(q)) /\ OnlyWakes(q, q)
<1>1. Yield(q).event = q.event /\ Yield(q).container = q.container
  BY DEF Yield, KernelState
<1> QED BY <1>1, OnlyWakesSame

\* Whom a wake-up takes off an event list is on none afterwards.
LEMMA RemoveOnlyWakes ==
  ASSUME NEW q \in KernelState, NEW head \in Task
  PROVE  LET r == xTaskRemoveFromEventList(q, head)
         IN  OnlyWakes(q, r) /\ r.event[head] \notin EventList
<1> DEFINE woken == IF q.uxSchedulerSuspended = 0
                      THEN [q EXCEPT !.event[head] = "none",
                                     !.container[head] = "ready"]
                      ELSE [q EXCEPT !.event[head] = "pending"]
           r == xTaskRemoveFromEventList(q, head)
<1>1. \A t \in Task : /\ t # head => /\ woken.event[t] = q.event[t]
                                     /\ woken.container[t] = q.container[t]
                      /\ t = head => woken.event[t] \in {"none", "pending"}
  BY DEF KernelState
<1>2. r.event = woken.event /\ r.container = woken.container
  <2>1. r = woken \/ r = [woken EXCEPT !.xYieldPending = TRUE]
    BY Zenon DEF xTaskRemoveFromEventList
  <2> HIDE DEF r
  <2>2. [woken EXCEPT !.xYieldPending = TRUE].event = woken.event
        /\ [woken EXCEPT !.xYieldPending = TRUE].container = woken.container
    BY DEF KernelState
  <2> QED BY <2>1, <2>2
<1> HIDE DEF woken, r
<1>3. OnlyWakes(q, r) /\ r.event[head] \notin EventList BY <1>1, <1>2 DEF OnlyWakes
<1> QED BY <1>3 DEF r

LEMMA WakeOnlyWakes ==
  ASSUME NEW q \in KernelState, SwitchAskedFor(q), NEW head \in Task
  PROVE  LET r == WakeAndYield(q, head)
         IN  OnlyWakes(q, r) /\ r.event[head] \notin EventList
<1> DEFINE woken == xTaskRemoveFromEventList(q, head)
           r == WakeAndYield(q, head)
<1>1. woken \in KernelState /\ OnlyWakes(q, woken) /\ woken.event[head] \notin EventList
  BY RemovePreserves, RemoveOnlyWakes DEF Undisturbed
<1>2. r \in {woken, Yield(woken)} BY DEF WakeAndYield
<1> HIDE DEF woken, r
<1>3. Yield(woken).event = woken.event /\ OnlyWakes(woken, Yield(woken))
  BY <1>1, YieldOnlyWakes DEF Yield, KernelState
<1>4. OnlyWakes(q, r) /\ r.event[head] \notin EventList
  BY <1>1, <1>2, <1>3, OnlyWakesTransitive
<1> QED BY <1>4 DEF r

LEMMA ReleaseOnlyWakes ==
  ASSUME NEW q \in KernelState, q.uxSchedulerSuspended = 1
  PROVE  OnlyWakes(q, ReleaseScheduler(q))
<1> DEFINE p == [q EXCEPT !.uxSchedulerSuspended = 0]
           u == Unblocked(p, Waiting(p, "pending"), PendingYield(p))
<1>1. /\ p \in KernelState /\ p.event = q.event /\ p.container = q.container
      /\ p.uxSchedulerSuspended = 0
  BY DEF KernelState
<1>2. ReleaseScheduler(q) = DrainPending(p)
  <2>1. [q EXCEPT !.uxSchedulerSuspended = @ - 1] = p OBVIOUS
  <2> HIDE DEF p
  <2> QED BY <1>1, <2>1 DEF ReleaseScheduler
<1> HIDE DEF p
<1>3. DrainPending(p) = IF Waiting(p, "pending") = {} THEN p
                        ELSE prvResetNextTaskUnblockTime(u)
  BY <1>1, DrainIs
<1>4. u \in KernelState /\ OnlyWakes(p, u)
  BY <1>1, DrainIs, UnblockSteady, UnblockedOnlyWakes
<1> HIDE DEF u
<1>5. /\ OnlyWakes(q, p) /\ OnlyWakes(p, p)
      /\ OnlyWakes(u, prvResetNextTaskUnblockTime(u))
  BY <1>1, <1>4, OnlyWakesSame, ResetOnlyWakes
<1> QED BY <1>2, <1>3, <1>4, <1>5, OnlyWakesTransitive

\* prvUnlockQueue wakes one waiter for each interrupt operation, or all of them.
LEMMA WakeForWakes ==
  ASSUME k \in KernelState, NEW l \in EventList, NEW n \in Nat, WakeFor(l, n)
  PROVE  \E W \in SUBSET Waiting(k, l) :
           /\ OnlyWakes(k, k')
           /\ \A t \in W : k'.event[t] \notin EventList
           /\ Waiting(k', l) = {} \/ Cardinality(W) = n
           /\ \A t \in Task \ W : k'.event[t] = k.event[t]
<1>1. PICK W \in SUBSET Waiting(k, l) :
        /\ Cardinality(W) = Least(n, Cardinality(Waiting(k, l)))
        /\ k' = [k EXCEPT !.event = [t \in Task |-> IF t \in W THEN "pending"
                                                               ELSE @[t]],
                          !.xYieldPending = @ \/ \E t \in W : Outranks(k, t)]
  BY DEF WakeFor
<1> DEFINE e == [t \in Task |-> IF t \in W THEN "pending" ELSE k.event[t]]
<1>2. k'.event = e /\ k'.container = k.container BY <1>1, Zenon DEF KernelState
<1>3. \A t \in Task : e[t] = IF t \in W THEN "pending" ELSE k.event[t] OBVIOUS
<1>4. W \in SUBSET Task BY DEF Waiting
<1> HIDE DEF e
<1>5. OnlyWakes(k, k') BY <1>2, <1>3 DEF OnlyWakes
<1>6. /\ \A t \in W : k'.event[t] \notin EventList
      /\ \A t \in Task \ W : k'.event[t] = k.event[t]
  BY <1>2, <1>3, <1>4
<1>7. Waiting(k', l) = {} \/ Cardinality(W) = n
  <2>0. Cardinality(W) = Least(n, Cardinality(Waiting(k, l))) BY <1>1
  <2>1. /\ IsFiniteSet(Waiting(k, l))
        /\ Cardinality(Waiting(k, l)) \in Nat
    <3>1. Waiting(k, l) \in SUBSET Task BY DEF Waiting
    <3>2. IsFiniteSet(Waiting(k, l)) BY <3>1, TasksAreFinite, FS_Subset
    <3> QED BY <3>2, FS_CardinalityType
  <2>2. CASE n <= Cardinality(Waiting(k, l)) BY <2>0, <2>1, <2>2 DEF Least
  <2>3. CASE ~(n <= Cardinality(Waiting(k, l)))
    <3>1. Cardinality(Waiting(k, l)) = Cardinality(W) BY <2>0, <2>1, <2>3 DEF Least
    <3>2. Waiting(k, l) = W BY <2>1, <3>1, FS_Subset
    <3> QED BY <1>6, <3>2 DEF Waiting
  <2> QED BY <2>2, <2>3
<1> QED BY <1>5, <1>6, <1>7

LEMMA SleepersKept ==
  ASSUME SleepersBlocked(k, call), OnlyWakes(k, k'),
         \A u \in Task : \/ call'[u] = call[u]
                         \/ k.event[u] \notin EventList
                         \/ /\ call'[u].op = call[u].op
                            /\ call'[u].next = call[u].next
                            /\ call'[u].at \in Leaving \cup {"try"}
  PROVE  SleepersBlocked(k', call')
<1> SUFFICES ASSUME NEW t \in Task, k'.event[t] \in EventList
             PROVE  /\ WaitList(call'[t].op) = k'.event[t]
                    /\ call'[t].next = "yield"
                    /\ call'[t].at \in Leaving \cup {"try"}
                    /\ k'.container[t] # "ready"
  BY DEF SleepersBlocked
<1>1. /\ k.event[t] \in EventList /\ k'.event[t] = k.event[t]
      /\ k'.container[t] = "ready" => k.container[t] = "ready"
  BY DEF OnlyWakes
<1>2. /\ WaitList(call[t].op) = k.event[t]
      /\ call[t].next = "yield"
      /\ call[t].at \in Leaving \cup {"try"}
      /\ k.container[t] # "ready"
  BY <1>1 DEF SleepersBlocked
<1>3. /\ call'[t].op = call[t].op /\ call'[t].next = call[t].next
      /\ call'[t].at \in Leaving \cup {"try"}
  BY <1>1, <1>2
<1> QED BY <1>1, <1>2, <1>3

\* The running task is awake, unless it blocks and is on its way to the switch.
LEMMA AwakeAt ==
  ASSUME Inductive, WakeUpsOwed, NEW t \in Task, NEW where, At(t, where),
         where \notin Leaving \/ call[t].next # "yield"
  PROVE  k.event[t] \notin EventList
<1>1. k.container[t] = "ready" BY AtFacts DEF Leaving
<1> QED BY <1>1 DEF WakeUpsOwed, SleepersBlocked

\* Whoever is awake stays so and, unless it is the one that moves, claims on.
LEMMA OthersClaim ==
  ASSUME OnlyWakes(k, k'), NEW l, NEW t,
         \A u \in Task \ {t} : call'[u] = call[u]
  PROVE  Claimants(k, call, l) \ {t} \subseteq Claimants(k', call', l)
  BY DEF OnlyWakes, Claimants

LEMMA ClaimantsKept ==
  ASSUME OnlyWakes(k, k'), NEW l, NEW t,
         \A u \in Task \ {t} : call'[u] = call[u],
         Retrying(call[t]) => call'[t].op = call[t].op /\ Retrying(call'[t])
  PROVE  Claimants(k, call, l) \subseteq Claimants(k', call', l)
  BY DEF OnlyWakes, Claimants

LEMMA WaitingKept ==
  ASSUME OnlyWakes(k, k'), NEW l \in EventList
  PROVE  Waiting(k', l) # {} => Waiting(k, l) # {}
  BY DEF OnlyWakes, Waiting

\* A sleeper that is woken becomes a claimant.
LEMMA WokenClaims ==
  ASSUME SleepersBlocked(k, call), NEW l \in EventList, NEW head \in Waiting(k, l),
         k'.event[head] \notin EventList,
         \/ call'[head] = call[head]
         \/ /\ call'[head].op = call[head].op
            /\ call'[head].next = call[head].next
            /\ call'[head].at \in Leaving \cup {"try"}
  PROVE  head \in Claimants(k', call', l) \ Claimants(k, call, l)
<1>1. /\ head \in Task /\ k.event[head] = l BY DEF Waiting
<1>2. /\ WaitList(call[head].op) = l
      /\ call[head].next = "yield"
      /\ call[head].at \in Leaving \cup {"try"}
  BY <1>1 DEF SleepersBlocked
<1>3. WaitList(call'[head].op) = l /\ Retrying(call'[head]) BY <1>2 DEF Retrying
<1> QED BY <1>1, <1>3 DEF Claimants

LEMMA ClaimedNone ==
  ASSUME NEW q, NEW c, NEW l, NEW n \in Int, n <= 0 \/ Waiting(q, l) = {}
  PROVE  Claimed(q, c, l, n)
  BY ClaimantsFinite DEF Claimed

Tx == "xTasksWaitingToReceive"
Rx == "xTasksWaitingToSend"

\* The quantities the invariant compares.
LEMMA OwedTypes ==
  ASSUME TypeOK
  PROVE  /\ uxMessagesWaiting \in Int /\ uxLength \in Int
         /\ Owed(cTxLock) \in Nat /\ Owed(cRxLock) \in Nat
         /\ cTxLock \in Int /\ cRxLock \in Int
         /\ cTxLock = queueUNLOCKED \/ cTxLock >= 0
         /\ cRxLock = queueUNLOCKED \/ cRxLock >= 0
         /\ 0 <= uxMessagesWaiting /\ uxMessagesWaiting <= uxLength
  BY DEF TypeOK, Owed, queueUNLOCKED, queueLOCKED_UNMODIFIED

\* The running task moves and the kernel only wakes.
LEMMA MoveOwed ==
  ASSUME Inductive, WakeUpsOwed, NEW t \in Task, NEW c,
         call' = [call EXCEPT ![t] = c], k'.pxCurrentTCB = t, OnlyWakes(k, k'),
         \/ k.event[t] \notin EventList
         \/ /\ c.op = call[t].op /\ c.next = call[t].next
            /\ c.at \in Leaving \cup {"try"},
         cTxLock' # queueUNLOCKED <=> c.at \in {"check", "place", "unlockTx"},
         cRxLock' # queueUNLOCKED <=>
           c.at \in {"check", "place", "unlockTx", "unlockRx"},
         c.at = "place" =>
           IF c.op = "send" THEN uxLength - uxMessagesWaiting' <= cRxLock'
                            ELSE uxMessagesWaiting' <= cTxLock',
         Claimed(k', call', Tx, uxMessagesWaiting' - Owed(cTxLock')),
         Claimed(k', call', Rx, uxLength - uxMessagesWaiting' - Owed(cRxLock'))
  PROVE  WakeUpsOwed'
<1>1. /\ call'[t] = c
      /\ \A u \in Task \ {t} : call'[u] = call[u]
  BY DEF Inductive, TypeOK
<1>2. SleepersBlocked(k', call')
  <2>1. SleepersBlocked(k, call) BY DEF WakeUpsOwed
  <2>2. \A u \in Task : \/ call'[u] = call[u]
                        \/ k.event[u] \notin EventList
                        \/ /\ call'[u].op = call[u].op
                           /\ call'[u].next = call[u].next
                           /\ call'[u].at \in Leaving \cup {"try"}
    BY <1>1
  <2> QED BY <2>1, <2>2, SleepersKept
<1>3. LockedByCaller' BY <1>1 DEF LockedByCaller, queueUNLOCKED
<1>4. MissesOnlyLocked' BY <1>1 DEF MissesOnlyLocked
<1> QED BY <1>2, <1>3, <1>4 DEF WakeUpsOwed, Tx, Rx

\* It moves where it claims no less, and the queue offers what it offered.
LEMMA QuietMove ==
  ASSUME Inductive, WakeUpsOwed, NEW t \in Task, NEW c,
         call' = [call EXCEPT ![t] = c], k'.pxCurrentTCB = t, OnlyWakes(k, k'),
         \/ k.event[t] \notin EventList
         \/ /\ c.op = call[t].op /\ c.next = call[t].next
            /\ c.at \in Leaving \cup {"try"},
         Retrying(call[t]) => c.op = call[t].op /\ Retrying(c),
         uxMessagesWaiting' = uxMessagesWaiting,
         Owed(cTxLock') = Owed(cTxLock), Owed(cRxLock') = Owed(cRxLock),
         cTxLock' # queueUNLOCKED <=> c.at \in {"check", "place", "unlockTx"},
         cRxLock' # queueUNLOCKED <=>
           c.at \in {"check", "place", "unlockTx", "unlockRx"},
         c.at = "place" =>
           IF c.op = "send" THEN uxLength - uxMessagesWaiting' <= cRxLock'
                            ELSE uxMessagesWaiting' <= cTxLock'
  PROVE  WakeUpsOwed'
<1>1. /\ call'[t] = c
      /\ \A u \in Task \ {t} : call'[u] = call[u]
  BY DEF Inductive, TypeOK
<1>2. \A l \in EventList : /\ Claimants(k, call, l) \subseteq Claimants(k', call', l)
                           /\ Waiting(k', l) # {} => Waiting(k, l) # {}
  <2> SUFFICES ASSUME NEW l \in EventList
               PROVE  /\ Claimants(k, call, l) \subseteq Claimants(k', call', l)
                      /\ Waiting(k', l) # {} => Waiting(k, l) # {}
    OBVIOUS
  <2>1. Retrying(call[t]) => call'[t].op = call[t].op /\ Retrying(call'[t]) BY <1>1
  <2>2. Claimants(k, call, l) \subseteq Claimants(k', call', l)
    BY <1>1, <2>1, ClaimantsKept
  <2> QED BY <2>2, WaitingKept
<1>3. Tx \in EventList /\ Rx \in EventList BY DEF Tx, Rx
<1> DEFINE m == uxMessagesWaiting - Owed(cTxLock)
           n == uxLength - uxMessagesWaiting - Owed(cRxLock)
<1>5. m \in Int /\ n \in Int BY OwedTypes DEF Inductive
<1>4. m <= m /\ n <= n BY <1>5
<1>6. Claimed(k, call, Tx, m) /\ Claimed(k, call, Rx, n) BY DEF WakeUpsOwed, Tx, Rx
<1>7. uxMessagesWaiting' - Owed(cTxLock') = m
      /\ uxLength - uxMessagesWaiting' - Owed(cRxLock') = n
  OBVIOUS
<1>8. Claimed(k', call', Tx, m) /\ Claimed(k', call', Rx, n)
  <2> HIDE DEF m, n
  <2> QED BY <1>2, <1>3, <1>4, <1>5, <1>6, ClaimedKept, Zenon
<1>9. /\ Claimed(k', call', Tx, uxMessagesWaiting' - Owed(cTxLock'))
      /\ Claimed(k', call', Rx, uxLength - uxMessagesWaiting' - Owed(cRxLock'))
  BY <1>7, <1>8
<1> QED BY <1>9, MoveOwed

\* Which locks the running task holds.
LEMMA LocksAt ==
  ASSUME Inductive, WakeUpsOwed, NEW t \in Task, NEW where, At(t, where)
  PROVE  /\ cTxLock # queueUNLOCKED <=> where \in {"check", "place", "unlockTx"}
         /\ cRxLock # queueUNLOCKED <=>
              where \in {"check", "place", "unlockTx", "unlockRx"}
         /\ OnlyWakes(k, k)
         /\ call[t].at = where /\ k.pxCurrentTCB = t
  BY DEF WakeUpsOwed, LockedByCaller, At, Running, OnlyWakes

LEMMA InvokeOwed ==
  ASSUME Inductive, WakeUpsOwed, NEW t \in Task, NEW op, NEW ticks,
         Invoke(t, op, ticks)
  PROVE  WakeUpsOwed'
<1> DEFINE c == [NoCall EXCEPT !.at = "try", !.op = op, !.xTicksToWait = ticks]
<1>1. /\ At(t, "idle") /\ k' = k /\ call' = [call EXCEPT ![t] = c]
      /\ uxMessagesWaiting' = uxMessagesWaiting
      /\ cTxLock' = cTxLock /\ cRxLock' = cRxLock
  BY DEF Invoke
<1>2. c.at = "try" BY DEF NoCall
<1> HIDE DEF c
<1>3. k.event[t] \notin EventList BY <1>1, AwakeAt DEF Leaving
<1>4. call[t].at = "idle" /\ k.pxCurrentTCB = t /\ OnlyWakes(k, k') BY <1>1, LocksAt
<1>5. cTxLock = queueUNLOCKED /\ cRxLock = queueUNLOCKED BY <1>1, LocksAt
<1> QED BY <1>1, <1>2, <1>3, <1>4, <1>5, QuietMove DEF Retrying, Leaving

\* A call that leaves "try" without blocking: nothing sleeps on what it found.
LEMMA BlockedOwed ==
  ASSUME Inductive, WakeUpsOwed, NEW t \in Task, NEW c, At(t, "try"),
         Blocked(call[t].op), call' = [call EXCEPT ![t] = c], k' = k,
         c.at \in {"idle", "suspend"}, uxMessagesWaiting' = uxMessagesWaiting,
         cTxLock' = cTxLock, cRxLock' = cRxLock
  PROVE  WakeUpsOwed'
<1>1. /\ k.event[t] \notin EventList
      /\ call[t].at = "try" /\ k.pxCurrentTCB = t /\ OnlyWakes(k, k')
      /\ cTxLock = queueUNLOCKED /\ cRxLock = queueUNLOCKED
  BY AwakeAt, LocksAt DEF Leaving
<1>2. \A u \in Task \ {t} : call'[u] = call[u] BY DEF Inductive, TypeOK
<1> DEFINE m == uxMessagesWaiting - Owed(cTxLock)
           n == uxLength - uxMessagesWaiting - Owed(cRxLock)
<1>3. m \in Int /\ n \in Int /\ m <= m /\ n <= n BY OwedTypes DEF Inductive
<1>4. Claimed(k, call, Tx, m) /\ Claimed(k, call, Rx, n) BY DEF WakeUpsOwed, Tx, Rx
<1>5. Tx \in EventList /\ Rx \in EventList BY DEF Tx, Rx
<1>6. Claimed(k', call', Tx, m)
  <2>1. CASE call[t].op = "send"
    <3>1. t \notin Claimants(k, call, Tx) BY <2>1 DEF Claimants, WaitList, Tx
    <3>2. Claimants(k, call, Tx) \ {t} \subseteq Claimants(k', call', Tx)
      BY <1>1, <1>2, OthersClaim
    <3>3. Claimants(k, call, Tx) \subseteq Claimants(k', call', Tx) BY <3>1, <3>2
    <3> HIDE DEF m
    <3> QED BY <1>1, <1>3, <1>4, <1>5, <3>3, WaitingKept, ClaimedKept
  <2>2. CASE call[t].op # "send"
    <3>1. m <= 0 BY <2>2, OwedTypes DEF Blocked, prvIsQueueEmpty, Inductive
    <3> HIDE DEF m
    <3> QED BY <1>3, <3>1, ClaimedNone
  <2> QED BY <2>1, <2>2
<1>7. Claimed(k', call', Rx, n)
  <2>1. CASE call[t].op # "send"
    <3>1. t \notin Claimants(k, call, Rx) BY <2>1 DEF Claimants, WaitList, Rx
    <3>2. Claimants(k, call, Rx) \ {t} \subseteq Claimants(k', call', Rx)
      BY <1>1, <1>2, OthersClaim
    <3>3. Claimants(k, call, Rx) \subseteq Claimants(k', call', Rx) BY <3>1, <3>2
    <3> HIDE DEF n
    <3> QED BY <1>1, <1>3, <1>4, <1>5, <3>3, WaitingKept, ClaimedKept
  <2>2. CASE call[t].op = "send"
    <3>1. n <= 0 BY <2>2, OwedTypes DEF Blocked, prvIsQueueFull, Inductive
    <3> HIDE DEF n
    <3> QED BY <1>3, <3>1, ClaimedNone
  <2> QED BY <2>1, <2>2
<1>8. /\ Claimed(k', call', Tx, uxMessagesWaiting' - Owed(cTxLock'))
      /\ Claimed(k', call', Rx, uxLength - uxMessagesWaiting' - Owed(cRxLock'))
  BY <1>6, <1>7
<1> HIDE DEF m, n
<1> QED BY <1>1, <1>8, MoveOwed

LEMMA FailAtOnceOwed ==
  ASSUME Inductive, WakeUpsOwed, NEW t \in Task, FailAtOnce(t)
  PROVE  WakeUpsOwed'
  BY NoCallType, BlockedOwed DEF FailAtOnce, Return

LEMMA PrepareToBlockOwed ==
  ASSUME Inductive, WakeUpsOwed, NEW t \in Task, PrepareToBlock(t)
  PROVE  WakeUpsOwed'
<1> DEFINE stamped == IF call[t].xEntryTimeSet THEN call[t]
                      ELSE vTaskInternalSetTimeOutState(k, call[t])
           c == [stamped EXCEPT !.at = "suspend", !.xEntryTimeSet = TRUE]
<1>1. /\ At(t, "try") /\ Blocked(call[t].op) /\ k' = k
      /\ call' = [call EXCEPT ![t] = c]
      /\ uxMessagesWaiting' = uxMessagesWaiting
      /\ cTxLock' = cTxLock /\ cRxLock' = cRxLock
  BY DEF PrepareToBlock
<1>2. c.at = "suspend"
  <2>1. call[t] \in Call BY <1>1, AtFacts
  <2> QED BY <2>1 DEF vTaskInternalSetTimeOutState, Call
<1> HIDE DEF c
<1> QED BY <1>1, <1>2, BlockedOwed

LEMMA SuspendAllOwed ==
  ASSUME Inductive, WakeUpsOwed, NEW t \in Task, SuspendAll(t)
  PROVE  WakeUpsOwed'
<1> DEFINE c == Moved(call[t], "lock")
<1>1. /\ At(t, "suspend") /\ GoTo(t, "lock") /\ k' = vTaskSuspendAll(k)
      /\ uxMessagesWaiting' = uxMessagesWaiting
      /\ cTxLock' = cTxLock /\ cRxLock' = cRxLock
  BY DEF SuspendAll
<1>2. call' = [call EXCEPT ![t] = c] BY <1>1, GoToMoved
<1>3. c.at = "lock" BY <1>1, AtFacts, MovedCall DEF Where
<1> HIDE DEF c
<1>4. /\ k.event[t] \notin EventList
      /\ call[t].at = "suspend" /\ k.pxCurrentTCB = t
      /\ cTxLock = queueUNLOCKED /\ cRxLock = queueUNLOCKED
  BY <1>1, AwakeAt, LocksAt DEF Leaving
<1>5. OnlyWakes(k, k') /\ k'.pxCurrentTCB = k.pxCurrentTCB
  <2>1. k'.event = k.event /\ k'.container = k.container
        /\ k'.pxCurrentTCB = k.pxCurrentTCB
    BY <1>1, AtFacts DEF vTaskSuspendAll, KernelState
  <2> QED BY <2>1, OnlyWakesSame
<1> QED BY <1>1, <1>2, <1>3, <1>4, <1>5, QuietMove DEF Retrying, Leaving

LEMMA LockQueueOwed ==
  ASSUME Inductive, WakeUpsOwed, NEW t \in Task, prvLockQueue(t)
  PROVE  WakeUpsOwed'
<1> DEFINE c == Moved(call[t], "check")
<1>1. /\ At(t, "lock") /\ GoTo(t, "check") /\ k' = k
      /\ uxMessagesWaiting' = uxMessagesWaiting
  BY DEF prvLockQueue
<1>2. call' = [call EXCEPT ![t] = c] BY <1>1, GoToMoved
<1>3. c.at = "check" BY <1>1, AtFacts, MovedCall DEF Where
<1> HIDE DEF c
<1>4. /\ k.event[t] \notin EventList
      /\ call[t].at = "lock" /\ k.pxCurrentTCB = t /\ OnlyWakes(k, k')
      /\ cTxLock = queueUNLOCKED /\ cRxLock = queueUNLOCKED
  BY <1>1, AwakeAt, LocksAt DEF Leaving
<1>5. /\ cTxLock' # queueUNLOCKED /\ cRxLock' # queueUNLOCKED
      /\ Owed(cTxLock') = Owed(cTxLock) /\ Owed(cRxLock') = Owed(cRxLock)
  BY <1>4 DEF prvLockQueue, Owed, queueUNLOCKED, queueLOCKED_UNMODIFIED
<1> QED BY <1>1, <1>2, <1>3, <1>4, <1>5, QuietMove DEF Retrying, Leaving

LEMMA CheckTimeOutOwed ==
  ASSUME Inductive, WakeUpsOwed, NEW t \in Task, CheckTimeOut(t)
  PROVE  WakeUpsOwed'
<1> DEFINE d == xTaskCheckForTimeOut(k, call[t])
<1>1. /\ At(t, "check") /\ k' = k
      /\ uxMessagesWaiting' = uxMessagesWaiting
      /\ cTxLock' = cTxLock /\ cRxLock' = cRxLock
  BY DEF CheckTimeOut
<1>2. PICK c : /\ call' = [call EXCEPT ![t] = c]
               /\ \/ c = [d EXCEPT !.at = "unlockTx", !.next = "timeout"]
                  \/ /\ c = [d EXCEPT !.at = "place", !.next = "yield"]
                     /\ Blocked(d.op)
                  \/ c = [d EXCEPT !.at = "unlockTx", !.next = "loop"]
  BY DEF CheckTimeOut
<1>3. d \in Call BY <1>1, AtFacts, CheckedCall
<1> HIDE DEF d
<1>4. /\ c.at \in {"unlockTx", "place"} /\ c.op = d.op
      /\ c.at = "place" => Blocked(c.op)
  BY <1>2, <1>3 DEF Call
<1>5. /\ k.event[t] \notin EventList
      /\ call[t].at = "check" /\ k.pxCurrentTCB = t /\ OnlyWakes(k, k')
      /\ cTxLock # queueUNLOCKED /\ cRxLock # queueUNLOCKED
  BY <1>1, AwakeAt, LocksAt DEF Leaving
<1>6. c.at = "place" =>
        IF c.op = "send" THEN uxLength - uxMessagesWaiting <= cRxLock
                         ELSE uxMessagesWaiting <= cTxLock
  BY <1>4, <1>5, OwedTypes DEF Blocked, prvIsQueueFull, prvIsQueueEmpty, Inductive
<1> QED BY <1>1, <1>2, <1>4, <1>5, <1>6, QuietMove DEF Retrying, Leaving

\* Whom the blocking of the caller puts where.
LEMMA PlaceLists ==
  ASSUME NEW q \in KernelState, NEW l, NEW ticks
  PROVE  LET r == vTaskPlaceOnEventList(q, l, ticks)
         IN  \A t \in Task :
               /\ r.event[t] = IF t = q.pxCurrentTCB THEN l ELSE q.event[t]
               /\ t = q.pxCurrentTCB => r.container[t] # "ready"
               /\ t # q.pxCurrentTCB => r.container[t] = q.container[t]
<1> DEFINE me == q.pxCurrentTCB
           e == [q.event EXCEPT ![me] = l]
           p == [q EXCEPT !.event = e]
           wake == (p.xTickCount + ticks) % TickMod
           r == vTaskPlaceOnEventList(q, l, ticks)
<1>1. /\ p.pxCurrentTCB = me /\ p.container = q.container /\ p.event = e
      /\ p.xItemValue = q.xItemValue
  BY DEF KernelState
<1>2. \A t \in Task : e[t] = IF t = me THEN l ELSE q.event[t] BY DEF KernelState
<1>3. r = prvAddCurrentTaskToDelayedList(p, ticks, TRUE) BY DEF vTaskPlaceOnEventList
<1>4. \/ r = [p EXCEPT !.container[me] = "suspended"]
      \/ r = [p EXCEPT !.container[me] = "overflow", !.xItemValue[me] = wake]
      \/ r = [p EXCEPT !.container[me] = "delayed", !.xItemValue[me] = wake,
                       !.xNextTaskUnblockTime = IF wake < @ THEN wake ELSE @]
  BY <1>1, <1>3, Zenon DEF prvAddCurrentTaskToDelayedList
<1> HIDE DEF wake, e, r
<1>6. /\ r.event = e
      /\ \E s \in {"suspended", "overflow", "delayed"} :
           r.container = [q.container EXCEPT ![me] = s]
  <2>1. CASE r = [p EXCEPT !.container[me] = "suspended"] BY <2>1 DEF KernelState
  <2>2. CASE r = [p EXCEPT !.container[me] = "overflow", !.xItemValue[me] = wake]
    BY <2>2 DEF KernelState
  <2>3. CASE r = [p EXCEPT !.container[me] = "delayed", !.xItemValue[me] = wake,
                           !.xNextTaskUnblockTime = IF wake < @ THEN wake ELSE @]
    BY <2>3 DEF KernelState
  <2> QED BY <1>4, <2>1, <2>2, <2>3
<1>7. \A t \in Task : /\ r.event[t] = IF t = q.pxCurrentTCB THEN l ELSE q.event[t]
                      /\ t = q.pxCurrentTCB => r.container[t] # "ready"
                      /\ t # q.pxCurrentTCB => r.container[t] = q.container[t]
  BY <1>2, <1>6 DEF KernelState
<1> QED BY <1>7 DEF r

\* The caller joins the sleepers: what came since it looked is owed by the
\* caller itself, which has the queue locked.
LEMMA PlaceOwed ==
  ASSUME Inductive, WakeUpsOwed, NEW t \in Task, PlaceOnEventList(t)
  PROVE  WakeUpsOwed'
<1> DEFINE c == Moved(call[t], "unlockTx")
           w == WaitList(call[t].op)
           ticks == call[t].xTicksToWait
<1>1. /\ At(t, "place") /\ GoTo(t, "unlockTx")
      /\ k' = vTaskPlaceOnEventList(k, w, ticks)
      /\ uxMessagesWaiting' = uxMessagesWaiting
      /\ cTxLock' = cTxLock /\ cRxLock' = cRxLock
  BY DEF PlaceOnEventList
<1>2. /\ call'[t] = c
      /\ \A u \in Task \ {t} : call'[u] = call[u]
  <2>1. call' = [call EXCEPT ![t] = c] BY <1>1, GoToMoved
  <2> HIDE DEF c
  <2> QED BY <2>1 DEF Inductive, TypeOK
<1>3. c.at = "unlockTx" /\ c.op = call[t].op /\ c.next = "yield"
  <2>1. call[t].next = "yield" BY <1>1, AtFacts DEF Inductive, CallProgress
  <2> QED BY <1>1, <2>1, AtFacts, MovedCall DEF Where
<1> HIDE DEF c
<1>4. /\ k.event[t] \notin EventList
      /\ call[t].at = "place" /\ k.pxCurrentTCB = t
      /\ cTxLock # queueUNLOCKED /\ cRxLock # queueUNLOCKED
  BY <1>1, AwakeAt, LocksAt DEF Leaving
<1>5. w \in EventList BY DEF WaitList
<1>6. /\ k'.event[t] = w /\ k'.container[t] # "ready"
      /\ \A u \in Task \ {t} : /\ k'.event[u] = k.event[u]
                               /\ k'.container[u] = k.container[u]
  <2> HIDE DEF w, ticks
  <2> QED BY <1>1, <1>4, AtFacts, PlaceLists
<1>7. k'.pxCurrentTCB = t
  <2>1. ticks \in Tick BY <1>1, AtFacts DEF Call
  <2> HIDE DEF w, ticks
  <2> QED BY <1>1, <1>5, <2>1, AtFacts, PlacePreserves
<1>8. SleepersBlocked(k', call')
  <2> SUFFICES ASSUME NEW u \in Task, k'.event[u] \in EventList
               PROVE  /\ WaitList(call'[u].op) = k'.event[u]
                      /\ call'[u].next = "yield"
                      /\ call'[u].at \in Leaving \cup {"try"}
                      /\ k'.container[u] # "ready"
    BY DEF SleepersBlocked
  <2>1. CASE u = t BY <1>2, <1>3, <1>6, <2>1 DEF Leaving
  <2>2. CASE u # t BY <1>2, <1>6, <2>2 DEF WakeUpsOwed, SleepersBlocked
  <2> QED BY <2>1, <2>2
<1>9. \A l \in EventList : Claimants(k, call, l) \subseteq Claimants(k', call', l)
  <2>1. t \notin Claimants(k, call, "xTasksWaitingToSend")
        /\ t \notin Claimants(k, call, "xTasksWaitingToReceive")
    BY <1>4 DEF Claimants, Retrying, Leaving
  <2> QED BY <1>2, <1>6, <2>1 DEF Claimants
<1>10. \A l \in EventList : l # w /\ Waiting(k', l) # {} => Waiting(k, l) # {}
  BY <1>6 DEF Waiting
<1> DEFINE m == uxMessagesWaiting - Owed(cTxLock)
           n == uxLength - uxMessagesWaiting - Owed(cRxLock)
<1>11. m \in Int /\ n \in Int /\ m <= m /\ n <= n BY OwedTypes DEF Inductive
<1>12. Claimed(k, call, Tx, m) /\ Claimed(k, call, Rx, n) BY DEF WakeUpsOwed, Tx, Rx
<1>13. Tx \in EventList /\ Rx \in EventList BY DEF Tx, Rx
<1>14. IF w = Rx THEN n <= 0 ELSE m <= 0
  <2>1. IF call[t].op = "send" THEN uxLength - uxMessagesWaiting <= cRxLock
                               ELSE uxMessagesWaiting <= cTxLock
    BY <1>4 DEF WakeUpsOwed, MissesOnlyLocked
  <2>2. Owed(cTxLock) = cTxLock /\ Owed(cRxLock) = cRxLock
    BY <1>4, OwedTypes DEF Inductive, Owed, queueLOCKED_UNMODIFIED
  <2> QED BY <2>1, <2>2, OwedTypes DEF WaitList, Inductive, Rx
<1>15. w = Tx \/ w = Rx BY DEF WaitList, Tx, Rx
<1>16. Tx # Rx BY DEF Tx, Rx
<1> HIDE DEF m, n, w
<1>17. Claimed(k', call', Tx, m)
  <2>1. CASE w = Tx BY <1>11, <1>14, <1>16, <2>1, ClaimedNone
  <2>2. CASE w # Tx
    <3>1. Waiting(k', Tx) # {} => Waiting(k, Tx) # {} BY <1>10, <1>13, <2>2
    <3>2. Claimants(k, call, Tx) \subseteq Claimants(k', call', Tx) BY <1>9, <1>13
    <3> QED BY <1>11, <1>12, <3>1, <3>2, ClaimedKept
  <2> QED BY <2>1, <2>2
<1>18. Claimed(k', call', Rx, n)
  <2>1. CASE w = Rx BY <1>11, <1>14, <2>1, ClaimedNone
  <2>2. CASE w # Rx
    <3>1. Waiting(k', Rx) # {} => Waiting(k, Rx) # {} BY <1>10, <1>13, <2>2
    <3>2. Claimants(k, call, Rx) \subseteq Claimants(k', call', Rx) BY <1>9, <1>13
    <3> QED BY <1>11, <1>12, <3>1, <3>2, ClaimedKept
  <2> QED BY <2>1, <2>2
<1>19. LockedByCaller' BY <1>1, <1>2, <1>3, <1>4, <1>7 DEF LockedByCaller, queueUNLOCKED
<1>20. MissesOnlyLocked' BY <1>2, <1>3, <1>7 DEF MissesOnlyLocked
<1> QED BY <1>1, <1>8, <1>17, <1>18, <1>19, <1>20 DEF WakeUpsOwed, Tx, Rx, m, n

\* prvUnlockQueue pays what is owed for one of the lists, and the caller moves on.
LEMMA Paid ==
  ASSUME Inductive, WakeUpsOwed, NEW t \in Task, NEW c,
         call' = [call EXCEPT ![t] = c], k.pxCurrentTCB = t,
         c.op = call[t].op, c.next = call[t].next,
         c.at \in Leaving, call[t].at \in Leaving,
         NEW l \in EventList, NEW lock \in Nat,
         IF lock > 0 THEN WakeFor(l, lock) ELSE k' = k,
         NEW m \in Int, NEW n \in Int, Claimed(k, call, l, m), n <= m + lock
  PROVE  /\ OnlyWakes(k, k') /\ k'.pxCurrentTCB = t
         /\ \A u \in EventList : /\ Claimants(k, call, u) \subseteq Claimants(k', call', u)
                                 /\ Waiting(k', u) # {} => Waiting(k, u) # {}
         /\ Claimed(k', call', l, n)
<1>1. /\ call'[t] = c /\ k \in KernelState
      /\ \A u \in Task \ {t} : call'[u] = call[u]
  BY DEF Inductive, TypeOK
<1>2. Retrying(call[t]) => call'[t].op = call[t].op /\ Retrying(call'[t])
  BY <1>1 DEF Retrying, Leaving
<1>3. \A u \in Task : \/ call'[u] = call[u]
                      \/ /\ call'[u].op = call[u].op
                         /\ call'[u].next = call[u].next
                         /\ call'[u].at \in Leaving \cup {"try"}
  BY <1>1
<1>4. ASSUME OnlyWakes(k, k')
      PROVE  \A u \in EventList :
               /\ Claimants(k, call, u) \subseteq Claimants(k', call', u)
               /\ Waiting(k', u) # {} => Waiting(k, u) # {}
  <2> SUFFICES ASSUME NEW u \in EventList
               PROVE  /\ Claimants(k, call, u) \subseteq Claimants(k', call', u)
                      /\ Waiting(k', u) # {} => Waiting(k, u) # {}
    OBVIOUS
  <2>1. Claimants(k, call, u) \subseteq Claimants(k', call', u)
    BY <1>1, <1>2, <1>4, ClaimantsKept
  <2> QED BY <1>4, <2>1, WaitingKept
<1>5. CASE lock > 0
  <2>1. WakeFor(l, lock) BY <1>5
  <2>2. PICK W \in SUBSET Waiting(k, l) :
          /\ OnlyWakes(k, k')
          /\ \A u \in W : k'.event[u] \notin EventList
          /\ Waiting(k', l) = {} \/ Cardinality(W) = lock
    BY <1>1, <2>1, WakeForWakes
  <2>3. k'.pxCurrentTCB = t
    <3>1. SwitchAskedFor(k) BY DEF Inductive
    <3> QED BY <1>1, <2>1, <3>1, WakeForPreserves DEF Undisturbed
  <2>4. \A u \in W : u \in Claimants(k', call', l) \ Claimants(k, call, l)
    <3> SUFFICES ASSUME NEW u \in W
                 PROVE  u \in Claimants(k', call', l) \ Claimants(k, call, l)
      OBVIOUS
    <3>1. SleepersBlocked(k, call) BY DEF WakeUpsOwed
    <3>2. u \in Waiting(k, l) /\ u \in Task /\ k'.event[u] \notin EventList
      BY <2>2 DEF Waiting
    <3> QED BY <1>3, <3>1, <3>2, WokenClaims
  <2>5. /\ Claimants(k, call, l) \subseteq Claimants(k', call', l)
        /\ Waiting(k', l) # {} => Waiting(k, l) # {}
    BY <1>4, <2>2
  <2>6. CASE Waiting(k', l) = {} BY <1>4, <2>2, <2>3, <2>6, ClaimedNone
  <2>7. CASE Cardinality(W) = lock
    <3> DEFINE none == {}
    <3>1. Cardinality(none) = 0 BY FS_EmptySet
    <3>2. n - Cardinality(W) <= m - Cardinality(none) BY <2>7, <3>1
    <3>3. /\ none \in SUBSET Claimants(k, call, l)
          /\ W \in SUBSET Claimants(k', call', l)
          /\ W \cap Claimants(k, call, l) = {}
          /\ Claimants(k, call, l) \ none \subseteq Claimants(k', call', l)
      BY <2>4, <2>5
    <3> HIDE DEF none
    <3>4. Claimed(k', call', l, n) BY <2>5, <3>2, <3>3, ClaimedMoves
    <3> QED BY <1>4, <2>2, <2>3, <3>4
  <2> QED BY <2>2, <2>6, <2>7
<1>6. CASE ~(lock > 0)
  <2>1. k' = k /\ n <= m BY <1>6
  <2>2. OnlyWakes(k, k') /\ k'.pxCurrentTCB = t BY <2>1 DEF OnlyWakes
  <2>3. /\ Claimants(k, call, l) \subseteq Claimants(k', call', l)
        /\ Waiting(k', l) # {} => Waiting(k, l) # {}
    BY <1>4, <2>2
  <2>4. Claimed(k', call', l, n) BY <2>1, <2>3, ClaimedKept
  <2> QED BY <1>4, <2>2, <2>4
<1> QED BY <1>5, <1>6

LEMMA UnlockTxOwed ==
  ASSUME Inductive, WakeUpsOwed, NEW t \in Task, UnlockTx(t)
  PROVE  WakeUpsOwed'
<1> DEFINE c == Moved(call[t], "unlockRx")
           m == uxMessagesWaiting - Owed(cTxLock)
           n == uxLength - uxMessagesWaiting - Owed(cRxLock)
<1>1. /\ At(t, "unlockTx") /\ GoTo(t, "unlockRx")
      /\ uxMessagesWaiting' = uxMessagesWaiting
      /\ cTxLock' = queueUNLOCKED /\ cRxLock' = cRxLock
  BY DEF UnlockTx
<1>2. call' = [call EXCEPT ![t] = c] BY <1>1, GoToMoved
<1>3. c.at = "unlockRx" /\ c.op = call[t].op /\ c.next = call[t].next
  BY <1>1, AtFacts, MovedCall DEF Where
<1> HIDE DEF c
<1>4. /\ call[t].at = "unlockTx" /\ k.pxCurrentTCB = t
      /\ cTxLock # queueUNLOCKED /\ cRxLock # queueUNLOCKED
  BY <1>1, LocksAt
<1>5. Tx \in EventList /\ Rx \in EventList BY DEF Tx, Rx
<1>6. /\ m \in Int /\ n \in Int /\ n <= n /\ uxMessagesWaiting \in Int
      /\ Owed(cTxLock') = 0 /\ Owed(cTxLock) = cTxLock /\ cTxLock \in Nat
      /\ uxMessagesWaiting <= m + cTxLock
  BY <1>1, <1>4, OwedTypes
  DEF Inductive, Owed, queueUNLOCKED, queueLOCKED_UNMODIFIED
<1>7. Claimed(k, call, Tx, m) /\ Claimed(k, call, Rx, n) BY DEF WakeUpsOwed, Tx, Rx
<1>8. IF cTxLock > 0 THEN WakeFor(Tx, cTxLock) ELSE k' = k
  BY DEF UnlockTx, queueLOCKED_UNMODIFIED, Tx
<1>9. uxMessagesWaiting' - Owed(cTxLock') = uxMessagesWaiting
      /\ uxLength - uxMessagesWaiting' - Owed(cRxLock') = n
  BY <1>1, <1>6
<1>10. c.at \in Leaving /\ call[t].at \in Leaving BY <1>3, <1>4 DEF Leaving
<1> HIDE DEF m, n
<1>11. /\ OnlyWakes(k, k') /\ k'.pxCurrentTCB = t
       /\ \A u \in EventList : /\ Claimants(k, call, u) \subseteq Claimants(k', call', u)
                               /\ Waiting(k', u) # {} => Waiting(k, u) # {}
       /\ Claimed(k', call', Tx, uxMessagesWaiting)
  BY <1>2, <1>3, <1>4, <1>5, <1>6, <1>7, <1>8, <1>10, Paid
<1>12. Claimed(k', call', Rx, n) BY <1>5, <1>6, <1>7, <1>11, ClaimedKept
<1>13. /\ Claimed(k', call', Tx, uxMessagesWaiting' - Owed(cTxLock'))
       /\ Claimed(k', call', Rx, uxLength - uxMessagesWaiting' - Owed(cRxLock'))
  BY <1>9, <1>11, <1>12
<1> QED BY <1>1, <1>2, <1>3, <1>4, <1>10, <1>11, <1>13, MoveOwed

LEMMA UnlockRxOwed ==
  ASSUME Inductive, WakeUpsOwed, NEW t \in Task, UnlockRx(t)
  PROVE  WakeUpsOwed'
<1> DEFINE c == Moved(call[t], "resume")
           m == uxMessagesWaiting - Owed(cTxLock)
           n == uxLength - uxMessagesWaiting - Owed(cRxLock)
           free == uxLength - uxMessagesWaiting
<1>1. /\ At(t, "unlockRx") /\ GoTo(t, "resume")
      /\ uxMessagesWaiting' = uxMessagesWaiting
      /\ cRxLock' = queueUNLOCKED /\ cTxLock' = cTxLock
  BY DEF UnlockRx
<1>2. call' = [call EXCEPT ![t] = c] BY <1>1, GoToMoved
<1>3. c.at = "resume" /\ c.op = call[t].op /\ c.next = call[t].next
  BY <1>1, AtFacts, MovedCall DEF Where
<1> HIDE DEF c
<1>4. /\ call[t].at = "unlockRx" /\ k.pxCurrentTCB = t
      /\ cTxLock = queueUNLOCKED /\ cRxLock # queueUNLOCKED
  BY <1>1, LocksAt
<1>5. Tx \in EventList /\ Rx \in EventList BY DEF Tx, Rx
<1>6. /\ m \in Int /\ n \in Int /\ m <= m /\ free \in Int
      /\ Owed(cRxLock') = 0 /\ Owed(cRxLock) = cRxLock /\ cRxLock \in Nat
      /\ free <= n + cRxLock
  BY <1>1, <1>4, OwedTypes
  DEF Inductive, Owed, queueUNLOCKED, queueLOCKED_UNMODIFIED
<1>7. Claimed(k, call, Tx, m) /\ Claimed(k, call, Rx, n) BY DEF WakeUpsOwed, Tx, Rx
<1>8. IF cRxLock > 0 THEN WakeFor(Rx, cRxLock) ELSE k' = k
  BY DEF UnlockRx, queueLOCKED_UNMODIFIED, Rx
<1>9. uxMessagesWaiting' - Owed(cTxLock') = m
      /\ uxLength - uxMessagesWaiting' - Owed(cRxLock') = free
  BY <1>1, <1>6
<1>10. c.at \in Leaving /\ call[t].at \in Leaving BY <1>3, <1>4 DEF Leaving
<1> HIDE DEF m, n, free
<1>11. /\ OnlyWakes(k, k') /\ k'.pxCurrentTCB = t
       /\ \A u \in EventList : /\ Claimants(k, call, u) \subseteq Claimants(k', call', u)
                               /\ Waiting(k', u) # {} => Waiting(k, u) # {}
       /\ Claimed(k', call', Rx, free)
  BY <1>2, <1>3, <1>4, <1>5, <1>6, <1>7, <1>8, <1>10, Paid
<1>12. Claimed(k', call', Tx, m) BY <1>5, <1>6, <1>7, <1>11, ClaimedKept
<1>13. /\ Claimed(k', call', Tx, uxMessagesWaiting' - Owed(cTxLock'))
       /\ Claimed(k', call', Rx, uxLength - uxMessagesWaiting' - Owed(cRxLock'))
  BY <1>9, <1>11, <1>12
<1> QED BY <1>1, <1>2, <1>3, <1>4, <1>10, <1>11, <1>13, MoveOwed

LEMMA ResumeAllOwed ==
  ASSUME Inductive, WakeUpsOwed, NEW t \in Task, ResumeAll(t)
  PROVE  WakeUpsOwed'
<1> DEFINE c == Moved(call[t], "ticks")
<1>1. /\ At(t, "resume") /\ GoTo(t, "ticks") /\ k' = ReleaseScheduler(k)
      /\ uxMessagesWaiting' = uxMessagesWaiting
      /\ cTxLock' = cTxLock /\ cRxLock' = cRxLock
  BY DEF ResumeAll
<1>2. call' = [call EXCEPT ![t] = c] BY <1>1, GoToMoved
<1>3. c.at = "ticks" /\ c.op = call[t].op /\ c.next = call[t].next
  BY <1>1, AtFacts, MovedCall DEF Where
<1> HIDE DEF c
<1>4. /\ call[t].at = "resume" /\ k.pxCurrentTCB = t
      /\ cTxLock = queueUNLOCKED /\ cRxLock = queueUNLOCKED
  BY <1>1, LocksAt
<1>5. OnlyWakes(k, k') /\ k'.pxCurrentTCB = t
  BY <1>1, <1>4, AtFacts, ReleaseOnlyWakes, ReleasePreserves
  DEF Suspended, Undisturbed
<1> QED BY <1>1, <1>2, <1>3, <1>4, <1>5, QuietMove DEF Retrying, Leaving

LEMMA ResumeAllReturnOwed ==
  ASSUME Inductive, WakeUpsOwed, NEW t \in Task, ResumeAllReturn(t)
  PROVE  WakeUpsOwed'
<1>1. /\ At(t, "ticks") /\ k' \in {Yield(k), k}
      /\ uxMessagesWaiting' = uxMessagesWaiting
      /\ cTxLock' = cTxLock /\ cRxLock' = cRxLock
  BY DEF ResumeAllReturn
<1>2. /\ call[t].at = "ticks" /\ k.pxCurrentTCB = t
      /\ cTxLock = queueUNLOCKED /\ cRxLock = queueUNLOCKED
  BY <1>1, LocksAt
<1>3. OnlyWakes(k, k') /\ k'.pxCurrentTCB = t
  BY <1>1, <1>2, AtFacts, YieldOnlyWakes, YieldPreserves DEF Undisturbed
<1>4. CASE call[t].next # "timeout"
  <2> DEFINE c == Moved(call[t], "try")
  <2>1. call' = [call EXCEPT ![t] = c] BY <1>4, GoToMoved DEF ResumeAllReturn
  <2>2. c.at = "try" /\ c.op = call[t].op /\ c.next = call[t].next
    BY <1>1, AtFacts, MovedCall DEF Where
  <2> HIDE DEF c
  <2> QED BY <1>1, <1>2, <1>3, <2>1, <2>2, QuietMove DEF Retrying
<1>5. CASE call[t].next = "timeout"
  <2>1. PICK c : call' = [call EXCEPT ![t] = c] /\ c.at \in {"idle", "recheck"}
    <3>1. CASE call[t].op = "send" BY <1>5, <3>1, NoCallType DEF ResumeAllReturn, Return
    <3>2. CASE call[t].op # "send"
      <4> DEFINE c == Moved(call[t], "recheck")
      <4>1. call' = [call EXCEPT ![t] = c] BY <1>5, <3>2, GoToMoved DEF ResumeAllReturn
      <4>2. c.at = "recheck" BY <1>1, AtFacts, MovedCall DEF Where
      <4> HIDE DEF c
      <4> QED BY <4>1, <4>2
    <3> QED BY <3>1, <3>2
  <2>2. k.event[t] \notin EventList BY <1>1, <1>5, AwakeAt
  <2>3. ~Retrying(call[t]) BY <1>2, <1>5 DEF Retrying
  <2> QED BY <1>1, <1>2, <1>3, <2>1, <2>2, <2>3, QuietMove
<1> QED BY <1>4, <1>5

LEMMA RecheckOwed ==
  ASSUME Inductive, WakeUpsOwed, NEW t \in Task, RecheckAfterTimeOut(t)
  PROVE  WakeUpsOwed'
<1>1. /\ At(t, "recheck") /\ k' = k
      /\ uxMessagesWaiting' = uxMessagesWaiting
      /\ cTxLock' = cTxLock /\ cRxLock' = cRxLock
  BY DEF RecheckAfterTimeOut
<1>2. PICK c : call' = [call EXCEPT ![t] = c] /\ c.at \in {"idle", "try"}
  <2>1. CASE prvIsQueueEmpty BY <2>1, NoCallType DEF RecheckAfterTimeOut, Return
  <2>2. CASE ~prvIsQueueEmpty
    <3> DEFINE c == Moved(call[t], "try")
    <3>1. call' = [call EXCEPT ![t] = c] BY <2>2, GoToMoved DEF RecheckAfterTimeOut
    <3>2. c.at = "try" BY <1>1, AtFacts, MovedCall DEF Where
    <3> HIDE DEF c
    <3> QED BY <3>1, <3>2
  <2> QED BY <2>1, <2>2
<1>3. /\ k.event[t] \notin EventList
      /\ call[t].at = "recheck" /\ k.pxCurrentTCB = t /\ OnlyWakes(k, k')
      /\ cTxLock = queueUNLOCKED /\ cRxLock = queueUNLOCKED
  BY <1>1, AwakeAt, LocksAt DEF Leaving
<1>4. ~Retrying(call[t]) BY <1>3 DEF Retrying, Leaving
<1> QED BY <1>1, <1>2, <1>3, <1>4, QuietMove

--------------------
\* Steps in which no call moves.

\* The kernel only wakes; what the queue offers and owes changes in step.
LEMMA StillOwed ==
  ASSUME Inductive, WakeUpsOwed, call' = call,
         k'.pxCurrentTCB = k.pxCurrentTCB, OnlyWakes(k, k'),
         cTxLock' # queueUNLOCKED <=> cTxLock # queueUNLOCKED,
         cRxLock' # queueUNLOCKED <=> cRxLock # queueUNLOCKED,
         MissesOnlyLocked',
         Claimed(k', call', Tx, uxMessagesWaiting' - Owed(cTxLock')),
         Claimed(k', call', Rx, uxLength - uxMessagesWaiting' - Owed(cRxLock'))
  PROVE  WakeUpsOwed'
<1>1. SleepersBlocked(k', call') BY SleepersKept DEF WakeUpsOwed
<1>2. LockedByCaller' BY DEF WakeUpsOwed, LockedByCaller, queueUNLOCKED
<1> QED BY <1>1, <1>2 DEF WakeUpsOwed, Tx, Rx

LEMMA StillClaimed ==
  ASSUME call' = call, OnlyWakes(k, k'), NEW l \in EventList,
         NEW m \in Int, NEW n \in Int, n <= m, Claimed(k, call, l, m)
  PROVE  Claimed(k', call', l, n)
<1>1. Claimants(k, call, l) \subseteq Claimants(k', call', l) BY ClaimantsKept
<1>2. Waiting(k', l) # {} => Waiting(k, l) # {} BY WaitingKept
<1> QED BY <1>1, <1>2, ClaimedKept

\* The head of a list is woken, if there is one, for the one more it is owed.
LEMMA NowClaimed ==
  ASSUME WakeUpsOwed, call' = call, NEW l \in EventList,
         NEW m \in Int, NEW n \in Int, n <= m + 1, Claimed(k, call, l, m),
         \/ Waiting(k', l) = {}
         \/ \E head \in Waiting(k, l) :
              OnlyWakes(k, k') /\ k'.event[head] \notin EventList
  PROVE  Claimed(k', call', l, n)
<1>1. CASE Waiting(k', l) = {} BY <1>1, ClaimedNone
<1>2. ASSUME NEW head \in Waiting(k, l),
             OnlyWakes(k, k'), k'.event[head] \notin EventList
      PROVE  Claimed(k', call', l, n)
  <2>1. Claimants(k, call, l) \subseteq Claimants(k', call', l) BY <1>2, ClaimantsKept
  <2>2. Waiting(k', l) # {} => Waiting(k, l) # {} BY <1>2, WaitingKept
  <2>3. head \in Claimants(k', call', l) \ Claimants(k, call, l)
    BY <1>2, WokenClaims DEF WakeUpsOwed
  <2> QED BY <2>1, <2>2, <2>3, ClaimedWoken
<1> QED BY <1>1, <1>2

\* Waking the head of a list, if there is one.
LEMMA HeadWoken ==
  ASSUME Inductive, NEW l \in EventList, FromISR(l)
  PROVE  /\ OnlyWakes(k, k') /\ k'.pxCurrentTCB = k.pxCurrentTCB
         /\ \/ Waiting(k', l) = {}
            \/ \E head \in Waiting(k, l) :
                 OnlyWakes(k, k') /\ k'.event[head] \notin EventList
<1>1. k \in KernelState /\ SwitchAskedFor(k) BY DEF Inductive, TypeOK
<1>2. CASE Waiting(k, l) = {} /\ k' = k BY <1>2 DEF OnlyWakes
<1>3. ASSUME NEW head \in HeadOf(k, l),
             \/ k' = WakeAndYield(k, head)
             \/ k' = xTaskRemoveFromEventList(k, head)
      PROVE  /\ OnlyWakes(k, k') /\ k'.pxCurrentTCB = k.pxCurrentTCB
             /\ \/ Waiting(k', l) = {}
                \/ \E h \in Waiting(k, l) :
                     OnlyWakes(k, k') /\ k'.event[h] \notin EventList
  <2>1. head \in Waiting(k, l) /\ head \in Task BY DEF HeadOf, Waiting
  <2>2. /\ OnlyWakes(k, k') /\ k'.event[head] \notin EventList
        /\ k'.pxCurrentTCB = k.pxCurrentTCB
    <3>1. CASE k' = WakeAndYield(k, head)
      BY <1>1, <2>1, <3>1, WakeOnlyWakes, WakePreserves DEF Undisturbed
    <3>2. CASE k' = xTaskRemoveFromEventList(k, head)
      BY <1>1, <2>1, <3>2, RemoveOnlyWakes, RemovePreserves DEF Undisturbed
    <3> QED BY <1>3, <3>1, <3>2
  <2> QED BY <2>1, <2>2
<1> QED BY <1>2, <1>3 DEF FromISR

\* A call returns: what it has used it no longer claims, ...
LEMMA UsedUp ==
  ASSUME Inductive, NEW t \in Task, Return(t), OnlyWakes(k, k'),
         NEW l \in EventList, NEW m \in Int, NEW n \in Int,
         Claimed(k, call, l, m),
         IF t \in Claimants(k, call, l) THEN n <= m - 1 ELSE n <= m
  PROVE  Claimed(k', call', l, n)
<1>1. \A u \in Task \ {t} : call'[u] = call[u] BY DEF Return, Inductive, TypeOK
<1>2. Claimants(k, call, l) \ {t} \subseteq Claimants(k', call', l) BY <1>1, OthersClaim
<1>3. Waiting(k', l) # {} => Waiting(k, l) # {} BY WaitingKept
<1>4. CASE t \in Claimants(k, call, l) BY <1>2, <1>3, <1>4, ClaimedUsed
<1>5. CASE t \notin Claimants(k, call, l)
  <2>1. Claimants(k, call, l) \subseteq Claimants(k', call', l) BY <1>2, <1>5
  <2> QED BY <1>3, <1>5, <2>1, ClaimedKept
<1> QED BY <1>4, <1>5

\* ... and for what it offers or leaves it wakes the head of the list.
LEMMA PassedOn ==
  ASSUME Inductive, WakeUpsOwed, NEW t \in Task, Return(t),
         k.event[t] \notin EventList, NEW l \in EventList, FromISR(l),
         NEW m \in Int, NEW n \in Int, Claimed(k, call, l, m),
         IF t \in Claimants(k, call, l) THEN n <= m ELSE n <= m + 1
  PROVE  Claimed(k', call', l, n)
<1>1. \A u \in Task \ {t} : call'[u] = call[u] BY DEF Return, Inductive, TypeOK
<1>2. CASE Waiting(k', l) = {} BY <1>2, ClaimedNone
<1>3. ASSUME NEW head \in Waiting(k, l),
             OnlyWakes(k, k'), k'.event[head] \notin EventList
      PROVE  Claimed(k', call', l, n)
  <2>1. Claimants(k, call, l) \ {t} \subseteq Claimants(k', call', l)
    BY <1>1, <1>3, OthersClaim
  <2>2. Waiting(k', l) # {} => Waiting(k, l) # {} BY <1>3, WaitingKept
  <2>3. head \in Claimants(k', call', l) \ Claimants(k, call, l)
    <3>1. head \in Task /\ head # t BY DEF Waiting
    <3> QED BY <1>1, <1>3, <3>1, WokenClaims DEF WakeUpsOwed
  <2>4. CASE t \in Claimants(k, call, l) BY <2>1, <2>2, <2>3, <2>4, ClaimedPassedOn
  <2>5. CASE t \notin Claimants(k, call, l)
    <3>1. Claimants(k, call, l) \subseteq Claimants(k', call', l) BY <2>1, <2>5
    <3> QED BY <2>2, <2>3, <2>5, <3>1, ClaimedWoken
  <2> QED BY <2>4, <2>5
<1> QED BY <1>2, <1>3, HeadWoken

LEMMA SucceedOwed ==
  ASSUME Inductive, WakeUpsOwed, NEW t \in Task, Succeed(t)
  PROVE  WakeUpsOwed'
<1> DEFINE op == call[t].op
           m == uxMessagesWaiting - Owed(cTxLock)
           n == uxLength - uxMessagesWaiting - Owed(cRxLock)
           e == Effect(op)
<1>1. /\ At(t, "try") /\ Return(t) /\ uxMessagesWaiting' = uxMessagesWaiting + e
      /\ cTxLock' = cTxLock /\ cRxLock' = cRxLock
  BY DEF Succeed
<1>2. /\ k.event[t] \notin EventList
      /\ call[t].at = "try" /\ k.pxCurrentTCB = t
      /\ cTxLock = queueUNLOCKED /\ cRxLock = queueUNLOCKED
  BY <1>1, AwakeAt, LocksAt DEF Leaving
<1>3. FromISR(WakeList(op)) /\ WakeList(op) \in EventList
  BY DEF Succeed, FromISR, WakeList
<1>4. OnlyWakes(k, k') /\ k'.pxCurrentTCB = t BY <1>2, <1>3, HeadWoken
<1>5. Tx \in EventList /\ Rx \in EventList BY DEF Tx, Rx
<1>6. /\ op \in {"send", "receive", "peek"}
      /\ e = IF op = "send" THEN 1 ELSE IF op = "receive" THEN -1 ELSE 0
      /\ WakeList(op) = IF op = "receive" THEN Rx ELSE Tx
      /\ t \in Claimants(k, call, Tx) <=> op # "send"
      /\ t \in Claimants(k, call, Rx) <=> op = "send"
  <2>1. op \in {"send", "receive", "peek"} BY <1>1, AtFacts DEF Call, Op
  <2> QED BY <1>2, <2>1 DEF Effect, WakeList, WaitList, Claimants, Retrying, Tx, Rx
<1>7. m \in Int /\ n \in Int /\ e \in Int BY <1>6, OwedTypes DEF Inductive
<1>8. Claimed(k, call, Tx, m) /\ Claimed(k, call, Rx, n) BY DEF WakeUpsOwed, Tx, Rx
<1>9. uxMessagesWaiting' - Owed(cTxLock') = m + e
      /\ uxLength - uxMessagesWaiting' - Owed(cRxLock') = n - e
  BY <1>1, <1>7, OwedTypes DEF Inductive
<1> HIDE DEF m, n, e, op
<1>10. Claimed(k', call', Tx, m + e)
  <2>1. CASE op = "receive" BY <1>1, <1>4, <1>5, <1>6, <1>7, <1>8, <2>1, UsedUp
  <2>2. CASE op # "receive" BY <1>1, <1>2, <1>3, <1>5, <1>6, <1>7, <1>8, <2>2, PassedOn
  <2> QED BY <2>1, <2>2
<1>11. Claimed(k', call', Rx, n - e)
  <2>1. CASE op = "receive" BY <1>1, <1>2, <1>3, <1>5, <1>6, <1>7, <1>8, <2>1, PassedOn
  <2>2. CASE op # "receive" BY <1>1, <1>4, <1>5, <1>6, <1>7, <1>8, <2>2, UsedUp
  <2> QED BY <2>1, <2>2
<1>12. /\ Claimed(k', call', Tx, uxMessagesWaiting' - Owed(cTxLock'))
       /\ Claimed(k', call', Rx, uxLength - uxMessagesWaiting' - Owed(cRxLock'))
  BY <1>9, <1>10, <1>11
<1>13. call' = [call EXCEPT ![t] = NoCall] /\ NoCall.at = "idle"
  BY <1>1, NoCallType DEF Return
<1> QED BY <1>1, <1>2, <1>4, <1>12, <1>13, MoveOwed

\* The kernel only wakes and the queue stays as it is.
LEMMA QuietOwed ==
  ASSUME Inductive, WakeUpsOwed, k'.pxCurrentTCB = k.pxCurrentTCB,
         OnlyWakes(k, k'),
         UNCHANGED <<uxMessagesWaiting, cTxLock, cRxLock, call>>
  PROVE  WakeUpsOwed'
<1> DEFINE m == uxMessagesWaiting - Owed(cTxLock)
           n == uxLength - uxMessagesWaiting - Owed(cRxLock)
<1>1. m \in Int /\ n \in Int /\ m <= m /\ n <= n BY OwedTypes DEF Inductive
<1>2. Claimed(k, call, Tx, m) /\ Claimed(k, call, Rx, n) BY DEF WakeUpsOwed, Tx, Rx
<1>3. Tx \in EventList /\ Rx \in EventList BY DEF Tx, Rx
<1>4. Claimed(k', call', Tx, m) /\ Claimed(k', call', Rx, n)
  <2> HIDE DEF m, n
  <2> QED BY <1>1, <1>2, <1>3, StillClaimed
<1>5. /\ Claimed(k', call', Tx, uxMessagesWaiting' - Owed(cTxLock'))
      /\ Claimed(k', call', Rx, uxLength - uxMessagesWaiting' - Owed(cRxLock'))
  BY <1>4
<1>6. MissesOnlyLocked' BY DEF WakeUpsOwed, MissesOnlyLocked
<1> HIDE DEF m, n
<1> QED BY <1>5, <1>6, StillOwed

LEMMA ReplayOwed ==
  ASSUME Inductive, WakeUpsOwed, NEW t \in Task, ReplayPendedTick(t)
  PROVE  WakeUpsOwed'
<1>1. /\ At(t, "ticks") /\ k' = ReplayTick(k) /\ k.xPendedTicks > 0
      /\ UNCHANGED <<uxMessagesWaiting, cTxLock, cRxLock, call>>
  BY DEF ReplayPendedTick
<1>2. OnlyWakes(k, k') /\ k'.pxCurrentTCB = k.pxCurrentTCB
  BY <1>1, AtFacts, ReplayOnlyWakes, ReplayPreserves DEF Undisturbed
<1> QED BY <1>1, <1>2, QuietOwed

LEMMA TickOwed ==
  ASSUME Inductive, WakeUpsOwed, xTaskIncrementTick
  PROVE  WakeUpsOwed'
<1>1. /\ k' = TickInterrupt(k) /\ k \in KernelState /\ SwitchAskedFor(k)
      /\ UNCHANGED <<uxMessagesWaiting, cTxLock, cRxLock, call>>
  BY DEF xTaskIncrementTick, Inductive, TypeOK
<1>2. OnlyWakes(k, k') /\ k'.pxCurrentTCB = k.pxCurrentTCB
  BY <1>1, TickOnlyWakes, TickPreserves DEF Undisturbed
<1> QED BY <1>1, <1>2, QuietOwed

\* An interrupt adds an item and wakes a receiver for it, or leaves that to the
\* caller who has the queue locked.
LEMMA SendFromISROwed ==
  ASSUME Inductive, WakeUpsOwed, xQueueSendFromISR
  PROVE  WakeUpsOwed'
<1> DEFINE m == uxMessagesWaiting - Owed(cTxLock)
           n == uxLength - uxMessagesWaiting - Owed(cRxLock)
           m1 == uxMessagesWaiting' - Owed(cTxLock')
           n1 == uxLength - uxMessagesWaiting' - Owed(cRxLock')
<1>1. /\ uxMessagesWaiting' = uxMessagesWaiting + 1
      /\ cRxLock' = cRxLock /\ call' = call
      /\ \/ cTxLock = queueUNLOCKED /\ FromISR(Tx) /\ cTxLock' = cTxLock
         \/ cTxLock # queueUNLOCKED /\ k' = k /\ cTxLock' = cTxLock + 1
  BY DEF xQueueSendFromISR, Tx
<1>2. Tx \in EventList /\ Rx \in EventList BY DEF Tx, Rx
<1>3. m \in Int /\ n \in Int /\ m1 \in Int /\ n1 \in Int
  BY <1>1, OwedTypes DEF Inductive, Owed, queueUNLOCKED, queueLOCKED_UNMODIFIED
<1>4. Claimed(k, call, Tx, m) /\ Claimed(k, call, Rx, n) BY DEF WakeUpsOwed, Tx, Rx
<1>5. n1 <= n /\ m1 <= m + 1 /\ (cTxLock # queueUNLOCKED => m1 <= m)
  BY <1>1, OwedTypes DEF Inductive, Owed, queueUNLOCKED, queueLOCKED_UNMODIFIED
<1>6. /\ cTxLock' # queueUNLOCKED <=> cTxLock # queueUNLOCKED
      /\ cRxLock' # queueUNLOCKED <=> cRxLock # queueUNLOCKED
  BY <1>1, OwedTypes DEF Inductive, queueUNLOCKED
<1>7. OnlyWakes(k, k') /\ k'.pxCurrentTCB = k.pxCurrentTCB
  <2>1. k' = k \/ FromISR(Tx) BY <1>1
  <2>2. k' = k => OnlyWakes(k, k') BY DEF OnlyWakes
  <2> QED BY <1>2, <2>1, <2>2, HeadWoken
<1>8. MissesOnlyLocked'
  <2>1. MissesOnlyLocked BY DEF WakeUpsOwed
  <2>2. CASE call[k.pxCurrentTCB].at = "place"
    <3>1. cTxLock # queueUNLOCKED BY <2>2 DEF WakeUpsOwed, LockedByCaller
    <3>2. cTxLock' = cTxLock + 1 BY <1>1, <3>1
    <3> QED BY <1>1, <1>7, <2>1, <3>2, OwedTypes DEF MissesOnlyLocked, Inductive
  <2>3. CASE call[k.pxCurrentTCB].at # "place" BY <1>1, <1>7, <2>3 DEF MissesOnlyLocked
  <2> QED BY <2>2, <2>3
<1> HIDE DEF m, n, m1, n1
<1>9. Claimed(k', call', Tx, m1)
  <2>1. CASE cTxLock # queueUNLOCKED
    BY <1>1, <1>2, <1>3, <1>4, <1>5, <1>7, <2>1, StillClaimed
  <2>2. CASE cTxLock = queueUNLOCKED
    <3>1. FromISR(Tx) BY <1>1, <2>2
    <3>2. \/ Waiting(k', Tx) = {}
          \/ \E head \in Waiting(k, Tx) :
               OnlyWakes(k, k') /\ k'.event[head] \notin EventList
      BY <1>2, <3>1, HeadWoken
    <3> QED BY <1>1, <1>2, <1>3, <1>4, <1>5, <3>2, NowClaimed
  <2> QED BY <2>1, <2>2
<1>10. Claimed(k', call', Rx, n1) BY <1>1, <1>2, <1>3, <1>4, <1>5, <1>7, StillClaimed
<1> QED BY <1>1, <1>6, <1>7, <1>8, <1>9, <1>10, StillOwed DEF m1, n1

LEMMA ReceiveFromISROwed ==
  ASSUME Inductive, WakeUpsOwed, xQueueReceiveFromISR
  PROVE  WakeUpsOwed'
<1> DEFINE m == uxMessagesWaiting - Owed(cTxLock)
           n == uxLength - uxMessagesWaiting - Owed(cRxLock)
           m1 == uxMessagesWaiting' - Owed(cTxLock')
           n1 == uxLength - uxMessagesWaiting' - Owed(cRxLock')
<1>1. /\ uxMessagesWaiting' = uxMessagesWaiting - 1
      /\ cTxLock' = cTxLock /\ call' = call
      /\ \/ cRxLock = queueUNLOCKED /\ FromISR(Rx) /\ cRxLock' = cRxLock
         \/ cRxLock # queueUNLOCKED /\ k' = k /\ cRxLock' = cRxLock + 1
  BY DEF xQueueReceiveFromISR, Rx
<1>2. Tx \in EventList /\ Rx \in EventList BY DEF Tx, Rx
<1>3. m \in Int /\ n \in Int /\ m1 \in Int /\ n1 \in Int
  BY <1>1, OwedTypes DEF Inductive, Owed, queueUNLOCKED, queueLOCKED_UNMODIFIED
<1>4. Claimed(k, call, Tx, m) /\ Claimed(k, call, Rx, n) BY DEF WakeUpsOwed, Tx, Rx
<1>5. m1 <= m /\ n1 <= n + 1 /\ (cRxLock # queueUNLOCKED => n1 <= n)
  BY <1>1, OwedTypes DEF Inductive, Owed, queueUNLOCKED, queueLOCKED_UNMODIFIED
<1>6. /\ cTxLock' # queueUNLOCKED <=> cTxLock # queueUNLOCKED
      /\ cRxLock' # queueUNLOCKED <=> cRxLock # queueUNLOCKED
  BY <1>1, OwedTypes DEF Inductive, queueUNLOCKED
<1>7. OnlyWakes(k, k') /\ k'.pxCurrentTCB = k.pxCurrentTCB
  <2>1. k' = k \/ FromISR(Rx) BY <1>1
  <2>2. k' = k => OnlyWakes(k, k') BY DEF OnlyWakes
  <2> QED BY <1>2, <2>1, <2>2, HeadWoken
<1>8. MissesOnlyLocked'
  <2>1. MissesOnlyLocked BY DEF WakeUpsOwed
  <2>2. CASE call[k.pxCurrentTCB].at = "place"
    <3>1. cRxLock # queueUNLOCKED BY <2>2 DEF WakeUpsOwed, LockedByCaller
    <3>2. cRxLock' = cRxLock + 1 BY <1>1, <3>1
    <3> QED BY <1>1, <1>7, <2>1, <3>2, OwedTypes DEF MissesOnlyLocked, Inductive
  <2>3. CASE call[k.pxCurrentTCB].at # "place" BY <1>1, <1>7, <2>3 DEF MissesOnlyLocked
  <2> QED BY <2>2, <2>3
<1> HIDE DEF m, n, m1, n1
<1>9. Claimed(k', call', Rx, n1)
  <2>1. CASE cRxLock # queueUNLOCKED
    BY <1>1, <1>2, <1>3, <1>4, <1>5, <1>7, <2>1, StillClaimed
  <2>2. CASE cRxLock = queueUNLOCKED
    <3>1. FromISR(Rx) BY <1>1, <2>2
    <3>2. \/ Waiting(k', Rx) = {}
          \/ \E head \in Waiting(k, Rx) :
               OnlyWakes(k, k') /\ k'.event[head] \notin EventList
      BY <1>2, <3>1, HeadWoken
    <3> QED BY <1>1, <1>2, <1>3, <1>4, <1>5, <3>2, NowClaimed
  <2> QED BY <2>1, <2>2
<1>10. Claimed(k', call', Tx, m1) BY <1>1, <1>2, <1>3, <1>4, <1>5, <1>7, StillClaimed
<1> QED BY <1>1, <1>6, <1>7, <1>8, <1>9, <1>10, StillOwed DEF m1, n1

\* xQueueReset wakes one sender however many places it makes, which is enough
\* in a queue of one place.
LEMMA ResetOwed ==
  ASSUME Inductive, WakeUpsOwed, NEW t \in Task, xQueueGenericReset(t), uxLength = 1
  PROVE  WakeUpsOwed'
<1> DEFINE n == uxLength - uxMessagesWaiting - Owed(cRxLock)
<1>1. /\ At(t, "idle") /\ call' = call /\ uxMessagesWaiting' = 0
      /\ cTxLock' = queueUNLOCKED /\ cRxLock' = queueUNLOCKED
      /\ FromISR(Rx)
  BY DEF xQueueGenericReset, FromISR, Rx
<1>2. /\ call[t].at = "idle" /\ k.pxCurrentTCB = t
      /\ cTxLock = queueUNLOCKED /\ cRxLock = queueUNLOCKED
  BY <1>1, LocksAt
<1>3. Tx \in EventList /\ Rx \in EventList BY DEF Tx, Rx
<1>4. /\ OnlyWakes(k, k') /\ k'.pxCurrentTCB = k.pxCurrentTCB
      /\ \/ Waiting(k', Rx) = {}
         \/ \E head \in Waiting(k, Rx) :
              OnlyWakes(k, k') /\ k'.event[head] \notin EventList
  BY <1>1, <1>3, HeadWoken
<1>5. Claimed(k, call, Rx, n) BY DEF WakeUpsOwed, Rx
<1>6. n \in Int /\ 1 <= n + 1 BY <1>2, OwedTypes
  DEF Inductive, Owed, queueUNLOCKED, queueLOCKED_UNMODIFIED
<1> HIDE DEF n
<1>7. Claimed(k', call', Rx, 1) BY <1>1, <1>3, <1>4, <1>5, <1>6, NowClaimed
<1>8. Claimed(k', call', Tx, 0) BY ClaimedNone
<1>9. Owed(cTxLock') = 0 /\ Owed(cRxLock') = 0
  BY <1>1 DEF Owed, queueUNLOCKED, queueLOCKED_UNMODIFIED
<1>10. /\ uxMessagesWaiting' - Owed(cTxLock') = 0
       /\ uxLength - uxMessagesWaiting' - Owed(cRxLock') = 1
  BY <1>1, <1>9
<1>11. MissesOnlyLocked' BY <1>1, <1>2, <1>4 DEF MissesOnlyLocked
<1>12. /\ Claimed(k', call', Tx, uxMessagesWaiting' - Owed(cTxLock'))
       /\ Claimed(k', call', Rx, uxLength - uxMessagesWaiting' - Owed(cRxLock'))
  BY <1>7, <1>8, <1>10
<1> QED BY <1>1, <1>2, <1>4, <1>11, <1>12, StillOwed

\* The switch is taken while no queue is locked, or not at all.
LEMMA SwitchOwed ==
  ASSUME Inductive, WakeUpsOwed, SwitchContext
  PROVE  WakeUpsOwed'
<1>1. PICK next \in Runnable(k) : k' = vTaskSwitchContext(k, next) BY DEF SwitchContext
<1>2. /\ k \in KernelState /\ next \in Task
      /\ UNCHANGED <<uxMessagesWaiting, cTxLock, cRxLock, call>>
  BY DEF SwitchContext, Inductive, TypeOK, Runnable, Ready
<1>3. /\ k'.event = k.event /\ k'.container = k.container
      /\ k'.pxCurrentTCB = IF k.uxSchedulerSuspended # 0 THEN k.pxCurrentTCB ELSE next
  BY <1>1, <1>2 DEF vTaskSwitchContext, KernelState
<1>4. OnlyWakes(k, k') BY <1>3, OnlyWakesSame
<1>5. CASE k.uxSchedulerSuspended # 0 BY <1>2, <1>3, <1>4, <1>5, QuietOwed
<1>6. CASE k.uxSchedulerSuspended = 0
  <2>1. \A t \in Task : call[t].at \notin Suspended BY <1>6 DEF Inductive, OwnSuspension
  <2>2. k.pxCurrentTCB \in Task /\ k'.pxCurrentTCB = next
    BY <1>2, <1>3, <1>6 DEF KernelState
  <2>3. cTxLock = queueUNLOCKED /\ cRxLock = queueUNLOCKED
    BY <2>1, <2>2 DEF WakeUpsOwed, LockedByCaller, Suspended
  <2>4. LockedByCaller' /\ MissesOnlyLocked' BY <1>2, <2>1, <2>2, <2>3
    DEF LockedByCaller, MissesOnlyLocked, Suspended, queueUNLOCKED
  <2>5. SleepersBlocked(k', call') BY <1>2, <1>3 DEF WakeUpsOwed, SleepersBlocked
  <2>6. \A l, x : Claimed(k, call, l, x) => Claimed(k', call', l, x)
    BY <1>2, <1>3 DEF Claimed, Claimants, Waiting
  <2>7. /\ Claimed(k', call', Tx, uxMessagesWaiting' - Owed(cTxLock'))
        /\ Claimed(k', call', Rx, uxLength - uxMessagesWaiting' - Owed(cRxLock'))
    BY <1>2, <2>6 DEF WakeUpsOwed, Tx, Rx
  <2> QED BY <2>4, <2>5, <2>7 DEF WakeUpsOwed, Tx, Rx
<1> QED BY <1>5, <1>6

LEMMA InitOwed == Init => WakeUpsOwed
<1> SUFFICES ASSUME Init PROVE WakeUpsOwed OBVIOUS
<1>1. PICK first \in Task : k = KernelStart(TaskPriority, first, InitialTick) BY DEF Init
<1>2. \A t \in Task : k.event[t] = "none" BY <1>1 DEF KernelStart
<1>3. \A t \in Task : call[t].at = "idle" BY DEF Init, NoCall
<1>4. k.pxCurrentTCB \in Task BY <1>1 DEF KernelStart
<1>5. SleepersBlocked(k, call) BY <1>2 DEF SleepersBlocked
<1>6. LockedByCaller /\ MissesOnlyLocked
  BY <1>3, <1>4 DEF Init, LockedByCaller, MissesOnlyLocked
<1>7. /\ Waiting(k, "xTasksWaitingToReceive") = {}
      /\ Waiting(k, "xTasksWaitingToSend") = {}
  BY <1>2 DEF Waiting
<1> QED BY <1>5, <1>6, <1>7 DEF WakeUpsOwed, Claimed

LEMMA NextOwed ==
  ASSUME Inductive, WakeUpsOwed, [Next]_vars, Resetter = {} \/ uxLength = 1
  PROVE  WakeUpsOwed'
<1>1. CASE \E t \in Task : Invocation(t) BY <1>1, InvokeOwed DEF Invocation
<1>2. CASE \E t \in Task : Reset(t) BY <1>2, ResetOwed DEF Reset
<1>3. CASE \E t \in Task : Step(t)
  BY <1>3, SucceedOwed, FailAtOnceOwed, PrepareToBlockOwed, SuspendAllOwed,
     LockQueueOwed, CheckTimeOutOwed, PlaceOwed, UnlockTxOwed, UnlockRxOwed,
     ResumeAllOwed, ReplayOwed, ResumeAllReturnOwed, RecheckOwed DEF Step
<1>4. CASE Interrupt BY <1>4, SendFromISROwed, ReceiveFromISROwed, TickOwed DEF Interrupt
<1>5. CASE SwitchContext BY <1>5, SwitchOwed
<1>6. CASE UNCHANGED vars
  <2>1. k' = k /\ UNCHANGED <<uxMessagesWaiting, cTxLock, cRxLock, call>> BY <1>6 DEF vars
  <2>2. OnlyWakes(k, k') BY <2>1 DEF OnlyWakes
  <2> QED BY <2>1, <2>2, QuietOwed
<1> QED BY <1>1, <1>2, <1>3, <1>4, <1>5, <1>6 DEF Next

\* Every item and every free place somebody sleeps for has a task of its own
\* that is awake and will look at the queue, or is owed by whoever has it locked.
\* A task that resets the queue is allowed only where its single wake-up is
\* enough.
THEOREM WakeUpsAreOwed ==
  ASSUME Resetter = {} \/ uxLength = 1
  PROVE  Spec => []WakeUpsOwed
<1>1. Init => WakeUpsOwed BY InitOwed
<1>2. Inductive /\ WakeUpsOwed /\ [Next]_vars => WakeUpsOwed' BY NextOwed
<1> QED BY <1>1, <1>2, InductiveInvariant, PTL DEF Spec

\* No wake-up is lost: whatever the tasks, the interrupts, the time-outs and the
\* capacity, nobody sleeps on what the unlocked queue offers unless a task that
\* is awake has yet to use it.
THEOREM NoWakeUpIsLost ==
  ASSUME Resetter = {} \/ uxLength = 1
  PROVE  Spec => []NobodyLeftBehind
<1>1. Inductive /\ WakeUpsOwed => NobodyLeftBehind
  <2> SUFFICES ASSUME Inductive, WakeUpsOwed PROVE NobodyLeftBehind OBVIOUS
  <2>1. \A l \in EventList :
          /\ IsFiniteSet(Claimants(k, call, l))
          /\ Cardinality(Claimants(k, call, l)) \in Nat
          /\ Cardinality(Claimants(k, call, l)) > 0 => Claimants(k, call, l) # {}
    BY ClaimantsFinite, FS_EmptySet
  <2>2. \A t \in Task : call[t] \in Call BY DEF Inductive, TypeOK
  <2>3. NoReceiverLeftBehind
    <3> SUFFICES ASSUME cTxLock = queueUNLOCKED, ~prvIsQueueEmpty,
                        Waiting(k, "xTasksWaitingToReceive") # {}
                 PROVE  \E t \in Task : WillRetry(t, "receive") \/ WillRetry(t, "peek")
      BY DEF NoReceiverLeftBehind
    <3>1. uxMessagesWaiting - Owed(cTxLock)
            <= Cardinality(Claimants(k, call, "xTasksWaitingToReceive"))
      BY DEF WakeUpsOwed, Claimed
    <3>2. uxMessagesWaiting - Owed(cTxLock) > 0 BY OwedTypes
      DEF Inductive, Owed, prvIsQueueEmpty, queueUNLOCKED, queueLOCKED_UNMODIFIED
    <3>3. PICK t \in Claimants(k, call, "xTasksWaitingToReceive") : TRUE
      BY <2>1, <3>1, <3>2, OwedTypes DEF Inductive
    <3> QED BY <2>2, <3>3
      DEF Claimants, Retrying, Leaving, WaitList, WillRetry, Call, Op
  <2>4. NoSenderLeftBehind
    <3> SUFFICES ASSUME cRxLock = queueUNLOCKED, ~prvIsQueueFull,
                        Waiting(k, "xTasksWaitingToSend") # {}
                 PROVE  \E t \in Task : WillRetry(t, "send")
      BY DEF NoSenderLeftBehind
    <3>1. uxLength - uxMessagesWaiting - Owed(cRxLock)
            <= Cardinality(Claimants(k, call, "xTasksWaitingToSend"))
      BY DEF WakeUpsOwed, Claimed
    <3>2. uxLength - uxMessagesWaiting - Owed(cRxLock) > 0 BY OwedTypes
      DEF Inductive, Owed, prvIsQueueFull, queueUNLOCKED, queueLOCKED_UNMODIFIED
    <3>3. PICK t \in Claimants(k, call, "xTasksWaitingToSend") : TRUE
      BY <2>1, <3>1, <3>2, OwedTypes DEF Inductive
    <3> QED BY <2>2, <3>3
      DEF Claimants, Retrying, Leaving, WaitList, WillRetry, Call, Op
  <2> QED BY <2>3, <2>4 DEF NobodyLeftBehind
<1> QED BY <1>1, InductiveInvariant, WakeUpsAreOwed, PTL

--------------------
\* The delayed lists.

\* What only takes tasks off the delayed lists, at one time.
LetsGo(q, r) ==
  /\ r \in KernelState
  /\ r.xTickCount = q.xTickCount
  /\ r.xNumOfOverflows = q.xNumOfOverflows
  /\ r.xPendedTicks = q.xPendedTicks
  /\ \A t \in Task : r.container[t] \in {"delayed", "overflow"} =>
       r.container[t] = q.container[t] /\ r.xItemValue[t] = q.xItemValue[t]
  /\ NextWakeKnown(q) => NextWakeKnown(r)

LEMMA LetsGoTransitive ==
  ASSUME NEW p, NEW q, NEW r, LetsGo(p, q), LetsGo(q, r)
  PROVE  LetsGo(p, r)
  BY DEF LetsGo

LEMMA SameListsLetGo ==
  ASSUME NEW q, NEW r \in KernelState,
         r.container = q.container, r.xItemValue = q.xItemValue,
         r.xTickCount = q.xTickCount, r.xNumOfOverflows = q.xNumOfOverflows,
         r.xPendedTicks = q.xPendedTicks,
         r.xNextTaskUnblockTime = q.xNextTaskUnblockTime
  PROVE  LetsGo(q, r)
  BY DEF LetsGo, NextWakeKnown

LEMMA LetsGoKeeps ==
  ASSUME NEW q, NEW r, NEW c, LetsGo(q, r)
  PROVE  /\ ListedToDeadline(q, c) => ListedToDeadline(r, c)
         /\ NobodyDue(q) => NobodyDue(r)
<1>1. ListedToDeadline(q, c) => ListedToDeadline(r, c) BY DEF LetsGo, ListedToDeadline
<1>2. NobodyDue(q) => NobodyDue(r) BY DEF LetsGo, NobodyDue
<1> QED BY <1>1, <1>2

\* prvResetNextTaskUnblockTime makes the next wake time right.
LEMMA ResetLetsGo ==
  ASSUME NEW q \in KernelState
  PROVE  /\ LetsGo(q, prvResetNextTaskUnblockTime(q))
         /\ NextWakeKnown(prvResetNextTaskUnblockTime(q))
<1> DEFINE n == IF Delayed(q) = {} THEN portMAX_DELAY
                                   ELSE MinWake(q, Delayed(q))
           r == prvResetNextTaskUnblockTime(q)
<1>1. /\ n \in Tick
      /\ \A t \in Delayed(q) : n <= q.xItemValue[t]
  <2>1. CASE Delayed(q) = {}
    <3>1. portMAX_DELAY \in Tick BY DEF Tick, portMAX_DELAY
    <3> QED BY <2>1, <3>1
  <2>2. CASE Delayed(q) # {} BY <2>2, MinWakeType DEF Delayed
  <2> QED BY <2>1, <2>2
<1>2. r = [q EXCEPT !.xNextTaskUnblockTime = n] BY DEF prvResetNextTaskUnblockTime
<1> HIDE DEF n, r
<1>3. /\ r \in KernelState
      /\ r.container = q.container /\ r.xItemValue = q.xItemValue
      /\ r.xTickCount = q.xTickCount /\ r.xNumOfOverflows = q.xNumOfOverflows
      /\ r.xPendedTicks = q.xPendedTicks
      /\ r.xNextTaskUnblockTime = n
  BY <1>1, <1>2 DEF KernelState
<1>4. NextWakeKnown(r) BY <1>1, <1>3 DEF NextWakeKnown, Delayed
<1>5. LetsGo(q, r) BY <1>3, <1>4 DEF LetsGo
<1> QED BY <1>4, <1>5 DEF r

LEMMA UnblockedLetsGo ==
  ASSUME NEW q \in KernelState, NEW S \in SUBSET Task, NEW y \in BOOLEAN
  PROVE  LET r == Unblocked(q, S, y)
         IN  /\ LetsGo(q, r)
             /\ \A t \in S : r.container[t] = "ready"
<1> DEFINE c == [t \in Task |-> IF t \in S THEN "ready" ELSE q.container[t]]
           e == [t \in Task |-> IF t \in S THEN "none" ELSE q.event[t]]
           r == Unblocked(q, S, y)
<1>1. r = [q EXCEPT !.container = c, !.event = e, !.xItemValue = q.xItemValue,
                    !.xNextTaskUnblockTime = q.xNextTaskUnblockTime,
                    !.xYieldPending = y]
  BY DEF Unblocked, Updated
<1>2. r \in KernelState BY UnblockSteady
<1>3. \A t \in Task : c[t] = IF t \in S THEN "ready" ELSE q.container[t] OBVIOUS
<1> HIDE DEF c, e, r
<1>4. /\ r.container = c /\ r.xItemValue = q.xItemValue
      /\ r.xTickCount = q.xTickCount /\ r.xNumOfOverflows = q.xNumOfOverflows
      /\ r.xPendedTicks = q.xPendedTicks
      /\ r.xNextTaskUnblockTime = q.xNextTaskUnblockTime
  BY <1>1 DEF KernelState
<1>5. LetsGo(q, r) BY <1>2, <1>3, <1>4 DEF LetsGo, NextWakeKnown
<1>6. \A t \in S : r.container[t] = "ready" BY <1>3, <1>4
<1> QED BY <1>5, <1>6 DEF r

\* A tick takes off everybody who is due.
LEMMA UnblockDueLetsGo ==
  ASSUME NEW q \in KernelState, NextWakeKnown(q),
         \A t \in Task : q.container[t] = "delayed" => q.xTickCount <= q.xItemValue[t]
  PROVE  /\ LetsGo(q, UnblockDue(q))
         /\ NextWakeKnown(UnblockDue(q))
         /\ NobodyDue(UnblockDue(q))
<1> DEFINE u == Unblocked(q, Due(q), q.xYieldPending)
           r == UnblockDue(q)
<1>0. /\ q.xTickCount \in Nat /\ q.xNextTaskUnblockTime \in Nat
      /\ \A t \in Task : q.xItemValue[t] \in Nat
  BY DEF KernelState, Tick
<1>1. r = IF q.xTickCount < q.xNextTaskUnblockTime THEN q
          ELSE prvResetNextTaskUnblockTime(u)
  BY UnblockDueIs
<1>2. LetsGo(q, u) /\ \A t \in Due(q) : u.container[t] = "ready"
  BY UnblockDueIs, UnblockedLetsGo
<1> HIDE DEF u, r
<1>3. CASE q.xTickCount < q.xNextTaskUnblockTime
  <2>1. r = q BY <1>1, <1>3
  <2>2. NobodyDue(q) BY <1>0, <1>3 DEF NextWakeKnown, NobodyDue
  <2>3. LetsGo(q, q) BY DEF LetsGo
  <2> QED BY <2>1, <2>2, <2>3 DEF r
<1>4. CASE ~(q.xTickCount < q.xNextTaskUnblockTime)
  <2>1. r = prvResetNextTaskUnblockTime(u) BY <1>1, <1>4
  <2>2. LetsGo(u, r) /\ NextWakeKnown(r) BY <1>2, <2>1, ResetLetsGo DEF LetsGo
  <2>3. LetsGo(q, r) BY <1>2, <2>2, LetsGoTransitive
  <2>4. NobodyDue(r)
    <3> SUFFICES ASSUME NEW t \in Task, r.container[t] = "delayed"
                 PROVE  r.xTickCount < r.xItemValue[t]
      BY DEF NobodyDue
    <3>1. u.container[t] = "delayed" /\ q.container[t] = "delayed"
      BY <1>2, <2>2 DEF LetsGo
    <3>2. t \notin Due(q) BY <1>2, <3>1
    <3>3. ~(q.xItemValue[t] <= q.xTickCount) BY <1>4, <3>1, <3>2 DEF Due, Delayed
    <3> QED BY <1>0, <2>3, <3>3 DEF LetsGo
  <2> QED BY <2>2, <2>3, <2>4 DEF r
<1> QED BY <1>3, <1>4

\* Swapping the delayed lists as the tick count wraps puts everybody on the
\* list of the turn of its deadline.
LEMMA SwitchListsDeadlines ==
  ASSUME NEW q \in KernelState, NEW c, ListedToDeadline(q, c),
         \A t \in Task : q.container[t] # "delayed",
         q.xTickCount = 0, q.xNumOfOverflows + 1 \in Tick
  PROVE  LET r == taskSWITCH_DELAYED_LISTS(q)
         IN  /\ r \in KernelState
             /\ ListedToDeadline(r, c)
             /\ NextWakeKnown(r)
             /\ r.xTickCount = 0
             /\ r.xNumOfOverflows = q.xNumOfOverflows + 1
             /\ r.xPendedTicks = q.xPendedTicks
<1> DEFINE d == [t \in Task |-> CASE q.container[t] = "overflow" -> "delayed"
                                  [] q.container[t] = "delayed" -> "overflow"
                                  [] OTHER -> q.container[t]]
           n == (q.xNumOfOverflows + 1) % TickMod
           p == [q EXCEPT !.container = d, !.xNumOfOverflows = n]
           r == taskSWITCH_DELAYED_LISTS(q)
<1>1. r = prvResetNextTaskUnblockTime(p) BY DEF taskSWITCH_DELAYED_LISTS
<1>2. n = q.xNumOfOverflows + 1 /\ n \in Tick BY DEF Tick
<1>3. /\ d \in [Task -> StateList]
      /\ \A t \in Task : /\ d[t] = "delayed" => q.container[t] = "overflow"
                         /\ d[t] # "overflow"
  <2>1. \A t \in Task : q.container[t] \in StateList /\ q.container[t] # "delayed"
    BY DEF KernelState
  <2> QED BY <2>1 DEF StateList
<1> HIDE DEF d, n, r
<1>4. /\ p \in KernelState /\ p.container = d
      /\ p.xItemValue = q.xItemValue
      /\ p.xTickCount = 0
      /\ p.xNumOfOverflows = n
      /\ p.xPendedTicks = q.xPendedTicks
  BY <1>2, <1>3, Zenon DEF KernelState
<1> HIDE DEF p
<1>5. ListedToDeadline(p, c)
  <2> SUFFICES ASSUME NEW t \in Task
               PROVE  /\ p.container[t] # "overflow"
                      /\ p.container[t] = "delayed" =>
                           /\ Timed(c[t])
                           /\ Deadline(c[t]) = TimeOf(p.xNumOfOverflows, p.xItemValue[t])
    BY DEF ListedToDeadline
  <2> QED BY <1>2, <1>3, <1>4 DEF ListedToDeadline
<1>6. LetsGo(p, r) /\ NextWakeKnown(r) BY <1>1, <1>4, ResetLetsGo
<1>7. ListedToDeadline(r, c) BY <1>5, <1>6, LetsGoKeeps
<1> QED BY <1>2, <1>4, <1>6, <1>7 DEF LetsGo, r

\* Each tick counted keeps every deadline listed and passes over none.
LEMMA CountTickDeadlines ==
  ASSUME NEW q \in KernelState, NEW c, ListedToDeadline(q, c),
         NextWakeKnown(q), NobodyDue(q),
         TimeOf(q.xNumOfOverflows, q.xTickCount) + 1 < TickMod * TickMod
  PROVE  LET r == CountTick(q)
         IN  /\ r \in KernelState
             /\ ListedToDeadline(r, c)
             /\ NextWakeKnown(r)
             /\ NobodyDue(r)
             /\ TimeOf(r.xNumOfOverflows, r.xTickCount)
                  = TimeOf(q.xNumOfOverflows, q.xTickCount) + 1
             /\ r.xPendedTicks = q.xPendedTicks
<1> DEFINE n == (q.xTickCount + 1) % TickMod
           t1 == [q EXCEPT !.xTickCount = n]
           t2 == IF t1.xTickCount = 0 THEN taskSWITCH_DELAYED_LISTS(t1) ELSE t1
           r == CountTick(q)
<1>0. /\ q.xTickCount \in Tick /\ q.xNumOfOverflows \in Tick
      /\ q.xTickCount \in Nat /\ q.xNumOfOverflows \in Nat
      /\ \A t \in Task : q.xItemValue[t] \in Tick
  BY DEF KernelState, Tick
<1>1. r = UnblockDue(t2) BY DEF CountTick
<1>2. n \in Tick BY TickModulo DEF KernelState, Tick
<1>3. n = IF q.xTickCount = TickMod - 1 THEN 0 ELSE q.xTickCount + 1 BY <1>0 DEF Tick
<1> HIDE DEF n, r
<1>4. /\ t1 \in KernelState
      /\ t1.container = q.container /\ t1.xItemValue = q.xItemValue
      /\ t1.xTickCount = n /\ t1.xNumOfOverflows = q.xNumOfOverflows
      /\ t1.xPendedTicks = q.xPendedTicks
      /\ t1.xNextTaskUnblockTime = q.xNextTaskUnblockTime
  BY <1>2 DEF KernelState
<1> HIDE DEF t1
<1>5. ListedToDeadline(t1, c) /\ NextWakeKnown(t1)
  BY <1>4 DEF ListedToDeadline, NextWakeKnown
<1>6. /\ t2 \in KernelState
      /\ ListedToDeadline(t2, c)
      /\ NextWakeKnown(t2)
      /\ \A t \in Task : t2.container[t] = "delayed" => t2.xTickCount <= t2.xItemValue[t]
      /\ TimeOf(t2.xNumOfOverflows, t2.xTickCount)
           = TimeOf(q.xNumOfOverflows, q.xTickCount) + 1
      /\ t2.xPendedTicks = q.xPendedTicks
  <2>1. CASE q.xTickCount # TickMod - 1
    <3>1. n = q.xTickCount + 1 /\ n # 0 BY <1>0, <1>3, <2>1
    <3>2. t2 = t1 BY <1>4, <3>1
    <3>3. \A t \in Task : q.container[t] = "delayed" => n <= q.xItemValue[t]
      BY <1>0, <3>1 DEF NobodyDue, Tick
    <3>4. TimeOf(q.xNumOfOverflows, q.xTickCount + 1)
            = TimeOf(q.xNumOfOverflows, q.xTickCount) + 1
      BY <1>0, TimeOfFacts
    <3> HIDE DEF t2
    <3> QED BY <1>4, <1>5, <3>1, <3>2, <3>3, <3>4
  <2>2. CASE q.xTickCount = TickMod - 1
    <3>1. n = 0 BY <1>3, <2>2
    <3>2. \A t \in Task : t1.container[t] # "delayed"
      BY <1>0, <1>4, <2>2 DEF NobodyDue, Tick
    <3>3. t1.xNumOfOverflows + 1 \in Tick BY <1>0, <1>4, <2>2, OverflowsFit
    <3> DEFINE s == taskSWITCH_DELAYED_LISTS(t1)
    <3>4. t2 = s BY <1>4, <3>1
    <3> HIDE DEF t2
    <3>5. /\ s \in KernelState
          /\ ListedToDeadline(s, c)
          /\ NextWakeKnown(s)
          /\ s.xTickCount = 0
          /\ s.xNumOfOverflows = q.xNumOfOverflows + 1
          /\ s.xPendedTicks = q.xPendedTicks
      BY <1>4, <1>5, <3>1, <3>2, <3>3, SwitchListsDeadlines
    <3> HIDE DEF s
    <3>6. \A t \in Task : s.xItemValue[t] \in Tick BY <3>5 DEF KernelState
    <3>7. TimeOf(q.xNumOfOverflows + 1, 0) = TimeOf(q.xNumOfOverflows, TickMod - 1) + 1
      BY <1>0, TimeOfFacts
    <3> QED BY <2>2, <3>4, <3>5, <3>6, <3>7 DEF Tick
  <2> QED BY <2>1, <2>2
<1> HIDE DEF t2
<1>7. LetsGo(t2, r) /\ NextWakeKnown(r) /\ NobodyDue(r) BY <1>1, <1>6, UnblockDueLetsGo
<1>8. ListedToDeadline(r, c) BY <1>6, <1>7, LetsGoKeeps
<1> QED BY <1>6, <1>7, <1>8 DEF LetsGo, r

LEMMA SameKernelLetsGo ==
  ASSUME NEW q \in KernelState PROVE LetsGo(q, q)
  BY DEF LetsGo

LEMMA YieldLetsGo ==
  ASSUME NEW q \in KernelState PROVE LetsGo(q, Yield(q))
<1> DEFINE r == Yield(q)
<1>1. r = [q EXCEPT !.pendSV = TRUE] BY DEF Yield
<1> HIDE DEF r
<1>2. /\ r \in KernelState
      /\ r.container = q.container /\ r.xItemValue = q.xItemValue
      /\ r.xTickCount = q.xTickCount /\ r.xNumOfOverflows = q.xNumOfOverflows
      /\ r.xPendedTicks = q.xPendedTicks
      /\ r.xNextTaskUnblockTime = q.xNextTaskUnblockTime
  BY <1>1 DEF KernelState
<1>3. LetsGo(q, r) BY <1>2, SameListsLetGo
<1> QED BY <1>3 DEF r

LEMMA RemoveLetsGo ==
  ASSUME NEW q \in KernelState, NEW head \in Task
  PROVE  LetsGo(q, xTaskRemoveFromEventList(q, head))
<1> DEFINE woken == IF q.uxSchedulerSuspended = 0
                      THEN [q EXCEPT !.event[head] = "none",
                                     !.container[head] = "ready"]
                      ELSE [q EXCEPT !.event[head] = "pending"]
           r == xTaskRemoveFromEventList(q, head)
<1>1. LetsGo(q, woken)
  <2>1. CASE q.uxSchedulerSuspended = 0
    <3> DEFINE d == [q.container EXCEPT ![head] = "ready"]
               e == [q.event EXCEPT ![head] = "none"]
    <3>1. woken = [q EXCEPT !.container = d, !.event = e] BY <2>1 DEF KernelState
    <3>2. /\ d \in [Task -> StateList]
          /\ e \in [Task -> EventList \cup {"none", "pending"}]
          /\ \A t \in Task : d[t] = IF t = head THEN "ready" ELSE q.container[t]
      BY DEF KernelState, StateList
    <3> HIDE DEF d, e, woken
    <3>3. /\ woken \in KernelState
          /\ woken.container = d /\ woken.xItemValue = q.xItemValue
          /\ woken.xTickCount = q.xTickCount
          /\ woken.xNumOfOverflows = q.xNumOfOverflows
          /\ woken.xPendedTicks = q.xPendedTicks
          /\ woken.xNextTaskUnblockTime = q.xNextTaskUnblockTime
      BY <3>1, <3>2 DEF KernelState
    <3> QED BY <3>2, <3>3 DEF LetsGo, NextWakeKnown
  <2>2. CASE q.uxSchedulerSuspended # 0
    <3>1. woken = [q EXCEPT !.event[head] = "pending"] BY <2>2
    <3> HIDE DEF woken
    <3> QED BY <3>1, SameListsLetGo DEF KernelState
  <2> QED BY <2>1, <2>2
<1>2. r = IF Outranks(q, head) THEN [woken EXCEPT !.xYieldPending = TRUE]
                               ELSE woken
  BY DEF xTaskRemoveFromEventList
<1> HIDE DEF woken, r
<1>3. LetsGo(woken, [woken EXCEPT !.xYieldPending = TRUE]) /\ LetsGo(woken, woken)
  <2> DEFINE y == [woken EXCEPT !.xYieldPending = TRUE]
  <2>1. woken \in KernelState BY <1>1 DEF LetsGo
  <2>2. /\ y \in KernelState
        /\ y.container = woken.container /\ y.xItemValue = woken.xItemValue
        /\ y.xTickCount = woken.xTickCount /\ y.xNumOfOverflows = woken.xNumOfOverflows
        /\ y.xPendedTicks = woken.xPendedTicks
        /\ y.xNextTaskUnblockTime = woken.xNextTaskUnblockTime
    BY <2>1 DEF KernelState
  <2> HIDE DEF y
  <2>3. LetsGo(woken, y) /\ LetsGo(woken, woken) BY <2>1, <2>2, SameListsLetGo
  <2> QED BY <2>3 DEF y
<1>4. LetsGo(q, r) BY <1>1, <1>2, <1>3, LetsGoTransitive
<1> QED BY <1>4 DEF r

LEMMA WakeLetsGo ==
  ASSUME NEW q \in KernelState, NEW head \in Task
  PROVE  LetsGo(q, WakeAndYield(q, head))
<1> DEFINE woken == xTaskRemoveFromEventList(q, head)
<1>1. LetsGo(q, woken) BY RemoveLetsGo
<1>2. WakeAndYield(q, head) = IF Outranks(q, head) THEN Yield(woken) ELSE woken
  BY DEF WakeAndYield
<1> HIDE DEF woken
<1>3. LetsGo(woken, Yield(woken)) BY <1>1, YieldLetsGo DEF LetsGo
<1> QED BY <1>1, <1>2, <1>3, LetsGoTransitive

LEMMA WakeForLetsGo ==
  ASSUME k \in KernelState, NEW l, NEW n, WakeFor(l, n)
  PROVE  LetsGo(k, k')
<1>1. PICK W \in SUBSET Waiting(k, l) :
        k' = [k EXCEPT !.event = [t \in Task |-> IF t \in W THEN "pending"
                                                            ELSE @[t]],
                       !.xYieldPending = @ \/ \E t \in W : Outranks(k, t)]
  BY DEF WakeFor
<1> DEFINE e == [t \in Task |-> IF t \in W THEN "pending" ELSE k.event[t]]
           y == k.xYieldPending \/ \E t \in W : Outranks(k, t)
<1>2. k' = [k EXCEPT !.event = e, !.xYieldPending = y] BY <1>1
<1>3. /\ e \in [Task -> EventList \cup {"none", "pending"}]
      /\ y \in BOOLEAN
  BY DEF KernelState
<1> HIDE DEF e, y
<1>4. /\ k' \in KernelState
      /\ k'.container = k.container /\ k'.xItemValue = k.xItemValue
      /\ k'.xTickCount = k.xTickCount /\ k'.xNumOfOverflows = k.xNumOfOverflows
      /\ k'.xPendedTicks = k.xPendedTicks
      /\ k'.xNextTaskUnblockTime = k.xNextTaskUnblockTime
  BY <1>2, <1>3 DEF KernelState
<1> QED BY <1>4, SameListsLetGo

LEMMA ReleaseLetsGo ==
  ASSUME NEW q \in KernelState, q.uxSchedulerSuspended = 1
  PROVE  LetsGo(q, ReleaseScheduler(q))
<1> DEFINE p == [q EXCEPT !.uxSchedulerSuspended = 0]
           S == Waiting(p, "pending")
           moved == Unblocked(p, S, PendingYield(p))
<1>1. p \in KernelState /\ p.uxSchedulerSuspended = 0 /\ LetsGo(q, p)
  BY SameListsLetGo DEF KernelState
<1>2. ReleaseScheduler(q) = DrainPending(p)
  <2>1. [q EXCEPT !.uxSchedulerSuspended = @ - 1] = p OBVIOUS
  <2> HIDE DEF p
  <2> QED BY <1>1, <2>1 DEF ReleaseScheduler
<1> HIDE DEF p
<1>3. DrainPending(p) = IF S = {} THEN p ELSE prvResetNextTaskUnblockTime(moved)
  BY <1>1, DrainIs
<1>4. LetsGo(p, moved) BY <1>1, DrainIs, UnblockedLetsGo
<1> HIDE DEF S, moved
<1>5. LetsGo(moved, prvResetNextTaskUnblockTime(moved)) BY <1>4, ResetLetsGo DEF LetsGo
<1> QED BY <1>1, <1>2, <1>3, <1>4, <1>5, LetsGoTransitive

--------------------
\* Every step keeps the deadlines.

SameStamp(c, d) ==
  /\ d.xEntryTimeSet = c.xEntryTimeSet
  /\ d.xTicksToWait = c.xTicksToWait
  /\ d.xTimeOnEntering = c.xTimeOnEntering
  /\ d.xOverflowCount = c.xOverflowCount

\* One task moves in its call while the lists at most let tasks go.
LEMMA MoveDeadlines ==
  ASSUME DeadlinesKept, LetsGo(k, k'), NEW t \in Task,
         \A u \in Task \ {t} : call'[u] = call[u],
         \/ SameStamp(call[t], call'[t])
         \/ k'.container[t] \notin {"delayed", "overflow"},
         JustStamped(k, call'[t]), StampPast(k, call'[t])
  PROVE  DeadlinesKept'
<1>1. ListedToDeadline(k', call')
  <2>1. ListedToDeadline(k', call) BY LetsGoKeeps DEF DeadlinesKept
  <2>2. ASSUME NEW u \in Task, k'.container[u] \in {"delayed", "overflow"}
        PROVE  /\ Timed(call[u]) => Timed(call'[u])
               /\ Deadline(call'[u]) = Deadline(call[u])
    <3>1. u # t => call'[u] = call[u] OBVIOUS
    <3>2. u = t => SameStamp(call[t], call'[t]) BY <2>2
    <3> QED BY <3>1, <3>2 DEF SameStamp, Timed, Deadline
  <2> QED BY <2>1, <2>2 DEF ListedToDeadline
<1>2. NextWakeKnown(k') /\ NobodyDue(k') BY LetsGoKeeps DEF DeadlinesKept, LetsGo
<1>3. \A u \in Task : JustStamped(k', call'[u]) /\ StampPast(k', call'[u])
  <2>1. /\ k'.xTickCount = k.xTickCount /\ k'.xNumOfOverflows = k.xNumOfOverflows
    BY DEF LetsGo
  <2>2. \A u \in Task : JustStamped(k, call'[u]) /\ StampPast(k, call'[u])
    BY DEF DeadlinesKept
  <2> QED BY <2>1, <2>2 DEF JustStamped, StampPast
<1>4. (Now + k.xPendedTicks <= LastTick)' BY DEF DeadlinesKept, LetsGo, Now
<1> QED BY <1>1, <1>2, <1>3, <1>4 DEF DeadlinesKept

LEMMA QuietDeadlines ==
  ASSUME DeadlinesKept, LetsGo(k, k'), call' = call
  PROVE  DeadlinesKept'
<1>1. PICK t \in Task : TRUE OBVIOUS
<1>2. JustStamped(k, call'[t]) /\ StampPast(k, call'[t]) BY DEF DeadlinesKept
<1>3. SameStamp(call[t], call'[t]) BY DEF SameStamp
<1> QED BY <1>2, <1>3, MoveDeadlines

LEMMA MovedDeadlines ==
  ASSUME Inductive, DeadlinesKept, LetsGo(k, k'), NEW t \in Task,
         NEW where \in Where \ {"place"}, GoTo(t, where)
  PROVE  DeadlinesKept'
<1> DEFINE c == Moved(call[t], where)
<1>1. call \in [Task -> Call] /\ call[t] \in Call BY DEF Inductive, TypeOK
<1>2. call' = [call EXCEPT ![t] = c] BY GoToMoved
<1>3. SameStamp(call[t], c) /\ c.at = where BY <1>1 DEF Moved, Call, SameStamp
<1> HIDE DEF c
<1>4. call'[t] = c /\ \A u \in Task \ {t} : call'[u] = call[u] BY <1>1, <1>2
<1>5. JustStamped(k, c) BY <1>3 DEF JustStamped
<1>6. StampPast(k, c) BY <1>3 DEF DeadlinesKept, StampPast, SameStamp
<1> QED BY <1>3, <1>4, <1>5, <1>6, MoveDeadlines

LEMMA RestartedDeadlines ==
  ASSUME Inductive, DeadlinesKept, LetsGo(k, k'), NEW t \in Task,
         k.container[t] = "ready", NEW c, call' = [call EXCEPT ![t] = c],
         JustStamped(k, c), StampPast(k, c)
  PROVE  DeadlinesKept'
<1>1. call \in [Task -> Call] BY DEF Inductive, TypeOK
<1>2. call'[t] = c /\ \A u \in Task \ {t} : call'[u] = call[u] BY <1>1
<1>3. k'.container[t] \notin {"delayed", "overflow"} BY DEF LetsGo
<1> QED BY <1>2, <1>3, MoveDeadlines

LEMMA ReturnDeadlines ==
  ASSUME Inductive, DeadlinesKept, LetsGo(k, k'), NEW t \in Task,
         k.container[t] = "ready", Return(t)
  PROVE  DeadlinesKept'
<1>1. JustStamped(k, NoCall) /\ StampPast(k, NoCall) BY DEF JustStamped, StampPast, NoCall
<1> QED BY <1>1, RestartedDeadlines DEF Return

LEMMA InvokeDeadlines ==
  ASSUME Inductive, DeadlinesKept, NEW t \in Task, NEW op, NEW ticks,
         Invoke(t, op, ticks)
  PROVE  DeadlinesKept'
<1> DEFINE c == [NoCall EXCEPT !.at = "try", !.op = op, !.xTicksToWait = ticks]
<1>1. At(t, "idle") /\ k' = k /\ call' = [call EXCEPT ![t] = c] BY DEF Invoke
<1>2. c.at = "try" /\ c.xEntryTimeSet = FALSE BY DEF NoCall
<1> HIDE DEF c
<1>3. JustStamped(k, c) /\ StampPast(k, c) BY <1>2 DEF JustStamped, StampPast
<1>4. k.container[t] = "ready" /\ LetsGo(k, k') BY <1>1, AtFacts, SameKernelLetsGo
<1> QED BY <1>1, <1>3, <1>4, RestartedDeadlines

LEMMA SucceedDeadlines ==
  ASSUME Inductive, DeadlinesKept, NEW t \in Task, Succeed(t)
  PROVE  DeadlinesKept'
<1>1. At(t, "try") /\ Return(t) BY DEF Succeed
<1>2. k' = k \/ \E head \in Task : k' = WakeAndYield(k, head)
  BY DEF Succeed, HeadOf, Waiting
<1>3. LetsGo(k, k') /\ k.container[t] = "ready"
  BY <1>1, <1>2, AtFacts, WakeLetsGo, SameKernelLetsGo
<1> QED BY <1>1, <1>3, ReturnDeadlines

LEMMA FailAtOnceDeadlines ==
  ASSUME Inductive, DeadlinesKept, NEW t \in Task, FailAtOnce(t)
  PROVE  DeadlinesKept'
<1>1. At(t, "try") /\ Return(t) /\ k' = k BY DEF FailAtOnce
<1>2. LetsGo(k, k') /\ k.container[t] = "ready" BY <1>1, AtFacts, SameKernelLetsGo
<1> QED BY <1>1, <1>2, ReturnDeadlines

\* The time is taken on the first turn of the loop and kept on the others.
LEMMA PrepareToBlockDeadlines ==
  ASSUME Inductive, DeadlinesKept, NEW t \in Task, PrepareToBlock(t)
  PROVE  DeadlinesKept'
<1> DEFINE stamped == IF call[t].xEntryTimeSet THEN call[t]
                      ELSE vTaskInternalSetTimeOutState(k, call[t])
           c == [stamped EXCEPT !.at = "suspend", !.xEntryTimeSet = TRUE]
<1>1. At(t, "try") /\ k' = k /\ call' = [call EXCEPT ![t] = c] BY DEF PrepareToBlock
<1>2. /\ LetsGo(k, k') /\ k.container[t] = "ready" /\ k \in KernelState
      /\ call[t] \in Call
  BY <1>1, AtFacts, SameKernelLetsGo
<1>3. /\ k.xTickCount \in Nat /\ k.xNumOfOverflows \in Nat
      /\ TimeOf(k.xNumOfOverflows, k.xTickCount) \in Nat
  <2>1. k.xTickCount \in Nat /\ k.xNumOfOverflows \in Nat BY <1>2 DEF KernelState, Tick
  <2> QED BY <2>1, TimeOfFacts
<1>4. c.at = "suspend" /\ StampPast(k, c)
  <2>1. CASE call[t].xEntryTimeSet
    <3>1. c = [call[t] EXCEPT !.at = "suspend", !.xEntryTimeSet = TRUE] BY <2>1
    <3>2. /\ c.at = "suspend"
          /\ c.xTimeOnEntering = call[t].xTimeOnEntering
          /\ c.xOverflowCount = call[t].xOverflowCount
      BY <1>2, <3>1 DEF Call
    <3>3. StampPast(k, call[t]) BY DEF DeadlinesKept
    <3> QED BY <2>1, <3>2, <3>3 DEF StampPast
  <2>2. CASE ~call[t].xEntryTimeSet
    <3>1. /\ c.at = "suspend"
          /\ c.xTimeOnEntering = k.xTickCount
          /\ c.xOverflowCount = k.xNumOfOverflows
      BY <1>2, <2>2 DEF Call, vTaskInternalSetTimeOutState
    <3> QED BY <1>3, <3>1 DEF StampPast
  <2> QED BY <2>1, <2>2
<1> HIDE DEF c
<1>5. JustStamped(k, c) BY <1>4 DEF JustStamped
<1> QED BY <1>1, <1>2, <1>4, <1>5, RestartedDeadlines

LEMMA SuspendAllDeadlines ==
  ASSUME Inductive, DeadlinesKept, NEW t \in Task, SuspendAll(t)
  PROVE  DeadlinesKept'
<1>1. At(t, "suspend") /\ GoTo(t, "lock") /\ k \in KernelState
      /\ k' = [k EXCEPT !.uxSchedulerSuspended = @ + 1]
  BY AtFacts DEF SuspendAll, vTaskSuspendAll
<1>2. /\ k' \in KernelState
      /\ k'.container = k.container /\ k'.xItemValue = k.xItemValue
      /\ k'.xTickCount = k.xTickCount /\ k'.xNumOfOverflows = k.xNumOfOverflows
      /\ k'.xPendedTicks = k.xPendedTicks
      /\ k'.xNextTaskUnblockTime = k.xNextTaskUnblockTime
  BY <1>1 DEF KernelState
<1>3. LetsGo(k, k') BY <1>2, SameListsLetGo
<1> QED BY <1>1, <1>3, MovedDeadlines DEF Where

LEMMA LockQueueDeadlines ==
  ASSUME Inductive, DeadlinesKept, NEW t \in Task, prvLockQueue(t)
  PROVE  DeadlinesKept'
<1>1. At(t, "lock") /\ k' = k /\ GoTo(t, "check") BY DEF prvLockQueue
<1>2. LetsGo(k, k') BY <1>1, AtFacts, SameKernelLetsGo
<1> QED BY <1>1, <1>2, MovedDeadlines DEF Where

\* What xTaskCheckForTimeOut leaves: a time in the past, and of a wait that is
\* not over the time it is called at.
LEMMA CheckedStamp ==
  ASSUME NEW q \in KernelState, NEW c \in Call, StampPast(q, c), c.xEntryTimeSet
  PROVE  LET d == xTaskCheckForTimeOut(q, c)
         IN  /\ d \in Call
             /\ StampPast(q, d)
             /\ ~TimedOut(q, c) /\ d.xTicksToWait # portMAX_DELAY =>
                  /\ d.xOverflowCount = q.xNumOfOverflows
                  /\ d.xTimeOnEntering = q.xTickCount
                  /\ d.xTicksToWait > 0
<1> DEFINE n == c.xTicksToWait - Elapsed(q, c)
           d == xTaskCheckForTimeOut(q, c)
           e == vTaskInternalSetTimeOutState(q, [c EXCEPT !.xTicksToWait = n])
           z == [c EXCEPT !.xTicksToWait = 0]
<1>1. /\ q.xTickCount \in Nat /\ q.xNumOfOverflows \in Nat
      /\ TimeOf(q.xNumOfOverflows, q.xTickCount) \in Nat
  <2>1. q.xTickCount \in Nat /\ q.xNumOfOverflows \in Nat BY DEF KernelState, Tick
  <2> QED BY <2>1, TimeOfFacts
<1>2. Elapsed(q, c) \in Nat /\ c.xTicksToWait \in Nat
  BY DEF Elapsed, KernelState, Call, Tick
<1>3. Elapsed(q, c) < c.xTicksToWait => n > 0 BY <1>2
<1> HIDE DEF n
<1>4. d \in Call BY CheckedCall
<1>5. /\ e.xOverflowCount = q.xNumOfOverflows
      /\ e.xTimeOnEntering = q.xTickCount
      /\ e.xTicksToWait = n
  BY DEF Call, vTaskInternalSetTimeOutState
<1>6. StampPast(q, e) BY <1>1, <1>5 DEF StampPast
<1>7. StampPast(q, z) BY DEF StampPast, Call
<1>8. d \in {c, e, z} BY DEF xTaskCheckForTimeOut, n
<1>9. c.xTicksToWait # portMAX_DELAY /\ ~TimedOut(q, c)
        => d = e /\ Elapsed(q, c) < c.xTicksToWait
  BY <1>2 DEF xTaskCheckForTimeOut, TimedOut, n
<1>10. c.xTicksToWait = portMAX_DELAY => d = c BY DEF xTaskCheckForTimeOut
<1> HIDE DEF d, e, z
<1>11. StampPast(q, d) BY <1>6, <1>7, <1>8
<1>12. ~TimedOut(q, c) /\ d.xTicksToWait # portMAX_DELAY =>
         /\ d.xOverflowCount = q.xNumOfOverflows
         /\ d.xTimeOnEntering = q.xTickCount
         /\ d.xTicksToWait > 0
  BY <1>3, <1>5, <1>9, <1>10
<1> QED BY <1>4, <1>11, <1>12 DEF d

LEMMA CheckTimeOutDeadlines ==
  ASSUME Inductive, DeadlinesKept, NEW t \in Task, CheckTimeOut(t)
  PROVE  DeadlinesKept'
<1> DEFINE d == xTaskCheckForTimeOut(k, call[t])
<1>1. At(t, "check") /\ k' = k BY DEF CheckTimeOut
<1>2. PICK c : /\ call' = [call EXCEPT ![t] = c]
               /\ \/ c = [d EXCEPT !.at = "unlockTx", !.next = "timeout"]
                  \/ /\ c = [d EXCEPT !.at = "place", !.next = "yield"]
                     /\ ~TimedOut(k, call[t])
                  \/ c = [d EXCEPT !.at = "unlockTx", !.next = "loop"]
  BY DEF CheckTimeOut
<1>3. /\ k.container[t] = "ready" /\ k \in KernelState /\ call[t] \in Call
      /\ call[t].xEntryTimeSet /\ LetsGo(k, k')
      /\ StampPast(k, call[t])
  BY <1>1, AtFacts, SameKernelLetsGo DEF Inductive, CallProgress, DeadlinesKept
<1>4. /\ d \in Call
      /\ StampPast(k, d)
      /\ ~TimedOut(k, call[t]) /\ d.xTicksToWait # portMAX_DELAY =>
           /\ d.xOverflowCount = k.xNumOfOverflows
           /\ d.xTimeOnEntering = k.xTickCount
           /\ d.xTicksToWait > 0
  BY <1>3, CheckedStamp
<1> HIDE DEF d
<1>5. /\ SameStamp(d, c)
      /\ c.at = "place" => ~TimedOut(k, call[t])
  BY <1>2, <1>4 DEF Call, SameStamp
<1>6. StampPast(k, c) BY <1>4, <1>5 DEF StampPast, SameStamp
<1>7. JustStamped(k, c) BY <1>4, <1>5 DEF JustStamped, SameStamp, Timed
<1> QED BY <1>2, <1>3, <1>6, <1>7, RestartedDeadlines

\* Blocking puts the running task on the list of its wake time.
LEMMA PlaceIs ==
  ASSUME NEW q \in KernelState, NEW l \in EventList, NEW ticks \in Tick,
         SwitchAskedFor(q)
  PROVE  LET r == vTaskPlaceOnEventList(q, l, ticks)
             me == q.pxCurrentTCB
             wake == (q.xTickCount + ticks) % TickMod
         IN  /\ r \in KernelState
             /\ r.xTickCount = q.xTickCount
             /\ r.xNumOfOverflows = q.xNumOfOverflows
             /\ r.xPendedTicks = q.xPendedTicks
             /\ \A u \in Task \ {me} : /\ r.container[u] = q.container[u]
                                       /\ r.xItemValue[u] = q.xItemValue[u]
             /\ r.xNextTaskUnblockTime <= q.xNextTaskUnblockTime
             /\ IF ticks = portMAX_DELAY THEN r.container[me] = "suspended"
                ELSE /\ r.xItemValue[me] = wake
                     /\ IF wake < q.xTickCount THEN r.container[me] = "overflow"
                        ELSE /\ r.container[me] = "delayed"
                             /\ r.xNextTaskUnblockTime <= wake
<1> DEFINE me == q.pxCurrentTCB
           p == [q EXCEPT !.event[me] = l]
           wake == (q.xTickCount + ticks) % TickMod
           n == IF wake < q.xNextTaskUnblockTime THEN wake
                                                 ELSE q.xNextTaskUnblockTime
           r == vTaskPlaceOnEventList(q, l, ticks)
<1>1. /\ p \in KernelState
      /\ p.pxCurrentTCB = me
      /\ p.container = q.container /\ p.xItemValue = q.xItemValue
      /\ p.xTickCount = q.xTickCount /\ p.xNumOfOverflows = q.xNumOfOverflows
      /\ p.xPendedTicks = q.xPendedTicks
      /\ p.xNextTaskUnblockTime = q.xNextTaskUnblockTime
  BY DEF KernelState
<1>2. wake \in Tick /\ wake \in Nat BY TickModulo DEF KernelState, Tick
<1>3. q.xNextTaskUnblockTime \in Nat /\ me \in Task BY DEF KernelState, Tick
<1>4. n <= q.xNextTaskUnblockTime /\ n <= wake BY <1>2, <1>3
<1>5. r \in KernelState BY PlacePreserves
<1>6. r = IF ticks = portMAX_DELAY
            THEN [p EXCEPT !.container[me] = "suspended"]
          ELSE IF wake < q.xTickCount
            THEN [p EXCEPT !.container[me] = "overflow", !.xItemValue[me] = wake]
          ELSE [p EXCEPT !.container[me] = "delayed", !.xItemValue[me] = wake,
                         !.xNextTaskUnblockTime = n]
  <2>1. r = prvAddCurrentTaskToDelayedList(p, ticks, TRUE) BY DEF vTaskPlaceOnEventList
  <2> HIDE DEF p, r
  <2> QED BY <1>1, <2>1 DEF prvAddCurrentTaskToDelayedList
<1> HIDE DEF p, r, wake, n
<1>7. CASE ticks = portMAX_DELAY
  <2>1. r = [p EXCEPT !.container[me] = "suspended"] BY <1>6, <1>7
  <2>2. /\ r.xTickCount = q.xTickCount
        /\ r.xNumOfOverflows = q.xNumOfOverflows
        /\ r.xPendedTicks = q.xPendedTicks
        /\ r.xNextTaskUnblockTime = q.xNextTaskUnblockTime
        /\ r.xItemValue = q.xItemValue
        /\ r.container = [q.container EXCEPT ![me] = "suspended"]
    BY <1>1, <2>1 DEF KernelState
  <2>3. \A u \in Task : r.container[u] = IF u = me THEN "suspended"
                                                   ELSE q.container[u]
    BY <2>2 DEF KernelState
  <2> QED BY <1>3, <1>5, <1>7, <2>2, <2>3 DEF r
<1>8. CASE ticks # portMAX_DELAY /\ wake < q.xTickCount
  <2>1. r = [p EXCEPT !.container[me] = "overflow", !.xItemValue[me] = wake] BY <1>6, <1>8
  <2>2. /\ r.xTickCount = q.xTickCount
        /\ r.xNumOfOverflows = q.xNumOfOverflows
        /\ r.xPendedTicks = q.xPendedTicks
        /\ r.xNextTaskUnblockTime = q.xNextTaskUnblockTime
        /\ r.xItemValue = [q.xItemValue EXCEPT ![me] = wake]
        /\ r.container = [q.container EXCEPT ![me] = "overflow"]
    BY <1>1, <2>1 DEF KernelState
  <2>3. \A u \in Task : /\ r.container[u] = IF u = me THEN "overflow"
                                                      ELSE q.container[u]
                        /\ r.xItemValue[u] = IF u = me THEN wake
                                                       ELSE q.xItemValue[u]
    BY <2>2 DEF KernelState
  <2> QED BY <1>3, <1>5, <1>8, <2>2, <2>3 DEF r, wake
<1>9. CASE ticks # portMAX_DELAY /\ ~(wake < q.xTickCount)
  <2>1. r = [p EXCEPT !.container[me] = "delayed", !.xItemValue[me] = wake,
                      !.xNextTaskUnblockTime = n]
    BY <1>6, <1>9
  <2>2. /\ r.xTickCount = q.xTickCount
        /\ r.xNumOfOverflows = q.xNumOfOverflows
        /\ r.xPendedTicks = q.xPendedTicks
        /\ r.xNextTaskUnblockTime = n
        /\ r.xItemValue = [q.xItemValue EXCEPT ![me] = wake]
        /\ r.container = [q.container EXCEPT ![me] = "delayed"]
    BY <1>1, <2>1 DEF KernelState
  <2>3. \A u \in Task : /\ r.container[u] = IF u = me THEN "delayed"
                                                      ELSE q.container[u]
                        /\ r.xItemValue[u] = IF u = me THEN wake
                                                       ELSE q.xItemValue[u]
    BY <2>2 DEF KernelState
  <2> QED BY <1>3, <1>4, <1>5, <1>9, <2>2, <2>3 DEF r, wake
<1> QED BY <1>7, <1>8, <1>9

\* A wake time is in this turn of the tick count or in the next.
LEMMA WakeTime ==
  ASSUME NEW n \in Nat, NEW now \in Tick, NEW ticks \in Tick, ticks > 0
  PROVE  LET wake == (now + ticks) % TickMod
         IN  IF wake < now THEN TimeOf(n, now) + ticks = TimeOf(n + 1, wake)
             ELSE now < wake /\ TimeOf(n, now) + ticks = TimeOf(n, wake)
<1> DEFINE wake == (now + ticks) % TickMod
           p == n * TickMod
           p1 == (n + 1) * TickMod
<1>1. p \in Nat /\ p1 = p + TickMod BY TickModType, Turns
<1>2. wake = IF now + ticks < TickMod THEN now + ticks ELSE now + ticks - TickMod
  BY TickModType DEF Tick
<1>3. now \in Nat /\ ticks \in Nat /\ ticks < TickMod BY DEF Tick
<1>4. /\ TimeOf(n, now) = p + now
      /\ TimeOf(n, wake) = p + wake /\ TimeOf(n + 1, wake) = p1 + wake
  BY DEF TimeOf
<1> HIDE DEF p, p1, wake
<1>5. IF wake < now THEN TimeOf(n, now) + ticks = TimeOf(n + 1, wake)
      ELSE now < wake /\ TimeOf(n, now) + ticks = TimeOf(n, wake)
  BY <1>1, <1>2, <1>3, <1>4, TickModType
<1> QED BY <1>5 DEF wake

LEMMA LastTickType ==
  /\ LastTick \in Nat /\ InitialTick \in Nat /\ TickBound \in Nat
  /\ InitialTick <= LastTick /\ TickBound <= LastTick
  /\ TickMod * TickMod \in Nat /\ TickMod + TickMod <= TickMod * TickMod
<1> DEFINE m == TickMod * TickMod
           p == 1 * TickMod
<1>1. m \in Nat /\ p + TickMod <= m BY TickModType, Turns
<1>2. p = TickMod BY TickModType
<1>3. InitialTick \in Nat /\ TickBound \in Nat BY DEF Tick
<1>4. LastTick \in Nat /\ InitialTick <= LastTick /\ TickBound <= LastTick
  BY <1>3 DEF LastTick
<1> HIDE DEF m, p
<1>5. m \in Nat /\ TickMod + TickMod <= m BY <1>1, <1>2
<1> QED BY <1>3, <1>4, <1>5 DEF m

LEMMA PlaceDeadlines ==
  ASSUME Inductive, DeadlinesKept, NEW t \in Task, PlaceOnEventList(t)
  PROVE  DeadlinesKept'
<1> DEFINE ticks == call[t].xTicksToWait
           l == WaitList(call[t].op)
           wake == (k.xTickCount + ticks) % TickMod
           c == Moved(call[t], "unlockTx")
<1>1. /\ At(t, "place") /\ GoTo(t, "unlockTx")
      /\ k' = vTaskPlaceOnEventList(k, l, ticks)
  BY DEF PlaceOnEventList
<1>2. /\ k \in KernelState /\ call[t] \in Call /\ call \in [Task -> Call]
      /\ k.pxCurrentTCB = t /\ SwitchAskedFor(k)
      /\ call[t].at = "place" /\ call[t].xEntryTimeSet
  BY <1>1, AtFacts DEF Inductive, CallProgress
<1>3. l \in EventList /\ ticks \in Tick BY <1>2 DEF WaitList, Call
<1>4. /\ call' = [call EXCEPT ![t] = c]
      /\ SameStamp(call[t], c) /\ c.at = "unlockTx"
  BY <1>1, <1>2, GoToMoved DEF Moved, Call, SameStamp
<1> HIDE DEF c, l, ticks, wake
<1>5. /\ k' \in KernelState
      /\ k'.xTickCount = k.xTickCount
      /\ k'.xNumOfOverflows = k.xNumOfOverflows
      /\ k'.xPendedTicks = k.xPendedTicks
      /\ \A u \in Task \ {t} : /\ k'.container[u] = k.container[u]
                               /\ k'.xItemValue[u] = k.xItemValue[u]
      /\ k'.xNextTaskUnblockTime <= k.xNextTaskUnblockTime
      /\ IF ticks = portMAX_DELAY THEN k'.container[t] = "suspended"
         ELSE /\ k'.xItemValue[t] = wake
              /\ IF wake < k.xTickCount THEN k'.container[t] = "overflow"
                 ELSE /\ k'.container[t] = "delayed"
                      /\ k'.xNextTaskUnblockTime <= wake
  BY <1>1, <1>2, <1>3, PlaceIs DEF wake
<1>6. call'[t] = c /\ \A u \in Task \ {t} : call'[u] = call[u] BY <1>2, <1>4
<1>7. ticks # portMAX_DELAY =>
        /\ Timed(call[t])
        /\ IF wake < k.xTickCount
             THEN Deadline(call[t]) = TimeOf(k.xNumOfOverflows + 1, wake)
             ELSE /\ k.xTickCount < wake
                  /\ Deadline(call[t]) = TimeOf(k.xNumOfOverflows, wake)
  <2> SUFFICES ASSUME ticks # portMAX_DELAY
               PROVE  /\ Timed(call[t])
                      /\ IF wake < k.xTickCount
                           THEN Deadline(call[t]) = TimeOf(k.xNumOfOverflows + 1, wake)
                           ELSE /\ k.xTickCount < wake
                                /\ Deadline(call[t]) = TimeOf(k.xNumOfOverflows, wake)
    OBVIOUS
  <2>1. Timed(call[t]) BY <1>2 DEF Timed, ticks
  <2>2. /\ call[t].xOverflowCount = k.xNumOfOverflows
        /\ call[t].xTimeOnEntering = k.xTickCount
        /\ ticks > 0
    BY <1>2, <2>1 DEF DeadlinesKept, JustStamped, ticks
  <2>3. Deadline(call[t]) = TimeOf(k.xNumOfOverflows, k.xTickCount) + ticks
    BY <2>2 DEF Deadline, TimeOf, ticks
  <2>4. k.xNumOfOverflows \in Nat /\ k.xTickCount \in Tick BY <1>2 DEF KernelState, Tick
  <2>5. IF wake < k.xTickCount
          THEN TimeOf(k.xNumOfOverflows, k.xTickCount) + ticks
                 = TimeOf(k.xNumOfOverflows + 1, wake)
          ELSE /\ k.xTickCount < wake
               /\ TimeOf(k.xNumOfOverflows, k.xTickCount) + ticks
                    = TimeOf(k.xNumOfOverflows, wake)
    BY <1>3, <2>2, <2>4, WakeTime DEF wake
  <2> QED BY <2>1, <2>3, <2>5
<1>8. Timed(c) = Timed(call[t]) /\ Deadline(c) = Deadline(call[t])
  BY <1>4 DEF SameStamp, Timed, Deadline
<1>9. ListedToDeadline(k', call')
  <2>1. ASSUME NEW u \in Task \ {t}
        PROVE  /\ k'.container[u] = "delayed" =>
                    /\ Timed(call'[u])
                    /\ Deadline(call'[u]) = TimeOf(k'.xNumOfOverflows, k'.xItemValue[u])
               /\ k'.container[u] = "overflow" =>
                    /\ Timed(call'[u])
                    /\ Deadline(call'[u])
                         = TimeOf(k'.xNumOfOverflows + 1, k'.xItemValue[u])
    BY <1>5, <1>6 DEF DeadlinesKept, ListedToDeadline
  <2>2. /\ k'.container[t] = "delayed" =>
             /\ Timed(call'[t])
             /\ Deadline(call'[t]) = TimeOf(k'.xNumOfOverflows, k'.xItemValue[t])
        /\ k'.container[t] = "overflow" =>
             /\ Timed(call'[t])
             /\ Deadline(call'[t]) = TimeOf(k'.xNumOfOverflows + 1, k'.xItemValue[t])
    BY <1>5, <1>6, <1>7, <1>8
  <2> QED BY <2>1, <2>2 DEF ListedToDeadline
<1>10. NextWakeKnown(k')
  <2>1. /\ k.xNextTaskUnblockTime \in Nat /\ k'.xNextTaskUnblockTime \in Nat
        /\ \A u \in Task : k.xItemValue[u] \in Nat
    BY <1>2, <1>5 DEF KernelState, Tick
  <2>2. \A u \in Task \ {t} : k'.container[u] = "delayed" =>
          k'.xNextTaskUnblockTime <= k'.xItemValue[u]
    BY <1>5, <2>1 DEF DeadlinesKept, NextWakeKnown
  <2> QED BY <1>5, <2>2 DEF NextWakeKnown
<1>11. NobodyDue(k')
  <2>1. \A u \in Task \ {t} : k'.container[u] = "delayed" =>
          k'.xTickCount < k'.xItemValue[u]
    BY <1>5 DEF DeadlinesKept, NobodyDue
  <2> QED BY <1>5, <1>7, <2>1 DEF NobodyDue
<1>12. \A u \in Task : JustStamped(k', call'[u]) /\ StampPast(k', call'[u])
  <2>1. StampPast(k', c) BY <1>4, <1>5 DEF DeadlinesKept, StampPast, SameStamp
  <2>2. JustStamped(k', c) BY <1>4 DEF JustStamped
  <2>3. \A u \in Task \ {t} : JustStamped(k', call'[u]) /\ StampPast(k', call'[u])
    BY <1>5, <1>6 DEF DeadlinesKept, JustStamped, StampPast
  <2> QED BY <1>6, <2>1, <2>2, <2>3
<1>13. (Now + k.xPendedTicks <= LastTick)' BY <1>5 DEF DeadlinesKept, Now
<1> QED BY <1>9, <1>10, <1>11, <1>12, <1>13 DEF DeadlinesKept

LEMMA UnlockDeadlines ==
  ASSUME Inductive, DeadlinesKept, NEW t \in Task, UnlockTx(t) \/ UnlockRx(t)
  PROVE  DeadlinesKept'
<1>1. /\ k' = k \/ \E l, n : WakeFor(l, n)
      /\ GoTo(t, "unlockRx") \/ GoTo(t, "resume")
  BY Zenon DEF UnlockTx, UnlockRx
<1>2. k \in KernelState BY DEF Inductive, TypeOK
<1>3. LetsGo(k, k') BY <1>1, <1>2, WakeForLetsGo, SameKernelLetsGo
<1> QED BY <1>1, <1>3, MovedDeadlines DEF Where

LEMMA ResumeAllDeadlines ==
  ASSUME Inductive, DeadlinesKept, NEW t \in Task, ResumeAll(t)
  PROVE  DeadlinesKept'
<1>1. At(t, "resume") /\ GoTo(t, "ticks") /\ k' = ReleaseScheduler(k) BY DEF ResumeAll
<1>2. LetsGo(k, k') BY <1>1, AtFacts, ReleaseLetsGo DEF Suspended
<1> QED BY <1>1, <1>2, MovedDeadlines DEF Where

\* A tick counted keeps the deadlines: nobody is about to block meanwhile.
LEMMA TickedDeadlines ==
  ASSUME Inductive, DeadlinesKept, call' = call,
         k.uxSchedulerSuspended = 0,
         ListedToDeadline(k', call), NextWakeKnown(k'), NobodyDue(k'),
         k'.xNumOfOverflows \in Nat, k'.xTickCount \in Nat,
         TimeOf(k'.xNumOfOverflows, k'.xTickCount)
           = TimeOf(k.xNumOfOverflows, k.xTickCount) + 1,
         TimeOf(k'.xNumOfOverflows, k'.xTickCount) + k'.xPendedTicks <= LastTick
  PROVE  DeadlinesKept'
<1>1. \A t \in Task : call[t].at # "place" BY DEF Inductive, OwnSuspension, Suspended
<1>2. \A t \in Task : JustStamped(k', call'[t]) BY <1>1 DEF JustStamped
<1>3. /\ TimeOf(k.xNumOfOverflows, k.xTickCount) \in Nat
      /\ \A t \in Task : TimeOf(call[t].xOverflowCount, call[t].xTimeOnEntering) \in Nat
  <2>1. /\ k.xNumOfOverflows \in Nat /\ k.xTickCount \in Nat
        /\ \A t \in Task : /\ call[t].xOverflowCount \in Nat
                           /\ call[t].xTimeOnEntering \in Nat
    BY DEF Inductive, TypeOK, KernelState, Call, Tick
  <2> QED BY <2>1, TimeOfFacts
<1>4. \A t \in Task : StampPast(k', call'[t]) BY <1>3 DEF DeadlinesKept, StampPast
<1>5. (Now + k.xPendedTicks <= LastTick)' BY DEF Now, TimeOf
<1> QED BY <1>2, <1>4, <1>5 DEF DeadlinesKept

LEMMA ReplayDeadlines ==
  ASSUME Inductive, DeadlinesKept, NEW t \in Task, ReplayPendedTick(t),
         LastTick < TickMod * TickMod
  PROVE  DeadlinesKept'
<1> DEFINE r == CountTick(k)
           y == r.xYieldPending \/ SwitchRequired(k, r)
           now == TimeOf(k.xNumOfOverflows, k.xTickCount)
<1>1. /\ At(t, "ticks") /\ k' = ReplayTick(k) /\ call' = call
      /\ k.xPendedTicks > 0
  BY DEF ReplayPendedTick
<1>2. k \in KernelState /\ k.uxSchedulerSuspended = 0 BY <1>1, AtFacts DEF Suspended
<1>3. /\ now \in Nat /\ k.xPendedTicks \in Nat
      /\ now + k.xPendedTicks <= LastTick
  <2>1. k.xNumOfOverflows \in Nat /\ k.xTickCount \in Nat /\ k.xPendedTicks \in Nat
    BY <1>2 DEF KernelState, Tick
  <2> QED BY <2>1, TimeOfFacts DEF DeadlinesKept, Now, TimeOf
<1>4. now + 1 < TickMod * TickMod
  <2> DEFINE m == TickMod * TickMod
  <2>1. m \in Nat /\ LastTick \in Nat /\ LastTick < m BY LastTickType
  <2> HIDE DEF m, now
  <2>2. now + 1 < m BY <1>1, <1>3, <2>1
  <2> QED BY <2>2 DEF m
<1>5. /\ r \in KernelState
      /\ ListedToDeadline(r, call)
      /\ NextWakeKnown(r)
      /\ NobodyDue(r)
      /\ TimeOf(r.xNumOfOverflows, r.xTickCount) = now + 1
      /\ r.xPendedTicks = k.xPendedTicks
  BY <1>2, <1>4, CountTickDeadlines DEF DeadlinesKept
<1>6. k' = [r EXCEPT !.xPendedTicks = @ - 1, !.xYieldPending = y] BY <1>1 DEF ReplayTick
<1> HIDE DEF r, y
<1>7. /\ k'.container = r.container /\ k'.xItemValue = r.xItemValue
      /\ k'.xTickCount = r.xTickCount /\ k'.xNumOfOverflows = r.xNumOfOverflows
      /\ k'.xNextTaskUnblockTime = r.xNextTaskUnblockTime
      /\ k'.xPendedTicks = k.xPendedTicks - 1
  BY <1>5, <1>6 DEF KernelState
<1>8. /\ ListedToDeadline(k', call) /\ NextWakeKnown(k') /\ NobodyDue(k')
  BY <1>5, <1>7 DEF ListedToDeadline, NextWakeKnown, NobodyDue
<1>9. /\ k'.xNumOfOverflows \in Nat /\ k'.xTickCount \in Nat
      /\ TimeOf(k'.xNumOfOverflows, k'.xTickCount) = now + 1
  BY <1>5, <1>7 DEF KernelState, Tick
<1>10. TimeOf(k'.xNumOfOverflows, k'.xTickCount) + k'.xPendedTicks <= LastTick
  <2>1. now + 1 + (k.xPendedTicks - 1) = now + k.xPendedTicks BY <1>3
  <2> QED BY <1>3, <1>7, <1>9, <2>1
<1> QED BY <1>1, <1>2, <1>8, <1>9, <1>10, TickedDeadlines

LEMMA ResumeAllReturnDeadlines ==
  ASSUME Inductive, DeadlinesKept, NEW t \in Task, ResumeAllReturn(t)
  PROVE  DeadlinesKept'
<1>1. /\ At(t, "ticks")
      /\ k' = Yield(k) \/ k' = k
      /\ \/ GoTo(t, "try") \/ GoTo(t, "recheck")
         \/ Return(t) /\ call[t].next = "timeout"
  BY Zenon DEF ResumeAllReturn
<1>2. LetsGo(k, k') BY <1>1, AtFacts, YieldLetsGo, SameKernelLetsGo
<1>3. CASE GoTo(t, "try") \/ GoTo(t, "recheck") BY <1>2, <1>3, MovedDeadlines DEF Where
<1>4. CASE Return(t) /\ call[t].next = "timeout"
  <2>1. k.container[t] = "ready" BY <1>1, <1>4, AtFacts
  <2> QED BY <1>2, <1>4, <2>1, ReturnDeadlines
<1> QED BY <1>1, <1>3, <1>4

LEMMA RecheckDeadlines ==
  ASSUME Inductive, DeadlinesKept, NEW t \in Task, RecheckAfterTimeOut(t)
  PROVE  DeadlinesKept'
<1>1. /\ At(t, "recheck") /\ k' = k
      /\ Return(t) \/ GoTo(t, "try")
  BY DEF RecheckAfterTimeOut
<1>2. LetsGo(k, k') /\ k.container[t] = "ready" BY <1>1, AtFacts, SameKernelLetsGo
<1> QED BY <1>1, <1>2, ReturnDeadlines, MovedDeadlines DEF Where

\* Wake-ups by a reset or by an interrupt leave the calls alone.
LEMMA WakeUpDeadlines ==
  ASSUME Inductive, DeadlinesKept, call' = call,
         \/ k' = k
         \/ \E head \in Task : \/ k' = WakeAndYield(k, head)
                               \/ k' = xTaskRemoveFromEventList(k, head)
  PROVE  DeadlinesKept'
<1>1. k \in KernelState BY DEF Inductive, TypeOK
<1>2. LetsGo(k, k') BY <1>1, WakeLetsGo, RemoveLetsGo, SameKernelLetsGo
<1> QED BY <1>2, QuietDeadlines

LEMMA TickDeadlines ==
  ASSUME Inductive, DeadlinesKept, xTaskIncrementTick,
         LastTick < TickMod * TickMod
  PROVE  DeadlinesKept'
<1> DEFINE r == CountTick(k)
           now == TimeOf(k.xNumOfOverflows, k.xTickCount)
           m == TickMod * TickMod
<1>1. /\ k' = TickInterrupt(k) /\ call' = call
      /\ now + k.xPendedTicks < TickBound
  BY DEF xTaskIncrementTick, Now, TimeOf
<1>2. k \in KernelState BY DEF Inductive, TypeOK
<1>3. /\ m \in Nat /\ LastTick \in Nat /\ LastTick < m
      /\ TickBound \in Nat /\ TickBound <= LastTick
  BY LastTickType
<1>4. now \in Nat /\ k.xPendedTicks \in Nat
  <2>1. k.xNumOfOverflows \in Nat /\ k.xTickCount \in Nat /\ k.xPendedTicks \in Nat
    BY <1>2 DEF KernelState, Tick
  <2> QED BY <2>1, TimeOfFacts
<1>5. now + 1 + k.xPendedTicks <= LastTick /\ now + 1 < m
  <2> HIDE DEF now, m
  <2> QED BY <1>1, <1>3, <1>4
<1>6. CASE k.uxSchedulerSuspended # 0
  <2>1. k' = [k EXCEPT !.xPendedTicks = @ + 1] BY <1>1, <1>6 DEF TickInterrupt
  <2>2. /\ k'.container = k.container /\ k'.xItemValue = k.xItemValue
        /\ k'.xTickCount = k.xTickCount /\ k'.xNumOfOverflows = k.xNumOfOverflows
        /\ k'.xPendedTicks = k.xPendedTicks + 1
        /\ k'.xNextTaskUnblockTime = k.xNextTaskUnblockTime
    BY <1>2, <2>1 DEF KernelState
  <2>3. ListedToDeadline(k', call') /\ NextWakeKnown(k') /\ NobodyDue(k') BY <1>1, <2>2
    DEF DeadlinesKept, ListedToDeadline, NextWakeKnown, NobodyDue
  <2>4. \A t \in Task : JustStamped(k', call'[t]) /\ StampPast(k', call'[t])
    BY <1>1, <2>2 DEF DeadlinesKept, JustStamped, StampPast
  <2>5. (Now + k.xPendedTicks <= LastTick)'
    <3>1. Now' = now BY <2>2 DEF Now, TimeOf
    <3>2. now + (k.xPendedTicks + 1) <= LastTick
      <4> HIDE DEF now, m
      <4> QED BY <1>3, <1>4, <1>5
    <3> QED BY <2>2, <3>1, <3>2
  <2> QED BY <2>3, <2>4, <2>5 DEF DeadlinesKept
<1>7. CASE k.uxSchedulerSuspended = 0
  <2>1. k' \in {r, Yield(r)} BY <1>1, <1>7 DEF TickInterrupt
  <2>2. /\ r \in KernelState
        /\ ListedToDeadline(r, call)
        /\ NextWakeKnown(r)
        /\ NobodyDue(r)
        /\ TimeOf(r.xNumOfOverflows, r.xTickCount) = now + 1
        /\ r.xPendedTicks = k.xPendedTicks
    BY <1>2, <1>5, CountTickDeadlines DEF DeadlinesKept
  <2> HIDE DEF r
  <2>3. LetsGo(r, k') BY <2>1, <2>2, YieldLetsGo, SameKernelLetsGo
  <2>4. ListedToDeadline(k', call) /\ NextWakeKnown(k') /\ NobodyDue(k')
    BY <2>2, <2>3, LetsGoKeeps DEF LetsGo
  <2>5. /\ k'.xNumOfOverflows \in Nat /\ k'.xTickCount \in Nat
        /\ TimeOf(k'.xNumOfOverflows, k'.xTickCount) = now + 1
        /\ k'.xPendedTicks = k.xPendedTicks
    BY <2>2, <2>3 DEF LetsGo, KernelState, Tick
  <2> QED BY <1>1, <1>5, <1>7, <2>4, <2>5, TickedDeadlines
<1> QED BY <1>6, <1>7

LEMMA SwitchDeadlines ==
  ASSUME Inductive, DeadlinesKept, SwitchContext
  PROVE  DeadlinesKept'
<1>1. PICK next \in Runnable(k) : k' = vTaskSwitchContext(k, next) BY DEF SwitchContext
<1>2. /\ k \in KernelState /\ k' \in KernelState /\ call' = call
  BY SwitchStep DEF SwitchContext, Inductive, TypeOK
<1>3. /\ k'.container = k.container /\ k'.xItemValue = k.xItemValue
      /\ k'.xTickCount = k.xTickCount /\ k'.xNumOfOverflows = k.xNumOfOverflows
      /\ k'.xPendedTicks = k.xPendedTicks
      /\ k'.xNextTaskUnblockTime = k.xNextTaskUnblockTime
  <2>1. CASE k.uxSchedulerSuspended # 0
    <3>1. k' = [k EXCEPT !.xYieldPending = TRUE, !.pendSV = FALSE]
      BY <1>1, <2>1 DEF vTaskSwitchContext
    <3> QED BY <1>2, <3>1 DEF KernelState
  <2>2. CASE k.uxSchedulerSuspended = 0
    <3>1. k' = [k EXCEPT !.xYieldPending = FALSE, !.pendSV = FALSE,
                         !.pxCurrentTCB = next]
      BY <1>1, <2>2 DEF vTaskSwitchContext
    <3> QED BY <1>2, <3>1 DEF KernelState
  <2> QED BY <2>1, <2>2
<1>4. LetsGo(k, k') BY <1>2, <1>3, SameListsLetGo
<1> QED BY <1>2, <1>4, QuietDeadlines

LEMMA InitDeadlines == Init => DeadlinesKept
<1> SUFFICES ASSUME Init PROVE DeadlinesKept OBVIOUS
<1>1. PICK first \in Task : k = KernelStart(TaskPriority, first, InitialTick) BY DEF Init
<1>2. /\ k.container = [t \in Task |-> "ready"]
      /\ k.xTickCount = InitialTick /\ k.xNumOfOverflows = 0
      /\ k.xPendedTicks = 0
  BY <1>1 DEF KernelStart
<1>3. call = [t \in Task |-> NoCall] BY DEF Init
<1>4. \A t \in Task : k.container[t] = "ready" BY <1>2
<1>5. ListedToDeadline(k, call) /\ NextWakeKnown(k) /\ NobodyDue(k)
  BY <1>4 DEF ListedToDeadline, NextWakeKnown, NobodyDue
<1>6. \A t \in Task : JustStamped(k, call[t]) /\ StampPast(k, call[t])
  BY <1>3 DEF JustStamped, StampPast, NoCall
<1>7. Now + k.xPendedTicks <= LastTick
  <2> DEFINE z == 0 * TickMod
  <2>1. z = 0 BY TickModType
  <2>2. Now + k.xPendedTicks = (z + InitialTick) + 0 BY <1>2 DEF Now
  <2>3. InitialTick \in Nat /\ InitialTick <= LastTick BY LastTickType
  <2> HIDE DEF z
  <2> QED BY <2>1, <2>2, <2>3
<1> QED BY <1>5, <1>6, <1>7 DEF DeadlinesKept

LEMMA NextDeadlines ==
  ASSUME LastTick < TickMod * TickMod
  PROVE  Inductive /\ DeadlinesKept /\ [Next]_vars => DeadlinesKept'
<1> SUFFICES ASSUME Inductive, DeadlinesKept, [Next]_vars PROVE DeadlinesKept' OBVIOUS
<1>1. CASE \E t \in Task : Invocation(t) BY <1>1, InvokeDeadlines DEF Invocation
<1>2. CASE \E t \in Task : Reset(t)
  <2>1. /\ call' = call
        /\ k' = k \/ \E head \in Task : k' = WakeAndYield(k, head)
    BY <1>2 DEF Reset, xQueueGenericReset, HeadOf, Waiting
  <2> QED BY <2>1, WakeUpDeadlines
<1>3. CASE \E t \in Task : Step(t)
  BY <1>3, SucceedDeadlines, FailAtOnceDeadlines, PrepareToBlockDeadlines,
     SuspendAllDeadlines, LockQueueDeadlines, CheckTimeOutDeadlines,
     PlaceDeadlines, UnlockDeadlines, ResumeAllDeadlines, ReplayDeadlines,
     ResumeAllReturnDeadlines, RecheckDeadlines DEF Step
<1>4. CASE xQueueSendFromISR \/ xQueueReceiveFromISR
  <2>1. /\ call' = call
        /\ \/ k' = k
           \/ \E head \in Task : \/ k' = WakeAndYield(k, head)
                                 \/ k' = xTaskRemoveFromEventList(k, head)
    BY <1>4 DEF xQueueSendFromISR, xQueueReceiveFromISR, FromISR, HeadOf, Waiting
  <2> QED BY <2>1, WakeUpDeadlines
<1>5. CASE xTaskIncrementTick BY <1>5, TickDeadlines
<1>6. CASE SwitchContext BY <1>6, SwitchDeadlines
<1>7. CASE UNCHANGED vars
  <2>1. k' = k /\ call' = call BY <1>7 DEF vars
  <2> QED BY <2>1, WakeUpDeadlines
<1> QED BY <1>1, <1>2, <1>3, <1>4, <1>5, <1>6, <1>7 DEF Next, Interrupt

\* The calls' times and the tick count fit the deadlines they were made for,
\* whatever the tasks, the interrupts and the resets do, until the count of
\* overflows itself wraps.
THEOREM DeadlinesAreKept ==
  ASSUME TickBound < TickMod * TickMod
  PROVE  Spec => []DeadlinesKept
<1>1. LastTick < TickMod * TickMod
  <2> DEFINE m == TickMod * TickMod
  <2>1. TickBound < m /\ m \in Nat /\ TickMod + TickMod <= m BY LastTickType
  <2>2. InitialTick \in Nat /\ InitialTick < TickMod BY DEF Tick
  <2> HIDE DEF m
  <2>3. LastTick < m BY <2>1, <2>2, TickModType, LastTickType DEF LastTick
  <2> QED BY <2>3 DEF m
<1>2. Init => DeadlinesKept BY InitDeadlines
<1>3. Inductive /\ DeadlinesKept /\ [Next]_vars => DeadlinesKept' BY <1>1, NextDeadlines
<1> QED BY <1>2, <1>3, InductiveInvariant, PTL DEF Spec

\* Nobody sleeps past its deadline: at every tick, across overflows and with
\* ticks pended while the scheduler was suspended, whoever is on a delayed list
\* gave a finite wait that is not over.
THEOREM NobodyOversleeps ==
  ASSUME TickBound < TickMod * TickMod
  PROVE  Spec => []NoOversleep
<1>1. Inductive /\ DeadlinesKept => NoOversleep
  <2> SUFFICES ASSUME Inductive, DeadlinesKept, NEW t \in Task,
                      k.container[t] \in {"delayed", "overflow"}
               PROVE  Timed(call[t]) /\ Now < Deadline(call[t])
    BY DEF NoOversleep
  <2>1. /\ k.xNumOfOverflows \in Nat /\ k.xNumOfOverflows + 1 \in Nat
        /\ k.xTickCount \in Tick /\ k.xItemValue[t] \in Tick
    BY DEF Inductive, TypeOK, KernelState, Tick
  <2>2. Now = TimeOf(k.xNumOfOverflows, k.xTickCount) BY DEF Now, TimeOf
  <2>3. CASE k.container[t] = "delayed"
    <3>1. /\ Timed(call[t])
          /\ Deadline(call[t]) = TimeOf(k.xNumOfOverflows, k.xItemValue[t])
          /\ k.xTickCount < k.xItemValue[t]
      BY <2>3 DEF DeadlinesKept, ListedToDeadline, NobodyDue
    <3> QED BY <2>1, <2>2, <3>1, TimeLater
  <2>4. CASE k.container[t] = "overflow"
    <3>1. /\ Timed(call[t])
          /\ Deadline(call[t]) = TimeOf(k.xNumOfOverflows + 1, k.xItemValue[t])
      BY <2>4 DEF DeadlinesKept, ListedToDeadline
    <3>2. k.xNumOfOverflows < k.xNumOfOverflows + 1 BY <2>1
    <3> QED BY <2>1, <2>2, <3>1, <3>2, TimeLater
  <2> QED BY <2>3, <2>4
<1> QED BY <1>1, DeadlinesAreKept, InductiveInvariant, PTL

\* xTaskCheckForTimeOut tells exactly whether the wait is over, and keeps the
\* deadline otherwise, if the count has overflowed at most once since the time
\* was last taken.
LEMMA CheckIsExact ==
  ASSUME NEW q \in KernelState, NEW c \in Call, c.xEntryTimeSet, StampPast(q, c),
         q.xNumOfOverflows <= c.xOverflowCount + 1
  PROVE  LET now == TimeOf(q.xNumOfOverflows, q.xTickCount)
             d == xTaskCheckForTimeOut(q, c)
         IN  /\ TimedOut(q, c) <=> Timed(c) /\ now >= Deadline(c)
             /\ Timed(c) /\ ~TimedOut(q, c) => Deadline(d) = Deadline(c)
<1> DEFINE n == q.xNumOfOverflows
           o == c.xOverflowCount
           tick == q.xTickCount
           e == c.xTimeOnEntering
           w == c.xTicksToWait
           now == TimeOf(n, tick)
           p == o * TickMod
           p1 == n * TickMod
           elapsed == Elapsed(q, c)
           d == xTaskCheckForTimeOut(q, c)
<1>1. /\ n \in Nat /\ o \in Nat /\ tick \in Nat /\ e \in Nat /\ w \in Nat
      /\ tick < TickMod /\ e < TickMod /\ w < TickMod
      /\ tick \in Tick /\ e \in Tick
  BY DEF KernelState, Call, Tick
<1>2. (n = o /\ e <= tick) \/ n = o + 1
  <2>1. TimeOf(o, e) <= TimeOf(n, tick) BY DEF StampPast
  <2>2. o < n \/ (o = n /\ e <= tick) BY <1>1, <2>1, TimeOfOrder
  <2> QED BY <1>1, <2>2
<1>3. p \in Nat /\ p1 \in Nat /\ (n = o => p1 = p) /\ (n = o + 1 => p1 = p + TickMod)
  <2>1. /\ o < o + 1 /\ o + 1 \in Nat
        /\ n < n + 1 /\ n + 1 \in Nat
    BY <1>1
  <2>2. p \in Nat /\ (o + 1) * TickMod = p + TickMod BY <1>1, <2>1, TickModType, Turns
  <2>3. p1 \in Nat BY <1>1, <2>1, TickModType, Turns
  <2> QED BY <2>2, <2>3
<1>4. now = p1 + tick /\ Deadline(c) = p + e + w BY DEF TimeOf, Deadline
<1>5. elapsed = IF e <= tick THEN tick - e ELSE tick + TickMod - e
  <2>1. elapsed = (tick + TickMod - e) % TickMod BY DEF Elapsed
  <2> QED BY <1>1, <2>1, TickModType
<1>6. TimedOut(q, c) <=> /\ w # portMAX_DELAY
                         /\ (n # o /\ tick >= e) \/ elapsed >= w
  BY DEF TimedOut
<1>7. Timed(c) <=> w # portMAX_DELAY BY DEF Timed
<1>8. w # portMAX_DELAY /\ ~TimedOut(q, c)
        => Deadline(d) = p1 + tick + (w - elapsed)
  <2> SUFFICES ASSUME w # portMAX_DELAY, ~TimedOut(q, c)
               PROVE  Deadline(d) = p1 + tick + (w - elapsed)
    OBVIOUS
  <2>1. ~(n # o /\ tick >= e) /\ elapsed < w BY <1>1, <1>5, <1>6
  <2>2. d = vTaskInternalSetTimeOutState(q, [c EXCEPT !.xTicksToWait = w - elapsed])
    BY <2>1 DEF xTaskCheckForTimeOut
  <2> HIDE DEF d, elapsed
  <2>3. /\ d.xOverflowCount = n /\ d.xTimeOnEntering = tick
        /\ d.xTicksToWait = w - elapsed
    BY <2>2 DEF vTaskInternalSetTimeOutState, Call
  <2> QED BY <2>3 DEF Deadline
<1> HIDE DEF n, o, tick, e, w, now, p, p1, elapsed, d
<1>9. TimedOut(q, c) <=> Timed(c) /\ now >= Deadline(c)
  BY <1>1, <1>2, <1>3, <1>4, <1>5, <1>6, <1>7
<1>10. Timed(c) /\ ~TimedOut(q, c) => Deadline(d) = Deadline(c)
  <2> SUFFICES ASSUME Timed(c), ~TimedOut(q, c)
               PROVE  Deadline(d) = Deadline(c)
    OBVIOUS
  <2>1. ~(n # o /\ tick >= e) /\ Deadline(d) = p1 + tick + (w - elapsed)
    BY <1>6, <1>7, <1>8
  <2>2. p1 + tick + (w - elapsed) = p + e + w BY <1>1, <1>2, <1>3, <1>5, <2>1, TickModType
  <2> QED BY <1>4, <2>1, <2>2
<1> QED BY <1>9, <1>10 DEF now, d, n, tick

\* A call at its check moves by nothing but the check.
LEMMA OnlyItsCheck ==
  ASSUME Inductive, [Next]_vars, NEW t \in Task, call[t].at = "check",
         call'[t] # call[t]
  PROVE  CheckTimeOut(t)
<1>1. call \in [Task -> Call] BY DEF Inductive, TypeOK
<1>2. PICK u \in Task : Invocation(u) \/ Step(u)
  <2>1. call' # call OBVIOUS
  <2> QED BY <2>1 DEF Next, vars, Reset, xQueueGenericReset, Interrupt, xQueueSendFromISR,
       xQueueReceiveFromISR, xTaskIncrementTick, SwitchContext
<1>3. \/ CheckTimeOut(u)
      \/ /\ \E where \in Where \ {"check"} : At(u, where)
         /\ \E c : call' = [call EXCEPT ![u] = c]
      \/ call' = call
  <2>1. CASE Invocation(u)
    <3>1. At(u, "idle") /\ \E c : call' = [call EXCEPT ![u] = c]
      BY <2>1 DEF Invocation, Invoke
    <3> QED BY <3>1 DEF Where
  <2>2. CASE Succeed(u) \/ FailAtOnce(u) \/ PrepareToBlock(u)
    <3>1. At(u, "try") /\ \E c : call' = [call EXCEPT ![u] = c]
      BY <2>2 DEF Succeed, FailAtOnce, PrepareToBlock, Return
    <3> QED BY <3>1 DEF Where
  <2>3. CASE SuspendAll(u) BY <2>3 DEF SuspendAll, GoTo, Where
  <2>4. CASE prvLockQueue(u) BY <2>4 DEF prvLockQueue, GoTo, Where
  <2>5. CASE PlaceOnEventList(u) BY <2>5 DEF PlaceOnEventList, GoTo, Where
  <2>6. CASE UnlockTx(u) BY <2>6 DEF UnlockTx, GoTo, Where
  <2>7. CASE UnlockRx(u) BY <2>7 DEF UnlockRx, GoTo, Where
  <2>8. CASE ResumeAll(u) BY <2>8 DEF ResumeAll, GoTo, Where
  <2>9. CASE ReplayPendedTick(u) BY <2>9 DEF ReplayPendedTick
  <2>10. CASE ResumeAllReturn(u) BY <2>10 DEF ResumeAllReturn, GoTo, Return, Where
  <2>11. CASE RecheckAfterTimeOut(u) BY <2>11 DEF RecheckAfterTimeOut, GoTo, Return, Where
  <2> QED BY <1>2, <2>1, <2>2, <2>3, <2>4, <2>5, <2>6, <2>7, <2>8, <2>9, <2>10, <2>11
    DEF Step
<1>4. u # t => call'[t] = call[t] \/ CheckTimeOut(u) BY <1>1, <1>3
<1>5. CheckTimeOut(u) /\ u # t => call'[t] = call[t] BY <1>1 DEF CheckTimeOut
<1>6. u = t BY <1>4, <1>5
<1> QED BY <1>3, <1>6 DEF At

\* What TimeOutExact says of one check.
ExactCheck(t) ==
  /\ call'[t].next = "timeout" <=> Timed(call[t]) /\ Now >= Deadline(call[t])
  /\ Timed(call[t]) /\ call'[t].next # "timeout" =>
       Deadline(call'[t]) = Deadline(call[t])

LEMMA CheckTimeOutExact ==
  ASSUME Inductive, DeadlinesKept, NEW t \in Task, CheckTimeOut(t),
         k.xNumOfOverflows <= call[t].xOverflowCount + 1
  PROVE  ExactCheck(t)
<1> DEFINE d == xTaskCheckForTimeOut(k, call[t])
           c == call'[t]
<1>1. At(t, "check") BY DEF CheckTimeOut
<1>2. /\ k \in KernelState /\ call[t] \in Call /\ call \in [Task -> Call]
      /\ call[t].xEntryTimeSet /\ StampPast(k, call[t])
  BY <1>1, AtFacts DEF Inductive, CallProgress, DeadlinesKept
<1>3. d \in Call BY <1>2, CheckedCall
<1>4. /\ TimedOut(k, call[t]) <=> Timed(call[t]) /\ Now >= Deadline(call[t])
      /\ Timed(call[t]) /\ ~TimedOut(k, call[t]) => Deadline(d) = Deadline(call[t])
  <2>1. Now = TimeOf(k.xNumOfOverflows, k.xTickCount) BY DEF Now, TimeOf
  <2> QED BY <1>2, <2>1, CheckIsExact
<1>5. c = IF TimedOut(k, call[t])
            THEN [d EXCEPT !.at = "unlockTx", !.next = "timeout"]
          ELSE IF Blocked(d.op)
            THEN [d EXCEPT !.at = "place", !.next = "yield"]
          ELSE [d EXCEPT !.at = "unlockTx", !.next = "loop"]
  BY <1>2 DEF CheckTimeOut
<1> HIDE DEF d, c
<1>6. /\ c.next = "timeout" <=> TimedOut(k, call[t])
      /\ SameStamp(d, c)
  BY <1>3, <1>5 DEF Call, SameStamp
<1>7. Deadline(c) = Deadline(d) BY <1>6 DEF SameStamp, Deadline
<1> QED BY <1>4, <1>6, <1>7 DEF ExactCheck, c

\* The check of a call made since at most one overflow of the tick count reports
\* the time-out exactly when the deadline has come, and keeps the deadline
\* otherwise.
THEOREM ChecksAreExact ==
  ASSUME TickBound < TickMod * TickMod
  PROVE  Spec => [][\A t \in Task :
           /\ call[t].at = "check" /\ call'[t] # call[t]
           /\ k.xNumOfOverflows <= call[t].xOverflowCount + 1
           => ExactCheck(t)]_vars
<1>1. Inductive /\ DeadlinesKept /\ [Next]_vars =>
        [\A t \in Task :
           /\ call[t].at = "check" /\ call'[t] # call[t]
           /\ k.xNumOfOverflows <= call[t].xOverflowCount + 1
           => ExactCheck(t)]_vars
  BY OnlyItsCheck, CheckTimeOutExact
<1> QED BY <1>1, InductiveInvariant, DeadlinesAreKept, PTL DEF Spec

\* Time-outs are exact, across an overflow too, up to the second overflow.
THEOREM TimeOutsAreExact ==
  ASSUME TickBound < TickMod + TickMod
  PROVE  Spec => TimeOutExact
<1>1. TickBound < TickMod * TickMod
  <2> DEFINE m == TickMod * TickMod
  <2>1. m \in Nat /\ TickMod + TickMod <= m /\ TickBound \in Nat BY LastTickType
  <2> HIDE DEF m
  <2>2. TickBound < m BY <2>1, TickModType
  <2> QED BY <2>2 DEF m
<1>2. LastTick < TickMod + TickMod
  <2>1. InitialTick \in Nat /\ InitialTick < TickMod BY DEF Tick
  <2> QED BY <2>1, TickModType DEF LastTick
<1>3. Inductive /\ DeadlinesKept =>
        \A t \in Task : k.xNumOfOverflows <= call[t].xOverflowCount + 1
  <2> SUFFICES ASSUME Inductive, DeadlinesKept, NEW t \in Task
               PROVE  k.xNumOfOverflows <= call[t].xOverflowCount + 1
    OBVIOUS
  <2>1. /\ k.xNumOfOverflows \in Nat /\ call[t].xOverflowCount \in Nat
        /\ k.xTickCount \in Nat /\ k.xPendedTicks \in Nat
    BY DEF Inductive, TypeOK, KernelState, Call, Tick
  <2>2. k.xNumOfOverflows <= 1
    <3> SUFFICES ASSUME 1 < k.xNumOfOverflows PROVE FALSE BY <2>1
    <3> DEFINE p == 1 * TickMod
               r == k.xNumOfOverflows * TickMod
    <3>1. p \in Nat /\ r \in Nat /\ p + TickMod <= r BY <2>1, TickModType, Turns
    <3>2. p = TickMod BY TickModType
    <3>3. r + k.xTickCount + k.xPendedTicks <= LastTick BY DEF DeadlinesKept, Now
    <3> HIDE DEF p, r
    <3> QED BY <1>2, <2>1, <3>1, <3>2, <3>3, TickModType, LastTickType
  <2> QED BY <2>1, <2>2
<1>4. Inductive /\ DeadlinesKept /\ [Next]_vars =>
        [\A t \in Task :
           call[t].at = "check" /\ call'[t] # call[t] =>
             /\ call'[t].next = "timeout" <=>
                  Timed(call[t]) /\ Now >= Deadline(call[t])
             /\ Timed(call[t]) /\ call'[t].next # "timeout" =>
                  Deadline(call'[t]) = Deadline(call[t])]_vars
  BY <1>3, OnlyItsCheck, CheckTimeOutExact DEF ExactCheck
<1> QED BY <1>1, <1>4, InductiveInvariant, DeadlinesAreKept, PTL DEF Spec, TimeOutExact
=============================================================================
