------------------------------- MODULE Mutex -------------------------------
(***************************************************************************)
(* Mutexes: what queue.c and tasks.c add to a semaphore for a mutex, that  *)
(* is its holder, the recursion count and priority inheritance.  Several   *)
(* tasks, several mutexes.                                                 *)
(*                                                                         *)
(* Queue models how a call blocks.  Here everything a call does with the   *)
(* scheduler suspended is one step (mutexes are not used by interrupts, so *)
(* nothing can come between), and the tick only makes a deadline expire.   *)
(* Event lists are kept in order, with the item values they are sorted by: *)
(* inheritance changes the value of an item that is in a list.             *)
(***************************************************************************)
EXTENDS Naturals, SequencesExt

CONSTANTS Task, Mutexes,
          MaxPriority,   \* configMAX_PRIORITIES
          TaskPriority,  \* the priority each task is created with
          Uses,          \* the mutexes each task takes
          Recursive,     \* the mutexes that are recursive
          Waits,         \* subset of {"none", "finite", "forever"}: xTicksToWait
          MayNest,       \* TRUE: a task that holds a mutex may take another
          SelfTake,      \* TRUE: a task may take a mutex it holds again
          NewPriority,   \* priorities vTaskPrioritySet is called with
          configASSERT_DEFINED, \* whether a failed configASSERT halts
          RecursionBound \* bound on uxRecursiveCallCount

ASSUME MutexAssumption ==
  /\ MaxPriority \in Nat \ {0}
  /\ TaskPriority \in [Task -> 0..(MaxPriority - 1)]
  /\ Uses \in [Task -> SUBSET Mutexes]
  /\ Recursive \subseteq Mutexes
  /\ Waits \subseteq {"none", "finite", "forever"}
  /\ NewPriority \subseteq 0..(MaxPriority - 1)
  /\ MayNest \in BOOLEAN /\ SelfTake \in BOOLEAN
  /\ configASSERT_DEFINED \in BOOLEAN
  /\ RecursionBound \in Nat \ {0}
  /\ "NULL" \notin Task
  /\ IsFiniteSet(Mutexes) /\ Mutexes # {}

VARIABLES uxPriority, uxBasePriority, uxMutexesHeld,
          xItemValue,          \* value of the task's xEventListItem
          overdue,             \* the task that runs on although it lowered its own
                               \* priority below another's, or "NULL"
          xMutexHolder,        \* "NULL" while the mutex is available
          uxRecursiveCallCount,
          waiting,             \* xTasksWaitingToReceive of each mutex
          call                 \* per task, the call it is in

taskVars == <<uxPriority, uxBasePriority, uxMutexesHeld, xItemValue, overdue>>
mutexVars == <<xMutexHolder, uxRecursiveCallCount, waiting>>
vars == <<taskVars, mutexVars, call>>

Priority == 0..(MaxPriority - 1)

\* Mutant: the value of an event list item is off by one.
ValueFromZero(p) == MaxPriority - 1 - p

\* Event lists are sorted by value, so that priorities descend.
ValueOf(p) == MaxPriority - p

\* "asleep": blocked on something else than a mutex.  "asserted": a configASSERT
\* failed, and nothing goes on.
Where == {"idle", "asleep", "try", "block", "blocked", "recheck", "disinherit",
          "asserted"}
\* wait is what is left of xTicksToWait: "none" is 0.
Call == [at : Where, mutex : Mutexes, wait : {"none", "finite", "forever"},
         expired : BOOLEAN,               \* the deadline has passed
         xInheritanceOccurred : BOOLEAN]

NoCall == [at |-> "idle", mutex |-> CHOOSE m \in Mutexes : TRUE, wait |-> "none",
           expired |-> FALSE, xInheritanceOccurred |-> FALSE]

TypeOK ==
  /\ uxPriority \in [Task -> Priority]
  /\ uxBasePriority \in [Task -> Priority]
  /\ uxMutexesHeld \in [Task -> 0..Cardinality(Mutexes)]
  /\ xItemValue \in [Task -> 1..MaxPriority]
  /\ overdue \in Task \cup {"NULL"}
  /\ xMutexHolder \in [Mutexes -> Task \cup {"NULL"}]
  /\ uxRecursiveCallCount \in [Mutexes -> 0..RecursionBound]
  /\ waiting \in [Mutexes -> Seq(Task)]
  /\ \A m \in Mutexes : IsInjective(waiting[m])
  /\ call \in [Task -> Call]

Init ==
  /\ uxPriority = TaskPriority
  /\ uxBasePriority = TaskPriority
  /\ uxMutexesHeld = [t \in Task |-> 0]
  /\ xItemValue = [t \in Task |-> ValueOf(TaskPriority[t])]
  /\ overdue = "NULL"
  /\ xMutexHolder = [m \in Mutexes |-> "NULL"]
  /\ uxRecursiveCallCount = [m \in Mutexes |-> 0]
  /\ waiting = [m \in Mutexes |-> <<>>]
  /\ call = [t \in Task |-> NoCall]

--------------------

\* The scheduler runs a ready task of the highest priority (Queue shows that
\* every switch that takes is asked for), but for a task that lowered its own
\* priority: that asks for none, and the task runs on until one comes.
Ready == {t \in Task : call[t].at \notin {"asleep", "blocked"}}
Halted == configASSERT_DEFINED /\ \E t \in Task : call[t].at = "asserted"
Running(t) ==
  /\ t \in Ready /\ ~Halted
  /\ IF overdue = "NULL" THEN \A u \in Ready : uxPriority[u] <= uxPriority[t]
                         ELSE overdue = t

SwitchContext ==
  /\ overdue # "NULL" /\ ~Halted
  /\ overdue' = "NULL"
  /\ UNCHANGED <<uxPriority, uxBasePriority, uxMutexesHeld, xItemValue, mutexVars, call>>

At(t, where) == Running(t) /\ call[t].at = where

\* A call goes on at another step, or returns.
GoTo(t, where) ==
  call' = [call EXCEPT ![t] = IF where = "idle" THEN NoCall
                              ELSE [@ EXCEPT !.at = where]]

Available(m) == xMutexHolder[m] = "NULL"
Held(t) == {m \in Mutexes : xMutexHolder[m] = t}
Waiting(m) == Range(waiting[m])

\* Behind the items of the same value or less, up to the first greater one.
vListInsert(l, t) ==
  LET later == {i \in 1..Len(l) : xItemValue[l[i]] > xItemValue[t]}
  IN  InsertAt(l, IF later = {} THEN Len(l) + 1 ELSE Min(later), t)

uxListRemove(l, t) ==
  IF t \in Range(l) THEN RemoveAt(l, CHOOSE i \in DOMAIN l : l[i] = t) ELSE l

--------------------
(* Priority inheritance.                                                   *)

\* Mutant: the holder's priority is left alone.
InheritNothing(h, p) == UNCHANGED <<uxPriority, xItemValue>>

\* xTaskPriorityInherit called by a task of priority p.  A ready holder moves
\* to another ready list, a blocked one keeps its place in its event list.
xTaskPriorityInherit(h, p) ==
  IF uxPriority[h] < p
    THEN /\ uxPriority' = [uxPriority EXCEPT ![h] = p]
         /\ xItemValue' = [xItemValue EXCEPT ![h] = ValueOf(p)]
    ELSE UNCHANGED <<uxPriority, xItemValue>>

InheritanceOccurred(h, p) == uxPriority[h] < p \/ uxBasePriority[h] < p

\* Mutant: the inherited priority is kept until it is inherited anew.
DisinheritLazily(t) ==
  /\ uxMutexesHeld' = [uxMutexesHeld EXCEPT ![t] = @ - 1]
  /\ UNCHANGED <<uxPriority, xItemValue>>

xTaskPriorityDisinherit(t) ==
  /\ uxMutexesHeld' = [uxMutexesHeld EXCEPT ![t] = @ - 1]
  /\ IF uxPriority[t] # uxBasePriority[t] /\ uxMutexesHeld[t] = 1
       THEN /\ uxPriority' = [uxPriority EXCEPT ![t] = uxBasePriority[t]]
            /\ xItemValue' = [xItemValue EXCEPT ![t] = ValueOf(uxBasePriority[t])]
       ELSE UNCHANGED <<uxPriority, xItemValue>>

prvGetDisinheritPriorityAfterTimeout(m) ==
  IF waiting[m] = <<>> THEN 0 ELSE MaxPriority - xItemValue[Head(waiting[m])]

PriorityToUse(m) ==
  Max({uxBasePriority[xMutexHolder[m]], prvGetDisinheritPriorityAfterTimeout(m)})

\* The priority of the holder changes.
LowersHolder(m) ==
  LET h == xMutexHolder[m]
  IN  ~Available(m) /\ uxPriority[h] # PriorityToUse(m) /\ uxMutexesHeld[h] = 1

vTaskPriorityDisinheritAfterTimeout(m) ==
  LET h == xMutexHolder[m]
  IN  IF LowersHolder(m)
        THEN /\ uxPriority' = [uxPriority EXCEPT ![h] = PriorityToUse(m)]
             /\ xItemValue' = [xItemValue EXCEPT ![h] = ValueOf(PriorityToUse(m))]
        ELSE UNCHANGED <<uxPriority, xItemValue>>

--------------------
(* Taking a mutex.                                                         *)

Invoke(t, m, wait) ==
  /\ At(t, "idle")
  /\ m \in Uses[t]
  /\ Held(t) \ {m} # {} => MayNest
  /\ m \in Held(t) => IF m \in Recursive
                       THEN uxRecursiveCallCount[m] < RecursionBound
                       ELSE SelfTake
  /\ call' = [call EXCEPT ![t] = [at |-> "try", mutex |-> m, wait |-> wait,
                        expired |-> FALSE, xInheritanceOccurred |-> FALSE]]
  /\ UNCHANGED <<taskVars, mutexVars>>

\* xQueueTakeMutexRecursive by the holder: it counts, and touches nothing else.
TakeAgain(t) ==
  LET m == call[t].mutex
  IN  /\ At(t, "try")
      /\ m \in Recursive
      /\ xMutexHolder[m] = t
      /\ uxRecursiveCallCount' = [uxRecursiveCallCount EXCEPT ![m] = @ + 1]
      /\ GoTo(t, "idle")
      /\ UNCHANGED <<taskVars, xMutexHolder, waiting>>

Take(t) ==
  LET m == call[t].mutex
  IN  /\ At(t, "try")
      /\ Available(m)
      /\ xMutexHolder' = [xMutexHolder EXCEPT ![m] = t]
      /\ uxMutexesHeld' = [uxMutexesHeld EXCEPT ![t] = @ + 1]
      /\ uxRecursiveCallCount' = [uxRecursiveCallCount EXCEPT ![m] =
                                    IF m \in Recursive THEN @ + 1 ELSE @]
      /\ GoTo(t, "idle")
      /\ UNCHANGED <<uxPriority, uxBasePriority, xItemValue, overdue, waiting>>

\* A call with no time left returns, and asserts that it caused no inheritance.
TryToWait(t) ==
  LET m == call[t].mutex
  IN  /\ At(t, "try")
      /\ ~Available(m)
      /\ ~(m \in Recursive /\ xMutexHolder[m] = t)
      /\ GoTo(t, IF call[t].wait # "none" THEN "block"
                 ELSE IF configASSERT_DEFINED /\ call[t].xInheritanceOccurred
                        THEN "asserted" ELSE "idle")
      /\ UNCHANGED <<taskVars, mutexVars>>

\* The scheduler suspended, the mutex still taken, the time not yet over: the
\* holder inherits the caller's priority and the caller joins the event list.
Block(t) ==
  LET m == call[t].mutex
      h == xMutexHolder[m]
  IN  /\ At(t, "block")
      /\ ~call[t].expired
      /\ ~Available(m)
      /\ xTaskPriorityInherit(h, uxPriority[t])
      /\ waiting' = [waiting EXCEPT ![m] = vListInsert(@, t)]
      /\ call' = [call EXCEPT ![t].at = "blocked", ![t].xInheritanceOccurred =
                    InheritanceOccurred(h, uxPriority[t])]
      /\ UNCHANGED <<uxBasePriority, uxMutexesHeld, overdue, xMutexHolder,
                     uxRecursiveCallCount>>

\* The mutex was given meanwhile, or the time is over: xTaskCheckForTimeOut then
\* leaves no ticks to wait (a wait the tick count goes round in is left out).
DoNotBlock(t) ==
  /\ At(t, "block")
  /\ \/ /\ call[t].expired
        /\ call' = [call EXCEPT ![t].at = "recheck", ![t].wait = "none"]
     \/ ~call[t].expired /\ Available(call[t].mutex) /\ GoTo(t, "try")
  /\ UNCHANGED <<taskVars, mutexVars>>

\* After the time-out.  The mutex may have been given since: the call then tries
\* once more.  If not, the holder may change before the next critical section.
RecheckAfterTimeOut(t) ==
  /\ At(t, "recheck")
  /\ GoTo(t, IF Available(call[t].mutex) THEN "try"
             ELSE IF call[t].xInheritanceOccurred THEN "disinherit" ELSE "idle")
  /\ UNCHANGED <<taskVars, mutexVars>>

\* A task that waited for its own mutex may be about to lower its own priority,
\* which is asserted not to happen; nothing asks for a switch then.
DisinheritAfterTimeOut(t) ==
  LET m == call[t].mutex
      own == xMutexHolder[m] = t /\ LowersHolder(m)
  IN  /\ At(t, "disinherit")
      /\ IF own /\ configASSERT_DEFINED
           THEN GoTo(t, "asserted") /\ UNCHANGED taskVars
           ELSE /\ vTaskPriorityDisinheritAfterTimeout(m)
                /\ overdue' = IF own /\ \E u \in Ready : uxPriority[u] > PriorityToUse(m)
                                THEN t ELSE overdue
                /\ GoTo(t, "idle")
                /\ UNCHANGED <<uxBasePriority, uxMutexesHeld>>
      /\ UNCHANGED mutexVars

--------------------
(* Giving it back.                                                         *)

\* xQueueGiveMutexRecursive that leaves the mutex taken.
GiveInner(t, m) ==
  /\ At(t, "idle")
  /\ m \in Held(t) \cap Recursive
  /\ uxRecursiveCallCount[m] > 1
  /\ uxRecursiveCallCount' = [uxRecursiveCallCount EXCEPT ![m] = @ - 1]
  /\ UNCHANGED <<taskVars, xMutexHolder, waiting, call>>

\* Mutant: nobody is told that the mutex is available.
GiveSilently(t, m) ==
  /\ At(t, "idle")
  /\ m \in Held(t)
  /\ uxRecursiveCallCount[m] <= 1
  /\ xTaskPriorityDisinherit(t)
  /\ xMutexHolder' = [xMutexHolder EXCEPT ![m] = "NULL"]
  /\ uxRecursiveCallCount' = [uxRecursiveCallCount EXCEPT ![m] = 0]
  /\ UNCHANGED <<uxBasePriority, overdue, waiting, call>>

\* xQueueGenericSend on the mutex: the holder returns to its own priority and
\* the head of the event list is woken, to try again.
Give(t, m) ==
  /\ At(t, "idle")
  /\ m \in Held(t)
  /\ uxRecursiveCallCount[m] <= 1
  /\ xTaskPriorityDisinherit(t)
  /\ xMutexHolder' = [xMutexHolder EXCEPT ![m] = "NULL"]
  /\ uxRecursiveCallCount' = [uxRecursiveCallCount EXCEPT ![m] = 0]
  /\ IF waiting[m] = <<>>
       THEN UNCHANGED <<waiting, call>>
       ELSE /\ waiting' = [waiting EXCEPT ![m] = Tail(@)]
            /\ GoTo(Head(waiting[m]), "try")
  /\ UNCHANGED <<uxBasePriority, overdue>>

--------------------
(* Everything else.                                                        *)

vTaskPrioritySet(t, u, p) ==
  /\ At(t, "idle")
  /\ p # uxBasePriority[u]
  /\ uxBasePriority' = [uxBasePriority EXCEPT ![u] = p]
  /\ uxPriority' = [uxPriority EXCEPT ![u] =
                      IF uxBasePriority[u] = uxPriority[u] THEN p ELSE @]
  /\ xItemValue' = [xItemValue EXCEPT ![u] = ValueOf(p)]
  /\ UNCHANGED <<uxMutexesHeld, overdue, mutexVars, call>>

\* A task that holds no mutex waits for something else, and it comes.
Sleep(t) ==
  /\ At(t, "idle")
  /\ Held(t) = {}
  /\ GoTo(t, "asleep")
  /\ UNCHANGED <<taskVars, mutexVars>>

WakeUp(t) ==
  /\ call[t].at = "asleep" /\ ~Halted
  /\ GoTo(t, "idle")
  /\ UNCHANGED <<taskVars, mutexVars>>

\* The deadline of a finite wait passes; a blocked caller is readied.
Expire(t) ==
  /\ call[t].at \in {"try", "block", "blocked"}
  /\ call[t].wait = "finite"
  /\ ~call[t].expired /\ ~Halted
  /\ call' = [call EXCEPT ![t].expired = TRUE,
                          ![t].at = IF @ = "blocked" THEN "try" ELSE @]
  /\ waiting' = [m \in Mutexes |-> uxListRemove(waiting[m], t)]
  /\ UNCHANGED <<taskVars, xMutexHolder, uxRecursiveCallCount>>

InCall(t) ==
  \/ Take(t) \/ TakeAgain(t) \/ TryToWait(t) \/ Block(t) \/ DoNotBlock(t)
  \/ RecheckAfterTimeOut(t) \/ DisinheritAfterTimeOut(t)

Giving(t) == \E m \in Mutexes : GiveInner(t, m) \/ Give(t, m)

Next ==
  \/ SwitchContext
  \/ \E t \in Task :
       \/ \E m \in Mutexes, wait \in Waits : Invoke(t, m, wait)
       \/ \E u \in Task, p \in NewPriority : vTaskPrioritySet(t, u, p)
       \/ InCall(t) \/ Giving(t) \/ Sleep(t) \/ WakeUp(t) \/ Expire(t)

Spec == Init /\ [][Next]_vars

\* The processor goes on executing the running task, a task that holds a mutex
\* gives it back, and what a task waits for comes.  Nothing is assumed of the
\* tasks that hold no mutex: they may be ready for ever.
FairSpec ==
  /\ Spec
  /\ \A t \in Task : WF_vars(InCall(t)) /\ WF_vars(Giving(t)) /\ WF_vars(WakeUp(t))

--------------------
(* Properties.                                                             *)

\* The books balance: a task's uxMutexesHeld is the number of mutexes whose
\* holder it is, and a recursive mutex has a holder while its count is positive.
HeldCount ==
  /\ \A t \in Task : uxMutexesHeld[t] = Cardinality(Held(t))
  /\ \A m \in Recursive : uxRecursiveCallCount[m] > 0 <=> ~Available(m)

\* A priority is inherited only for as long as a mutex is held: whatever order
\* mutexes are given back and waits time out in, nothing of it is left.
NothingLeftInherited ==
  \A t \in Task : Held(t) = {} => uxPriority[t] = uxBasePriority[t]

\* Holders, counts and priorities balance (queue.c:1623, tasks.c:4040-4270).
BooksBalance == HeldCount /\ NothingLeftInherited

\* No priority inversion: a mutex is never held at a priority below that of a
\* task that waits for it, and the waiter of the highest priority is next.
NoInversion ==
  \A m \in Mutexes : \A w \in Waiting(m) :
    /\ ~Available(m) => uxPriority[xMutexHolder[m]] >= uxPriority[w]
    /\ uxPriority[Head(waiting[m])] >= uxPriority[w]

\* The comments on vTaskPriorityDisinheritAfterTimeout: after a time-out the
\* holder's priority falls only as far as the highest of those still waiting.
DisinheritFloor ==
  \A t \in Task :
    LET m == call[t].mutex
    IN  At(t, "disinherit") /\ ~Available(m) /\ uxMutexesHeld[xMutexHolder[m]] = 1
          => \A w \in Waiting(m) : PriorityToUse(m) >= uxPriority[w]

\* The comment and the assertion on a call that fails without time left
\* (queue.c:1511-1516): no holder has inherited the caller's priority for it.
AssertionsHold == ~Halted

\* A mutex is given to a waiter when it is given back: no waiter is left while
\* the mutex is available unless a task that is awake will look at it.
NoWaiterLeftBehind ==
  \A m \in Mutexes : Available(m) /\ waiting[m] # <<>> =>
    \E t \in Task : /\ call[t].mutex = m
                    /\ call[t].at \in {"try", "block", "recheck"}

\* With priority inheritance, tasks of middle priority that never block do not
\* keep the most urgent task from the mutex it waits for.
Urgent(t) == \A u \in Task \ {t} : TaskPriority[u] < TaskPriority[t]

UrgentTaskServed ==
  \A t \in Task : Urgent(t) =>
    (call[t].at \in {"try", "block", "blocked"} ~> call[t].at = "idle")
=============================================================================
