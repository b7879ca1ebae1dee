------------------------------ MODULE CoRoutine ------------------------------
(* Co-routines (croutine.c), which one task schedules, and a queue that they  *)
(* and an interrupt use (the CR functions of queue.c).  A co-routine blocks   *)
(* by returning; when it is called again it goes on from uxState.             *)
(*                                                                            *)
(* What is between portDISABLE_INTERRUPTS and portENABLE_INTERRUPTS is one    *)
(* step.  The lists that interrupts do not touch change in a step with what   *)
(* precedes them.  Of co-routines of the same priority any one may be first.  *)
EXTENDS Naturals, FiniteSets

CONSTANTS CoRoutine,
          uxPriority,  \* of each
          Calls,       \* what each calls: "delay", "send", "receive"
          uxLength,    \* of the queue
          TickMod,     \* the tick counts wrap here
          Delays,      \* xTicksToDelay and xTicksToWait
          LagBound     \* ticks between two calls of the scheduler

VARIABLES list,       \* which list xGenericListItem is on
          wake,       \* its value; 0 when it is not used
          event,      \* which list xEventListItem is on
          uxState,    \* where each goes on
          uxTopCoRoutineReadyPriority,
          xCoRoutineTickCount, xLastTickCount, xPassedTicks, xTickCount,
          uxMessagesWaiting,
          at,         \* how far the scheduler, or the co-routine it called, is
          pxCurrentCoRoutine,
          isr,        \* the interrupt, and whether it has woken one already
          left,       \* per co-routine, the ticks it still has to wait
          passedOver  \* an interrupt that woke one before woke no other

queue == <<uxMessagesWaiting, event, passedOver>>
ticks == <<xCoRoutineTickCount, xLastTickCount, xPassedTicks, xTickCount>>
lists == <<list, wake, left, uxTopCoRoutineReadyPriority>>
vars == <<queue, ticks, lists, uxState, at, pxCurrentCoRoutine, isr>>

Nobody == "nobody"
\* What pxDelayedCoRoutineList and pxOverflowDelayedCoRoutineList point to.
Delayed == {"delayed", "overflow"}
Tick == 0..(TickMod - 1)

\* What the proof needs of the constants.
CoRoutinesFit ==
  /\ IsFiniteSet(CoRoutine) /\ Nobody \notin CoRoutine
  /\ uxPriority \in [CoRoutine -> Nat]
  /\ uxLength \in Nat /\ TickMod \in Nat \ {0} /\ Delays \subseteq Tick

TypeOK ==
  /\ list \in [CoRoutine -> {"none", "ready"} \cup Delayed]
  /\ wake \in [CoRoutine -> Tick]
  /\ event \in [CoRoutine -> {"none", "send", "receive", "pending"}]
  /\ uxState \in [CoRoutine -> {"op", "send0", "receive0", "yielded"}]
  /\ uxTopCoRoutineReadyPriority \in Nat
  /\ {xCoRoutineTickCount, xLastTickCount, xPassedTicks, xTickCount} \subseteq Tick
  /\ uxMessagesWaiting \in 0..uxLength
  /\ at \in {"out", "pending", "delayed", "expire", "choose", "run", "send", "receive"}
  /\ pxCurrentCoRoutine \in CoRoutine \cup {Nobody}
  /\ isr \in {"none", "fresh", "woken"}
  /\ left \in [CoRoutine -> Tick] /\ passedOver \subseteq {"send", "receive"}

Init ==
  /\ list = [c \in CoRoutine |-> "none"] /\ wake = [c \in CoRoutine |-> 0]
  /\ event = [c \in CoRoutine |-> "none"] /\ uxState = [c \in CoRoutine |-> "op"]
  /\ uxTopCoRoutineReadyPriority = 0
  /\ xCoRoutineTickCount = 0 /\ xLastTickCount = 0
  /\ xPassedTicks = 0 /\ xTickCount = 0
  /\ uxMessagesWaiting = 0 /\ at = "out" /\ pxCurrentCoRoutine = Nobody
  /\ isr = "none"
  /\ left = [c \in CoRoutine |-> 0] /\ passedOver = {}

On(l) == {c \in CoRoutine : list[c] = l}
Waiting(e) == {c \in CoRoutine : event[c] = e}
Foremost(S) == {c \in S : \A d \in S : uxPriority[d] <= uxPriority[c]}

\* The task goes on when no interrupt runs.
Step(place) == isr = "none" /\ at = place

\* It is of those that still wait that one was passed over.
NoteOverlooked ==
  passedOver' = {side \in passedOver : \E c \in CoRoutine : event'[c] = side}

AddToReady(c) ==
  /\ list' = [list EXCEPT ![c] = "ready"]
  /\ left' = [left EXCEPT ![c] = 0]
  /\ uxTopCoRoutineReadyPriority' =
       IF uxPriority[c] > uxTopCoRoutineReadyPriority
         THEN uxPriority[c] ELSE uxTopCoRoutineReadyPriority
  /\ wake' = [wake EXCEPT ![c] = 0]

\* Without memory nothing is created.
xCoRoutineCreate(c) ==
  /\ Step("out") /\ list[c] = "none"
  /\ pxCurrentCoRoutine' = IF pxCurrentCoRoutine = Nobody THEN c ELSE pxCurrentCoRoutine
  /\ AddToReady(c)
  /\ UNCHANGED <<queue, ticks, uxState, at, isr>>

--------------------
(* vCoRoutineSchedule.                                                        *)

\* Called when there is at least one co-routine.
vCoRoutineSchedule ==
  /\ Step("out") /\ pxCurrentCoRoutine # Nobody
  /\ at' = "pending"
  /\ UNCHANGED <<queue, ticks, lists, uxState, pxCurrentCoRoutine, isr>>

\* The list is looked at without a critical section; interrupts only add to it.
prvCheckPendingReadyList ==
  /\ Step("pending")
  /\ \/ /\ Waiting("pending") = {} /\ at' = "delayed"
        /\ UNCHANGED <<lists, event>>
     \/ /\ \E c \in Waiting("pending") :
             event' = [event EXCEPT ![c] = "none"] /\ AddToReady(c)
        /\ UNCHANGED at
  /\ UNCHANGED <<uxMessagesWaiting, passedOver, ticks, uxState, pxCurrentCoRoutine, isr>>

\* The ticks that passed are those since the list was looked at last.
prvCheckDelayedList ==
  /\ Step("delayed")
  /\ xPassedTicks' = (TickMod + xTickCount - xLastTickCount) % TickMod
  /\ at' = "expire"
  /\ UNCHANGED <<queue, lists, uxState, pxCurrentCoRoutine, isr,
                 xCoRoutineTickCount, xLastTickCount, xTickCount>>

Expired == {c \in On("delayed") : wake[c] <= xCoRoutineTickCount}

\* One tick more, of those that passed; at an overflow the lists are exchanged.
CountTick ==
  /\ Step("expire") /\ xPassedTicks > 0
  /\ Expired = {} \/ xCoRoutineTickCount = xLastTickCount
  /\ xPassedTicks' = xPassedTicks - 1
  /\ xCoRoutineTickCount' = (xCoRoutineTickCount + 1) % TickMod
  /\ list' = IF xCoRoutineTickCount' = 0
               THEN [c \in CoRoutine |-> CASE list[c] = "delayed" -> "overflow"
                                           [] list[c] = "overflow" -> "delayed"
                                           [] OTHER -> list[c]]
               ELSE list
  /\ left' = [c \in CoRoutine |-> IF list[c] \in Delayed /\ left[c] > 0
                                    THEN left[c] - 1 ELSE left[c]]
  /\ UNCHANGED <<queue, wake, uxTopCoRoutineReadyPriority, xLastTickCount,
                 xTickCount, uxState, at, pxCurrentCoRoutine, isr>>

\* Mutant: it stays on the list of those that wait for the queue.
ExpireOfDelayOnly(c) ==
  /\ Step("expire") /\ c \in Expired /\ AddToReady(c)
  /\ UNCHANGED <<queue, ticks, uxState, at, pxCurrentCoRoutine, isr>>

\* Whose time is over waits for no event any more.  An interrupt may have put it
\* on the pending list by now; it is taken off that, too.
Expire(c) ==
  /\ Step("expire") /\ c \in Expired /\ AddToReady(c)
  /\ event' = [event EXCEPT ![c] = "none"] /\ NoteOverlooked
  /\ UNCHANGED <<uxMessagesWaiting, ticks, uxState, at, pxCurrentCoRoutine, isr>>

ListChecked ==
  /\ Step("expire") /\ xPassedTicks = 0 /\ Expired = {}
  /\ xLastTickCount' = xCoRoutineTickCount /\ at' = "choose"
  /\ UNCHANGED <<queue, lists, uxState, pxCurrentCoRoutine, isr,
                 xCoRoutineTickCount, xPassedTicks, xTickCount>>

\* The lists above the priority found are empty.
Choose ==
  /\ Step("choose")
  /\ LET found == {p \in 0..uxTopCoRoutineReadyPriority :
                     \E c \in On("ready") : uxPriority[c] = p}
     IN  \/ /\ found = {} /\ at' = "out"
            /\ uxTopCoRoutineReadyPriority' = 0
            /\ UNCHANGED pxCurrentCoRoutine
         \/ \E p \in found, c \in On("ready") :
              /\ \A q \in found : q <= p
              /\ uxPriority[c] = p
              /\ uxTopCoRoutineReadyPriority' = p
              /\ pxCurrentCoRoutine' = c /\ at' = "run"
  /\ UNCHANGED <<queue, ticks, list, wake, left, uxState, isr>>

--------------------
(* The co-routine that runs.                                                  *)

\* The application calls what it likes; at the end of its steps it returns.
Returns(state) ==
  /\ uxState' = [uxState EXCEPT ![pxCurrentCoRoutine] = state]
  /\ at' = "out"

\* vCoRoutineAddToDelayedList: by the tick that the co-routines are at.
AddToDelayedList(n) ==
  LET c == pxCurrentCoRoutine
      time == (xCoRoutineTickCount + n) % TickMod
  IN  /\ wake' = [wake EXCEPT ![c] = time]
      /\ left' = [left EXCEPT ![c] = n]
      /\ list' = [list EXCEPT ![c] = IF time < xCoRoutineTickCount
                                       THEN "overflow" ELSE "delayed"]
      /\ UNCHANGED uxTopCoRoutineReadyPriority

crDELAY(n) ==
  /\ Step("run") /\ uxState[pxCurrentCoRoutine] = "op"
  /\ "delay" \in Calls[pxCurrentCoRoutine]
  /\ IF n > 0 THEN AddToDelayedList(n) ELSE UNCHANGED lists
  /\ Returns("op")
  /\ UNCHANGED <<queue, ticks, pxCurrentCoRoutine, isr>>

\* crSET_STATE1: the co-routine let the one that it woke run first.
GoesOn ==
  /\ Step("run") /\ uxState[pxCurrentCoRoutine] = "yielded"
  /\ uxState' = [uxState EXCEPT ![pxCurrentCoRoutine] = "op"]
  /\ UNCHANGED <<queue, ticks, lists, at, pxCurrentCoRoutine, isr>>

Ready(side) == IF side = "send" THEN uxMessagesWaiting < uxLength
                                ELSE uxMessagesWaiting > 0
Again == [side \in {"send", "receive"} |-> IF side = "send" THEN "send0" ELSE "receive0"]

\* The first critical section of xQueueCRSend and xQueueCRReceive.  Called again
\* after it was blocked, a co-routine does not wait once more.
Begin(side, n) ==
  /\ Step("run") /\ side \in Calls[pxCurrentCoRoutine]
  /\ \/ uxState[pxCurrentCoRoutine] = "op"
     \/ uxState[pxCurrentCoRoutine] = Again[side] /\ n = 0
  /\ \/ /\ Ready(side) /\ at' = side
        /\ UNCHANGED <<lists, event, uxState>>
     \/ /\ ~Ready(side) /\ n > 0
        /\ AddToDelayedList(n)
        /\ event' = [event EXCEPT ![pxCurrentCoRoutine] = side]
        /\ Returns(Again[side])
     \/ /\ ~Ready(side) /\ n = 0
        /\ uxState' = [uxState EXCEPT ![pxCurrentCoRoutine] = "op"]
        /\ UNCHANGED <<lists, event, at>>
  /\ UNCHANGED <<uxMessagesWaiting, passedOver, ticks, pxCurrentCoRoutine, isr>>

Moves(side) == uxMessagesWaiting' = IF side = "send" THEN uxMessagesWaiting + 1
                                                     ELSE uxMessagesWaiting - 1
Opposite(side) == IF side = "send" THEN "receive" ELSE "send"

\* xCoRoutineRemoveFromEventList, of those that wait for the other side.
Wakes(side, c) ==
  /\ c \in Foremost(Waiting(Opposite(side)))
  /\ event' = [event EXCEPT ![c] = "pending"] /\ NoteOverlooked

Urgent(c) == uxPriority[c] >= uxPriority[pxCurrentCoRoutine]

\* The second one: an interrupt may have filled or emptied the queue meanwhile.
Finish(side) ==
  /\ Step(side)
  /\ \/ /\ ~Ready(side) /\ at' = "run"
        /\ uxState' = [uxState EXCEPT ![pxCurrentCoRoutine] = "op"]
        /\ UNCHANGED queue
     \/ /\ Ready(side) /\ Moves(side) /\ Waiting(Opposite(side)) = {}
        /\ at' = "run" /\ uxState' = [uxState EXCEPT ![pxCurrentCoRoutine] = "op"]
        /\ UNCHANGED <<event, passedOver>>
     \/ /\ Ready(side) /\ Moves(side)
        /\ \E c \in CoRoutine :
             /\ Wakes(side, c)
             /\ IF Urgent(c)
                  THEN Returns("yielded")
                  ELSE /\ at' = "run"
                       /\ uxState' = [uxState EXCEPT ![pxCurrentCoRoutine] = "op"]
  /\ UNCHANGED <<ticks, lists, pxCurrentCoRoutine, isr>>

--------------------
(* An interrupt, which hands xCoRoutinePreviouslyWoken from call to call.     *)

Interrupt == isr = "none" /\ pxCurrentCoRoutine # Nobody /\ isr' = "fresh"
             /\ UNCHANGED <<queue, ticks, lists, uxState, at, pxCurrentCoRoutine>>

FromISR(side) ==
  /\ isr # "none" /\ Ready(side) /\ Moves(side)
  /\ \/ /\ isr = "woken" /\ Waiting(Opposite(side)) # {}
        /\ passedOver' = passedOver \cup {Opposite(side)}
        /\ UNCHANGED <<event, isr>>
     \/ /\ Waiting(Opposite(side)) = {}
        /\ UNCHANGED <<event, isr, passedOver>>
     \/ /\ isr = "fresh"
        /\ \E c \in CoRoutine : /\ Wakes(side, c)
                                /\ isr' = IF Urgent(c) THEN "woken" ELSE "fresh"
  /\ UNCHANGED <<ticks, lists, uxState, at, pxCurrentCoRoutine>>

InterruptEnds == isr # "none" /\ isr' = "none"
                 /\ UNCHANGED <<queue, ticks, lists, uxState, at, pxCurrentCoRoutine>>

TickInterrupt ==
  /\ isr = "none"
  /\ (TickMod + xTickCount - xLastTickCount) % TickMod < LagBound
  /\ xTickCount' = (xTickCount + 1) % TickMod
  /\ UNCHANGED <<queue, lists, xCoRoutineTickCount, xLastTickCount, xPassedTicks,
                 uxState, at, pxCurrentCoRoutine, isr>>

Next ==
  \/ \E c \in CoRoutine : xCoRoutineCreate(c) \/ Expire(c)
  \/ vCoRoutineSchedule \/ prvCheckPendingReadyList \/ prvCheckDelayedList
  \/ CountTick \/ ListChecked \/ Choose
  \/ \E n \in Delays \cup {0} :
       crDELAY(n) \/ \E side \in {"send", "receive"} : Begin(side, n)
  \/ GoesOn \/ \E side \in {"send", "receive"} : Finish(side) \/ FromISR(side)
  \/ Interrupt \/ InterruptEnds \/ TickInterrupt

Spec == Init /\ [][Next]_vars

--------------------

\* Called for what it waited for, or not yet called since its time was over.
OnItsWay(side) ==
  {c \in CoRoutine : uxState[c] = Again[side] /\ event[c] # side}

\* A co-routine waits for the queue only while there is nothing for it, or others
\* were woken for all there is; unless an interrupt woke one and passed it over.
NobodyLeftBehind ==
  /\ Waiting("receive") # {} =>
       \/ uxMessagesWaiting <= Cardinality(OnItsWay("receive"))
       \/ "receive" \in passedOver
  /\ Waiting("send") # {} =>
       \/ uxLength - uxMessagesWaiting <= Cardinality(OnItsWay("send"))
       \/ "send" \in passedOver

\* Who is delayed is on the list that its wake time belongs to, by the ticks it has
\* left, and is off it when there are none: at an overflow the list is empty.
DelaysKept ==
  \A c \in CoRoutine :
    /\ list[c] = "delayed" => wake[c] = xCoRoutineTickCount + left[c]
    /\ list[c] = "overflow" => wake[c] + TickMod = xCoRoutineTickCount + left[c]
    /\ list[c] \in Delayed /\ left[c] = 0 => at = "expire"

\* The scheduler looks for ready co-routines from above all of them.
NoneOverlooked ==
  \A c \in On("ready") : uxPriority[c] <= uxTopCoRoutineReadyPriority

\* Who waits for the queue waits for a time as well, and may still wait after it
\* only because it was not yet called (croutine.c:262).
CoRoutinesServed ==
  /\ NobodyLeftBehind /\ DelaysKept /\ NoneOverlooked
  /\ \A c \in CoRoutine : event[c] # "none" => list[c] \in Delayed
=============================================================================
