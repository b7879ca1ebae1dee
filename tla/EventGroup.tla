----------------------------- MODULE EventGroup -----------------------------
(***************************************************************************)
(* One event group of event_groups.c, used by tasks and, through functions *)
(* pended on the timer daemon, by interrupts.                              *)
(*                                                                         *)
(* Everything the code does between vTaskSuspendAll and xTaskResumeAll, or *)
(* in a critical section, is one step: no other task and no tick takes     *)
(* part in it, and interrupts only pend functions.  Between two steps the  *)
(* scheduler may run any task that is not blocked.  A group that was       *)
(* deleted is freed storage: what is read from it is arbitrary.            *)
(***************************************************************************)
EXTENDS Naturals, Sequences

CONSTANTS Task,
          Bit,            \* event bits in use
          WaitCalls,      \* xEventGroupWaitBits: [task, bits, clear, all, ticks]
          SyncCalls,      \* xEventGroupSync: [task, set, bits, ticks]
          SetCalls,       \* xEventGroupSetBits: [task, bits]
          ClearCalls,     \* xEventGroupClearBits: [task, bits]
          InterruptCalls, \* ...FromISR: [kind, bits]
          PendBound,      \* room for pended functions in the daemon's queue
          MayDelete       \* whether vEventGroupDelete is called

VARIABLES exists,               \* the group is created and not deleted
          uxEventBits,
          xTasksWaitingForBits, \* the tasks whose xEventListItem is on the list
          eventCall,            \* per task, the call it is in
          pended                \* functions pended on the daemon, in order

vars == <<exists, uxEventBits, xTasksWaitingForBits, eventCall, pended>>

\* xTicksToWait: 0, less than portMAX_DELAY, or portMAX_DELAY.
Ticks == {"none", "finite", "forever"}

\* "waiting" lasts to uxTaskResetEventItemValue, "recheck" from there to the
\* critical section of a call that bits did not wake, "reread" from the
\* wake-ups of a set to its return value.
Where == {"idle", "waiting", "recheck", "reread", "return"}
Call == [at : Where, bits : SUBSET Bit, clear : BOOLEAN, all : BOOLEAN,
         ticks : Ticks, value : SUBSET Bit, unblocked : BOOLEAN]

NoCall == [at |-> "idle", bits |-> {}, clear |-> FALSE, all |-> FALSE,
           ticks |-> "none", value |-> {}, unblocked |-> FALSE]

TypeOK ==
  /\ exists \in BOOLEAN
  /\ uxEventBits \in SUBSET Bit
  /\ xTasksWaitingForBits \in SUBSET Task
  /\ eventCall \in [Task -> Call]
  /\ pended \in Seq([kind : {"set", "clear"}, bits : SUBSET Bit])
  /\ Len(pended) <= PendBound

Init ==
  /\ exists = TRUE
  /\ uxEventBits = {}
  /\ xTasksWaitingForBits = {}
  /\ eventCall = [t \in Task |-> NoCall]
  /\ pended = <<>>

--------------------

prvTestWaitCondition(bits, waited, all) ==
  IF all THEN waited \subseteq bits ELSE bits \cap waited # {}

\* Mutant: one waiter is let go at a time.
MatchedFirst(bits) ==
  LET m == {t \in xTasksWaitingForBits :
              prvTestWaitCondition(bits, eventCall[t].bits, eventCall[t].all)}
  IN  IF m = {} THEN {} ELSE {CHOOSE t \in m : TRUE}

\* The waiters that the bits let go.
Matched(bits) == {t \in xTasksWaitingForBits :
  prvTestWaitCondition(bits, eventCall[t].bits, eventCall[t].all)}

\* Mutant: the bits of every waiter that clears are cleared.
ClearedForAll(S) ==
  UNION {eventCall[t].bits : t \in {u \in xTasksWaitingForBits :
                                      eventCall[u].clear}}

\* uxBitsToClear.
ClearedFor(S) == UNION {eventCall[t].bits : t \in {u \in S : eventCall[u].clear}}

\* vTaskRemoveFromUnorderedEventList on each of them: the item value becomes
\* the bits, marked eventUNBLOCKED_DUE_TO_BIT_SET.
Unblock(calls, S, value) ==
  [t \in Task |-> IF t \in S THEN [calls[t] EXCEPT !.value = value,
                                                   !.unblocked = TRUE]
                  ELSE calls[t]]

\* xEventGroupSetBits up to xTaskResumeAll: the bits it leaves behind.
BitsAfterSet(set) ==
  (uxEventBits \cup set) \ ClearedFor(Matched(uxEventBits \cup set))

SetBits(set) ==
  /\ uxEventBits' = BitsAfterSet(set)
  /\ xTasksWaitingForBits' =
       xTasksWaitingForBits \ Matched(uxEventBits \cup set)
  /\ eventCall' = Unblock(eventCall, Matched(uxEventBits \cup set),
                          uxEventBits \cup set)

\* What a read of uxEventBits returns, freed storage included.
Read == IF exists THEN {uxEventBits} ELSE SUBSET Bit

Runs(t, where) == eventCall[t].at = where /\ t \notin xTasksWaitingForBits

\* The call record of t, its value about to be returned.
Returning(call, value) == [call EXCEPT !.at = "return", !.value = value]

--------------------
(* Tasks.                                                                  *)

xEventGroupSetBits(c) ==
  LET let == Matched(uxEventBits \cup c.bits)
  IN  /\ Runs(c.task, "idle") /\ exists
      /\ uxEventBits' = BitsAfterSet(c.bits)
      /\ xTasksWaitingForBits' = xTasksWaitingForBits \ let
      /\ eventCall' = [Unblock(eventCall, let, uxEventBits \cup c.bits)
                         EXCEPT ![c.task] = [NoCall EXCEPT !.at = "reread"]]
      /\ UNCHANGED <<exists, pended>>

\* Its return value is read once the scheduler runs again.
ReadAfterSet(t) ==
  /\ Runs(t, "reread")
  /\ \E value \in Read :
       eventCall' = [eventCall EXCEPT ![t] = Returning(@, value)]
  /\ UNCHANGED <<exists, uxEventBits, xTasksWaitingForBits, pended>>

xEventGroupClearBits(c) ==
  /\ Runs(c.task, "idle") /\ exists
  /\ uxEventBits' = uxEventBits \ c.bits
  /\ eventCall' = [eventCall EXCEPT ![c.task] = Returning(@, uxEventBits)]
  /\ UNCHANGED <<exists, xTasksWaitingForBits, pended>>

xEventGroupWaitBits(c) ==
  LET met == prvTestWaitCondition(uxEventBits, c.bits, c.all)
      call == [NoCall EXCEPT !.bits = c.bits, !.clear = c.clear, !.all = c.all,
                             !.ticks = c.ticks]
      blocks == ~met /\ c.ticks # "none"
  IN  /\ Runs(c.task, "idle") /\ exists
      /\ uxEventBits' = IF met /\ c.clear THEN uxEventBits \ c.bits
                        ELSE uxEventBits
      /\ xTasksWaitingForBits' = IF blocks
                                   THEN xTasksWaitingForBits \cup {c.task}
                                   ELSE xTasksWaitingForBits
      /\ eventCall' = [eventCall EXCEPT ![c.task] =
           IF blocks THEN [call EXCEPT !.at = "waiting"]
           ELSE Returning(call, uxEventBits)]
      /\ UNCHANGED <<exists, pended>>

\* Mutant: the rendezvous is tested with the bits the others left behind.
MetAfterSet(c) == c.bits \subseteq BitsAfterSet(c.set)

\* The rendezvous is complete with the bits the caller adds.
Met(c) == c.bits \subseteq uxEventBits \cup c.set

xEventGroupSync(c) ==
  LET let == Matched(uxEventBits \cup c.set)
      left == BitsAfterSet(c.set)
      call == [NoCall EXCEPT !.bits = c.bits, !.clear = TRUE, !.all = TRUE,
                             !.ticks = c.ticks]
      blocks == ~Met(c) /\ c.ticks # "none"
  IN  /\ Runs(c.task, "idle") /\ exists
      /\ uxEventBits' = IF Met(c) THEN left \ c.bits ELSE left
      /\ xTasksWaitingForBits' =
           (xTasksWaitingForBits \ let) \cup (IF blocks THEN {c.task} ELSE {})
      /\ eventCall' =
           [Unblock(eventCall, let, uxEventBits \cup c.set)
              EXCEPT ![c.task] =
                IF blocks THEN [call EXCEPT !.at = "waiting"]
                ELSE IF Met(c) THEN Returning(call, uxEventBits \cup c.set)
                ELSE Returning(call, left)]
      /\ UNCHANGED <<exists, pended>>

\* uxTaskResetEventItemValue, by a waiter that runs again: what it finds tells
\* whether bits woke it or its time ran out.
TakeEventItemValue(t) ==
  /\ Runs(t, "waiting")
  /\ eventCall' = [eventCall EXCEPT ![t].at =
       IF eventCall[t].unblocked THEN "return" ELSE "recheck"]
  /\ UNCHANGED <<exists, uxEventBits, xTasksWaitingForBits, pended>>

\* Its time ran out: the bits are looked at once more.
CheckAfterTimeOut(t) ==
  LET c == eventCall[t]
  IN  /\ Runs(t, "recheck")
      /\ \E value \in Read :
           /\ uxEventBits' = IF /\ exists /\ c.clear
                                /\ prvTestWaitCondition(value, c.bits, c.all)
                               THEN uxEventBits \ c.bits ELSE uxEventBits
           /\ eventCall' = [eventCall EXCEPT ![t] = Returning(@, value)]
      /\ UNCHANGED <<exists, xTasksWaitingForBits, pended>>

Return(t) ==
  /\ Runs(t, "return")
  /\ eventCall' = [eventCall EXCEPT ![t] = NoCall]
  /\ UNCHANGED <<exists, uxEventBits, xTasksWaitingForBits, pended>>

xEventGroupCreate ==
  /\ ~exists
  /\ \A t \in Task : eventCall[t].at = "idle"
  /\ pended = <<>>
  /\ exists' = TRUE
  /\ uxEventBits' = {}
  /\ xTasksWaitingForBits' = {}
  /\ UNCHANGED <<eventCall, pended>>

\* Every waiter is unblocked, with no bits, then the storage is freed.
vEventGroupDelete ==
  /\ MayDelete /\ exists
  /\ pended = <<>>
  /\ exists' = FALSE
  /\ xTasksWaitingForBits' = {}
  /\ eventCall' = Unblock(eventCall, xTasksWaitingForBits, {})
  /\ UNCHANGED <<uxEventBits, pended>>

--------------------
(* The tick, interrupts and the daemon.                                    *)

\* The tick takes a waiter whose time is over off both of its lists.
Expire(t) ==
  /\ t \in xTasksWaitingForBits
  /\ eventCall[t].ticks = "finite"
  /\ xTasksWaitingForBits' = xTasksWaitingForBits \ {t}
  /\ UNCHANGED <<exists, uxEventBits, eventCall, pended>>

\* The FromISR variants of set and clear; pdFAIL when the queue is full.
xTimerPendFunctionCallFromISR(f) ==
  /\ exists
  /\ Len(pended) < PendBound
  /\ pended' = Append(pended, f)
  /\ UNCHANGED <<exists, uxEventBits, xTasksWaitingForBits, eventCall>>

vEventGroupSetBitsCallback ==
  /\ pended # <<>>
  /\ Head(pended).kind = "set"
  /\ SetBits(Head(pended).bits)
  /\ pended' = Tail(pended)
  /\ UNCHANGED exists

vEventGroupClearBitsCallback ==
  /\ pended # <<>>
  /\ Head(pended).kind = "clear"
  /\ uxEventBits' = uxEventBits \ Head(pended).bits
  /\ pended' = Tail(pended)
  /\ UNCHANGED <<exists, xTasksWaitingForBits, eventCall>>

--------------------

TaskStep(t) == \/ ReadAfterSet(t)
               \/ TakeEventItemValue(t)
               \/ CheckAfterTimeOut(t)
               \/ Return(t)

Daemon == vEventGroupSetBitsCallback \/ vEventGroupClearBitsCallback

Next == \/ \E c \in SetCalls : xEventGroupSetBits(c)
        \/ \E c \in ClearCalls : xEventGroupClearBits(c)
        \/ \E c \in WaitCalls : xEventGroupWaitBits(c)
        \/ \E c \in SyncCalls : xEventGroupSync(c)
        \/ \E t \in Task : TaskStep(t) \/ Expire(t)
        \/ \E f \in InterruptCalls : xTimerPendFunctionCallFromISR(f)
        \/ Daemon
        \/ xEventGroupCreate
        \/ vEventGroupDelete

Spec == Init /\ [][Next]_vars

\* The scheduler runs each task that can go on, the tick comes, the daemon
\* serves its queue, and tasks that synchronise come back to do it again.
Fairness ==
  /\ \A t \in Task : WF_vars(TaskStep(t)) /\ WF_vars(Expire(t))
  /\ \A c \in SyncCalls : WF_vars(xEventGroupSync(c))
  /\ WF_vars(Daemon)

--------------------

\* No task waits for bits that are there: each way a bit can be set tests
\* every waiter, and each way onto the list tests the bits (event_groups.c:336,
\* 213, 548).
NoWaiterLeftBehind == \A t \in xTasksWaitingForBits :
  ~prvTestWaitCondition(uxEventBits, eventCall[t].bits, eventCall[t].all)

ServedNow(t) ==
  /\ eventCall'[t] # eventCall[t]
  /\ eventCall'[t].clear
  /\ prvTestWaitCondition(eventCall'[t].value, eventCall'[t].bits,
                          eventCall'[t].all)

\* A bit goes away only by a call that clears it, or for a call that asked to
\* clear it and whose condition is met by the bits it returns
\* (event_groups.c:220, 348, 431, 608).
BitsConsumed ==
  [][\A b \in uxEventBits \ uxEventBits' :
       \/ \E t \in Task : ServedNow(t) /\ b \in eventCall'[t].bits
       \/ \E c \in ClearCalls : b \in c.bits /\ xEventGroupClearBits(c)
       \/ vEventGroupClearBitsCallback
       \/ xEventGroupCreate]_vars

\* Tasks that meet by xEventGroupSync alone, each with a bit of its own and all
\* waiting for all bits without a time-out, meet as Rendezvous says: the bits
\* that one sets and another clears let nobody through early, twice or never
\* (event_groups.c:191-309, 548-608).
Meeting == INSTANCE Rendezvous WITH
  Party <- Task,
  arrived <- xTasksWaitingForBits,
  passed <- {t \in Task : eventCall[t].at = "return" \/ eventCall[t].unblocked}

ImplementsRendezvous == Meeting!Spec

\* And whoever waits for the others goes on.
EveryoneMeets ==
  \A t \in Task : t \in xTasksWaitingForBits ~> eventCall[t].at = "return"

\* A task that was blocked on the group when it was deleted obtains no bits
\* (event_groups.h on vEventGroupDelete).
DeletedReturnsZero ==
  [][\A t \in Task :
       /\ ~exists
       /\ eventCall[t].ticks # "none"
       /\ eventCall[t].at # "return"
       /\ eventCall'[t].at = "return"
       => \/ eventCall'[t].value = {}
          \/ eventCall[t].unblocked]_vars
=============================================================================
