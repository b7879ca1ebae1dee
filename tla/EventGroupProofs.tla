-------------------------- MODULE EventGroupProofs --------------------------
\* Theorems about EventGroup, for any tasks, any bits and any calls.  Then
\* about MemoryPool, ThreadFlags and CmsisObjects, for any tasks, threads,
\* blocks, flags and messages.
EXTENDS EventGroup, FiniteSetTheorems, SequenceTheorems, TLAPS

\* The calls are calls of the functions' types.
CallsFit ==
  /\ WaitCalls \subseteq [task : Task, bits : SUBSET Bit, clear : BOOLEAN,
                          all : BOOLEAN, ticks : Ticks]
  /\ SyncCalls \subseteq [task : Task, set : SUBSET Bit, bits : SUBSET Bit,
                          ticks : Ticks]
  /\ SetCalls \subseteq [task : Task, bits : SUBSET Bit]
  /\ ClearCalls \subseteq [task : Task, bits : SUBSET Bit]
  /\ InterruptCalls \subseteq [kind : {"set", "clear"}, bits : SUBSET Bit]
  /\ PendBound \in Nat

\* Who is on the list is in a call that waits and was not let go yet.
WaitersWait ==
  \A t \in xTasksWaitingForBits :
    eventCall[t].at = "waiting" /\ ~eventCall[t].unblocked

IInv == TypeOK /\ WaitersWait /\ NoWaiterLeftBehind

--------------------
\* The operators.

\* A condition that more bits do not meet is not met by fewer.
LEMMA FewerBits ==
  ASSUME NEW few, NEW many, few \subseteq many, NEW waited, NEW all,
         prvTestWaitCondition(few, waited, all)
  PROVE  prvTestWaitCondition(many, waited, all)
  BY DEF prvTestWaitCondition

\* Who is let go gets the bits and the mark, and keeps the rest of its call.
LEMMA UnblockEffect ==
  ASSUME NEW calls \in [Task -> Call], NEW S, NEW value \in SUBSET Bit, NEW t \in Task
  PROVE  LET new == Unblock(calls, S, value)
         IN  /\ t \notin S => new[t] = calls[t]
             /\ t \in S => /\ new[t].value = value /\ new[t].unblocked
                           /\ new[t].at = calls[t].at /\ new[t].bits = calls[t].bits
                           /\ new[t].clear = calls[t].clear
                           /\ new[t].all = calls[t].all
                           /\ new[t].ticks = calls[t].ticks
  BY DEF Unblock, Call

LEMMA UnblockType ==
  ASSUME NEW calls \in [Task -> Call], NEW S, NEW value \in SUBSET Bit
  PROVE  Unblock(calls, S, value) \in [Task -> Call]
  BY DEF Unblock, Call

\* A call that returns keeps what it asked for.
LEMMA ReturningEffect ==
  ASSUME NEW call \in Call, NEW value \in SUBSET Bit
  PROVE  LET new == Returning(call, value)
         IN  /\ new \in Call /\ new.at = "return" /\ new.value = value
             /\ new.bits = call.bits /\ new.clear = call.clear /\ new.all = call.all
             /\ new.unblocked = call.unblocked
  BY DEF Returning, Call, Where

\* A set lets go of the waiters it matches, and leaves the others fewer bits
\* than those they were tested with.
LEMMA SetEffect ==
  ASSUME TypeOK, NEW set \in SUBSET Bit
  PROVE  /\ Matched(uxEventBits \cup set) \subseteq xTasksWaitingForBits
         /\ BitsAfterSet(set) \in SUBSET Bit
         /\ BitsAfterSet(set) \subseteq uxEventBits \cup set
         /\ \A t \in xTasksWaitingForBits \ Matched(uxEventBits \cup set) :
              ~prvTestWaitCondition(BitsAfterSet(set), eventCall[t].bits,
                                    eventCall[t].all)
         /\ \A b \in uxEventBits \ BitsAfterSet(set) :
              \E t \in Matched(uxEventBits \cup set) :
                eventCall[t].clear /\ b \in eventCall[t].bits
<1> DEFINE many == uxEventBits \cup set
<1>1. /\ Matched(many) \subseteq xTasksWaitingForBits
      /\ BitsAfterSet(set) \subseteq many
      /\ many \in SUBSET Bit
  BY DEF TypeOK, Matched, BitsAfterSet
<1>2. ASSUME NEW t \in xTasksWaitingForBits \ Matched(many)
      PROVE  ~prvTestWaitCondition(BitsAfterSet(set), eventCall[t].bits, eventCall[t].all)
  BY <1>1, <1>2, FewerBits DEF Matched
<1>3. ASSUME NEW b \in uxEventBits \ BitsAfterSet(set)
      PROVE  \E t \in Matched(many) : eventCall[t].clear /\ b \in eventCall[t].bits
  BY <1>3 DEF BitsAfterSet, ClearedFor
<1> QED BY <1>1, <1>2, <1>3

--------------------
\* The steps.  Each lemma has the invariant and who is served.

\* What a step does to the bits and to the calls of the waiters.
Consumed ==
  \A b \in uxEventBits \ uxEventBits' :
    \/ \E t \in Task : ServedNow(t) /\ b \in eventCall'[t].bits
    \/ \E c \in ClearCalls : b \in c.bits /\ xEventGroupClearBits(c)
    \/ vEventGroupClearBitsCallback
    \/ xEventGroupCreate

Kept == IInv' /\ Consumed

\* A step that adds no bit and no waiter, and leaves the waiters' calls alone.
LEMMA QuietStep ==
  ASSUME IInv, TypeOK', uxEventBits' \subseteq uxEventBits,
         xTasksWaitingForBits' \subseteq xTasksWaitingForBits,
         \A t \in xTasksWaitingForBits' : eventCall'[t] = eventCall[t]
  PROVE  IInv'
<1>1. WaitersWait' BY DEF IInv, WaitersWait
<1>2. NoWaiterLeftBehind'
  <2> SUFFICES ASSUME NEW t \in xTasksWaitingForBits',
                      prvTestWaitCondition(uxEventBits', eventCall'[t].bits,
                                           eventCall'[t].all)
               PROVE  FALSE
    BY DEF NoWaiterLeftBehind
  <2>1. prvTestWaitCondition(uxEventBits, eventCall[t].bits, eventCall[t].all)
    BY FewerBits
  <2> QED BY <2>1 DEF IInv, NoWaiterLeftBehind
<1> QED BY <1>1, <1>2 DEF IInv

\* A waiter that a set lets go is served with the bits it was tested with.
LEMMA ServedBySet ==
  ASSUME IInv, NEW set \in SUBSET Bit, NEW t \in Matched(uxEventBits \cup set),
         eventCall[t].clear,
         eventCall'[t] = Unblock(eventCall, Matched(uxEventBits \cup set),
                                 uxEventBits \cup set)[t]
  PROVE  ServedNow(t) /\ eventCall'[t].bits = eventCall[t].bits
<1> DEFINE many == uxEventBits \cup set
           new == Unblock(eventCall, Matched(many), many)
<1>1. /\ t \in Task /\ many \in SUBSET Bit /\ eventCall \in [Task -> Call]
      /\ t \in xTasksWaitingForBits /\ ~eventCall[t].unblocked
      /\ prvTestWaitCondition(many, eventCall[t].bits, eventCall[t].all)
  BY DEF IInv, TypeOK, WaitersWait, Matched
<1>2. /\ new[t].value = many /\ new[t].unblocked
      /\ new[t].bits = eventCall[t].bits /\ new[t].clear = eventCall[t].clear
      /\ new[t].all = eventCall[t].all
  BY <1>1 DEF Unblock, Call
<1> QED BY <1>1, <1>2 DEF ServedNow

\* The waiters a set leaves on the list have the calls they had.
LEMMA LeftBySet ==
  ASSUME IInv, NEW set \in SUBSET Bit,
         NEW t \in xTasksWaitingForBits \ Matched(uxEventBits \cup set)
  PROVE  Unblock(eventCall, Matched(uxEventBits \cup set), uxEventBits \cup set)[t]
           = eventCall[t]
  BY UnblockEffect DEF IInv, TypeOK

LEMMA SetStep ==
  ASSUME CallsFit, IInv, NEW c \in SetCalls, xEventGroupSetBits(c)
  PROVE  Kept
<1> DEFINE many == uxEventBits \cup c.bits
           calls == Unblock(eventCall, Matched(many), many)
<1>1. /\ c.task \in Task /\ c.bits \in SUBSET Bit /\ many \in SUBSET Bit
      /\ eventCall \in [Task -> Call] /\ c.task \notin xTasksWaitingForBits
      /\ xTasksWaitingForBits \in SUBSET Task
  BY DEF CallsFit, IInv, TypeOK, xEventGroupSetBits, Runs
<1>2. /\ uxEventBits' = BitsAfterSet(c.bits)
      /\ xTasksWaitingForBits' = xTasksWaitingForBits \ Matched(many)
      /\ eventCall' = [calls EXCEPT ![c.task] = [NoCall EXCEPT !.at = "reread"]]
      /\ UNCHANGED <<exists, pended>>
  BY DEF xEventGroupSetBits
<1>3. calls \in [Task -> Call] BY <1>1, UnblockType
<1>4. \A t \in xTasksWaitingForBits : eventCall'[t] = calls[t] BY <1>1, <1>2, <1>3
<1>5. TypeOK'
  <2>1. [NoCall EXCEPT !.at = "reread"] \in Call BY DEF NoCall, Call, Where, Ticks
  <2>2. eventCall' \in [Task -> Call] BY <1>2, <1>3, <2>1
  <2>3. uxEventBits' \in SUBSET Bit /\ xTasksWaitingForBits' \in SUBSET Task
    BY <1>1, <1>2, SetEffect DEF IInv
  <2> QED BY <1>2, <2>2, <2>3 DEF IInv, TypeOK
<1>6. \A t \in xTasksWaitingForBits' : eventCall'[t] = eventCall[t]
  BY <1>1, <1>2, <1>4, LeftBySet
<1>7. WaitersWait' BY <1>2, <1>6 DEF IInv, WaitersWait
<1>8. NoWaiterLeftBehind'
  <2> SUFFICES ASSUME NEW t \in xTasksWaitingForBits'
               PROVE  ~prvTestWaitCondition(uxEventBits', eventCall'[t].bits,
                                            eventCall'[t].all)
    BY DEF NoWaiterLeftBehind
  <2> QED BY <1>1, <1>2, <1>6, SetEffect DEF IInv
<1>9. Consumed
  <2> SUFFICES ASSUME NEW b \in uxEventBits \ uxEventBits'
               PROVE  \E t \in Task : ServedNow(t) /\ b \in eventCall'[t].bits
    BY DEF Consumed
  <2>1. PICK t \in Matched(many) : eventCall[t].clear /\ b \in eventCall[t].bits
    BY <1>1, <1>2, SetEffect DEF IInv
  <2>2. t \in xTasksWaitingForBits BY DEF Matched
  <2> QED BY <1>1, <1>4, <2>1, <2>2, ServedBySet
<1> QED BY <1>5, <1>7, <1>8, <1>9 DEF IInv, Kept

LEMMA SyncStep ==
  ASSUME CallsFit, IInv, NEW c \in SyncCalls, xEventGroupSync(c)
  PROVE  Kept
<1> DEFINE many == uxEventBits \cup c.set
           left == BitsAfterSet(c.set)
           calls == Unblock(eventCall, Matched(many), many)
           call == [NoCall EXCEPT !.bits = c.bits, !.clear = TRUE, !.all = TRUE,
                                  !.ticks = c.ticks]
           blocks == ~Met(c) /\ c.ticks # "none"
           own == IF blocks THEN [call EXCEPT !.at = "waiting"]
                  ELSE IF Met(c) THEN Returning(call, many) ELSE Returning(call, left)
<1>1. /\ c.task \in Task /\ c.bits \in SUBSET Bit /\ c.set \in SUBSET Bit
      /\ c.ticks \in Ticks /\ many \in SUBSET Bit
      /\ eventCall \in [Task -> Call] /\ c.task \notin xTasksWaitingForBits
      /\ xTasksWaitingForBits \in SUBSET Task /\ eventCall[c.task].at = "idle"
  BY DEF CallsFit, IInv, TypeOK, xEventGroupSync, Runs
<1>2. /\ uxEventBits' = IF Met(c) THEN left \ c.bits ELSE left
      /\ xTasksWaitingForBits' =
           (xTasksWaitingForBits \ Matched(many)) \cup (IF blocks THEN {c.task} ELSE {})
      /\ eventCall' = [calls EXCEPT ![c.task] = own]
      /\ UNCHANGED <<exists, pended>>
  BY DEF xEventGroupSync
<1>3. calls \in [Task -> Call] BY <1>1, UnblockType
<1>4. /\ left \in SUBSET Bit /\ left \subseteq many
      /\ Matched(many) \subseteq xTasksWaitingForBits
  BY <1>1, SetEffect DEF IInv
<1>5. own \in Call /\ own.bits = c.bits /\ own.clear /\ own.all /\ ~own.unblocked
  BY <1>1, <1>4 DEF NoCall, Call, Where, Ticks, Returning
<1>6. /\ eventCall'[c.task] = own
      /\ \A t \in xTasksWaitingForBits : eventCall'[t] = calls[t]
  BY <1>1, <1>2, <1>3
<1>7. TypeOK'
  <2>1. eventCall' \in [Task -> Call] BY <1>2, <1>3, <1>5
  <2>2. uxEventBits' \in SUBSET Bit /\ xTasksWaitingForBits' \in SUBSET Task
    BY <1>1, <1>2, <1>4
  <2> QED BY <1>2, <2>1, <2>2 DEF IInv, TypeOK
<1>8. \A t \in xTasksWaitingForBits \ Matched(many) : eventCall'[t] = eventCall[t]
  BY <1>1, <1>6, LeftBySet
<1>9. /\ blocks => own.at = "waiting" /\ ~Met(c)
      /\ Met(c) => own.at = "return" /\ own.value = many
  BY DEF NoCall, Returning
<1> HIDE DEF many, left, calls, blocks, own
<1>10. WaitersWait'
  <2> SUFFICES ASSUME NEW t \in xTasksWaitingForBits'
               PROVE  eventCall'[t].at = "waiting" /\ ~eventCall'[t].unblocked
    BY DEF WaitersWait
  <2>1. CASE t \in xTasksWaitingForBits \ Matched(many)
    BY <1>8, <2>1 DEF IInv, WaitersWait
  <2>2. CASE t = c.task /\ blocks BY <1>5, <1>6, <1>9, <2>2
  <2> QED BY <1>2, <2>1, <2>2
<1>11. uxEventBits' \subseteq left BY <1>2
<1>12. NoWaiterLeftBehind'
  <2> SUFFICES ASSUME NEW t \in xTasksWaitingForBits',
                      prvTestWaitCondition(uxEventBits', eventCall'[t].bits,
                                           eventCall'[t].all)
               PROVE  FALSE
    BY DEF NoWaiterLeftBehind
  <2>1. prvTestWaitCondition(left, eventCall'[t].bits, eventCall'[t].all)
    BY <1>11, FewerBits
  <2>2. CASE t \in xTasksWaitingForBits \ Matched(many)
    BY <1>1, <1>8, <2>1, <2>2, SetEffect DEF IInv, many, left
  <2>3. CASE t = c.task /\ blocks
    BY <1>4, <1>5, <1>6, <1>9, <2>1, <2>3 DEF Met, prvTestWaitCondition, many
  <2> QED BY <1>2, <2>2, <2>3
<1>13. Consumed
  <2> SUFFICES ASSUME NEW b \in uxEventBits \ uxEventBits'
               PROVE  \E t \in Task : ServedNow(t) /\ b \in eventCall'[t].bits
    BY DEF Consumed
  <2>1. CASE b \notin left
    <3>1. PICK t \in Matched(many) : eventCall[t].clear /\ b \in eventCall[t].bits
      BY <1>1, <2>1, SetEffect DEF IInv, many, left
    <3> QED BY <1>1, <1>4, <1>6, <3>1, ServedBySet DEF many, calls
  <2>2. CASE b \in left
    <3>1. Met(c) /\ b \in c.bits BY <1>2, <2>2
    <3>2. prvTestWaitCondition(own.value, own.bits, own.all)
      BY <1>5, <1>9, <3>1 DEF Met, prvTestWaitCondition, many
    <3> QED BY <1>1, <1>5, <1>6, <1>9, <3>1, <3>2 DEF ServedNow
  <2> QED BY <2>1, <2>2
<1> QED BY <1>7, <1>10, <1>12, <1>13 DEF IInv, Kept

LEMMA WaitStep ==
  ASSUME CallsFit, IInv, NEW c \in WaitCalls, xEventGroupWaitBits(c)
  PROVE  Kept
<1> DEFINE met == prvTestWaitCondition(uxEventBits, c.bits, c.all)
           call == [NoCall EXCEPT !.bits = c.bits, !.clear = c.clear, !.all = c.all,
                                  !.ticks = c.ticks]
           blocks == ~met /\ c.ticks # "none"
           own == IF blocks THEN [call EXCEPT !.at = "waiting"]
                  ELSE Returning(call, uxEventBits)
<1>1. /\ c.task \in Task /\ c.bits \in SUBSET Bit /\ c.clear \in BOOLEAN
      /\ c.all \in BOOLEAN /\ c.ticks \in Ticks /\ uxEventBits \in SUBSET Bit
      /\ eventCall \in [Task -> Call] /\ c.task \notin xTasksWaitingForBits
      /\ xTasksWaitingForBits \in SUBSET Task /\ eventCall[c.task].at = "idle"
  BY DEF CallsFit, IInv, TypeOK, xEventGroupWaitBits, Runs
<1>2. /\ uxEventBits' = IF met /\ c.clear THEN uxEventBits \ c.bits ELSE uxEventBits
      /\ xTasksWaitingForBits' = IF blocks THEN xTasksWaitingForBits \cup {c.task}
                                 ELSE xTasksWaitingForBits
      /\ eventCall' = [eventCall EXCEPT ![c.task] = own]
      /\ UNCHANGED <<exists, pended>>
  BY DEF xEventGroupWaitBits
<1>3. /\ own \in Call /\ own.bits = c.bits /\ own.clear = c.clear
      /\ own.all = c.all /\ ~own.unblocked
  BY <1>1 DEF NoCall, Call, Where, Ticks, Returning
<1>4. /\ blocks => own.at = "waiting" /\ ~met
      /\ met => own.at = "return" /\ own.value = uxEventBits
  BY DEF NoCall, Returning
<1> HIDE DEF met, blocks, own
<1>5. /\ eventCall'[c.task] = own
      /\ \A t \in xTasksWaitingForBits : eventCall'[t] = eventCall[t]
  BY <1>1, <1>2
<1>6. TypeOK'
  <2>1. eventCall' \in [Task -> Call] BY <1>1, <1>2, <1>3
  <2>2. uxEventBits' \in SUBSET Bit /\ xTasksWaitingForBits' \in SUBSET Task BY <1>1, <1>2
  <2> QED BY <1>2, <2>1, <2>2 DEF IInv, TypeOK
<1>7. WaitersWait'
  <2> SUFFICES ASSUME NEW t \in xTasksWaitingForBits'
               PROVE  eventCall'[t].at = "waiting" /\ ~eventCall'[t].unblocked
    BY DEF WaitersWait
  <2>1. CASE t \in xTasksWaitingForBits BY <1>5, <2>1 DEF IInv, WaitersWait
  <2>2. CASE t = c.task /\ blocks BY <1>3, <1>4, <1>5, <2>2
  <2> QED BY <1>2, <2>1, <2>2
<1>8. uxEventBits' \subseteq uxEventBits BY <1>2
<1>9. NoWaiterLeftBehind'
  <2> SUFFICES ASSUME NEW t \in xTasksWaitingForBits',
                      prvTestWaitCondition(uxEventBits', eventCall'[t].bits,
                                           eventCall'[t].all)
               PROVE  FALSE
    BY DEF NoWaiterLeftBehind
  <2>1. prvTestWaitCondition(uxEventBits, eventCall'[t].bits, eventCall'[t].all)
    BY <1>8, FewerBits
  <2>2. CASE t \in xTasksWaitingForBits BY <1>5, <2>1, <2>2 DEF IInv, NoWaiterLeftBehind
  <2>3. CASE t = c.task /\ blocks BY <1>3, <1>4, <1>5, <2>1, <2>3 DEF met
  <2> QED BY <1>2, <2>2, <2>3
<1>10. Consumed
  <2> SUFFICES ASSUME NEW b \in uxEventBits \ uxEventBits'
               PROVE  ServedNow(c.task) /\ b \in eventCall'[c.task].bits
    BY <1>1 DEF Consumed
  <2>1. met /\ c.clear /\ b \in c.bits BY <1>2
  <2>2. prvTestWaitCondition(own.value, own.bits, own.all) BY <1>3, <1>4, <2>1 DEF met
  <2> QED BY <1>1, <1>3, <1>4, <1>5, <2>1, <2>2 DEF ServedNow
<1> QED BY <1>6, <1>7, <1>9, <1>10 DEF IInv, Kept

LEMMA ClearStep ==
  ASSUME CallsFit, IInv, NEW c \in ClearCalls, xEventGroupClearBits(c)
  PROVE  Kept
<1>1. /\ c.task \in Task /\ c.bits \in SUBSET Bit /\ c.task \notin xTasksWaitingForBits
      /\ eventCall \in [Task -> Call] /\ uxEventBits \in SUBSET Bit
      /\ xTasksWaitingForBits \in SUBSET Task
  BY DEF CallsFit, IInv, TypeOK, xEventGroupClearBits, Runs
<1>2. /\ uxEventBits' = uxEventBits \ c.bits
      /\ eventCall' = [eventCall EXCEPT ![c.task] = Returning(@, uxEventBits)]
      /\ UNCHANGED <<exists, xTasksWaitingForBits, pended>>
  BY DEF xEventGroupClearBits
<1>3. Returning(eventCall[c.task], uxEventBits) \in Call BY <1>1, ReturningEffect
<1>4. eventCall' \in [Task -> Call] BY <1>1, <1>2, <1>3
<1>5. TypeOK' BY <1>1, <1>2, <1>4 DEF IInv, TypeOK
<1>6. \A t \in xTasksWaitingForBits' : eventCall'[t] = eventCall[t] BY <1>1, <1>2
<1>7. IInv' BY <1>2, <1>5, <1>6, QuietStep
<1> QED BY <1>2, <1>7 DEF Kept, Consumed

\* What a task does alone once its call was let go.
LEMMA TaskStepKept ==
  ASSUME IInv, NEW t \in Task, TaskStep(t)
  PROVE  Kept
<1>1. /\ eventCall \in [Task -> Call] /\ uxEventBits \in SUBSET Bit
      /\ xTasksWaitingForBits \in SUBSET Task
  BY DEF IInv, TypeOK
<1>2. Read \subseteq SUBSET Bit BY <1>1 DEF Read
<1>3. CASE ReadAfterSet(t)
  <2>1. PICK value \in Read : eventCall' = [eventCall EXCEPT ![t] = Returning(@, value)]
    BY <1>3 DEF ReadAfterSet
  <2>2. Returning(eventCall[t], value) \in Call BY <1>1, <1>2, <2>1, ReturningEffect
  <2>3. TypeOK' BY <1>1, <1>3, <2>1, <2>2 DEF ReadAfterSet, IInv, TypeOK
  <2> QED BY <1>1, <1>3, <2>1, <2>3, QuietStep DEF ReadAfterSet, Runs, Kept, Consumed
<1>4. CASE TakeEventItemValue(t)
  <2>1. TypeOK' BY <1>1, <1>4 DEF TakeEventItemValue, IInv, TypeOK, Call, Where
  <2> QED BY <1>1, <1>4, <2>1, QuietStep DEF TakeEventItemValue, Runs, Kept, Consumed
<1>5. CASE CheckAfterTimeOut(t)
  <2> DEFINE c == eventCall[t]
  <2>1. PICK value \in Read :
          /\ uxEventBits' = IF /\ exists /\ c.clear
                               /\ prvTestWaitCondition(value, c.bits, c.all)
                            THEN uxEventBits \ c.bits ELSE uxEventBits
          /\ eventCall' = [eventCall EXCEPT ![t] = Returning(@, value)]
    BY <1>5 DEF CheckAfterTimeOut
  <2>2. /\ UNCHANGED <<exists, xTasksWaitingForBits, pended>>
        /\ c.at = "recheck" /\ t \notin xTasksWaitingForBits
    BY <1>5 DEF CheckAfterTimeOut, Runs
  <2>3. Returning(c, value) \in Call BY <1>1, <1>2, ReturningEffect
  <2>4. uxEventBits' \subseteq uxEventBits BY <2>1
  <2>5. eventCall' \in [Task -> Call] /\ eventCall'[t] = Returning(c, value)
    BY <1>1, <2>1, <2>3
  <2>6. TypeOK' BY <1>1, <2>2, <2>4, <2>5 DEF IInv, TypeOK
  <2>7. IInv' BY <1>1, <2>1, <2>2, <2>4, <2>6, QuietStep
  <2>8. Consumed
    <3> SUFFICES ASSUME NEW b \in uxEventBits \ uxEventBits'
                 PROVE  ServedNow(t) /\ b \in eventCall'[t].bits
      BY DEF Consumed
    <3>1. /\ exists /\ c.clear /\ b \in c.bits
          /\ prvTestWaitCondition(value, c.bits, c.all)
      BY <2>1
    <3>2. LET new == Returning(c, value)
          IN  /\ new.at = "return" /\ new.value = value /\ new.bits = c.bits
              /\ new.clear = c.clear /\ new.all = c.all
      BY <1>1, <1>2, ReturningEffect
    <3> QED BY <2>2, <2>5, <3>1, <3>2 DEF ServedNow
  <2> QED BY <2>7, <2>8 DEF Kept
<1>6. CASE Return(t)
  <2>1. NoCall \in Call BY DEF NoCall, Call, Where, Ticks
  <2>2. TypeOK' BY <1>1, <1>6, <2>1 DEF Return, IInv, TypeOK
  <2> QED BY <1>1, <1>6, <2>2, QuietStep DEF Return, Runs, Kept, Consumed
<1> QED BY <1>3, <1>4, <1>5, <1>6 DEF TaskStep

LEMMA ExpireStep ==
  ASSUME IInv, NEW t \in Task, Expire(t)
  PROVE  Kept
<1>1. TypeOK' BY DEF Expire, IInv, TypeOK
<1> QED BY <1>1, QuietStep DEF Expire, Kept, Consumed

LEMMA PendStep ==
  ASSUME CallsFit, IInv, NEW f \in InterruptCalls, xTimerPendFunctionCallFromISR(f)
  PROVE  Kept
<1>1. TypeOK' BY DEF CallsFit, xTimerPendFunctionCallFromISR, IInv, TypeOK
<1> QED BY <1>1, QuietStep DEF xTimerPendFunctionCallFromISR, Kept, Consumed

\* What is left pended when the daemon has taken the first.
LEMMA TakeFirst ==
  ASSUME CallsFit, TypeOK, pended # <<>>
  PROVE  /\ Head(pended).bits \in SUBSET Bit
         /\ Tail(pended) \in Seq([kind : {"set", "clear"}, bits : SUBSET Bit])
         /\ Len(Tail(pended)) <= PendBound
<1>1. pended \in Seq([kind : {"set", "clear"}, bits : SUBSET Bit]) BY DEF TypeOK
<1>2. /\ Head(pended) \in [kind : {"set", "clear"}, bits : SUBSET Bit]
      /\ Tail(pended) \in Seq([kind : {"set", "clear"}, bits : SUBSET Bit])
      /\ Len(Tail(pended)) = Len(pended) - 1 /\ Len(pended) \in Nat
  BY <1>1, HeadTailProperties, LenProperties
<1> QED BY <1>2 DEF CallsFit, TypeOK

LEMMA DaemonStep ==
  ASSUME CallsFit, IInv, Daemon
  PROVE  Kept
<1>1. CASE vEventGroupSetBitsCallback
  <2> DEFINE set == Head(pended).bits
             many == uxEventBits \cup set
             calls == Unblock(eventCall, Matched(many), many)
  <2>1. /\ set \in SUBSET Bit /\ many \in SUBSET Bit /\ eventCall \in [Task -> Call]
        /\ xTasksWaitingForBits \in SUBSET Task
        /\ Tail(pended) \in Seq([kind : {"set", "clear"}, bits : SUBSET Bit])
        /\ Len(Tail(pended)) <= PendBound
    BY <1>1, TakeFirst DEF vEventGroupSetBitsCallback, IInv, TypeOK
  <2>2. /\ uxEventBits' = BitsAfterSet(set)
        /\ xTasksWaitingForBits' = xTasksWaitingForBits \ Matched(many)
        /\ eventCall' = calls
        /\ pended' = Tail(pended) /\ UNCHANGED exists
    BY <1>1 DEF vEventGroupSetBitsCallback, SetBits
  <2>3. calls \in [Task -> Call] BY <2>1, UnblockType
  <2> HIDE DEF set
  <2>4. TypeOK'
    <3>1. uxEventBits' \in SUBSET Bit /\ xTasksWaitingForBits' \in SUBSET Task
      BY <2>1, <2>2, SetEffect DEF IInv
    <3> QED BY <2>1, <2>2, <2>3, <3>1 DEF IInv, TypeOK
  <2>5. \A t \in xTasksWaitingForBits' : eventCall'[t] = eventCall[t]
    BY <2>1, <2>2, LeftBySet
  <2>6. WaitersWait' BY <2>2, <2>5 DEF IInv, WaitersWait
  <2>7. NoWaiterLeftBehind'
    <3> SUFFICES ASSUME NEW t \in xTasksWaitingForBits'
                 PROVE  ~prvTestWaitCondition(uxEventBits', eventCall'[t].bits,
                                              eventCall'[t].all)
      BY DEF NoWaiterLeftBehind
    <3> QED BY <2>1, <2>2, <2>5, SetEffect DEF IInv
  <2>8. Consumed
    <3> SUFFICES ASSUME NEW b \in uxEventBits \ uxEventBits'
                 PROVE  \E t \in Task : ServedNow(t) /\ b \in eventCall'[t].bits
      BY DEF Consumed
    <3>1. PICK t \in Matched(many) : eventCall[t].clear /\ b \in eventCall[t].bits
      BY <2>1, <2>2, SetEffect DEF IInv
    <3>2. t \in Task BY <2>1 DEF Matched
    <3> QED BY <2>1, <2>2, <3>1, <3>2, ServedBySet
  <2> QED BY <2>4, <2>6, <2>7, <2>8 DEF IInv, Kept
<1>2. CASE vEventGroupClearBitsCallback
  <2>1. TypeOK'
    <3>1. uxEventBits' \in SUBSET Bit
      BY <1>2 DEF vEventGroupClearBitsCallback, IInv, TypeOK
    <3> QED BY <1>2, <3>1, TakeFirst DEF vEventGroupClearBitsCallback, IInv, TypeOK
  <2> QED BY <1>2, <2>1, QuietStep DEF vEventGroupClearBitsCallback, Kept, Consumed
<1> QED BY <1>1, <1>2 DEF Daemon

LEMMA CreateStep ==
  ASSUME IInv, xEventGroupCreate
  PROVE  Kept
<1>1. TypeOK' /\ WaitersWait' /\ NoWaiterLeftBehind'
  BY DEF xEventGroupCreate, IInv, TypeOK, WaitersWait, NoWaiterLeftBehind
<1> QED BY <1>1 DEF Kept, IInv, Consumed

LEMMA DeleteStep ==
  ASSUME IInv, vEventGroupDelete
  PROVE  Kept
<1>1. eventCall' \in [Task -> Call] BY UnblockType DEF vEventGroupDelete, IInv, TypeOK
<1>2. TypeOK' /\ WaitersWait' /\ NoWaiterLeftBehind'
  BY <1>1 DEF vEventGroupDelete, IInv, TypeOK, WaitersWait, NoWaiterLeftBehind
<1> QED BY <1>2 DEF vEventGroupDelete, Kept, IInv, Consumed

LEMMA InitIInv == ASSUME CallsFit, Init PROVE IInv
<1>1. NoCall \in Call BY DEF NoCall, Call, Where, Ticks
<1> QED BY <1>1 DEF CallsFit, Init, IInv, TypeOK, WaitersWait, NoWaiterLeftBehind

LEMMA NextKept == ASSUME CallsFit, IInv, Next PROVE Kept
  BY SetStep, ClearStep, WaitStep, SyncStep, TaskStepKept, ExpireStep, PendStep,
     DaemonStep, CreateStep, DeleteStep DEF Next

LEMMA Stutter == ASSUME IInv, UNCHANGED vars PROVE IInv'
  BY DEF vars, IInv, TypeOK, WaitersWait, NoWaiterLeftBehind

LEMMA Invariance == ASSUME CallsFit PROVE Spec => []IInv
<1>1. Init => IInv BY InitIInv
<1>2. IInv /\ [Next]_vars => IInv' BY NextKept, Stutter DEF Kept
<1> QED BY <1>1, <1>2, PTL DEF Spec

--------------------

\* Every step keeps the types of the bits, the waiters and the pended functions.
THEOREM TypeCorrect == ASSUME CallsFit PROVE Spec => []TypeOK
  BY Invariance, PTL DEF IInv

\* No task waits for bits that are there, however sets, clears, time-outs and
\* pended functions mix, with any number of tasks and bits.
THEOREM WaitersAreServed == ASSUME CallsFit PROVE Spec => []NoWaiterLeftBehind
  BY Invariance, PTL DEF IInv

\* A bit that goes away was cleared by a call that says so or was consumed by a
\* waiter whose condition it met.
THEOREM BitsAreConsumed == ASSUME CallsFit PROVE Spec => BitsConsumed
<1>1. IInv /\ [Next]_vars => [Consumed]_vars BY NextKept DEF Kept
<1> QED BY <1>1, Invariance, PTL DEF Spec, BitsConsumed, Consumed

--------------------
\* Tasks that meet.

\* Each task has a bit of its own, all wait for all bits, and nobody uses the
\* group for anything else.
MeetOnly(own) ==
  /\ own \in [Task -> Bit] /\ \A t, u \in Task : own[t] = own[u] => t = u
  /\ SyncCalls \subseteq [task : Task, set : SUBSET Bit, bits : SUBSET Bit,
                          ticks : {"forever"}]
  /\ \A c \in SyncCalls :
       c.set = {own[c.task]} /\ c.bits = {own[t] : t \in Task}
  /\ WaitCalls = {} /\ SetCalls = {} /\ ClearCalls = {} /\ InterruptCalls = {}
  /\ PendBound \in Nat /\ ~MayDelete

\* The bits tell who has arrived; nobody is let go before all have.
MeetInv(own) ==
  /\ exists /\ pended = <<>>
  /\ uxEventBits = {own[t] : t \in xTasksWaitingForBits}
  /\ \A t \in Task :
       LET c == eventCall[t]
       IN  /\ c.at \in {"idle", "waiting", "return"}
           /\ c.at = "idle" => ~c.unblocked
           /\ c.at = "waiting" => c.unblocked \/ t \in xTasksWaitingForBits
  /\ \A t \in xTasksWaitingForBits :
       LET c == eventCall[t]
       IN  c.bits = {own[u] : u \in Task} /\ c.clear /\ c.all /\ c.ticks = "forever"

LEMMA MeetOnlyFits ==
  ASSUME NEW own, MeetOnly(own)
  PROVE  CallsFit
  BY DEF MeetOnly, CallsFit, Ticks

\* A task arrives: the last one lets all go, the others wait.
LEMMA ArriveStep ==
  ASSUME NEW own, MeetOnly(own), IInv, MeetInv(own), NEW c \in SyncCalls,
         xEventGroupSync(c)
  PROVE  MeetInv(own)' /\ Meeting!Arrive(c.task)
<1> DEFINE all == {own[t] : t \in Task}
           many == uxEventBits \cup c.set
           left == BitsAfterSet(c.set)
           calls == Unblock(eventCall, Matched(many), many)
           call == [NoCall EXCEPT !.bits = c.bits, !.clear = TRUE, !.all = TRUE,
                                  !.ticks = c.ticks]
           mine == IF ~Met(c) THEN [call EXCEPT !.at = "waiting"]
                   ELSE Returning(call, many)
           waiting == xTasksWaitingForBits
<1>1. /\ c.task \in Task /\ c.set = {own[c.task]} /\ c.bits = all
      /\ c.ticks = "forever" /\ all \in SUBSET Bit /\ many \in SUBSET Bit
  BY DEF MeetOnly, IInv, TypeOK
<1>2. /\ eventCall \in [Task -> Call] /\ waiting \in SUBSET Task
      /\ uxEventBits = {own[t] : t \in waiting}
      /\ c.task \notin waiting /\ eventCall[c.task].at = "idle"
      /\ ~eventCall[c.task].unblocked
  BY <1>1 DEF IInv, TypeOK, MeetInv, xEventGroupSync, Runs
<1>3. /\ uxEventBits' = IF Met(c) THEN left \ c.bits ELSE left
      /\ xTasksWaitingForBits' =
           (waiting \ Matched(many)) \cup (IF ~Met(c) THEN {c.task} ELSE {})
      /\ eventCall' = [calls EXCEPT ![c.task] = mine]
      /\ UNCHANGED <<exists, pended>>
  BY <1>1 DEF xEventGroupSync
<1>4. many = {own[t] : t \in waiting \cup {c.task}} BY <1>1, <1>2
<1>5. Met(c) <=> waiting \cup {c.task} = Task
  <2>1. Met(c) <=> all \subseteq many BY <1>1 DEF Met
  <2>2. waiting \cup {c.task} \in SUBSET Task BY <1>1, <1>2
  <2>3. ASSUME all \subseteq many, NEW t \in Task PROVE t \in waiting \cup {c.task}
    <3>1. PICK u \in waiting \cup {c.task} : own[t] = own[u] BY <1>4, <2>3
    <3> QED BY <2>2, <3>1 DEF MeetOnly
  <2>4. ASSUME waiting \cup {c.task} = Task PROVE all \subseteq many BY <1>4, <2>4
  <2> QED BY <2>1, <2>2, <2>3, <2>4
<1>6. Matched(many) = IF Met(c) THEN waiting ELSE {}
  <2>1. \A t \in waiting : prvTestWaitCondition(many, eventCall[t].bits, eventCall[t].all)
                            <=> Met(c)
    BY <1>1, <1>2 DEF MeetInv, prvTestWaitCondition, Met
  <2> QED BY <2>1 DEF Matched
<1>7. /\ mine.bits = all /\ mine.clear /\ mine.all /\ mine.ticks = "forever"
      /\ ~mine.unblocked
      /\ Met(c) => mine.at = "return"
      /\ ~Met(c) => mine.at = "waiting"
  BY <1>1 DEF NoCall, Returning
<1>8. calls \in [Task -> Call] BY <1>1, <1>2, UnblockType
<1> HIDE DEF mine
<1>9. /\ eventCall'[c.task] = mine
      /\ \A t \in Task \ {c.task} : eventCall'[t] = calls[t]
  BY <1>1, <1>3, <1>8
<1>10. CASE Met(c)
  <2>1. xTasksWaitingForBits' = {} /\ uxEventBits' = {}
    <3>1. left \subseteq all BY <1>1, <1>4, <1>5, <1>10, SetEffect DEF IInv
    <3> QED BY <1>1, <1>3, <1>6, <1>10, <3>1
  <2>2. \A t \in Task \ {c.task} : eventCall'[t].unblocked /\ eventCall'[t].at = "waiting"
    <3> SUFFICES ASSUME NEW t \in Task \ {c.task}
                 PROVE  calls[t].unblocked /\ calls[t].at = "waiting"
      BY <1>9
    <3>1. t \in waiting /\ t \in Matched(many) BY <1>5, <1>6, <1>10
    <3>2. eventCall[t].at = "waiting" BY <3>1 DEF IInv, WaitersWait
    <3> QED BY <1>1, <1>2, <3>1, <3>2, UnblockEffect
  <2>3. MeetInv(own)'
    <3> SUFFICES /\ uxEventBits' = {own[t] : t \in xTasksWaitingForBits'}
                 /\ \A t \in Task :
                      /\ eventCall'[t].at \in {"idle", "waiting", "return"}
                      /\ eventCall'[t].at = "idle" => ~eventCall'[t].unblocked
                      /\ eventCall'[t].at = "waiting" =>
                           eventCall'[t].unblocked \/ t \in xTasksWaitingForBits'
      BY <1>3, <2>1 DEF MeetInv
    <3> QED BY <1>7, <1>9, <1>10, <2>1, <2>2
  <2>4. {t \in Task : eventCall'[t].at = "return" \/ eventCall'[t].unblocked} = Task
    BY <1>7, <1>9, <1>10, <2>2
  <2> QED BY <1>2, <1>5, <1>10, <2>1, <2>3, <2>4 DEF Meeting!Arrive
<1>11. CASE ~Met(c)
  <2>1. xTasksWaitingForBits' = waiting \cup {c.task} BY <1>3, <1>6, <1>11
  <2>2. \A t \in Task \ {c.task} : eventCall'[t] = eventCall[t]
    <3> SUFFICES ASSUME NEW t \in Task \ {c.task} PROVE calls[t] = eventCall[t] BY <1>9
    <3>1. t \notin Matched(many) BY <1>6, <1>11
    <3> QED BY <1>1, <1>2, <3>1, UnblockEffect
  <2>3. left = many BY <1>6, <1>11 DEF BitsAfterSet, ClearedFor
  <2>4. uxEventBits' = {own[t] : t \in xTasksWaitingForBits'}
    BY <1>3, <1>4, <1>11, <2>1, <2>3
  <2>5. MeetInv(own)'
    <3> SUFFICES /\ \A t \in Task :
                      /\ eventCall'[t].at \in {"idle", "waiting", "return"}
                      /\ eventCall'[t].at = "idle" => ~eventCall'[t].unblocked
                      /\ eventCall'[t].at = "waiting" =>
                           eventCall'[t].unblocked \/ t \in xTasksWaitingForBits'
                 /\ \A t \in xTasksWaitingForBits' :
                      /\ eventCall'[t].bits = all /\ eventCall'[t].clear
                      /\ eventCall'[t].all /\ eventCall'[t].ticks = "forever"
      BY <1>3, <2>4 DEF MeetInv
    <3>1. ASSUME NEW t \in Task
          PROVE  /\ eventCall'[t].at \in {"idle", "waiting", "return"}
                 /\ eventCall'[t].at = "idle" => ~eventCall'[t].unblocked
                 /\ eventCall'[t].at = "waiting" =>
                      eventCall'[t].unblocked \/ t \in xTasksWaitingForBits'
      BY <1>7, <1>9, <1>11, <2>1, <2>2 DEF MeetInv
    <3>2. ASSUME NEW t \in xTasksWaitingForBits'
          PROVE  /\ eventCall'[t].bits = all /\ eventCall'[t].clear
                 /\ eventCall'[t].all /\ eventCall'[t].ticks = "forever"
      BY <1>2, <1>7, <1>9, <2>1, <2>2 DEF MeetInv
    <3> QED BY <3>1, <3>2
  <2>6. {t \in Task : eventCall'[t].at = "return" \/ eventCall'[t].unblocked}
          = {t \in Task : eventCall[t].at = "return" \/ eventCall[t].unblocked}
    BY <1>2, <1>7, <1>9, <1>11, <2>2
  <2> QED BY <1>2, <1>5, <1>11, <2>1, <2>5, <2>6 DEF Meeting!Arrive
<1> QED BY <1>10, <1>11

\* What a task that was let go does alone: only its return leaves the meeting.
LEMMA LeaveStep ==
  ASSUME NEW own, MeetOnly(own), IInv, MeetInv(own), NEW t \in Task, TaskStep(t)
  PROVE  MeetInv(own)' /\ (Meeting!Leave(t) \/ UNCHANGED Meeting!vars)
<1>1. /\ eventCall \in [Task -> Call] /\ t \notin xTasksWaitingForBits
      /\ xTasksWaitingForBits \in SUBSET Task
  BY DEF IInv, TypeOK, TaskStep, ReadAfterSet, TakeEventItemValue,
         CheckAfterTimeOut, Return, Runs
<1>2. eventCall[t].at \in {"idle", "waiting", "return"} BY DEF MeetInv
<1>3. TakeEventItemValue(t) \/ Return(t)
  BY <1>2 DEF TaskStep, ReadAfterSet, CheckAfterTimeOut, Runs
<1>4. UNCHANGED <<exists, uxEventBits, xTasksWaitingForBits, pended>>
  BY <1>3 DEF TakeEventItemValue, Return
<1>5. \A u \in Task \ {t} : eventCall'[u] = eventCall[u]
  BY <1>1, <1>3 DEF TakeEventItemValue, Return
<1>6. eventCall[t].at = "waiting" => eventCall[t].unblocked BY <1>1 DEF MeetInv
<1>7. \/ eventCall'[t].at = "return" /\ eventCall[t].unblocked
      \/ /\ eventCall'[t].at = "idle" /\ ~eventCall'[t].unblocked
         /\ eventCall[t].at = "return"
  <2>1. CASE TakeEventItemValue(t)
    <3>1. eventCall[t].unblocked BY <1>6, <2>1 DEF TakeEventItemValue, Runs
    <3>2. eventCall' = [eventCall EXCEPT ![t].at = "return"]
      BY <2>1, <3>1 DEF TakeEventItemValue
    <3> QED BY <1>1, <3>1, <3>2 DEF Call
  <2>2. CASE Return(t) BY <1>1, <2>2 DEF Return, NoCall, Runs
  <2> QED BY <1>3, <2>1, <2>2
<1>8. MeetInv(own)'
  <2>1. ASSUME NEW u \in Task
        PROVE  /\ eventCall'[u].at \in {"idle", "waiting", "return"}
               /\ eventCall'[u].at = "idle" => ~eventCall'[u].unblocked
               /\ eventCall'[u].at = "waiting" =>
                    eventCall'[u].unblocked \/ u \in xTasksWaitingForBits'
    BY <1>4, <1>5, <1>7 DEF MeetInv
  <2>2. \A u \in xTasksWaitingForBits : eventCall'[u] = eventCall[u] BY <1>1, <1>5
  <2> QED BY <1>4, <2>1, <2>2 DEF MeetInv
<1> DEFINE passed == {u \in Task : eventCall[u].at = "return" \/ eventCall[u].unblocked}
           after == {u \in Task : eventCall'[u].at = "return" \/ eventCall'[u].unblocked}
<1>9. t \in passed /\ (after = passed \/ after = passed \ {t}) BY <1>5, <1>7
<1> QED BY <1>4, <1>8, <1>9 DEF Meeting!Leave, Meeting!vars

LEMMA MeetStep ==
  ASSUME NEW own, MeetOnly(own), IInv, MeetInv(own), Next
  PROVE  MeetInv(own)' /\ (Meeting!Next \/ UNCHANGED Meeting!vars)
<1>1. ASSUME NEW c \in SyncCalls, xEventGroupSync(c)
      PROVE  MeetInv(own)' /\ Meeting!Next
  <2>1. c.task \in Task BY DEF MeetOnly
  <2> QED BY <1>1, <2>1, ArriveStep DEF Meeting!Next
<1>2. ASSUME NEW t \in Task, TaskStep(t)
      PROVE  MeetInv(own)' /\ (Meeting!Next \/ UNCHANGED Meeting!vars)
  BY <1>2, LeaveStep DEF Meeting!Next
<1>3. ASSUME NEW t \in Task, Expire(t) PROVE FALSE BY <1>3 DEF MeetInv, Expire
<1>4. ~(Daemon \/ xEventGroupCreate \/ vEventGroupDelete)
  BY DEF MeetOnly, MeetInv, Daemon, vEventGroupSetBitsCallback,
         vEventGroupClearBitsCallback, xEventGroupCreate, vEventGroupDelete
<1> QED BY <1>1, <1>2, <1>3, <1>4 DEF Next, MeetOnly

\* Tasks that meet by xEventGroupSync, any number of them, meet as Rendezvous
\* says: nobody leaves before all have arrived, and then each leaves once.
THEOREM SyncIsRendezvous ==
  ASSUME NEW own, MeetOnly(own)
  PROVE  Spec => ImplementsRendezvous
<1>1. Init => MeetInv(own) /\ Meeting!Init BY DEF Init, MeetInv, NoCall, Meeting!Init
<1>2. IInv /\ MeetInv(own) /\ [Next]_vars
        => MeetInv(own)' /\ [Meeting!Next]_Meeting!vars
  <2>1. CASE Next BY <2>1, MeetStep
  <2>2. CASE UNCHANGED vars BY <2>2 DEF vars, MeetInv, Meeting!vars
  <2> QED BY <2>1, <2>2
<1>3. Spec => []IInv BY MeetOnlyFits, Invariance
<1> QED BY <1>1, <1>2, <1>3, PTL DEF Spec, ImplementsRendezvous, Meeting!Spec

--------------------
\* A memory pool, for any number of tasks, interrupts and blocks.  Its calls
\* are poolCall here.

CONSTANTS BlockCount, Waits
VARIABLES status, onHeap, head, n, bl_cnt, sem, used, poolCall

Pool == INSTANCE MemoryPool WITH call <- poolCall

\* The pool's finite sets and their sizes are those of the library's theorems.
LEMMA SameFinite == ASSUME NEW S PROVE Pool!IsFiniteSet(S) <=> IsFiniteSet(S)
BY DEF Pool!IsFiniteSet, IsFiniteSet

LEMMA SameCardinality == \A S : Pool!Cardinality(S) = Cardinality(S)
BY DEF Pool!Cardinality, Cardinality

PoolCalls == [at : {"idle", "take", "asleep", "woken", "taken",
                    "checked", "count", "push", "give"},
              wait : {"none", "finite", "forever"},
              block : Pool!Block \cup {Pool!NoBlock}]

\* Only who gives a block back has one on its way.
CallsTell ==
  \A t \in Task : poolCall[t].block # Pool!NoBlock <=> poolCall[t].at \in {"count", "push"}

\* Before the pool is made nothing is in use.
StatusTells ==
  /\ status = "valid" => bl_cnt = BlockCount
  /\ status = "none" => /\ head = <<>> /\ n = 0 /\ used = {}
                        /\ \A t \in Task : poolCall[t].at = "idle"

PoolInv == Pool!TypeOK /\ CallsTell /\ StatusTells /\ Pool!PoolAccounted

--------------------
\* Counting the tasks at some places.

TasksAt(c, P) == {t \in Task : c[t].at \in P}

\* How the number of tasks at P changes when one goes on.
TasksMoved(P, from, to) == IF to \in P /\ from \notin P THEN 1
                      ELSE IF to \notin P /\ from \in P THEN -1 ELSE 0

OnlyOne(c, d, t) == \A u \in Task : u # t => d[u] = c[u]

\* The places where a token is held.
Holders == {"taken", "checked", "give"}

LEMMA PlacesMove ==
  ASSUME Pool!PoolFits, NEW c, NEW d, NEW t \in Task, NEW P,
         OnlyOne(c, d, t)
  PROVE  /\ Cardinality(TasksAt(c, P)) \in Nat
         /\ Cardinality(TasksAt(d, P)) =
              Cardinality(TasksAt(c, P)) + TasksMoved(P, c[t].at, d[t].at)
         /\ t \in TasksAt(d, P) <=> d[t].at \in P
<1>1. IsFiniteSet(TasksAt(c, P)) BY SameFinite, FS_Subset DEF TasksAt, Pool!PoolFits
<1>2. Cardinality(TasksAt(c, P)) \in Nat BY <1>1, FS_CardinalityType
<1>3. CASE d[t].at \in P
  <2>1. TasksAt(d, P) = TasksAt(c, P) \cup {t} BY <1>3 DEF TasksAt, OnlyOne
  <2>2. t \in TasksAt(c, P) <=> c[t].at \in P BY DEF TasksAt, OnlyOne
  <2>3. Cardinality(TasksAt(d, P)) =
          IF c[t].at \in P THEN Cardinality(TasksAt(c, P))
          ELSE Cardinality(TasksAt(c, P)) + 1
    BY <1>1, <2>1, <2>2, FS_AddElement
  <2> DEFINE N == Cardinality(TasksAt(c, P))
  <2>4. t \in TasksAt(d, P) /\ N \in Nat BY <1>2, <2>1
  <2> HIDE DEF N
  <2>5. N = N + 0 BY <2>4
  <2> QED BY <1>3, <2>3, <2>4, <2>5 DEF N, TasksMoved
<1>4. CASE d[t].at \notin P
  <2>1. TasksAt(d, P) = TasksAt(c, P) \ {t} BY <1>4 DEF TasksAt, OnlyOne
  <2>2. t \in TasksAt(c, P) <=> c[t].at \in P BY DEF TasksAt, OnlyOne
  <2>3. Cardinality(TasksAt(d, P)) =
          IF c[t].at \in P THEN Cardinality(TasksAt(c, P)) - 1
          ELSE Cardinality(TasksAt(c, P))
    BY <1>1, <2>1, <2>2, FS_RemoveElement
  <2> DEFINE N == Cardinality(TasksAt(c, P))
  <2>4. t \notin TasksAt(d, P) /\ N \in Nat BY <1>2, <2>1
  <2> HIDE DEF N
  <2>5. N = N + 0 /\ N - 1 = N + -1 BY <2>4
  <2> QED BY <1>4, <2>3, <2>4, <2>5 DEF N, TasksMoved
<1> QED BY <1>3, <1>4

LEMMA PlaceCounted ==
  ASSUME Pool!PoolFits, NEW c, NEW P
  PROVE  /\ IsFiniteSet(TasksAt(c, P)) /\ Cardinality(TasksAt(c, P)) \in Nat
         /\ \A t \in TasksAt(c, P) : Cardinality(TasksAt(c, P)) >= 1
         /\ TasksAt(c, P) = {} => Cardinality(TasksAt(c, P)) = 0
<1>1. IsFiniteSet(TasksAt(c, P)) BY SameFinite, FS_Subset DEF TasksAt, Pool!PoolFits
<1>2. Cardinality(TasksAt(c, P)) \in Nat BY <1>1, FS_CardinalityType
<1>3. Cardinality(TasksAt(c, P)) = 0 <=> TasksAt(c, P) = {} BY <1>1, FS_EmptySet
<1> QED BY <1>1, <1>2, <1>3

--------------------
\* The list of free blocks.

ListOf(h) == {h[i] : i \in DOMAIN h}
Once(h) == \A i, j \in DOMAIN h : h[i] = h[j] => i = j

LEMMA ListShrinks ==
  ASSUME NEW S, NEW h \in Seq(S), h # <<>>, Once(h)
  PROVE  /\ Tail(h) \in Seq(S) /\ Once(Tail(h)) /\ Head(h) \in ListOf(h)
         /\ ListOf(Tail(h)) = ListOf(h) \ {Head(h)}
<1>1. /\ Len(h) \in Nat /\ Len(h) >= 1 /\ DOMAIN h = 1..Len(h)
      /\ Tail(h) \in Seq(S) /\ DOMAIN Tail(h) = 1..(Len(h) - 1)
      /\ \A i \in 1..(Len(h) - 1) : Tail(h)[i] = h[i + 1]
      /\ Head(h) = h[1]
  OBVIOUS
<1>2. Once(Tail(h))
  <2> SUFFICES ASSUME NEW i \in 1..(Len(h) - 1), NEW j \in 1..(Len(h) - 1),
                      Tail(h)[i] = Tail(h)[j]
               PROVE  i = j
    BY <1>1 DEF Once
  <2>1. i + 1 \in DOMAIN h /\ j + 1 \in DOMAIN h /\ h[i + 1] = h[j + 1] BY <1>1
  <2>2. i + 1 = j + 1 BY <2>1 DEF Once
  <2> QED BY <2>2
<1>3. ListOf(Tail(h)) \subseteq ListOf(h) \ {Head(h)}
  <2> SUFFICES ASSUME NEW i \in 1..(Len(h) - 1)
               PROVE  Tail(h)[i] \in ListOf(h) /\ Tail(h)[i] # Head(h)
    BY <1>1 DEF ListOf
  <2>1. i + 1 \in DOMAIN h /\ 1 \in DOMAIN h /\ i + 1 # 1 BY <1>1
  <2> QED BY <1>1, <2>1 DEF ListOf, Once
<1>4. ListOf(h) \ {Head(h)} \subseteq ListOf(Tail(h))
  <2> SUFFICES ASSUME NEW i \in DOMAIN h, h[i] # Head(h)
               PROVE  h[i] \in ListOf(Tail(h))
    BY DEF ListOf
  <2>1. i - 1 \in DOMAIN Tail(h) /\ Tail(h)[i - 1] = h[i] BY <1>1
  <2> QED BY <2>1 DEF ListOf
<1>5. Head(h) \in ListOf(h) BY <1>1 DEF ListOf
<1> QED BY <1>1, <1>2, <1>3, <1>4, <1>5

LEMMA ListGrows ==
  ASSUME NEW S, NEW h \in Seq(S), NEW b \in S, Once(h), b \notin ListOf(h)
  PROVE  LET g == <<b>> \o h
         IN  g \in Seq(S) /\ Once(g) /\ ListOf(g) = ListOf(h) \cup {b}
<1> DEFINE g == <<b>> \o h
<1>1. /\ Len(h) \in Nat /\ DOMAIN h = 1..Len(h)
      /\ g \in Seq(S) /\ DOMAIN g = 1..(Len(h) + 1) /\ g[1] = b
      /\ \A i \in 2..(Len(h) + 1) : g[i] = h[i - 1]
  OBVIOUS
<1> HIDE DEF g
<1>2. Once(g)
  <2> SUFFICES ASSUME NEW i \in 1..(Len(h) + 1), NEW j \in 1..(Len(h) + 1),
                      g[i] = g[j]
               PROVE  i = j
    BY <1>1 DEF Once
  <2>1. \A k \in 2..(Len(h) + 1) : k - 1 \in DOMAIN h /\ g[k] \in ListOf(h)
    BY <1>1 DEF ListOf
  <2>2. CASE i = 1 \/ j = 1 BY <1>1, <2>1, <2>2
  <2>3. CASE i # 1 /\ j # 1
    <3>1. i - 1 \in DOMAIN h /\ j - 1 \in DOMAIN h /\ h[i - 1] = h[j - 1] BY <1>1, <2>3
    <3>2. i - 1 = j - 1 BY <3>1 DEF Once
    <3> QED BY <3>2
  <2> QED BY <2>2, <2>3
<1>3. ListOf(g) \subseteq ListOf(h) \cup {b} BY <1>1 DEF ListOf
<1>4. ListOf(h) \cup {b} \subseteq ListOf(g)
  <2>1. b \in ListOf(g) BY <1>1 DEF ListOf
  <2>2. ASSUME NEW i \in DOMAIN h PROVE h[i] \in ListOf(g)
    <3>1. i + 1 \in DOMAIN g /\ g[i + 1] = h[i] BY <1>1
    <3> QED BY <3>1 DEF ListOf
  <2> QED BY <2>1, <2>2 DEF ListOf
<1> QED BY <1>1, <1>2, <1>3, <1>4 DEF g

--------------------
\* The invariant, of the states before and after a step.

PendingOf(c) == {c[t].block : t \in Task} \ {Pool!NoBlock}

Apart(u, h, c, m) ==
  /\ Once(h)
  /\ \A s, t \in Task : c[s].block = c[t].block /\ s # t => c[s].block = Pool!NoBlock
  /\ u \cap ListOf(h) = {} /\ u \cap PendingOf(c) = {}
  /\ ListOf(h) \cap PendingOf(c) = {}
  /\ \A b \in u \cup ListOf(h) \cup PendingOf(c) : b <= m

Complete(u, h, c, m) == u \cup ListOf(h) \cup PendingOf(c) = 1..m

Tokens(s, c, h, m) ==
  s + Cardinality(TasksAt(c, Holders)) = Cardinality(ListOf(h)) + (BlockCount - m)

Waiters(s, c) ==
  TasksAt(c, {"asleep"}) # {} => s <= Cardinality(TasksAt(c, {"woken"}))

LEMMA PoolNow ==
  ASSUME PoolInv
  PROVE  /\ poolCall \in [Task -> PoolCalls] /\ used \subseteq Pool!Block
         /\ head \in Seq(Pool!Block)
         /\ n \in 0..BlockCount /\ sem \in 0..BlockCount
         /\ Apart(used, head, poolCall, n)
         /\ status = "valid" => /\ bl_cnt = BlockCount
                                /\ Complete(used, head, poolCall, n)
                                /\ Tokens(sem, poolCall, head, n)
                                /\ Waiters(sem, poolCall)
BY SameCardinality DEF PoolInv, Pool!TypeOK, PoolCalls, Pool!PoolAccounted,
   Pool!BlocksApart, Pool!NoneLost, Pool!TokenForBlock, Pool!NoWaiterLeftBehind,
   StatusTells, Apart, Complete, Tokens, Waiters, Once, ListOf, PendingOf,
   Pool!Pending, Pool!Free, Pool!In, TasksAt, Holders

LEMMA PoolNext ==
  ASSUME Pool!TypeOK', CallsTell', StatusTells', Apart(used', head', poolCall', n'),
         status' = "valid" => /\ Complete(used', head', poolCall', n')
                              /\ Tokens(sem', poolCall', head', n')
                              /\ Waiters(sem', poolCall')
  PROVE  PoolInv'
BY SameCardinality DEF PoolInv, Pool!TypeOK, PoolCalls, Pool!PoolAccounted,
   Pool!BlocksApart, Pool!NoneLost, Pool!TokenForBlock, Pool!NoWaiterLeftBehind,
   StatusTells, Apart, Complete, Tokens, Waiters, Once, ListOf, PendingOf,
   Pool!Pending, Pool!Free, Pool!In, TasksAt, Holders

\* The same blocks are on their way.
LEMMA SamePending ==
  ASSUME NEW c, NEW d, \A t \in Task : d[t].block = c[t].block,
         NEW u, NEW h, NEW m
  PROVE  /\ PendingOf(d) = PendingOf(c)
         /\ Apart(u, h, c, m) => Apart(u, h, d, m)
         /\ Complete(u, h, c, m) => Complete(u, h, d, m)
<1>1. PendingOf(d) = PendingOf(c) BY DEF PendingOf
<1> QED BY <1>1 DEF Apart, Complete

\* What a task that goes on does to the semaphore: it takes a token for itself, and
\* sleeps, or stays awake without taking one, only when there is none.
TokensFollow(s, z, from, to) ==
  /\ z + (IF to \in Holders THEN 1 ELSE 0) = s + (IF from \in Holders THEN 1 ELSE 0)
  /\ z <= s
  /\ to = "asleep" /\ from # "asleep" => z = 0
  /\ from = "woken" /\ to # "woken" => z < s \/ z = 0

\* A task goes on, without a block or with the one it had.
LEMMA MoveKeeps ==
  ASSUME Pool!PoolFits, PoolInv, NEW t \in Task, NEW r \in PoolCalls,
         r.block = poolCall[t].block,
         r.at \in {"count", "push"} <=> poolCall[t].at \in {"count", "push"},
         status = "none" => r.at = "idle",
         poolCall' = [poolCall EXCEPT ![t] = r], UNCHANGED <<Pool!pool, used>>,
         sem' \in 0..BlockCount,
         status = "valid" => TokensFollow(sem, sem', poolCall[t].at, r.at)
  PROVE  PoolInv'
<1>1. /\ poolCall \in [Task -> PoolCalls] /\ used \subseteq Pool!Block
      /\ head \in Seq(Pool!Block)
      /\ n \in 0..BlockCount /\ sem \in 0..BlockCount
      /\ Apart(used, head, poolCall, n)
      /\ status = "valid" => /\ bl_cnt = BlockCount
                             /\ Complete(used, head, poolCall, n)
                             /\ Tokens(sem, poolCall, head, n)
                             /\ Waiters(sem, poolCall)
  BY PoolNow
<1>2. /\ status' = status /\ onHeap' = onHeap /\ head' = head /\ n' = n
      /\ bl_cnt' = bl_cnt /\ used' = used
  BY DEF Pool!pool
<1>3. poolCall' \in [Task -> PoolCalls] /\ DOMAIN poolCall = Task BY <1>1
<1>4. \A u \in Task : poolCall'[u].block = poolCall[u].block BY <1>1
<1>5. Pool!TypeOK' /\ CallsTell' /\ StatusTells'
  <2>1. Pool!TypeOK' BY <1>2, <1>3 DEF PoolInv, Pool!TypeOK, PoolCalls
  <2>2. CallsTell' BY <1>1 DEF PoolInv, CallsTell
  <2>3. StatusTells' BY <1>1, <1>2 DEF PoolInv, StatusTells
  <2> QED BY <2>1, <2>2, <2>3
<1>6. Apart(used', head', poolCall', n') /\ (status' = "valid" =>
                                           Complete(used', head', poolCall', n'))
  <2>1. PICK d : d = poolCall' OBVIOUS
  <2>2. \A u \in Task : d[u].block = poolCall[u].block BY <1>4, <2>1
  <2>3. Apart(used, head, d, n) /\ (status = "valid" => Complete(used, head, d, n))
    BY <1>1, <2>2, SamePending
  <2> QED BY <1>2, <2>1, <2>3
<1>7. ASSUME status = "valid"
      PROVE  Tokens(sem', poolCall', head', n') /\ Waiters(sem', poolCall')
  <2>1. PICK d : d = poolCall' OBVIOUS
  <2>2. PICK s : s = sem' OBVIOUS
  <2> DEFINE a == poolCall[t].at
             H == Cardinality(TasksAt(poolCall, Holders))
             K == Cardinality(TasksAt(d, Holders))
             W == Cardinality(TasksAt(poolCall, {"woken"}))
             V == Cardinality(TasksAt(d, {"woken"}))
             F == Cardinality(ListOf(head))
  <2>3. d = [poolCall EXCEPT ![t] = r] BY <2>1
  <2>4. H \in Nat /\ K = H + TasksMoved(Holders, a, r.at)
    <3>1. d[t] = r /\ OnlyOne(poolCall, d, t) BY <1>3, <2>3 DEF OnlyOne
    <3> QED BY <3>1, PlacesMove
  <2>5. W \in Nat /\ V = W + TasksMoved({"woken"}, a, r.at)
    <3>1. d[t] = r /\ OnlyOne(poolCall, d, t) BY <1>3, <2>3 DEF OnlyOne
    <3> QED BY <3>1, PlacesMove
  <2>6. V \in Nat BY PlaceCounted
  <2>7. /\ s \in Nat /\ sem \in Nat
        /\ s + (IF r.at \in Holders THEN 1 ELSE 0)
             = sem + (IF a \in Holders THEN 1 ELSE 0)
        /\ s <= sem /\ (r.at = "asleep" /\ a # "asleep" => s = 0)
        /\ a = "woken" /\ r.at # "woken" => s < sem \/ s = 0
    <3>1. s \in 0..BlockCount /\ sem \in 0..BlockCount /\ BlockCount \in Nat
      BY <1>1, <2>2 DEF Pool!PoolFits
    <3>2. s \in Nat /\ sem \in Nat BY <3>1
    <3> QED BY <1>7, <2>2, <3>2 DEF TokensFollow
  <2>8. Tokens(s, d, head, n)
    <3>1. sem + H = F + (BlockCount - n) BY <1>1, <1>7 DEF Tokens
    <3>2. s + K = sem + H
      <4> HIDE DEF a, H, K
      <4> QED BY <2>4, <2>7 DEF TasksMoved
    <3> QED BY <3>1, <3>2 DEF Tokens
  <2>9. Waiters(s, d)
    <3> SUFFICES ASSUME TasksAt(d, {"asleep"}) # {} PROVE s <= V BY DEF Waiters
    <3>1. CASE r.at = "asleep" /\ a # "asleep"
      <4> HIDE DEF V, a
      <4> QED BY <2>6, <2>7, <3>1
    <3>2. CASE ~(r.at = "asleep" /\ a # "asleep")
      <4>1. TasksAt(poolCall, {"asleep"}) # {}
        <5>1. PICK u \in Task : d[u].at = "asleep" BY DEF TasksAt
        <5>2. poolCall[u].at = "asleep" BY <1>3, <2>3, <3>2, <5>1
        <5> QED BY <5>2 DEF TasksAt
      <4>2. sem <= W BY <1>1, <1>7, <4>1 DEF Waiters
      <4>3. s <= sem BY <2>7
      <4> HIDE DEF V, W, a
      <4> QED BY <2>5, <2>6, <2>7, <4>2, <4>3 DEF TasksMoved
    <3> QED BY <3>1, <3>2
  <2> QED BY <1>2, <2>1, <2>2, <2>8, <2>9
<1> QED BY <1>2, <1>5, <1>6, <1>7, PoolNext

--------------------
\* Each operation.

LEMMA CallTypes ==
  ASSUME PoolInv, NEW t \in Task
  PROVE  /\ DOMAIN poolCall = Task /\ poolCall[t] \in PoolCalls
         /\ poolCall[t].at \notin {"count", "push"} => poolCall[t].block = Pool!NoBlock
         /\ status = "none" => poolCall[t].at = "idle"
BY SameCardinality DEF PoolInv, Pool!TypeOK, PoolCalls, CallsTell, StatusTells

LEMMA NoCallIs ==
  /\ Pool!NoCall \in PoolCalls
  /\ Pool!NoCall.at = "idle" /\ Pool!NoCall.block = Pool!NoBlock
BY DEF Pool!NoCall, PoolCalls

LEMMA GoesIs ==
  ASSUME NEW t \in Task, poolCall[t] \in PoolCalls, DOMAIN poolCall = Task,
         NEW place \in {"idle", "take", "asleep", "woken", "taken", "checked",
                        "count", "push", "give"}, Pool!Goes(t, place)
  PROVE  LET r == [poolCall[t] EXCEPT !.at = place]
         IN  /\ r \in PoolCalls /\ r.at = place /\ r.block = poolCall[t].block
             /\ poolCall' = [poolCall EXCEPT ![t] = r]
<1> DEFINE r == [poolCall[t] EXCEPT !.at = place]
<1>1. r \in PoolCalls /\ r.at = place /\ r.block = poolCall[t].block BY DEF PoolCalls
<1>2. poolCall' = [poolCall EXCEPT ![t] = r] BY DEF Pool!Goes
<1> QED BY <1>1, <1>2

LEMMA AllocKeeps ==
  ASSUME Pool!PoolFits, PoolInv, NEW t \in Task, NEW w \in Waits,
         Pool!osMemoryPoolAlloc(t, w)
  PROVE  PoolInv'
<1>1. /\ DOMAIN poolCall = Task /\ poolCall[t] \in PoolCalls
      /\ poolCall[t].at = "idle" /\ poolCall[t].block = Pool!NoBlock
  BY CallTypes DEF Pool!osMemoryPoolAlloc, Pool!At
<1>2. /\ UNCHANGED <<Pool!pool, used>> /\ sem' = sem
      /\ sem \in Nat /\ sem' \in 0..BlockCount
  BY DEF Pool!osMemoryPoolAlloc, PoolInv, Pool!TypeOK
<1>3. CASE status = "valid"
  <2>1. PICK r : r = [Pool!NoCall EXCEPT !.at = "take", !.wait = w] OBVIOUS
  <2>2. r \in PoolCalls /\ r.at = "take" /\ r.block = Pool!NoBlock
    BY <2>1 DEF Pool!NoCall, PoolCalls, Pool!PoolFits
  <2>3. poolCall' = [poolCall EXCEPT ![t] = r] BY <1>3, <2>1 DEF Pool!osMemoryPoolAlloc
  <2>4. TokensFollow(sem, sem', poolCall[t].at, r.at)
    BY <1>1, <1>2, <2>2 DEF TokensFollow, Holders
  <2> QED BY <1>1, <1>2, <1>3, <2>2, <2>3, <2>4, MoveKeeps
<1>4. CASE status # "valid"
  <2>1. poolCall' = [poolCall EXCEPT ![t] = Pool!NoCall]
    BY <1>4 DEF Pool!osMemoryPoolAlloc, Pool!Returns
  <2> QED BY <1>1, <1>2, <1>4, <2>1, NoCallIs, MoveKeeps
<1> QED BY <1>3, <1>4

LEMMA TakeTokenKeeps ==
  ASSUME Pool!PoolFits, PoolInv, NEW t \in Task, Pool!xSemaphoreTake(t)
  PROVE  PoolInv'
<1>1. /\ DOMAIN poolCall = Task /\ poolCall[t] \in PoolCalls
      /\ poolCall[t].at \in {"take", "woken"} /\ poolCall[t].block = Pool!NoBlock
      /\ status # "none"
  BY CallTypes DEF Pool!xSemaphoreTake, Pool!At
<1>2. /\ UNCHANGED <<Pool!pool, used>> /\ sem \in 0..BlockCount /\ BlockCount \in Nat
  BY DEF Pool!xSemaphoreTake, PoolInv, Pool!TypeOK, Pool!PoolFits
<1>3. CASE sem > 0
  <2>1. sem' = sem - 1 /\ Pool!Goes(t, "taken") BY <1>3 DEF Pool!xSemaphoreTake
  <2>2. PICK r : r = [poolCall[t] EXCEPT !.at = "taken"] OBVIOUS
  <2>3. /\ r \in PoolCalls /\ r.at = "taken" /\ r.block = poolCall[t].block
        /\ poolCall' = [poolCall EXCEPT ![t] = r]
    BY <1>1, <2>1, <2>2, GoesIs
  <2>4. sem' \in 0..BlockCount /\ sem' + 1 = sem + 0 /\ sem' <= sem /\ sem' < sem
    BY <1>2, <1>3, <2>1
  <2>5. TokensFollow(sem, sem', poolCall[t].at, r.at)
    BY <1>1, <2>3, <2>4 DEF TokensFollow, Holders
  <2> QED BY <1>1, <1>2, <2>3, <2>4, <2>5, MoveKeeps
<1>4. CASE ~(sem > 0)
  <2>1. /\ sem' = sem /\ sem' = 0
        /\ Pool!Returns(t) \/ Pool!Goes(t, "asleep")
    BY <1>2, <1>4 DEF Pool!xSemaphoreTake
  <2>2. CASE Pool!Returns(t)
    <3>1. poolCall' = [poolCall EXCEPT ![t] = Pool!NoCall] BY <2>2 DEF Pool!Returns
    <3>2. TokensFollow(sem, sem', poolCall[t].at, Pool!NoCall.at)
      BY <1>1, <1>2, <2>1, NoCallIs DEF TokensFollow, Holders
    <3>3. sem' \in 0..BlockCount BY <1>2, <2>1
    <3> QED BY <1>1, <1>2, <3>1, <3>2, <3>3, NoCallIs, MoveKeeps
  <2>3. CASE Pool!Goes(t, "asleep")
    <3>1. PICK r : r = [poolCall[t] EXCEPT !.at = "asleep"] OBVIOUS
    <3>2. /\ r \in PoolCalls /\ r.at = "asleep" /\ r.block = poolCall[t].block
          /\ poolCall' = [poolCall EXCEPT ![t] = r]
      BY <1>1, <2>3, <3>1, GoesIs
    <3>3. TokensFollow(sem, sem', poolCall[t].at, r.at)
      BY <1>1, <1>2, <2>1, <3>2 DEF TokensFollow, Holders
    <3>4. sem' \in 0..BlockCount BY <1>2, <2>1
    <3> QED BY <1>1, <1>2, <3>2, <3>3, <3>4, MoveKeeps
  <2> QED BY <2>1, <2>2, <2>3
<1> QED BY <1>3, <1>4

LEMMA TimeOutKeeps ==
  ASSUME Pool!PoolFits, PoolInv, NEW t \in Task, Pool!TimeOut(t)
  PROVE  PoolInv'
<1>1. /\ DOMAIN poolCall = Task /\ poolCall[t] \in PoolCalls
      /\ poolCall[t].at \in {"asleep", "woken"} /\ poolCall[t].block = Pool!NoBlock
      /\ status # "none"
  BY CallTypes DEF Pool!TimeOut, Pool!At
<1>2. /\ UNCHANGED <<Pool!pool, used>> /\ sem' = sem
      /\ sem \in Nat /\ sem' \in 0..BlockCount
  BY DEF Pool!TimeOut, PoolInv, Pool!TypeOK
<1>3. PICK r : r = [poolCall[t] EXCEPT !.at = "woken", !.wait = "none"] OBVIOUS
<1>4. /\ r \in PoolCalls /\ r.at = "woken" /\ r.block = Pool!NoBlock
  BY <1>1, <1>3 DEF PoolCalls
<1>5. poolCall' = [poolCall EXCEPT ![t] = r] BY <1>3 DEF Pool!TimeOut
<1>6. TokensFollow(sem, sem', poolCall[t].at, r.at)
  BY <1>1, <1>2, <1>4 DEF TokensFollow, Holders
<1> QED BY <1>1, <1>2, <1>4, <1>5, <1>6, MoveKeeps

LEMMA CheckStatusKeeps ==
  ASSUME Pool!PoolFits, PoolInv, NEW t \in Task, Pool!CheckStatus(t)
  PROVE  PoolInv'
<1>1. /\ DOMAIN poolCall = Task /\ poolCall[t] \in PoolCalls
      /\ poolCall[t].at = "taken" /\ poolCall[t].block = Pool!NoBlock
      /\ status # "none"
  BY CallTypes DEF Pool!CheckStatus, Pool!At
<1>2. /\ UNCHANGED <<Pool!pool, used>> /\ sem' = sem
      /\ sem \in Nat /\ sem' \in 0..BlockCount
  BY DEF Pool!CheckStatus, PoolInv, Pool!TypeOK
<1>3. CASE status = "valid"
  <2>1. Pool!Goes(t, "checked") BY <1>3 DEF Pool!CheckStatus
  <2>2. PICK r : r = [poolCall[t] EXCEPT !.at = "checked"] OBVIOUS
  <2>3. /\ r \in PoolCalls /\ r.at = "checked" /\ r.block = poolCall[t].block
        /\ poolCall' = [poolCall EXCEPT ![t] = r]
    BY <1>1, <2>1, <2>2, GoesIs
  <2>4. TokensFollow(sem, sem', poolCall[t].at, r.at)
    BY <1>1, <1>2, <2>3 DEF TokensFollow, Holders
  <2> QED BY <1>1, <1>2, <2>3, <2>4, MoveKeeps
<1>4. CASE status # "valid"
  <2>1. poolCall' = [poolCall EXCEPT ![t] = Pool!NoCall]
    BY <1>4 DEF Pool!CheckStatus, Pool!Returns
  <2> QED BY <1>1, <1>2, <1>4, <2>1, NoCallIs, MoveKeeps
<1> QED BY <1>3, <1>4

--------------------
\* A block goes from one place to the next.

\* The block that a task had on its way has arrived.
LEMMA PendingLeaves ==
  ASSUME NEW c, NEW d, NEW t \in Task, OnlyOne(c, d, t), d[t].block = Pool!NoBlock,
         NEW u, NEW h, NEW m, Apart(u, h, c, m)
  PROVE  /\ PendingOf(d) = PendingOf(c) \ {c[t].block} /\ Apart(u, h, d, m)
         /\ c[t].block # Pool!NoBlock => c[t].block \in PendingOf(c)
<1>1. PendingOf(d) = PendingOf(c) \ {c[t].block} BY DEF OnlyOne, Apart, PendingOf
<1>2. \A s, v \in Task : d[s].block = d[v].block /\ s # v => d[s].block = Pool!NoBlock
  BY DEF OnlyOne, Apart
<1>3. c[t].block # Pool!NoBlock => c[t].block \in PendingOf(c) BY DEF PendingOf
<1> QED BY <1>1, <1>2, <1>3 DEF Apart

\* A task takes a block that the application had on its way.
LEMMA PendingComes ==
  ASSUME NEW c, NEW d, NEW t \in Task, OnlyOne(c, d, t), c[t].block = Pool!NoBlock,
         NEW u, NEW h, NEW m, Apart(u, h, c, m), d[t].block \in u,
         d[t].block # Pool!NoBlock
  PROVE  /\ PendingOf(d) = PendingOf(c) \cup {d[t].block}
         /\ Apart(u \ {d[t].block}, h, d, m)
         /\ Complete(u, h, c, m) => Complete(u \ {d[t].block}, h, d, m)
<1>1. PendingOf(d) = PendingOf(c) \cup {d[t].block} BY DEF OnlyOne, PendingOf
<1>2. ASSUME NEW s \in Task, NEW v \in Task, d[s].block = d[v].block, s # v
      PROVE  d[s].block = Pool!NoBlock
  <2>1. CASE s # t /\ v # t BY <1>2, <2>1 DEF OnlyOne, Apart
  <2>2. ASSUME NEW x \in Task, x # t PROVE d[x].block # d[t].block
    <3>1. d[x].block = c[x].block BY <2>2 DEF OnlyOne
    <3>2. d[t].block \notin PendingOf(c) BY DEF Apart
    <3> QED BY <3>1, <3>2 DEF PendingOf
  <2> QED BY <1>2, <2>1, <2>2
<1>3. Apart(u \ {d[t].block}, h, d, m) BY <1>1, <1>2 DEF Apart
<1> QED BY <1>1, <1>3 DEF Complete

\* The block comes on the list.
LEMMA BlockListed ==
  ASSUME NEW u, NEW h \in Seq(Pool!Block), NEW c, NEW m, NEW b \in Pool!Block,
         Apart(u, h, c, m), b \notin u, b \notin ListOf(h), b \notin PendingOf(c),
         b <= m
  PROVE  Apart(u, <<b>> \o h, c, m)
<1>1. Once(h) BY DEF Apart
<1>2. PICK g : g = <<b>> \o h OBVIOUS
<1>3. Once(g) /\ ListOf(g) = ListOf(h) \cup {b} BY <1>1, <1>2, ListGrows
<1>4. Apart(u, g, c, m) BY <1>3 DEF Apart
<1> QED BY <1>2, <1>4

LEMMA ListCounted ==
  ASSUME NEW h \in Seq(Pool!Block), BlockCount \in Nat
  PROVE  /\ IsFiniteSet(ListOf(h)) /\ Cardinality(ListOf(h)) \in Nat
         /\ h = <<>> => ListOf(h) = {} /\ Cardinality(ListOf(h)) = 0
<1>1. ListOf(h) \subseteq Pool!Block
  <2> SUFFICES ASSUME NEW i \in DOMAIN h PROVE h[i] \in Pool!Block BY DEF ListOf
  <2> QED OBVIOUS
<1>2. IsFiniteSet(Pool!Block) BY FS_Interval DEF Pool!Block
<1>3. IsFiniteSet(ListOf(h)) BY <1>1, <1>2, FS_Subset
<1>4. Cardinality(ListOf(h)) \in Nat BY <1>3, FS_CardinalityType
<1>5. ASSUME h = <<>> PROVE ListOf(h) = {} /\ Cardinality(ListOf(h)) = 0
  <2>1. ListOf(h) = {} BY <1>5 DEF ListOf
  <2> QED BY <2>1, FS_EmptySet
<1> QED BY <1>3, <1>4, <1>5

\* As long as a block is in use or on its way there is room for its token.
LEMMA RoomForFree ==
  ASSUME Pool!PoolFits, NEW u, NEW h \in Seq(Pool!Block), NEW c,
         NEW m \in 0..BlockCount,
         NEW s \in 0..BlockCount, Tokens(s, c, h, m), Apart(u, h, c, m),
         Complete(u, h, c, m), NEW b, b \in u \cup PendingOf(c)
  PROVE  s < BlockCount
<1>1. BlockCount \in Nat /\ m \in Nat /\ s \in Nat BY DEF Pool!PoolFits
<1>2. /\ IsFiniteSet(ListOf(h)) /\ Cardinality(ListOf(h)) \in Nat BY <1>1, ListCounted
<1>3. b \in 1..m /\ b \notin ListOf(h) /\ ListOf(h) \subseteq 1..m BY DEF Apart, Complete
<1>4. IsFiniteSet(1..m) /\ Cardinality(1..m) = m BY <1>1, FS_Interval
<1>5. Cardinality(ListOf(h) \cup {b}) = Cardinality(ListOf(h)) + 1
  BY <1>2, <1>3, FS_AddElement
<1>6. Cardinality(ListOf(h) \cup {b}) <= m
  <2>1. ListOf(h) \cup {b} \subseteq 1..m BY <1>3
  <2> QED BY <1>4, <2>1, FS_Subset
<1>7. Cardinality(TasksAt(c, Holders)) \in Nat BY PlaceCounted
<1>8. s + Cardinality(TasksAt(c, Holders)) = Cardinality(ListOf(h)) + (BlockCount - m)
  BY DEF Tokens
<1> DEFINE K == Cardinality(TasksAt(c, Holders))
           L == Cardinality(ListOf(h))
<1>9. L + 1 <= m BY <1>5, <1>6
<1>10. K \in Nat /\ L \in Nat /\ s + K = L + (BlockCount - m) BY <1>2, <1>7, <1>8
<1> HIDE DEF K, L
<1> QED BY <1>1, <1>9, <1>10

\* Who holds a token has room for it when it is given.
LEMMA RoomForGive ==
  ASSUME Pool!PoolFits, NEW u, NEW h \in Seq(Pool!Block), NEW c,
         NEW m \in 0..BlockCount,
         NEW s \in 0..BlockCount, Tokens(s, c, h, m),
         Complete(u, h, c, m), NEW t \in TasksAt(c, Holders)
  PROVE  s < BlockCount /\ (h # <<>> \/ m < BlockCount)
<1>1. BlockCount \in Nat /\ m \in Nat /\ s \in Nat /\ m <= BlockCount BY DEF Pool!PoolFits
<1>2. /\ IsFiniteSet(ListOf(h)) /\ Cardinality(ListOf(h)) \in Nat
      /\ h = <<>> => Cardinality(ListOf(h)) = 0
  BY <1>1, ListCounted
<1>3. ListOf(h) \subseteq 1..m BY DEF Complete
<1>4. IsFiniteSet(1..m) /\ Cardinality(1..m) = m BY <1>1, FS_Interval
<1>5. Cardinality(ListOf(h)) <= m BY <1>3, <1>4, FS_Subset
<1> DEFINE K == Cardinality(TasksAt(c, Holders))
           L == Cardinality(ListOf(h))
<1>6. K \in Nat /\ K >= 1 BY PlaceCounted
<1>7. s + K = L + (BlockCount - m) BY DEF Tokens
<1>8. L \in Nat /\ L <= m /\ (h = <<>> => L = 0) BY <1>2, <1>5
<1> HIDE DEF K, L
<1> QED BY <1>1, <1>6, <1>7, <1>8

\* What TakeBlock does to the blocks u of the application, the list h and the number
\* m of blocks created, which become v, g and k.
Taken(c, b, u, h, m, v, g, k) ==
  /\ v \in SUBSET Pool!Block /\ g \in Seq(Pool!Block) /\ k \in 0..BlockCount
  /\ Apart(v, g, c, k)
  /\ b # Pool!NoBlock =>
       /\ Complete(u, h, c, m) => Complete(v, g, c, k)
       /\ Cardinality(ListOf(g)) + (BlockCount - k) + 1
            = Cardinality(ListOf(h)) + (BlockCount - m)
  /\ b = Pool!NoBlock => h = <<>> /\ m >= bl_cnt

\* A block is taken from the list, or the next one created.
LEMMA TakeBlockKeeps ==
  ASSUME Pool!PoolFits, NEW c, PendingOf(c) \subseteq Pool!Block,
         NEW u \in SUBSET Pool!Block, head \in Seq(Pool!Block),
         n \in 0..BlockCount, bl_cnt \in 0..BlockCount,
         Apart(u, head, c, n), NEW b \in Pool!Block \cup {Pool!NoBlock}, Pool!TakeBlock(b)
  PROVE  Taken(c, b, u, head, n, u \cup ({b} \ {Pool!NoBlock}), head', n')
<1> DEFINE v == u \cup ({b} \ {Pool!NoBlock})
<1>0. /\ BlockCount \in Nat /\ n \in Nat /\ bl_cnt \in Nat /\ bl_cnt <= BlockCount
      /\ Pool!NoBlock = 0 /\ v \in SUBSET Pool!Block
  BY DEF Pool!PoolFits, Pool!NoBlock
<1>1. CASE head # <<>> /\ b = Head(head) /\ head' = Tail(head) /\ UNCHANGED n
  <2>1. PICK h : h = head' OBVIOUS
  <2>2. Once(head) /\ h = Tail(head) BY <1>1, <2>1 DEF Apart
  <2>3. /\ h \in Seq(Pool!Block) /\ Once(h) /\ b \in ListOf(head)
        /\ ListOf(h) = ListOf(head) \ {b}
    BY <1>1, <2>2, ListShrinks
  <2>4. b \in Pool!Block
    <3>1. Head(head) \in Pool!Block BY <1>1
    <3> QED BY <1>1, <3>1
  <2>5. v = u \cup {b} /\ b # Pool!NoBlock BY <1>0, <2>4 DEF Pool!Block
  <2>6. Apart(v, h, c, n) /\ (Complete(u, head, c, n) => Complete(v, h, c, n))
    BY <2>3, <2>5 DEF Apart, Complete
  <2>7. Cardinality(ListOf(h)) + (BlockCount - n) + 1
          = Cardinality(ListOf(head)) + (BlockCount - n)
    <3>1. /\ IsFiniteSet(ListOf(head)) /\ Cardinality(ListOf(head)) \in Nat
      BY <1>0, ListCounted
    <3>2. Cardinality(ListOf(h)) = Cardinality(ListOf(head)) - 1
      BY <2>3, <3>1, FS_RemoveElement
    <3> DEFINE L == Cardinality(ListOf(head))
               M == Cardinality(ListOf(h))
    <3>3. L \in Nat /\ M = L - 1 BY <3>1, <3>2
    <3> HIDE DEF L, M
    <3>4. M + (BlockCount - n) + 1 = L + (BlockCount - n) BY <1>0, <3>3
    <3> QED BY <3>4 DEF L, M
  <2>8. n' = n BY <1>1
  <2> QED BY <1>0, <2>1, <2>3, <2>5, <2>6, <2>7, <2>8 DEF Taken
<1>2. CASE head = <<>> /\ n < bl_cnt /\ b = n + 1 /\ n' = n + 1 /\ UNCHANGED head
  <2>1. PICK m : m = n' OBVIOUS
  <2>2. m = n + 1 /\ m \in 0..BlockCount /\ b = m /\ b # Pool!NoBlock BY <1>0, <1>2, <2>1
  <2>3. v = u \cup {b} /\ head' = head BY <1>2, <2>2
  <2>4. ASSUME NEW x, x \in u \cup ListOf(head) \cup PendingOf(c)
        PROVE  x <= n
    BY <2>4 DEF Apart
  <2>5. \A x \in Pool!Block \cup {Pool!NoBlock} : x <= n => x <= m /\ x # b
    BY <1>0, <2>2 DEF Pool!Block
  <2>6. ListOf(head) = {} BY <1>0, <1>2, ListCounted
  <2>7. /\ b \notin u /\ b \notin PendingOf(c)
    <3>1. ~(b <= n) BY <1>0, <2>2
    <3> QED BY <2>4, <3>1
  <2>8. Apart(v, head, c, m)
    <3>1. v \cap ListOf(head) = {} /\ ListOf(head) \cap PendingOf(c) = {} BY <2>6
    <3>2. v \cap PendingOf(c) = {} BY <2>3, <2>7 DEF Apart
    <3>3. \A x \in v \cup ListOf(head) \cup PendingOf(c) : x <= m
      <4>1. b <= m BY <1>0, <2>2
      <4>2. ASSUME NEW x \in u \cup PendingOf(c) PROVE x <= m
        <5>1. x <= n BY <2>4
        <5>2. x \in Pool!Block OBVIOUS
        <5> QED BY <2>5, <5>1, <5>2
      <4> QED BY <2>3, <2>6, <4>1, <4>2
    <3> QED BY <3>1, <3>2, <3>3 DEF Apart
  <2>9. Complete(u, head, c, n) => Complete(v, head, c, m)
    <3>1. 1..m = 1..n \cup {b} BY <1>0, <2>2
    <3> QED BY <2>3, <3>1 DEF Complete
  <2>10. Cardinality(ListOf(head)) + (BlockCount - m) + 1
           = Cardinality(ListOf(head)) + (BlockCount - n)
    <3>1. Cardinality(ListOf(head)) = 0 BY <1>0, <1>2, ListCounted
    <3> QED BY <1>0, <2>2, <3>1
  <2> QED BY <1>0, <1>2, <2>1, <2>2, <2>3, <2>8, <2>9, <2>10 DEF Taken
<1>3. CASE head = <<>> /\ n >= bl_cnt /\ b = Pool!NoBlock /\ UNCHANGED <<head, n>>
  <2>1. v = u BY <1>3
  <2> QED BY <1>0, <1>3, <2>1 DEF Taken
<1> QED BY <1>1, <1>2, <1>3 DEF Pool!TakeBlock

LEMMA PendingIsBlocks == PoolInv => PendingOf(poolCall) \subseteq Pool!Block
BY DEF PoolInv, Pool!TypeOK, PendingOf

LEMMA AllocBlockKeeps ==
  ASSUME Pool!PoolFits, PoolInv, NEW t \in Task, Pool!AllocBlock(t)
  PROVE  PoolInv'
<1>1. /\ DOMAIN poolCall = Task /\ poolCall[t] \in PoolCalls
      /\ poolCall[t].at = "checked" /\ poolCall[t].block = Pool!NoBlock
      /\ status # "none"
  BY CallTypes DEF Pool!AllocBlock, Pool!At
<1>2. /\ poolCall \in [Task -> PoolCalls] /\ used \in SUBSET Pool!Block
      /\ head \in Seq(Pool!Block)
      /\ n \in 0..BlockCount /\ sem \in 0..BlockCount /\ bl_cnt \in 0..BlockCount
      /\ Apart(used, head, poolCall, n) /\ PendingOf(poolCall) \subseteq Pool!Block
      /\ status = "valid" => /\ bl_cnt = BlockCount
                             /\ Complete(used, head, poolCall, n)
                             /\ Tokens(sem, poolCall, head, n)
                             /\ Waiters(sem, poolCall)
  BY PoolNow, PendingIsBlocks DEF PoolInv, Pool!TypeOK
<1>3. /\ status' = status /\ onHeap' = onHeap /\ bl_cnt' = bl_cnt /\ sem' = sem
      /\ poolCall' = [poolCall EXCEPT ![t] = Pool!NoCall]
  BY DEF Pool!AllocBlock, Pool!Returns
<1>4. PICK b \in Pool!Block \cup {Pool!NoBlock} :
        Pool!TakeBlock(b) /\ used' = used \cup ({b} \ {Pool!NoBlock})
  BY DEF Pool!AllocBlock
<1>5. /\ used' \in SUBSET Pool!Block /\ head' \in Seq(Pool!Block)
      /\ n' \in 0..BlockCount
      /\ Apart(used', head', poolCall, n')
      /\ b # Pool!NoBlock =>
           /\ Complete(used, head, poolCall, n) => Complete(used', head', poolCall, n')
           /\ Cardinality(ListOf(head')) + (BlockCount - n') + 1
                = Cardinality(ListOf(head)) + (BlockCount - n)
      /\ b = Pool!NoBlock => head = <<>> /\ n >= bl_cnt
  <2>1. Taken(poolCall, b, used, head, n, used \cup ({b} \ {Pool!NoBlock}), head', n')
    BY <1>2, <1>4, TakeBlockKeeps
  <2> QED BY <1>4, <2>1 DEF Taken
<1>6. PICK d : d = poolCall' OBVIOUS
<1>7. /\ d \in [Task -> PoolCalls] /\ OnlyOne(poolCall, d, t) /\ d[t] = Pool!NoCall
      /\ \A u \in Task : d[u].block = poolCall[u].block
  BY <1>1, <1>2, <1>3, <1>6, NoCallIs DEF OnlyOne
<1>8. Pool!TypeOK' /\ CallsTell' /\ StatusTells'
  <2>1. Pool!TypeOK' BY <1>2, <1>3, <1>5, <1>6, <1>7 DEF PoolInv, Pool!TypeOK, PoolCalls
  <2>2. CallsTell' BY <1>1, <1>3, NoCallIs DEF PoolInv, CallsTell
  <2>3. StatusTells' BY <1>1, <1>3 DEF PoolInv, StatusTells
  <2> QED BY <2>1, <2>2, <2>3
<1>9. PICK h, m, v : h = head' /\ m = n' /\ v = used' OBVIOUS
<1>10. Apart(v, h, d, m) BY <1>5, <1>7, <1>9, SamePending
<1>11. ASSUME status = "valid"
       PROVE  Complete(v, h, d, m) /\ Tokens(sem, d, h, m) /\ Waiters(sem, d)
  <2>1. t \in TasksAt(poolCall, Holders) BY <1>1 DEF TasksAt, Holders
  <2>2. b # Pool!NoBlock
    <3>1. head # <<>> \/ n < BlockCount BY <1>2, <1>11, <2>1, RoomForGive
    <3>2. n \in Nat /\ bl_cnt = BlockCount /\ BlockCount \in Nat
      BY <1>2, <1>11 DEF Pool!PoolFits
    <3> QED BY <1>5, <3>1, <3>2
  <2>3. Complete(v, h, d, m)
    <3>1. Complete(v, h, poolCall, m) BY <1>2, <1>5, <1>9, <1>11, <2>2
    <3> QED BY <1>7, <3>1, SamePending
  <2> DEFINE H == Cardinality(TasksAt(poolCall, Holders))
             K == Cardinality(TasksAt(d, Holders))
             L == Cardinality(ListOf(head)) + (BlockCount - n)
             M == Cardinality(ListOf(h)) + (BlockCount - m)
  <2>4. H \in Nat /\ K = H + TasksMoved(Holders, poolCall[t].at, d[t].at)
    BY <1>7, PlacesMove
  <2>5. TasksMoved(Holders, poolCall[t].at, d[t].at) = -1
    BY <1>1, <1>7, NoCallIs DEF TasksMoved, Holders
  <2>6. M + 1 = L /\ sem + H = L /\ M \in Int /\ sem \in Nat
    <3>1. Cardinality(ListOf(h)) \in Nat /\ m \in Nat /\ BlockCount \in Nat
      BY <1>5, <1>9, ListCounted DEF Pool!PoolFits
    <3>2. M \in Int BY <3>1
    <3>3. M + 1 = L BY <1>5, <1>9, <2>2
    <3>4. sem + H = L BY <1>2, <1>11 DEF Tokens
    <3>5. sem \in Nat BY <1>2, <3>1
    <3> QED BY <3>2, <3>3, <3>4, <3>5
  <2>7. Tokens(sem, d, h, m)
    <3>1. sem + K = M
      <4> HIDE DEF H, K, L, M
      <4> QED BY <2>4, <2>5, <2>6
    <3> QED BY <3>1 DEF Tokens
  <2>8. TasksAt(d, {"asleep"}) = TasksAt(poolCall, {"asleep"})
        /\ TasksAt(d, {"woken"}) = TasksAt(poolCall, {"woken"})
    BY <1>1, <1>7, NoCallIs DEF TasksAt, OnlyOne
  <2>9. Waiters(sem, d) BY <1>2, <1>11, <2>8 DEF Waiters
  <2> QED BY <2>3, <2>7, <2>9
<1> QED BY <1>3, <1>6, <1>8, <1>9, <1>10, <1>11, PoolNext

LEMMA ISRAllocKeeps ==
  ASSUME Pool!PoolFits, PoolInv, Pool!AllocFromISR
  PROVE  PoolInv'
<1>1. /\ status = "valid" /\ sem > 0 /\ sem' = sem - 1
      /\ status' = status /\ onHeap' = onHeap /\ bl_cnt' = bl_cnt
      /\ poolCall' = poolCall
  BY DEF Pool!AllocFromISR
<1>2. /\ poolCall \in [Task -> PoolCalls] /\ used \in SUBSET Pool!Block
      /\ head \in Seq(Pool!Block)
      /\ n \in 0..BlockCount /\ sem \in 0..BlockCount /\ bl_cnt \in 0..BlockCount
      /\ Apart(used, head, poolCall, n) /\ PendingOf(poolCall) \subseteq Pool!Block
      /\ bl_cnt = BlockCount /\ Complete(used, head, poolCall, n)
      /\ Tokens(sem, poolCall, head, n) /\ Waiters(sem, poolCall)
  BY <1>1, PoolNow, PendingIsBlocks DEF PoolInv, Pool!TypeOK
<1>3. PICK b \in Pool!Block \cup {Pool!NoBlock} :
        Pool!TakeBlock(b) /\ used' = used \cup ({b} \ {Pool!NoBlock})
  BY DEF Pool!AllocFromISR
<1>4. /\ used' \in SUBSET Pool!Block /\ head' \in Seq(Pool!Block)
      /\ n' \in 0..BlockCount
      /\ Apart(used', head', poolCall, n')
      /\ b # Pool!NoBlock =>
           /\ Complete(used, head, poolCall, n) => Complete(used', head', poolCall, n')
           /\ Cardinality(ListOf(head')) + (BlockCount - n') + 1
                = Cardinality(ListOf(head)) + (BlockCount - n)
      /\ b = Pool!NoBlock => head = <<>> /\ n >= bl_cnt
  <2>1. Taken(poolCall, b, used, head, n, used \cup ({b} \ {Pool!NoBlock}), head', n')
    BY <1>2, <1>3, TakeBlockKeeps
  <2> QED BY <1>3, <2>1 DEF Taken
<1>5. PICK h, m, v, s : h = head' /\ m = n' /\ v = used' /\ s = sem' OBVIOUS
<1>6. BlockCount \in Nat /\ sem \in Nat /\ n \in Nat /\ m \in Nat
      /\ s = sem - 1 /\ s \in 0..BlockCount /\ sem >= 1 /\ s <= sem
  BY <1>1, <1>2, <1>4, <1>5 DEF Pool!PoolFits
<1> DEFINE H == Cardinality(TasksAt(poolCall, Holders))
           F == Cardinality(ListOf(head))
           G == Cardinality(ListOf(h))
           W == Cardinality(TasksAt(poolCall, {"woken"}))
<1>7. H \in Nat /\ W \in Nat /\ F \in Nat /\ G \in Nat /\ (head = <<>> => F = 0)
  <2>1. h \in Seq(Pool!Block) BY <1>4, <1>5
  <2> QED BY <1>2, <1>6, <2>1, PlaceCounted, ListCounted
<1>8. sem + H = F + (BlockCount - n) BY <1>2 DEF Tokens
<1>9. b # Pool!NoBlock
  <2> HIDE DEF H, F
  <2> QED BY <1>2, <1>4, <1>6, <1>7, <1>8
<1>10. Tokens(s, poolCall, h, m)
  <2>1. G + (BlockCount - m) + 1 = F + (BlockCount - n) BY <1>4, <1>5, <1>9
  <2>2. s + H = G + (BlockCount - m)
    <3> HIDE DEF H, F, G
    <3> QED BY <1>6, <1>7, <1>8, <2>1
  <2> QED BY <2>2 DEF Tokens
<1>11. Waiters(s, poolCall)
  <2> SUFFICES ASSUME TasksAt(poolCall, {"asleep"}) # {} PROVE s <= W BY DEF Waiters
  <2>1. sem <= W BY <1>2 DEF Waiters
  <2> HIDE DEF W
  <2> QED BY <1>6, <1>7, <2>1
<1>12. Apart(v, h, poolCall, m) /\ Complete(v, h, poolCall, m) BY <1>2, <1>4, <1>5, <1>9
<1>13. Pool!TypeOK' /\ CallsTell' /\ StatusTells'
  <2>1. Pool!TypeOK' BY <1>1, <1>2, <1>4, <1>5, <1>6 DEF PoolInv, Pool!TypeOK
  <2>2. CallsTell' BY <1>1 DEF PoolInv, CallsTell
  <2>3. StatusTells' BY <1>1 DEF PoolInv, StatusTells
  <2> QED BY <2>1, <2>2, <2>3
<1> QED BY <1>1, <1>5, <1>10, <1>11, <1>12, <1>13, PoolNext

LEMMA PoolFreeKeeps ==
  ASSUME Pool!PoolFits, PoolInv, NEW t \in Task, NEW b \in used,
         Pool!osMemoryPoolFree(t, b)
  PROVE  PoolInv'
<1>1. /\ poolCall \in [Task -> PoolCalls] /\ used \in SUBSET Pool!Block
      /\ head \in Seq(Pool!Block)
      /\ Apart(used, head, poolCall, n) /\ status = "valid"
      /\ Complete(used, head, poolCall, n)
      /\ Tokens(sem, poolCall, head, n) /\ Waiters(sem, poolCall)
  BY PoolNow DEF Pool!osMemoryPoolFree
<1>2. /\ status' = status /\ onHeap' = onHeap /\ head' = head /\ n' = n
      /\ bl_cnt' = bl_cnt /\ sem' = sem /\ used' = used \ {b}
  BY DEF Pool!osMemoryPoolFree, Pool!pool
<1>3. poolCall[t].at = "idle" /\ poolCall[t].block = Pool!NoBlock
  BY CallTypes DEF Pool!osMemoryPoolFree, Pool!At
<1>4. PICK r : r = [Pool!NoCall EXCEPT !.at = "count", !.block = b] OBVIOUS
<1>5. PICK d : d = poolCall' OBVIOUS
<1>6. r \in PoolCalls /\ r.at = "count" /\ r.block = b /\ b \in Pool!Block /\ b # Pool!NoBlock
  <2>1. b \in Pool!Block BY <1>1
  <2>2. b # Pool!NoBlock BY <2>1 DEF Pool!Block, Pool!NoBlock
  <2> QED BY <1>4, <2>1, <2>2 DEF Pool!NoCall, PoolCalls
<1>7. d = [poolCall EXCEPT ![t] = r] BY <1>4, <1>5 DEF Pool!osMemoryPoolFree
<1>8. d \in [Task -> PoolCalls] /\ OnlyOne(poolCall, d, t) /\ d[t] = r
  BY <1>1, <1>6, <1>7 DEF OnlyOne
<1>9. Apart(used \ {b}, head, d, n) /\ Complete(used \ {b}, head, d, n)
  <2>1. d[t].block = b BY <1>6, <1>8
  <2>2. d[t].block \in used /\ d[t].block # Pool!NoBlock BY <1>6, <2>1
  <2>3. /\ Apart(used \ {d[t].block}, head, d, n)
        /\ Complete(used, head, poolCall, n) => Complete(used \ {d[t].block}, head, d, n)
    BY <1>1, <1>3, <1>8, <2>2, PendingComes
  <2> QED BY <1>1, <2>1, <2>3
<1>10. Tokens(sem, d, head, n) /\ Waiters(sem, d)
  <2>1. /\ TasksAt(d, Holders) = TasksAt(poolCall, Holders)
        /\ TasksAt(d, {"asleep"}) = TasksAt(poolCall, {"asleep"})
        /\ TasksAt(d, {"woken"}) = TasksAt(poolCall, {"woken"})
    BY <1>3, <1>6, <1>8 DEF TasksAt, OnlyOne, Holders
  <2> QED BY <1>1, <2>1 DEF Tokens, Waiters
<1>11. Pool!TypeOK' /\ CallsTell' /\ StatusTells'
  <2>1. Pool!TypeOK' BY <1>1, <1>2, <1>5, <1>8 DEF PoolInv, Pool!TypeOK, PoolCalls
  <2>2. CallsTell' BY <1>5, <1>6, <1>8 DEF PoolInv, CallsTell, OnlyOne
  <2>3. StatusTells' BY <1>1, <1>2 DEF PoolInv, StatusTells
  <2> QED BY <2>1, <2>2, <2>3
<1> QED BY <1>2, <1>5, <1>9, <1>10, <1>11, PoolNext

LEMMA CheckCountKeeps ==
  ASSUME Pool!PoolFits, PoolInv, NEW t \in Task, Pool!CheckCount(t)
  PROVE  PoolInv'
<1>1. /\ DOMAIN poolCall = Task /\ poolCall[t] \in PoolCalls
      /\ poolCall[t].at = "count" /\ poolCall[t].block # Pool!NoBlock
      /\ status # "none"
  <2>1. poolCall[t].at = "count" BY DEF Pool!CheckCount, Pool!At
  <2>2. poolCall[t].block # Pool!NoBlock BY <2>1 DEF PoolInv, CallsTell
  <2> QED BY <2>1, <2>2, CallTypes
<1>2. /\ UNCHANGED <<Pool!pool, used>> /\ sem' = sem
      /\ sem \in Nat /\ sem' \in 0..BlockCount
  BY DEF Pool!CheckCount, PoolInv, Pool!TypeOK
<1>3. CASE sem # bl_cnt
  <2>1. Pool!Goes(t, "push") BY <1>3 DEF Pool!CheckCount
  <2>2. PICK r : r = [poolCall[t] EXCEPT !.at = "push"] OBVIOUS
  <2>3. /\ r \in PoolCalls /\ r.at = "push" /\ r.block = poolCall[t].block
        /\ poolCall' = [poolCall EXCEPT ![t] = r]
    BY <1>1, <2>1, <2>2, GoesIs
  <2>4. TokensFollow(sem, sem', poolCall[t].at, r.at)
    BY <1>1, <1>2, <2>3 DEF TokensFollow, Holders
  <2> QED BY <1>1, <1>2, <2>3, <2>4, MoveKeeps
<1>4. CASE sem = bl_cnt
  <2>1. poolCall' = [poolCall EXCEPT ![t] = Pool!NoCall]
    BY <1>4 DEF Pool!CheckCount, Pool!Returns
  <2>2. /\ poolCall \in [Task -> PoolCalls] /\ used \subseteq Pool!Block /\ head \in Seq(Pool!Block)
        /\ n \in 0..BlockCount /\ sem \in 0..BlockCount
        /\ Apart(used, head, poolCall, n)
        /\ status = "valid" => /\ bl_cnt = BlockCount
                               /\ Complete(used, head, poolCall, n)
                               /\ Tokens(sem, poolCall, head, n)
    BY PoolNow
  <2>3. status # "valid"
    <3> SUFFICES ASSUME status = "valid" PROVE FALSE OBVIOUS
    <3>1. poolCall[t].block \in used \cup PendingOf(poolCall) BY <1>1 DEF PendingOf
    <3>2. sem < BlockCount BY <2>2, <3>1, RoomForFree
    <3> QED BY <1>2, <1>4, <2>2, <3>2
  <2>4. PICK d : d = poolCall' OBVIOUS
  <2>5. d \in [Task -> PoolCalls] /\ OnlyOne(poolCall, d, t) /\ d[t] = Pool!NoCall
    BY <2>1, <2>2, <2>4, NoCallIs DEF OnlyOne
  <2>6. Apart(used, head, d, n) BY <2>2, <2>5, NoCallIs, PendingLeaves
  <2>7. /\ status' = status /\ onHeap' = onHeap /\ head' = head /\ n' = n
        /\ bl_cnt' = bl_cnt /\ used' = used
    BY <1>2 DEF Pool!pool
  <2>8. Pool!TypeOK' /\ CallsTell' /\ StatusTells'
    <3>1. Pool!TypeOK' BY <1>2, <2>4, <2>5, <2>7 DEF PoolInv, Pool!TypeOK, PoolCalls
    <3>2. CallsTell' BY <2>4, <2>5, NoCallIs DEF PoolInv, CallsTell, OnlyOne
    <3>3. StatusTells' BY <1>1, <2>3, <2>7 DEF StatusTells
    <3> QED BY <3>1, <3>2, <3>3
  <2> QED BY <2>3, <2>4, <2>6, <2>7, <2>8, PoolNext
<1> QED BY <1>3, <1>4

LEMMA FreeBlockKeeps ==
  ASSUME Pool!PoolFits, PoolInv, NEW t \in Task, Pool!FreeBlock(t)
  PROVE  PoolInv'
<1>1. /\ poolCall[t].at = "push" /\ poolCall[t].block # Pool!NoBlock
      /\ status # "none"
  <2>1. poolCall[t].at = "push" BY DEF Pool!FreeBlock, Pool!At
  <2>2. poolCall[t].block # Pool!NoBlock BY <2>1 DEF PoolInv, CallsTell
  <2> QED BY <2>1, <2>2, CallTypes
<1>2. /\ poolCall \in [Task -> PoolCalls] /\ used \subseteq Pool!Block
      /\ head \in Seq(Pool!Block)
      /\ n \in 0..BlockCount /\ sem \in 0..BlockCount
      /\ Apart(used, head, poolCall, n)
      /\ status = "valid" => /\ bl_cnt = BlockCount
                             /\ Complete(used, head, poolCall, n)
                             /\ Tokens(sem, poolCall, head, n)
                             /\ Waiters(sem, poolCall)
  BY PoolNow
<1>3. PICK b, d, h : b = poolCall[t].block /\ d = poolCall' /\ h = <<b>> \o head OBVIOUS
<1>4. /\ status' = status /\ onHeap' = onHeap /\ head' = h /\ n' = n
      /\ bl_cnt' = bl_cnt /\ sem' = sem /\ used' = used
  BY <1>3 DEF Pool!FreeBlock
<1>5. d = [poolCall EXCEPT ![t] = [poolCall[t] EXCEPT !.at = "give", !.block = Pool!NoBlock]]
  BY <1>2, <1>3 DEF Pool!FreeBlock
<1>6. d \in [Task -> PoolCalls] /\ OnlyOne(poolCall, d, t)
      /\ d[t].at = "give" /\ d[t].block = Pool!NoBlock
  <2>1. [poolCall[t] EXCEPT !.at = "give", !.block = Pool!NoBlock] \in PoolCalls
    BY <1>2 DEF PoolCalls
  <2> QED BY <1>2, <1>5, <2>1 DEF OnlyOne, PoolCalls
<1>7. /\ PendingOf(d) = PendingOf(poolCall) \ {b} /\ Apart(used, head, d, n)
      /\ b \in PendingOf(poolCall)
  BY <1>1, <1>2, <1>3, <1>6, PendingLeaves
<1>8. b \in Pool!Block /\ b \notin used /\ b \notin ListOf(head) /\ b <= n
      /\ b \notin PendingOf(d)
  <2>1. b \in Pool!Block BY <1>1, <1>2, <1>3 DEF PoolCalls
  <2> QED BY <1>2, <1>7, <2>1 DEF Apart
<1>9. Apart(used, h, d, n) BY <1>2, <1>3, <1>7, <1>8, BlockListed
<1>10. h \in Seq(Pool!Block) /\ ListOf(h) = ListOf(head) \cup {b}
  <2>1. Once(head) BY <1>2 DEF Apart
  <2> QED BY <1>2, <1>3, <1>8, <2>1, ListGrows
<1>11. ASSUME status = "valid"
       PROVE  Complete(used, h, d, n) /\ Tokens(sem, d, h, n) /\ Waiters(sem, d)
  <2>1. Complete(used, h, d, n) BY <1>2, <1>7, <1>10, <1>11 DEF Complete
  <2> DEFINE H == Cardinality(TasksAt(poolCall, Holders))
             K == Cardinality(TasksAt(d, Holders))
             F == Cardinality(ListOf(head))
             G == Cardinality(ListOf(h))
  <2>2. H \in Nat /\ K = H + TasksMoved(Holders, poolCall[t].at, d[t].at)
    BY <1>6, PlacesMove
  <2>3. TasksMoved(Holders, poolCall[t].at, d[t].at) = 1
    BY <1>1, <1>6 DEF TasksMoved, Holders
  <2>4. F \in Nat /\ G = F + 1
    <3>1. IsFiniteSet(ListOf(head)) /\ F \in Nat BY <1>2, ListCounted DEF Pool!PoolFits
    <3> QED BY <1>8, <1>10, <3>1, FS_AddElement
  <2>5. Tokens(sem, d, h, n)
    <3>1. sem + H = F + (BlockCount - n) BY <1>2, <1>11 DEF Tokens
    <3>2. sem \in Nat /\ n \in Nat /\ BlockCount \in Nat BY <1>2 DEF Pool!PoolFits
    <3>3. sem + K = G + (BlockCount - n)
      <4> HIDE DEF H, K, F, G
      <4> QED BY <2>2, <2>3, <2>4, <3>1, <3>2
    <3> QED BY <3>3 DEF Tokens
  <2>6. /\ TasksAt(d, {"asleep"}) = TasksAt(poolCall, {"asleep"})
        /\ TasksAt(d, {"woken"}) = TasksAt(poolCall, {"woken"})
    BY <1>1, <1>6 DEF TasksAt, OnlyOne
  <2>7. Waiters(sem, d) BY <1>2, <1>11, <2>6 DEF Waiters
  <2> QED BY <2>1, <2>5, <2>7
<1>12. Pool!TypeOK' /\ CallsTell' /\ StatusTells'
  <2>1. Pool!TypeOK' BY <1>2, <1>3, <1>4, <1>6, <1>10 DEF PoolInv, Pool!TypeOK, PoolCalls
  <2>2. CallsTell' BY <1>3, <1>6 DEF PoolInv, CallsTell, OnlyOne
  <2>3. StatusTells' BY <1>1, <1>4 DEF PoolInv, StatusTells
  <2> QED BY <2>1, <2>2, <2>3
<1> QED BY <1>3, <1>4, <1>9, <1>11, <1>12, PoolNext

--------------------
\* Giving tokens.

\* What Gives does when there is room: a token more, and nobody sleeps alone.
Given(nc, d, s, z) ==
  /\ d \in [Task -> PoolCalls] /\ z = s + 1
  /\ \A u \in Task : d[u].block = nc[u].block
  /\ \A u \in Task : d[u].at # nc[u].at => nc[u].at = "asleep" /\ d[u].at = "woken"
  /\ Waiters(s, nc) => Waiters(z, d)

LEMMA GivesIs ==
  ASSUME Pool!PoolFits, NEW nc \in [Task -> PoolCalls], sem \in 0..BlockCount,
         sem # BlockCount, Pool!Gives(nc)
  PROVE  Given(nc, poolCall', sem, sem')
<1>1. PICK d, z : d = poolCall' /\ z = sem' OBVIOUS
<1>2. z = sem + 1 /\ sem \in Nat /\ z \in Nat BY <1>1 DEF Pool!Gives, Pool!PoolFits
<1>3. ASSUME NEW w \in Task, nc[w].at = "asleep",
             d = [nc EXCEPT ![w] = [nc[w] EXCEPT !.at = "woken"]]
      PROVE  Given(nc, d, sem, z)
  <2>1. [nc[w] EXCEPT !.at = "woken"] \in PoolCalls BY DEF PoolCalls
  <2>2. /\ d \in [Task -> PoolCalls] /\ OnlyOne(nc, d, w)
        /\ d[w].at = "woken" /\ d[w].block = nc[w].block
    BY <1>3, <2>1 DEF PoolCalls, OnlyOne
  <2> DEFINE V == Cardinality(TasksAt(nc, {"woken"}))
             W == Cardinality(TasksAt(d, {"woken"}))
  <2>3. V \in Nat /\ W = V + TasksMoved({"woken"}, nc[w].at, d[w].at) BY <2>2, PlacesMove
  <2>4. TasksMoved({"woken"}, nc[w].at, d[w].at) = 1 BY <1>3, <2>2 DEF TasksMoved
  <2>5. TasksAt(nc, {"asleep"}) # {} BY <1>3 DEF TasksAt
  <2>6. Waiters(sem, nc) => Waiters(z, d)
    <3> SUFFICES ASSUME sem <= V PROVE z <= W BY <2>5 DEF Waiters
    <3> HIDE DEF V, W
    <3> QED BY <1>2, <2>3, <2>4
  <2> QED BY <1>2, <1>3, <2>2, <2>6 DEF Given, OnlyOne
<1>4. CASE (\A w \in Task : nc[w].at # "asleep") /\ d = nc
  <2>1. TasksAt(d, {"asleep"}) = {} BY <1>4 DEF TasksAt
  <2> QED BY <1>1, <1>2, <1>4, <2>1 DEF Given, Waiters
<1>5. CASE \E w \in Task : /\ nc[w].at = "asleep"
                           /\ poolCall' = [nc EXCEPT ![w].at = "woken"]
  <2>1. PICK w \in Task : /\ nc[w].at = "asleep"
                          /\ poolCall' = [nc EXCEPT ![w].at = "woken"]
    BY <1>5
  <2>2. d = [nc EXCEPT ![w] = [nc[w] EXCEPT !.at = "woken"]] BY <1>1, <2>1
  <2> QED BY <1>1, <1>3, <2>1, <2>2
<1> QED BY <1>1, <1>4, <1>5 DEF Pool!Gives

\* The parts of PoolInv that say what calls are under way follow those before.
LEMMA GivenTells ==
  ASSUME NEW nc, NEW d,
         \A u \in Task : d[u].block = nc[u].block,
         \A u \in Task : d[u].at # nc[u].at => nc[u].at = "asleep" /\ d[u].at = "woken"
  PROVE  /\ \A u \in Task : d[u].at \in {"count", "push"} <=> nc[u].at \in {"count", "push"}
         /\ TasksAt(d, Holders) = TasksAt(nc, Holders)
<1>1. ASSUME NEW u \in Task
      PROVE  /\ d[u].at \in {"count", "push"} <=> nc[u].at \in {"count", "push"}
             /\ d[u].at \in Holders <=> nc[u].at \in Holders
  BY DEF Holders
<1> QED BY <1>1 DEF TasksAt

LEMMA GiveKeeps ==
  ASSUME Pool!PoolFits, PoolInv, NEW t \in Task, Pool!xSemaphoreGive(t)
  PROVE  PoolInv'
<1>1. /\ poolCall[t].at = "give" /\ poolCall[t].block = Pool!NoBlock /\ status # "none"
  BY CallTypes DEF Pool!xSemaphoreGive, Pool!At
<1>2. /\ poolCall \in [Task -> PoolCalls] /\ used \subseteq Pool!Block
      /\ head \in Seq(Pool!Block)
      /\ n \in 0..BlockCount /\ sem \in 0..BlockCount
      /\ Apart(used, head, poolCall, n)
      /\ status = "valid" => /\ bl_cnt = BlockCount
                             /\ Complete(used, head, poolCall, n)
                             /\ Tokens(sem, poolCall, head, n)
                             /\ Waiters(sem, poolCall)
  BY PoolNow
<1>3. PICK nc, d, z : nc = [poolCall EXCEPT ![t] = Pool!NoCall] /\ d = poolCall' /\ z = sem'
  OBVIOUS
<1>4. /\ status' = status /\ onHeap' = onHeap /\ head' = head /\ n' = n
      /\ bl_cnt' = bl_cnt /\ used' = used
  BY DEF Pool!xSemaphoreGive, Pool!pool
<1>5. /\ nc \in [Task -> PoolCalls] /\ OnlyOne(poolCall, nc, t) /\ nc[t] = Pool!NoCall
      /\ \A u \in Task : nc[u].block = poolCall[u].block
  BY <1>1, <1>2, <1>3, NoCallIs DEF OnlyOne
<1>6. Pool!Gives(nc) BY <1>3 DEF Pool!xSemaphoreGive
<1>7. /\ d \in [Task -> PoolCalls] /\ z \in 0..BlockCount
      /\ \A u \in Task : d[u].block = nc[u].block
      /\ \A u \in Task : d[u].at # nc[u].at => nc[u].at = "asleep" /\ d[u].at = "woken"
      /\ sem # BlockCount => z = sem + 1 /\ (Waiters(sem, nc) => Waiters(z, d))
  <2>1. CASE sem = BlockCount
    <3>1. z = sem /\ d = nc BY <1>3, <1>6, <2>1 DEF Pool!Gives
    <3> QED BY <1>2, <1>5, <2>1, <3>1
  <2>2. CASE sem # BlockCount
    <3>1. Given(nc, d, sem, z) BY <1>2, <1>3, <1>5, <1>6, <2>2, GivesIs
    <3>2. z = sem + 1 BY <3>1 DEF Given
    <3>3. z \in 0..BlockCount BY <1>2, <2>2, <3>2 DEF Pool!PoolFits
    <3> QED BY <3>1, <3>3 DEF Given
  <2> QED BY <2>1, <2>2
<1>8. /\ \A u \in Task : d[u].at \in {"count", "push"} <=> nc[u].at \in {"count", "push"}
      /\ TasksAt(d, Holders) = TasksAt(nc, Holders)
  BY <1>7, GivenTells
<1>9. \A u \in Task : d[u].block = poolCall[u].block BY <1>5, <1>7
<1>10. Apart(used, head, d, n) /\ (status = "valid" => Complete(used, head, d, n))
  BY <1>2, <1>9, SamePending
<1>11. ASSUME status = "valid"
       PROVE  Tokens(z, d, head, n) /\ Waiters(z, d)
  <2>1. t \in TasksAt(poolCall, Holders) BY <1>1 DEF TasksAt, Holders
  <2>2. sem < BlockCount BY <1>2, <1>11, <2>1, RoomForGive
  <2>3. z = sem + 1 /\ (Waiters(sem, nc) => Waiters(z, d))
    BY <1>2, <1>7, <2>2 DEF Pool!PoolFits
  <2>4. /\ TasksAt(nc, {"asleep"}) = TasksAt(poolCall, {"asleep"})
        /\ TasksAt(nc, {"woken"}) = TasksAt(poolCall, {"woken"})
    BY <1>1, <1>5, NoCallIs DEF TasksAt, OnlyOne
  <2>5. Waiters(z, d) BY <1>2, <1>11, <2>3, <2>4 DEF Waiters
  <2> DEFINE H == Cardinality(TasksAt(poolCall, Holders))
             K == Cardinality(TasksAt(nc, Holders))
  <2>6. H \in Nat /\ K = H + TasksMoved(Holders, poolCall[t].at, nc[t].at)
    BY <1>5, PlacesMove
  <2>7. TasksMoved(Holders, poolCall[t].at, nc[t].at) = -1
    BY <1>1, <1>5, NoCallIs DEF TasksMoved, Holders
  <2>8. Tokens(z, d, head, n)
    <3>1. sem + H = Cardinality(ListOf(head)) + (BlockCount - n) /\ sem \in Nat
      BY <1>2, <1>11 DEF Tokens
    <3>2. z + K = sem + H
      <4> HIDE DEF H, K
      <4> QED BY <2>3, <2>6, <2>7, <3>1
    <3> QED BY <1>8, <3>1, <3>2 DEF Tokens
  <2> QED BY <2>5, <2>8
<1>12. Pool!TypeOK' /\ CallsTell' /\ StatusTells'
  <2>1. Pool!TypeOK' BY <1>3, <1>4, <1>7 DEF PoolInv, Pool!TypeOK, PoolCalls
  <2>2. CallsTell'
    BY <1>1, <1>3, <1>5, <1>7, <1>8, NoCallIs DEF PoolInv, CallsTell, OnlyOne
  <2>3. StatusTells' BY <1>1, <1>4 DEF PoolInv, StatusTells
  <2> QED BY <2>1, <2>2, <2>3
<1> QED BY <1>3, <1>4, <1>10, <1>11, <1>12, PoolNext

LEMMA ISRFreeKeeps ==
  ASSUME Pool!PoolFits, PoolInv, NEW b \in used, Pool!FreeFromISR(b)
  PROVE  PoolInv'
<1>1. /\ poolCall \in [Task -> PoolCalls] /\ used \in SUBSET Pool!Block
      /\ head \in Seq(Pool!Block)
      /\ n \in 0..BlockCount /\ sem \in 0..BlockCount
      /\ Apart(used, head, poolCall, n) /\ status = "valid"
      /\ Complete(used, head, poolCall, n)
      /\ Tokens(sem, poolCall, head, n) /\ Waiters(sem, poolCall)
      /\ bl_cnt = BlockCount
  BY PoolNow DEF Pool!FreeFromISR
<1>2. sem < BlockCount BY <1>1, RoomForFree
<1>3. BlockCount \in Nat /\ sem \in Nat /\ n \in Nat BY <1>1 DEF Pool!PoolFits
<1>4. PICK c, d, z, h : c = poolCall /\ d = poolCall' /\ z = sem' /\ h = <<b>> \o head
  OBVIOUS
<1>5. /\ status' = status /\ onHeap' = onHeap /\ head' = h /\ n' = n
      /\ bl_cnt' = bl_cnt /\ used' = used \ {b} /\ Pool!Gives(poolCall)
  BY <1>1, <1>2, <1>3, <1>4 DEF Pool!FreeFromISR
<1>6. Given(c, d, sem, z)
  <2>1. Pool!Gives(c) /\ c \in [Task -> PoolCalls] BY <1>1, <1>4, <1>5 DEF Pool!Gives
  <2> QED BY <1>1, <1>2, <1>3, <1>4, <2>1, GivesIs
<1>7. /\ d \in [Task -> PoolCalls] /\ z = sem + 1 /\ z \in 0..BlockCount
      /\ \A u \in Task : d[u].block = poolCall[u].block
      /\ \A u \in Task : d[u].at # poolCall[u].at => poolCall[u].at = "asleep" /\ d[u].at = "woken"
      /\ Waiters(z, d)
  BY <1>1, <1>2, <1>3, <1>4, <1>6 DEF Given
<1>8. /\ \A u \in Task : d[u].at \in {"count", "push"} <=> poolCall[u].at \in {"count", "push"}
      /\ TasksAt(d, Holders) = TasksAt(poolCall, Holders)
  BY <1>7, GivenTells
<1>9. b \in Pool!Block /\ b \notin ListOf(head) /\ b \notin PendingOf(poolCall) /\ b <= n
  BY <1>1 DEF Apart
<1>10. h \in Seq(Pool!Block) /\ ListOf(h) = ListOf(head) \cup {b}
  <2>1. Once(head) BY <1>1 DEF Apart
  <2> QED BY <1>1, <1>4, <1>9, <2>1, ListGrows
<1>11. Apart(used \ {b}, h, d, n) /\ Complete(used \ {b}, h, d, n)
  <2>1. Apart(used \ {b}, head, poolCall, n) BY <1>1 DEF Apart
  <2>2. Apart(used \ {b}, h, poolCall, n) BY <1>1, <1>4, <1>9, <2>1, BlockListed
  <2>3. Complete(used \ {b}, h, poolCall, n) BY <1>1, <1>10 DEF Complete
  <2> QED BY <1>7, <2>2, <2>3, SamePending
<1>12. Tokens(z, d, h, n)
  <2> DEFINE H == Cardinality(TasksAt(poolCall, Holders))
             F == Cardinality(ListOf(head))
             G == Cardinality(ListOf(h))
  <2>1. H \in Nat BY PlaceCounted
  <2>2. F \in Nat /\ G = F + 1
    <3>1. IsFiniteSet(ListOf(head)) /\ F \in Nat BY <1>1, <1>3, ListCounted
    <3> QED BY <1>9, <1>10, <3>1, FS_AddElement
  <2>3. sem + H = F + (BlockCount - n) BY <1>1 DEF Tokens
  <2>4. z + H = G + (BlockCount - n)
    <3> HIDE DEF H, F, G
    <3> QED BY <1>3, <1>7, <2>1, <2>2, <2>3
  <2> QED BY <1>8, <2>4 DEF Tokens
<1>13. Pool!TypeOK' /\ CallsTell' /\ StatusTells'
  <2>1. Pool!TypeOK' BY <1>1, <1>4, <1>5, <1>7, <1>10 DEF PoolInv, Pool!TypeOK, PoolCalls
  <2>2. CallsTell' BY <1>4, <1>7, <1>8 DEF PoolInv, CallsTell
  <2>3. StatusTells' BY <1>1, <1>5 DEF PoolInv, StatusTells
  <2> QED BY <2>1, <2>2, <2>3
<1> QED BY <1>4, <1>5, <1>7, <1>11, <1>12, <1>13, PoolNext

--------------------
\* The pool is made and deleted.

LEMMA NewKeeps ==
  ASSUME Pool!PoolFits, PoolInv, NEW heap \in SUBSET Pool!Memory,
         Pool!osMemoryPoolNew(heap)
  PROVE  PoolInv'
<1>1. /\ status = "none" /\ head = <<>> /\ n = 0 /\ used = {}
      /\ \A t \in Task : poolCall[t].at = "idle"
      /\ used' = used /\ poolCall' = poolCall
  BY DEF Pool!osMemoryPoolNew, PoolInv, StatusTells
<1>2. /\ \A t \in Task : poolCall[t].block = Pool!NoBlock
      /\ BlockCount \in Nat /\ Pool!TypeOK /\ CallsTell
  BY <1>1 DEF PoolInv, CallsTell, Pool!PoolFits
<1>3. CASE UNCHANGED <<Pool!pool, sem>>
  <2>1. UNCHANGED Pool!vars BY <1>1, <1>3 DEF Pool!pool, Pool!vars
  <2> QED BY <1>1, <2>1 DEF Pool!vars, PoolInv, Pool!TypeOK, CallsTell, StatusTells,
       Pool!PoolAccounted, Pool!BlocksApart, Pool!NoneLost, Pool!TokenForBlock,
       Pool!NoWaiterLeftBehind, Pool!In, Pool!Free, Pool!Pending
<1>4. CASE /\ status' = "valid" /\ onHeap' = heap /\ head' = <<>> /\ n' = 0
           /\ bl_cnt' = BlockCount /\ sem' = BlockCount
  <2>1. PendingOf(poolCall) = {} BY <1>2 DEF PendingOf
  <2>2. ListOf(<<>>) = {} /\ Cardinality(ListOf(<<>>)) = 0
    <3>1. <<>> \in Seq(Pool!Block) OBVIOUS
    <3> QED BY <1>2, <3>1, ListCounted
  <2>3. Apart({}, <<>>, poolCall, 0)
    <3>1. Once(<<>>) BY DEF Once
    <3> QED BY <1>2, <2>1, <2>2, <3>1 DEF Apart
  <2>4. Complete({}, <<>>, poolCall, 0) BY <2>1, <2>2 DEF Complete
  <2>5. TasksAt(poolCall, Holders) = {} /\ TasksAt(poolCall, {"asleep"}) = {}
    BY <1>1 DEF TasksAt, Holders
  <2>6. Tokens(BlockCount, poolCall, <<>>, 0)
    <3>1. Cardinality(TasksAt(poolCall, Holders)) = 0 BY <2>5, PlaceCounted
    <3> QED BY <1>2, <2>2, <3>1 DEF Tokens
  <2>7. Waiters(BlockCount, poolCall) BY <2>5 DEF Waiters
  <2>8. Pool!TypeOK' /\ CallsTell' /\ StatusTells'
    <3>1. Pool!TypeOK' BY <1>1, <1>2, <1>4 DEF Pool!TypeOK
    <3>2. CallsTell' BY <1>1, <1>2 DEF CallsTell
    <3>3. StatusTells' BY <1>4 DEF StatusTells
    <3> QED BY <3>1, <3>2, <3>3
  <2>9. used' = {} /\ head' = <<>> /\ poolCall' = poolCall /\ n' = 0 /\ sem' = BlockCount
    BY <1>1, <1>4
  <2> QED BY <2>3, <2>4, <2>6, <2>7, <2>8, <2>9, PoolNext
<1> QED BY <1>3, <1>4 DEF Pool!osMemoryPoolNew

LEMMA DeleteKeeps ==
  ASSUME Pool!PoolFits, PoolInv, Pool!osMemoryPoolDelete
  PROVE  PoolInv'
<1>1. /\ poolCall \in [Task -> PoolCalls] /\ used \subseteq Pool!Block
      /\ head \in Seq(Pool!Block)
      /\ n \in 0..BlockCount /\ Apart(used, head, poolCall, n)
  BY PoolNow
<1>2. /\ status' = "deleted" /\ sem' = BlockCount /\ head' = <<>> /\ bl_cnt' = 0
      /\ onHeap' = onHeap /\ n' = n /\ used' = used
  BY DEF Pool!osMemoryPoolDelete
<1>3. PICK W \in SUBSET {t \in Task : Pool!At(t, "asleep")} :
        poolCall' = [t \in Task |-> IF t \in W THEN [poolCall[t] EXCEPT !.at = "woken"]
                                           ELSE poolCall[t]]
  BY DEF Pool!osMemoryPoolDelete
<1>4. PICK d : d = poolCall' OBVIOUS
<1>5. ASSUME NEW t \in Task
      PROVE  /\ d[t] \in PoolCalls /\ d[t].block = poolCall[t].block
             /\ d[t].at # poolCall[t].at => poolCall[t].at = "asleep" /\ d[t].at = "woken"
  <2>1. d[t] = IF t \in W THEN [poolCall[t] EXCEPT !.at = "woken"] ELSE poolCall[t]
    BY <1>3, <1>4
  <2>2. t \in W => poolCall[t].at = "asleep" BY DEF Pool!At
  <2>3. poolCall[t] \in PoolCalls BY <1>1
  <2> QED BY <2>1, <2>2, <2>3 DEF PoolCalls
<1>6. d \in [Task -> PoolCalls]
  <2>1. DOMAIN d = Task /\ d = [t \in Task |-> d[t]] BY <1>3, <1>4
  <2> QED BY <1>5, <2>1
<1>7. \A u \in Task : (d[u].at \in {"count", "push"}) <=> (poolCall[u].at \in {"count", "push"})
  BY <1>5, GivenTells
<1>8. Apart(used, <<>>, d, n)
  <2>1. Once(<<>>) /\ ListOf(<<>>) = {} BY DEF Once, ListOf
  <2>2. Apart(used, <<>>, poolCall, n) BY <1>1, <2>1 DEF Apart
  <2> QED BY <1>5, <2>2, SamePending
<1>9. Pool!TypeOK' /\ CallsTell' /\ StatusTells'
  <2>1. Pool!TypeOK'
    <3>1. BlockCount \in 0..BlockCount /\ 0 \in 0..BlockCount /\ <<>> \in Seq(Pool!Block)
      BY DEF Pool!PoolFits
    <3> QED BY <1>2, <1>4, <1>6, <3>1 DEF PoolInv, Pool!TypeOK, PoolCalls
  <2>2. CallsTell' BY <1>4, <1>5, <1>7 DEF PoolInv, CallsTell
  <2>3. StatusTells' BY <1>2 DEF StatusTells
  <2> QED BY <2>1, <2>2, <2>3
<1> QED BY <1>2, <1>4, <1>8, <1>9, PoolNext

--------------------
\* The theorem.

LEMMA PoolStarts == ASSUME Pool!PoolFits, Pool!Init PROVE PoolInv
<1>1. BlockCount \in Nat /\ \A t \in Task : poolCall[t] = Pool!NoCall
  BY DEF Pool!PoolFits, Pool!Init
<1>2. Pool!TypeOK BY <1>1 DEF Pool!Init, Pool!TypeOK, Pool!NoCall
<1>3. CallsTell /\ StatusTells BY <1>1, NoCallIs DEF Pool!Init, CallsTell, StatusTells
<1>4. Pool!PoolAccounted
  <2>1. Pool!Free = {} /\ Pool!Pending = {} /\ used = {} /\ head = <<>> /\ status = "none"
    BY <1>1, NoCallIs DEF Pool!Init, Pool!Free, Pool!Pending
  <2>2. Pool!BlocksApart BY <1>1, <2>1, NoCallIs DEF Pool!BlocksApart
  <2> QED BY <2>1, <2>2 DEF Pool!PoolAccounted, Pool!NoneLost, Pool!TokenForBlock,
       Pool!NoWaiterLeftBehind
<1> QED BY <1>2, <1>3, <1>4 DEF PoolInv

LEMMA PoolStep ==
  ASSUME Pool!PoolFits, PoolInv, [Pool!Next]_(Pool!vars)
  PROVE  PoolInv'
<1>1. CASE UNCHANGED Pool!vars
  <2>1. /\ status' = status /\ onHeap' = onHeap /\ head' = head /\ n' = n
        /\ bl_cnt' = bl_cnt /\ sem' = sem /\ used' = used /\ poolCall' = poolCall
    BY <1>1 DEF Pool!vars
  <2>2. Pool!TypeOK' BY <2>1 DEF PoolInv, Pool!TypeOK
  <2>3. CallsTell' /\ StatusTells' BY <2>1 DEF PoolInv, CallsTell, StatusTells
  <2>4. /\ Pool!Free' = Pool!Free /\ Pool!Pending' = Pool!Pending
        /\ Pool!In({"taken", "checked", "give"})' = Pool!In({"taken", "checked", "give"})
        /\ Pool!In({"asleep"})' = Pool!In({"asleep"})
        /\ Pool!In({"woken"})' = Pool!In({"woken"})
    BY <2>1 DEF Pool!In, Pool!Free, Pool!Pending
  <2>5. Pool!BlocksApart' /\ Pool!NoneLost'
    BY <2>1, <2>4 DEF PoolInv, Pool!PoolAccounted, Pool!BlocksApart, Pool!NoneLost
  <2>6. Pool!TokenForBlock' /\ Pool!NoWaiterLeftBehind'
    BY <2>1, <2>4 DEF PoolInv, Pool!PoolAccounted, Pool!TokenForBlock,
       Pool!NoWaiterLeftBehind
  <2> QED BY <2>2, <2>3, <2>5, <2>6 DEF PoolInv, Pool!PoolAccounted
<1>2. CASE Pool!Next
  BY <1>2, NewKeeps, AllocKeeps, TakeTokenKeeps, TimeOutKeeps, CheckStatusKeeps,
     AllocBlockKeeps, PoolFreeKeeps, CheckCountKeeps, FreeBlockKeeps, GiveKeeps,
     ISRAllocKeeps, ISRFreeKeeps, DeleteKeeps DEF Pool!Next
<1> QED BY <1>1, <1>2

\* Of a memory pool, however many tasks and interrupts take and return blocks at once
\* and with whatever timeouts: no block is in two places or lost, every token has its
\* block, so who gets one gets a block, and nobody sleeps beside a free block
\* (osMemoryPoolAlloc, osMemoryPoolFree, cmsis_os2.c:2097, 2162).
THEOREM PoolStaysAccounted ==
  ASSUME Pool!PoolFits
  PROVE  Pool!Spec => []Pool!PoolAccounted
<1>1. Pool!Init => PoolInv BY PoolStarts
<1>2. PoolInv /\ [Pool!Next]_(Pool!vars) => PoolInv' BY PoolStep
<1>3. PoolInv => Pool!PoolAccounted BY DEF PoolInv
<1> QED BY <1>1, <1>2, <1>3, PTL DEF Pool!Spec

--------------------
\* Thread flags, for any flags, setters and timeouts.

CONSTANTS Flag, Setter, Timeouts, TickMod, AwakeBound
VARIABLES ulNotifiedValue, ucNotifyState, xTickCount, wait, setter, fresh

Flags == INSTANCE ThreadFlags

Waiting == [at : {"idle", "notifyWait", "asleep", "ready", "passed", "cleared"},
            flags : SUBSET Flag, all : BOOLEAN, clear : SUBSET Flag,
            timeout : 0..Flags!osWaitForever, t0 : 0..(TickMod - 1),
            tout : 0..Flags!osWaitForever, left : 0..Flags!osWaitForever,
            nval : SUBSET Flag, rflags : SUBSET Flag,
            slept : 0..TickMod, awake : 0..AwakeBound]

\* What is written back when flags are cleared was set since, and not cleared.
ClearsOnly == wait.at = "cleared" => wait.nval \subseteq fresh \ wait.flags

\* The time of a wait with a timeout: what it slept and was ready for is what the
\* tick count went on since t0, and with what it may sleep yet it keeps the timeout.
InTime(w, tick) ==
  IF w.at \in {"idle", "cleared"} THEN w.timeout = 0 /\ w.slept = 0
  ELSE w.timeout # Flags!osWaitForever =>
         /\ w.timeout + AwakeBound < TickMod /\ w.tout <= w.timeout
         /\ w.slept <= w.timeout
         /\ tick = (w.t0 + (w.slept + w.awake)) % TickMod
         /\ w.at = "notifyWait" => w.slept + w.tout <= w.timeout
         /\ w.at = "asleep" => w.slept + w.left <= w.timeout

\* Who sleeps has time left, and only who waits for a notification is woken by one.
SleepsOn == /\ wait.at = "asleep" => wait.left > 0
            /\ ucNotifyState = "WAITING" => wait.at \in {"asleep", "ready"}

FlagInv == /\ Flags!TypeOK /\ Flags!NeverAnsweredTwice /\ ClearsOnly /\ SleepsOn
           /\ InTime(wait, xTickCount)

--------------------
\* The tick count.

LEMMA RestOf ==
  ASSUME NEW m \in Nat, m > 0, NEW a \in Nat
  PROVE  /\ a < m => a % m = a
         /\ m <= a /\ a < 2 * m => a % m = a - m
OBVIOUS

LEMMA NextTick ==
  ASSUME NEW m \in Nat, m > 1, NEW a \in Nat
  PROVE  ((a % m) + 1) % m = (a + 1) % m
<1> DEFINE q == a \div m
           r == a % m
<1>1. q \in Nat /\ r \in 0..(m - 1) /\ a = m * q + r OBVIOUS
<1> HIDE DEF q, r
<1>2. CASE r + 1 < m
  <2>1. (r + 1) % m = r + 1 BY <1>1, <1>2
  <2>2. a + 1 = m * q + (r + 1) BY <1>1
  <2>3. (a + 1) % m = r + 1 BY <1>1, <1>2, <2>2
  <2> QED BY <2>1, <2>3 DEF r
<1>3. CASE r + 1 = m
  <2>1. (r + 1) % m = 0 BY <1>1, <1>3
  <2>2. a + 1 = m * (q + 1) BY <1>1, <1>3
  <2>3. (a + 1) % m = 0 BY <1>1, <2>2
  <2> QED BY <2>1, <2>3 DEF r
<1> QED BY <1>1, <1>2, <1>3

\* Collect computes the time since t0.
LEMMA Elapsed ==
  ASSUME NEW m \in Nat, m > 1, NEW t \in 0..(m - 1), NEW e \in Nat, e < m
  PROVE  (m + ((t + e) % m) - t) % m = e
<1>1. CASE t + e < m
  <2>1. (t + e) % m = t + e BY <1>1, RestOf
  <2>2. m + (t + e) - t = m + e OBVIOUS
  <2>3. (m + e) % m = (m + e) - m BY RestOf
  <2> QED BY <2>1, <2>2, <2>3
<1>2. CASE t + e >= m
  <2>1. (t + e) % m = t + e - m BY <1>2, RestOf
  <2>2. m + (t + e - m) - t = e OBVIOUS
  <2>3. e % m = e BY RestOf
  <2> QED BY <2>1, <2>2, <2>3
<1> QED BY <1>1, <1>2

--------------------
\* Each operation.

LEMMA Facts ==
  ASSUME FlagInv
  PROVE  /\ ulNotifiedValue \subseteq Flag /\ fresh \subseteq Flag
         /\ ucNotifyState \in {"NOT_WAITING", "WAITING", "RECEIVED"}
         /\ xTickCount \in 0..(TickMod - 1) /\ wait \in Waiting
         /\ setter \in [Setter -> BOOLEAN] /\ ulNotifiedValue \subseteq fresh
         /\ ClearsOnly /\ SleepsOn /\ InTime(wait, xTickCount)
BY DEF FlagInv, Flags!TypeOK, Waiting, Flags!NeverAnsweredTwice

LEMMA FactsNext ==
  ASSUME /\ ulNotifiedValue' \subseteq Flag /\ fresh' \subseteq Flag
         /\ ucNotifyState' \in {"NOT_WAITING", "WAITING", "RECEIVED"}
         /\ xTickCount' \in 0..(TickMod - 1) /\ wait' \in Waiting
         /\ setter' \in [Setter -> BOOLEAN] /\ ulNotifiedValue' \subseteq fresh'
         /\ ClearsOnly' /\ SleepsOn' /\ InTime(wait', xTickCount')
  PROVE  FlagInv'
BY DEF FlagInv, Flags!TypeOK, Waiting, Flags!NeverAnsweredTwice

\* Who is notified wakes, with all else as it was.
LEMMA Woken ==
  ASSUME NEW w \in Waiting, w.at \in {"asleep", "ready"}, NEW tick, InTime(w, tick)
  PROVE  LET v == [w EXCEPT !.at = "ready"]
         IN  v \in Waiting /\ v.at = "ready" /\ InTime(v, tick)
<1> DEFINE v == [w EXCEPT !.at = "ready"]
<1>1. /\ v \in Waiting /\ v.at = "ready" /\ v.timeout = w.timeout /\ v.tout = w.tout
      /\ v.slept = w.slept /\ v.awake = w.awake /\ v.t0 = w.t0
  BY DEF Waiting
<1> HIDE DEF v
<1>2. InTime(v, tick) BY <1>1 DEF InTime
<1> QED BY <1>1, <1>2 DEF v

LEMMA NotifiedKeeps ==
  ASSUME FlagInv, Flags!Notified, xTickCount' = xTickCount,
         NEW f \in SUBSET Flag, ulNotifiedValue' = ulNotifiedValue \cup f,
         fresh' = fresh \cup f, setter' \in [Setter -> BOOLEAN]
  PROVE  FlagInv'
<1>1. /\ ulNotifiedValue \subseteq Flag /\ fresh \subseteq Flag
      /\ xTickCount \in 0..(TickMod - 1) /\ wait \in Waiting
      /\ ulNotifiedValue \subseteq fresh
      /\ ClearsOnly /\ SleepsOn /\ InTime(wait, xTickCount)
  BY Facts
<1>2. ucNotifyState' = "RECEIVED" BY DEF Flags!Notified
<1>3. CASE ucNotifyState = "WAITING"
  <2>1. PICK v : v = [wait EXCEPT !.at = "ready"] OBVIOUS
  <2>2. wait' = v BY <1>3, <2>1 DEF Flags!Notified
  <2>3. v \in Waiting /\ v.at = "ready" /\ InTime(v, xTickCount)
    BY <1>1, <1>3, <2>1, Woken DEF SleepsOn
  <2>4. ClearsOnly' /\ SleepsOn' BY <1>2, <2>2, <2>3 DEF ClearsOnly, SleepsOn
  <2>5. InTime(wait', xTickCount') BY <2>2, <2>3
  <2> QED BY <1>1, <1>2, <2>2, <2>3, <2>4, <2>5, FactsNext
<1>4. CASE ucNotifyState # "WAITING"
  <2>1. wait' = wait BY <1>4 DEF Flags!Notified
  <2>2. ClearsOnly' /\ SleepsOn' BY <1>1, <1>2, <2>1 DEF ClearsOnly, SleepsOn
  <2>3. InTime(wait', xTickCount') BY <1>1, <2>1
  <2> QED BY <1>1, <1>2, <2>1, <2>2, <2>3, FactsNext
<1> QED BY <1>3, <1>4

LEMMA SetKeeps ==
  ASSUME FlagInv, NEW f \in Flag,
         Flags!SetFromISR(f) \/ \E s \in Setter : Flags!osThreadFlagsSet(s, f)
  PROVE  FlagInv'
<1>1. setter \in [Setter -> BOOLEAN] BY Facts
<1>2. setter' \in [Setter -> BOOLEAN] BY <1>1 DEF Flags!SetFromISR, Flags!osThreadFlagsSet
<1>3. /\ Flags!Notified /\ xTickCount' = xTickCount
      /\ ulNotifiedValue' = ulNotifiedValue \cup {f} /\ fresh' = fresh \cup {f}
  BY DEF Flags!SetFromISR, Flags!osThreadFlagsSet, Flags!SetBits
<1> QED BY <1>2, <1>3, NotifiedKeeps

LEMMA ReadBackKeeps ==
  ASSUME FlagInv, NEW s \in Setter, Flags!ReadBack(s)
  PROVE  FlagInv'
<1>1. setter \in [Setter -> BOOLEAN] BY Facts
<1>2. setter' \in [Setter -> BOOLEAN] BY <1>1 DEF Flags!ReadBack
<1>3. PICK none \in SUBSET Flag : none = {} OBVIOUS
<1>4. /\ Flags!Notified /\ xTickCount' = xTickCount
      /\ ulNotifiedValue' = ulNotifiedValue \cup none /\ fresh' = fresh \cup none
  BY <1>3 DEF Flags!ReadBack
<1> QED BY <1>2, <1>4, NotifiedKeeps

LEMMA GetKeeps ==
  ASSUME FlagInv, Flags!osThreadFlagsGet
  PROVE  FlagInv'
<1>1. /\ wait' = wait /\ xTickCount' = xTickCount /\ setter' = setter
      /\ ulNotifiedValue' = ulNotifiedValue /\ fresh' = fresh
      /\ ucNotifyState' = "RECEIVED"
  BY DEF Flags!osThreadFlagsGet
<1>2. ClearsOnly' /\ SleepsOn' BY <1>1, Facts DEF ClearsOnly, SleepsOn
<1>3. InTime(wait', xTickCount') BY <1>1, Facts
<1> QED BY <1>1, <1>2, <1>3, Facts, FactsNext

LEMMA IdleIs ==
  ASSUME Flags!FlagsFit
  PROVE  /\ Flags!Idle \in Waiting /\ Flags!Idle.at = "idle"
         /\ Flags!Idle.timeout = 0 /\ Flags!Idle.slept = 0
         /\ Flags!Idle.awake = 0
         /\ \A tick : InTime(Flags!Idle, tick)
<1>1. /\ 0 \in 0..Flags!osWaitForever /\ 0 \in 0..(TickMod - 1) /\ 0 \in 0..TickMod
      /\ 0 \in 0..AwakeBound
  BY DEF Flags!FlagsFit, Flags!osWaitForever
<1>2. /\ Flags!Idle \in Waiting /\ Flags!Idle.at = "idle"
      /\ Flags!Idle.timeout = 0 /\ Flags!Idle.slept = 0
      /\ Flags!Idle.awake = 0
  BY <1>1 DEF Flags!Idle, Waiting
<1> QED BY <1>2 DEF InTime

LEMMA ClearKeeps ==
  ASSUME Flags!FlagsFit, FlagInv, NEW flags \in SUBSET Flag,
         Flags!osThreadFlagsClear(flags)
  PROVE  FlagInv'
<1>1. PICK v : v = [Flags!Idle EXCEPT !.at = "cleared", !.flags = flags,
                                !.nval = ulNotifiedValue \ flags]
  OBVIOUS
<1>2. /\ wait' = v /\ ucNotifyState' = "RECEIVED" /\ xTickCount' = xTickCount
      /\ ulNotifiedValue' = ulNotifiedValue /\ fresh' = fresh /\ setter' = setter
  BY <1>1 DEF Flags!osThreadFlagsClear
<1>3. /\ v.at = "cleared" /\ v.flags = flags /\ v.nval = ulNotifiedValue \ flags
      /\ v.timeout = 0 /\ v.slept = 0 /\ v \in Waiting
  BY <1>1, IdleIs, Facts DEF Flags!Idle, Waiting
<1>4. ClearsOnly' /\ SleepsOn' BY <1>2, <1>3, Facts DEF ClearsOnly, SleepsOn
<1>5. InTime(wait', xTickCount') BY <1>2, <1>3 DEF InTime
<1> QED BY <1>2, <1>3, <1>4, <1>5, Facts, FactsNext

LEMMA OverwriteKeeps ==
  ASSUME Flags!FlagsFit, FlagInv, Flags!OverwriteValue
  PROVE  FlagInv'
<1>1. /\ wait.at = "cleared" /\ ulNotifiedValue' = wait.nval /\ wait' = Flags!Idle
      /\ ucNotifyState' = "RECEIVED" /\ xTickCount' = xTickCount
      /\ fresh' = fresh \ wait.flags /\ setter' = setter
  BY DEF Flags!OverwriteValue, Flags!At
<1>2. wait.nval \subseteq fresh \ wait.flags /\ fresh \subseteq Flag
  BY <1>1, Facts DEF ClearsOnly
<1>3. ClearsOnly' /\ SleepsOn' BY <1>1, IdleIs DEF ClearsOnly, SleepsOn
<1>4. InTime(wait', xTickCount') BY <1>1, IdleIs
<1> QED BY <1>1, <1>2, <1>3, <1>4, IdleIs, Facts, FactsNext

LEMMA WaitKeeps ==
  ASSUME Flags!FlagsFit, FlagInv, NEW flags \in SUBSET Flag, NEW all \in BOOLEAN,
         NEW noClear \in BOOLEAN, NEW d \in Timeouts,
         Flags!osThreadFlagsWait(flags, all, noClear, d)
  PROVE  FlagInv'
<1>1. PICK v : v = [Flags!Idle EXCEPT !.at = "notifyWait", !.flags = flags,
                          !.all = all, !.clear = IF noClear THEN {} ELSE flags,
                          !.timeout = d, !.tout = d, !.t0 = xTickCount]
  OBVIOUS
<1>2. /\ wait' = v /\ ucNotifyState' = ucNotifyState /\ xTickCount' = xTickCount
      /\ ulNotifiedValue' = ulNotifiedValue /\ fresh' = fresh /\ setter' = setter
      /\ wait.at = "idle"
  BY <1>1 DEF Flags!osThreadFlagsWait, Flags!At
<1>3. d \in 0..Flags!osWaitForever BY DEF Flags!FlagsFit
<1>4. /\ v.at = "notifyWait" /\ v.timeout = d /\ v.tout = d /\ v.t0 = xTickCount
      /\ v.slept = 0 /\ v.awake = 0 /\ v \in Waiting
  BY <1>1, <1>3, IdleIs, Facts DEF Flags!Idle, Waiting
<1>5. ClearsOnly' /\ SleepsOn' BY <1>2, <1>4, Facts DEF ClearsOnly, SleepsOn
<1>6. InTime(v, xTickCount)
  <2> SUFFICES ASSUME d # Flags!osWaitForever
               PROVE  /\ d + AwakeBound < TickMod /\ d <= d /\ 0 <= d
                      /\ xTickCount = (xTickCount + (0 + 0)) % TickMod
                      /\ 0 + d <= d
    BY <1>4 DEF InTime
  <2>1. d + AwakeBound < TickMod BY DEF Flags!FlagsFit
  <2>2. xTickCount \in 0..(TickMod - 1) /\ d \in Nat /\ TickMod \in Nat
    BY <1>3, Facts DEF Flags!FlagsFit, Flags!osWaitForever
  <2>3. xTickCount = (xTickCount + (0 + 0)) % TickMod BY <2>2
  <2> QED BY <2>1, <2>2, <2>3
<1> QED BY <1>2, <1>4, <1>5, <1>6, Facts, FactsNext

\* The thread's own steps change when it waits, not what it waited.
LEMMA MovedInTime ==
  ASSUME NEW v, NEW w, NEW tick, InTime(w, tick),
         w.at \notin {"idle", "cleared"}, v.at \notin {"idle", "cleared"},
         v.timeout = w.timeout, v.tout = w.tout, v.t0 = w.t0, v.slept = w.slept,
         v.awake = w.awake,
         v.at = "notifyWait" => w.at = "notifyWait",
         v.at = "asleep" => w.at = "notifyWait" /\ v.left = w.tout
  PROVE  InTime(v, tick)
BY DEF InTime

LEMMA NotifyWaitKeeps ==
  ASSUME Flags!FlagsFit, FlagInv, Flags!xTaskNotifyWait
  PROVE  FlagInv'
<1>1. /\ wait.at = "notifyWait" /\ xTickCount' = xTickCount /\ setter' = setter
      /\ ulNotifiedValue' = ulNotifiedValue /\ fresh' = fresh
  BY DEF Flags!xTaskNotifyWait, Flags!At
<1>2. wait \in Waiting /\ InTime(wait, xTickCount) /\ wait.tout \in Nat
  <2>1. wait \in Waiting /\ InTime(wait, xTickCount) BY Facts
  <2>2. wait.tout \in 0..Flags!osWaitForever /\ Flags!osWaitForever \in Nat
    BY <2>1 DEF Waiting, Flags!FlagsFit, Flags!osWaitForever
  <2> QED BY <2>1, <2>2
<1>3. PICK v : v = wait' OBVIOUS
<1>4. /\ v \in Waiting /\ v.timeout = wait.timeout /\ v.tout = wait.tout
      /\ v.t0 = wait.t0 /\ v.slept = wait.slept /\ v.awake = wait.awake
      /\ v.at \in {"ready", "asleep"}
      /\ v.at = "asleep" => v.left = wait.tout /\ wait.tout > 0
      /\ ucNotifyState' \in {"RECEIVED", "WAITING"}
  <2>1. CASE ucNotifyState = "RECEIVED"
    <3>1. v = [wait EXCEPT !.at = "ready"] /\ ucNotifyState' = ucNotifyState
      BY <1>3, <2>1 DEF Flags!xTaskNotifyWait
    <3> QED BY <1>2, <2>1, <3>1 DEF Waiting
  <2>2. CASE ucNotifyState # "RECEIVED"
    <3>1. /\ v = [wait EXCEPT !.at = IF wait.tout > 0 THEN "asleep" ELSE "ready",
                              !.left = wait.tout]
          /\ ucNotifyState' = "WAITING"
      BY <1>3, <2>2 DEF Flags!xTaskNotifyWait
    <3>2. CASE wait.tout > 0
      <4>1. v = [wait EXCEPT !.at = "asleep", !.left = wait.tout] BY <3>1, <3>2
      <4> QED BY <1>2, <3>1, <3>2, <4>1 DEF Waiting
    <3>3. CASE ~(wait.tout > 0)
      <4>1. v = [wait EXCEPT !.at = "ready", !.left = wait.tout] BY <3>1, <3>3
      <4> QED BY <1>2, <3>1, <4>1 DEF Waiting
    <3> QED BY <3>2, <3>3
  <2> QED BY <2>1, <2>2
<1>5. ClearsOnly' /\ SleepsOn'
  <2>1. v.at = "asleep" => v.left > 0 BY <1>4
  <2> QED BY <1>3, <1>4, <2>1 DEF ClearsOnly, SleepsOn
<1>6. InTime(v, xTickCount) BY <1>1, <1>2, <1>4, MovedInTime
<1> QED BY <1>1, <1>3, <1>4, <1>5, <1>6, Facts, FactsNext

LEMMA WaitReturnsKeeps ==
  ASSUME Flags!FlagsFit, FlagInv, Flags!NotifyWaitReturns
  PROVE  FlagInv'
<1>1. /\ wait.at = "ready" /\ xTickCount' = xTickCount /\ setter' = setter
      /\ ucNotifyState' = "NOT_WAITING"
  BY DEF Flags!NotifyWaitReturns, Flags!At
<1>2. /\ wait \in Waiting /\ InTime(wait, xTickCount)
      /\ ulNotifiedValue \subseteq Flag /\ fresh \subseteq Flag
      /\ ulNotifiedValue \subseteq fresh
  BY Facts
<1>3. CASE ucNotifyState = "RECEIVED"
  <2>1. PICK v : v = [wait EXCEPT !.at = "passed", !.nval = ulNotifiedValue] OBVIOUS
  <2>2. /\ wait' = v /\ ulNotifiedValue' = ulNotifiedValue \ wait.clear
        /\ fresh' = fresh \ wait.clear
    BY <1>3, <2>1 DEF Flags!NotifyWaitReturns
  <2>3. /\ v \in Waiting /\ v.at = "passed" /\ v.timeout = wait.timeout
        /\ v.tout = wait.tout /\ v.t0 = wait.t0 /\ v.slept = wait.slept
        /\ v.awake = wait.awake
    BY <1>2, <2>1 DEF Waiting
  <2>4. InTime(v, xTickCount) BY <1>1, <1>2, <2>3, MovedInTime
  <2>5. ClearsOnly' /\ SleepsOn' BY <1>1, <2>2, <2>3 DEF ClearsOnly, SleepsOn
  <2>6. ulNotifiedValue' \subseteq fresh' /\ ulNotifiedValue' \subseteq Flag
        /\ fresh' \subseteq Flag
    BY <1>2, <2>2
  <2> QED BY <1>1, <2>2, <2>3, <2>4, <2>5, <2>6, Facts, FactsNext
<1>4. CASE ucNotifyState # "RECEIVED"
  <2>1. wait' = Flags!Idle /\ ulNotifiedValue' = ulNotifiedValue /\ fresh' = fresh
    BY <1>4 DEF Flags!NotifyWaitReturns
  <2>2. ClearsOnly' /\ SleepsOn' /\ InTime(wait', xTickCount')
    BY <1>1, <2>1, IdleIs DEF ClearsOnly, SleepsOn
  <2> QED BY <1>1, <2>1, <2>2, IdleIs, Facts, FactsNext
<1> QED BY <1>3, <1>4

LEMMA CollectKeeps ==
  ASSUME Flags!FlagsFit, FlagInv, Flags!Collect
  PROVE  FlagInv'
<1>1. /\ wait.at = "passed" /\ xTickCount' = xTickCount /\ setter' = setter
      /\ ulNotifiedValue' = ulNotifiedValue /\ fresh' = fresh
      /\ ucNotifyState' = ucNotifyState
  BY DEF Flags!Collect, Flags!At
<1>2. /\ wait \in Waiting /\ InTime(wait, xTickCount) /\ SleepsOn
      /\ xTickCount \in 0..(TickMod - 1) /\ TickMod \in Nat /\ TickMod > 1
      /\ Flags!osWaitForever \in Nat
  BY Facts DEF Flags!FlagsFit, Flags!osWaitForever
<1>3. ucNotifyState # "WAITING" BY <1>1, <1>2 DEF SleepsOn
<1>4. /\ wait.t0 \in 0..(TickMod - 1) /\ wait.tout \in 0..Flags!osWaitForever
      /\ wait.slept \in Nat /\ wait.awake \in 0..AwakeBound
      /\ wait.rflags \in SUBSET Flag /\ wait.nval \in SUBSET Flag
      /\ wait.timeout \in 0..Flags!osWaitForever
  BY <1>2 DEF Waiting
<1>5. PICK r, td, z : /\ r = (wait.rflags \cap wait.flags) \cup wait.nval
                      /\ td = (TickMod + xTickCount - wait.t0) % TickMod
                      /\ z = (IF td > wait.tout THEN 0 ELSE wait.tout - td)
  OBVIOUS
<1>6. PICK v : v = [wait EXCEPT !.at = "notifyWait", !.rflags = r, !.nval = {},
                                !.tout = z]
  OBVIOUS
<1>7. wait' = Flags!Idle \/ wait' = v BY <1>5, <1>6 DEF Flags!Collect
<1>8. CASE wait' = Flags!Idle
  <2>1. ClearsOnly' /\ SleepsOn' /\ InTime(wait', xTickCount')
    BY <1>1, <1>3, <1>8, IdleIs DEF ClearsOnly, SleepsOn
  <2> QED BY <1>1, <1>8, <2>1, IdleIs, Facts, FactsNext
<1>9. CASE wait' = v
  <2>1. td \in Nat /\ z \in 0..Flags!osWaitForever /\ z <= wait.tout
        /\ r \in SUBSET Flag
    <3>1. TickMod + xTickCount - wait.t0 \in Nat BY <1>2, <1>4
    <3>2. td \in Nat BY <1>2, <1>5, <3>1
    <3> QED BY <1>2, <1>4, <1>5, <3>2
  <2>2. /\ v \in Waiting /\ v.at = "notifyWait" /\ v.timeout = wait.timeout
        /\ v.tout = z /\ v.t0 = wait.t0 /\ v.slept = wait.slept
        /\ v.awake = wait.awake
    BY <1>2, <1>6, <2>1 DEF Waiting
  <2>3. ClearsOnly' /\ SleepsOn' BY <1>1, <1>3, <1>9, <2>2 DEF ClearsOnly, SleepsOn
  <2>4. InTime(v, xTickCount)
    <3> SUFFICES ASSUME wait.timeout # Flags!osWaitForever
                 PROVE  /\ wait.timeout + AwakeBound < TickMod
                        /\ z <= wait.timeout /\ wait.slept <= wait.timeout
                        /\ xTickCount = (wait.t0 + (wait.slept + wait.awake)) % TickMod
                        /\ wait.slept + z <= wait.timeout
      BY <2>2 DEF InTime
    <3>1. /\ wait.timeout + AwakeBound < TickMod /\ wait.tout <= wait.timeout
          /\ wait.slept <= wait.timeout
          /\ xTickCount = (wait.t0 + (wait.slept + wait.awake)) % TickMod
      BY <1>1, <1>2 DEF InTime
    <3>2. PICK e : e = wait.slept + wait.awake OBVIOUS
    <3>3. e \in Nat /\ e < TickMod /\ e >= wait.slept
      BY <1>2, <1>4, <3>1, <3>2 DEF Flags!FlagsFit
    <3>4. td = e BY <1>2, <1>4, <1>5, <3>1, <3>2, <3>3, Elapsed
    <3>5. z <= wait.timeout /\ wait.slept + z <= wait.timeout
      BY <1>4, <1>5, <3>1, <3>3, <3>4
    <3> QED BY <3>1, <3>5
  <2> QED BY <1>1, <1>9, <2>2, <2>3, <2>4, Facts, FactsNext
<1> QED BY <1>7, <1>8, <1>9

LEMMA TickKeeps ==
  ASSUME Flags!FlagsFit, FlagInv, Flags!Tick
  PROVE  FlagInv'
<1>1. /\ xTickCount' = (xTickCount + 1) % TickMod /\ setter' = setter
      /\ ulNotifiedValue' = ulNotifiedValue /\ fresh' = fresh
      /\ ucNotifyState' = ucNotifyState
  BY DEF Flags!Tick
<1>2. /\ wait \in Waiting /\ InTime(wait, xTickCount) /\ SleepsOn /\ ClearsOnly
      /\ xTickCount \in 0..(TickMod - 1) /\ TickMod \in Nat /\ TickMod > 1
      /\ Flags!osWaitForever \in Nat /\ Flags!osWaitForever = TickMod - 1
      /\ AwakeBound \in Nat
  BY Facts DEF Flags!FlagsFit, Flags!osWaitForever
<1>3. /\ wait.t0 \in 0..(TickMod - 1) /\ wait.tout \in 0..Flags!osWaitForever
      /\ wait.slept \in 0..TickMod /\ wait.awake \in 0..AwakeBound
      /\ wait.timeout \in 0..Flags!osWaitForever
      /\ wait.left \in 0..Flags!osWaitForever
  BY <1>2 DEF Waiting
<1>4. PICK k : k = (xTickCount + 1) % TickMod OBVIOUS
<1>5. k \in 0..(TickMod - 1) BY <1>2, <1>4
<1>6. ASSUME NEW e \in Nat, xTickCount = (wait.t0 + e) % TickMod
      PROVE  k = (wait.t0 + (e + 1)) % TickMod
  <2>1. wait.t0 + e \in Nat /\ wait.t0 + e + 1 = wait.t0 + (e + 1) BY <1>3
  <2>2. k = ((wait.t0 + e) + 1) % TickMod BY <1>2, <1>4, <1>6, <2>1, NextTick
  <2> QED BY <2>1, <2>2
<1>7. CASE /\ \/ Flags!At("idle")
              \/ Flags!At("asleep") /\ wait.left = Flags!osWaitForever
           /\ UNCHANGED wait
  <2>1. wait' = wait BY <1>7
  <2>2. ClearsOnly' /\ SleepsOn' BY <1>1, <1>2, <2>1 DEF ClearsOnly, SleepsOn
  <2>3. InTime(wait, k)
    <3>1. wait.at = "idle" \/ (wait.at = "asleep" /\ wait.left = Flags!osWaitForever)
      BY <1>7 DEF Flags!At
    <3>2. CASE wait.at = "idle" BY <1>2, <3>2 DEF InTime
    <3>3. CASE wait.at = "asleep" /\ wait.left = Flags!osWaitForever
      <4>1. wait.timeout = Flags!osWaitForever
        <5> SUFFICES ASSUME wait.timeout # Flags!osWaitForever PROVE FALSE OBVIOUS
        <5>1. wait.slept + wait.left <= wait.timeout BY <1>2, <3>3 DEF InTime
        <5> QED BY <1>2, <1>3, <3>3, <5>1
      <4> QED BY <3>3, <4>1 DEF InTime
    <3> QED BY <3>1, <3>2, <3>3
  <2> QED BY <1>1, <1>4, <1>5, <2>1, <2>2, <2>3, Facts, FactsNext
<1>8. CASE /\ Flags!At("asleep") /\ wait.left < Flags!osWaitForever
           /\ wait' = [wait EXCEPT !.left = @ - 1,
                                   !.at = IF wait.left = 1 THEN "ready" ELSE @,
                                   !.slept = IF wait.timeout = Flags!osWaitForever
                                               THEN @ ELSE @ + 1]
  <2>1. wait.at = "asleep" /\ wait.left > 0 BY <1>2, <1>8 DEF Flags!At, SleepsOn
  <2>2. PICK p, y : /\ p = (IF wait.left = 1 THEN "ready" ELSE "asleep")
                    /\ y = (IF wait.timeout = Flags!osWaitForever THEN wait.slept
                                                             ELSE wait.slept + 1)
    OBVIOUS
  <2>3. PICK v : v = [wait EXCEPT !.left = wait.left - 1, !.at = p, !.slept = y] OBVIOUS
  <2>4. wait' = v BY <1>8, <2>1, <2>2, <2>3
  <2>5. wait.timeout # Flags!osWaitForever =>
          /\ wait.timeout + AwakeBound < TickMod /\ wait.tout <= wait.timeout
          /\ wait.slept + wait.left <= wait.timeout
          /\ xTickCount = (wait.t0 + (wait.slept + wait.awake)) % TickMod
    BY <1>2, <2>1 DEF InTime
  <2>6. /\ wait.left - 1 \in 0..Flags!osWaitForever /\ y \in 0..TickMod
        /\ p \in {"ready", "asleep"} /\ (p = "asleep" => wait.left - 1 > 0)
    <3>1. CASE wait.timeout = Flags!osWaitForever BY <1>2, <1>3, <1>8, <2>1, <2>2, <3>1
    <3>2. CASE wait.timeout # Flags!osWaitForever
      BY <1>2, <1>3, <1>8, <2>1, <2>2, <2>5, <3>2
    <3> QED BY <3>1, <3>2
  <2>7. /\ v \in Waiting /\ v.at = p /\ v.left = wait.left - 1 /\ v.slept = y
        /\ v.timeout = wait.timeout /\ v.tout = wait.tout /\ v.t0 = wait.t0
        /\ v.awake = wait.awake
    BY <1>2, <2>3, <2>6 DEF Waiting
  <2>8. ClearsOnly' /\ SleepsOn'
    <3>1. v.at \in {"ready", "asleep"} /\ (v.at = "asleep" => v.left > 0) BY <2>6, <2>7
    <3> QED BY <1>1, <2>4, <3>1 DEF ClearsOnly, SleepsOn
  <2>9. InTime(v, k)
    <3> SUFFICES ASSUME wait.timeout # Flags!osWaitForever
                 PROVE  /\ wait.timeout + AwakeBound < TickMod
                        /\ wait.tout <= wait.timeout /\ y <= wait.timeout
                        /\ k = (wait.t0 + (y + wait.awake)) % TickMod
                        /\ p = "asleep" => y + (wait.left - 1) <= wait.timeout
      BY <2>6, <2>7 DEF InTime
    <3>1. y = wait.slept + 1 /\ y + wait.awake = (wait.slept + wait.awake) + 1
      BY <1>3, <2>2
    <3>2. k = (wait.t0 + ((wait.slept + wait.awake) + 1)) % TickMod BY <1>3, <1>6, <2>5
    <3>3. y <= wait.timeout /\ y + (wait.left - 1) <= wait.timeout
      BY <1>3, <2>1, <2>5, <3>1
    <3> QED BY <2>5, <3>1, <3>2, <3>3
  <2> QED BY <1>1, <1>4, <1>5, <2>4, <2>7, <2>8, <2>9, Facts, FactsNext
<1>9. CASE /\ ~Flags!At("idle") /\ ~Flags!At("asleep") /\ wait.awake < AwakeBound
           /\ wait' = [wait EXCEPT !.awake = @ + 1]
  <2>1. wait.at \notin {"idle", "asleep"} BY <1>9 DEF Flags!At
  <2>2. PICK v : v = [wait EXCEPT !.awake = wait.awake + 1] OBVIOUS
  <2>3. wait' = v /\ wait.awake + 1 \in 0..AwakeBound BY <1>2, <1>3, <1>9, <2>2
  <2>4. /\ v \in Waiting /\ v.at = wait.at /\ v.left = wait.left
        /\ v.slept = wait.slept /\ v.timeout = wait.timeout /\ v.tout = wait.tout
        /\ v.t0 = wait.t0 /\ v.awake = wait.awake + 1 /\ v.nval = wait.nval
        /\ v.flags = wait.flags
    BY <1>2, <2>2, <2>3 DEF Waiting
  <2>5. ClearsOnly' /\ SleepsOn' BY <1>1, <1>2, <2>1, <2>3, <2>4 DEF ClearsOnly, SleepsOn
  <2>6. InTime(v, k)
    <3>1. CASE wait.at = "cleared" BY <1>2, <2>4, <3>1 DEF InTime
    <3>2. CASE wait.at # "cleared" /\ wait.timeout # Flags!osWaitForever
      <4>1. /\ wait.timeout + AwakeBound < TickMod /\ wait.tout <= wait.timeout
            /\ wait.slept <= wait.timeout
            /\ wait.at = "notifyWait" => wait.slept + wait.tout <= wait.timeout
            /\ xTickCount = (wait.t0 + (wait.slept + wait.awake)) % TickMod
        BY <1>2, <2>1, <3>2 DEF InTime
      <4>2. k = (wait.t0 + ((wait.slept + wait.awake) + 1)) % TickMod BY <1>3, <1>6, <4>1
      <4>3. (wait.slept + wait.awake) + 1 = wait.slept + (wait.awake + 1) BY <1>3
      <4>4. k = (wait.t0 + (v.slept + v.awake)) % TickMod BY <2>4, <4>2, <4>3
      <4> QED BY <2>1, <2>4, <3>2, <4>1, <4>4 DEF InTime
    <3>3. CASE wait.at # "cleared" /\ wait.timeout = Flags!osWaitForever
      BY <2>1, <2>4, <3>3 DEF InTime
    <3> QED BY <3>1, <3>2, <3>3
  <2> QED BY <1>1, <1>4, <1>5, <2>3, <2>4, <2>5, <2>6, Facts, FactsNext
<1> QED BY <1>7, <1>8, <1>9 DEF Flags!Tick

LEMMA FlagsStart == ASSUME Flags!FlagsFit, Flags!Init PROVE FlagInv
<1>1. /\ wait = Flags!Idle /\ ulNotifiedValue = {} /\ ucNotifyState = "NOT_WAITING"
      /\ fresh = {} /\ setter \in [Setter -> BOOLEAN]
      /\ xTickCount \in 0..(TickMod - 1)
  BY DEF Flags!Init
<1>2. Flags!TypeOK
  <2>1. wait \in Waiting BY <1>1, IdleIs
  <2> QED BY <1>1, <2>1 DEF Flags!TypeOK, Waiting
<1>3. Flags!NeverAnsweredTwice /\ ClearsOnly /\ SleepsOn /\ InTime(wait, xTickCount)
  BY <1>1, IdleIs DEF Flags!NeverAnsweredTwice, ClearsOnly, SleepsOn
<1> QED BY <1>2, <1>3 DEF FlagInv

LEMMA FlagsStep ==
  ASSUME Flags!FlagsFit, FlagInv, [Flags!Next]_(Flags!vars)
  PROVE  FlagInv'
<1>1. CASE UNCHANGED Flags!vars
  BY <1>1 DEF Flags!vars, FlagInv, Flags!TypeOK, Flags!NeverAnsweredTwice,
     ClearsOnly, SleepsOn, InTime
<1>2. CASE \E s \in Setter :
             Flags!ReadBack(s) \/ \E f \in Flag : Flags!osThreadFlagsSet(s, f)
  BY <1>2, ReadBackKeeps, SetKeeps
<1>3. CASE \E f \in Flag : Flags!SetFromISR(f) BY <1>3, SetKeeps
<1>4. CASE \E f \in Flag : Flags!osThreadFlagsClear({f})
  <2>1. PICK f \in Flag : Flags!osThreadFlagsClear({f}) BY <1>4
  <2>2. PICK F \in SUBSET Flag : F = {f} OBVIOUS
  <2> QED BY <2>1, <2>2, ClearKeeps
<1>5. CASE \E flags \in SUBSET Flag \ {{}}, all, noClear \in BOOLEAN, d \in Timeouts :
             Flags!osThreadFlagsWait(flags, all, noClear, d)
  BY <1>5, WaitKeeps
<1>6. CASE Flags!osThreadFlagsGet \/ Flags!OverwriteValue
  BY <1>6, GetKeeps, OverwriteKeeps
<1>7. CASE \/ Flags!xTaskNotifyWait \/ Flags!NotifyWaitReturns
           \/ Flags!Collect \/ Flags!Tick
  BY <1>7, NotifyWaitKeeps, WaitReturnsKeeps, CollectKeeps, TickKeeps
<1> QED BY <1>1, <1>2, <1>3, <1>4, <1>5, <1>6, <1>7 DEF Flags!Next

\* Of thread flags, with however many threads and interrupts that set them and for
\* every timeout: a set flag answers no second wait, also when the thread clears flags
\* while others set them, and no wait sleeps longer than its timeout, however often it
\* is notified in vain (osThreadFlagsWait, cmsis_os2.c:804, 832).
THEOREM FlagsAreServed ==
  ASSUME Flags!FlagsFit PROVE Flags!Spec => []Flags!FlagsServed
<1>1. Flags!Init => FlagInv BY FlagsStart
<1>2. FlagInv /\ [Flags!Next]_(Flags!vars) => FlagInv' BY FlagsStep
<1>3. FlagInv => Flags!FlagsServed
  <2> SUFFICES ASSUME FlagInv, wait.timeout # Flags!osWaitForever
               PROVE  wait.slept <= wait.timeout
    BY DEF FlagInv, Flags!FlagsServed, Flags!WaitNotProlonged
  <2>1. InTime(wait, xTickCount) BY Facts
  <2>2. CASE wait.at \in {"idle", "cleared"} BY <2>1, <2>2 DEF InTime
  <2>3. CASE wait.at \notin {"idle", "cleared"} BY <2>1, <2>3 DEF InTime
  <2> QED BY <2>2, <2>3
<1> QED BY <1>1, <1>2, <1>3, PTL DEF Flags!Spec

--------------------
\* CmsisObjects: what the functions around the kernel calls decide.

CONSTANTS Thread, MaxCounts, Message, Length, CommandBound

VARIABLES obj, heap, objectWait, answer

Ob == INSTANCE CmsisObjects WITH wait <- objectWait

\* The fields an object always has, whatever else its kind has.
IsRecord(r) == r = [k \in DOMAIN r |-> r[k]]

ObjectTyped(o) ==
  /\ IsRecord(o) /\ {"kind", "onHeap"} \subseteq DOMAIN o
  /\ o.kind \in Ob!Kind \cup {"none"} /\ o.onHeap \in BOOLEAN
  /\ o.kind = "timer" => "deleted" \in DOMAIN o /\ o.deleted \in BOOLEAN
  /\ o.kind = "none" => ~o.onHeap

\* A thread only waits when it was ready to.
WaitTyped(w) ==
  /\ IsRecord(w) /\ "call" \in DOMAIN w /\ w.call \in Ob!Called \cup {"none"}
  /\ w.call = "none" => w = Ob!NoWait
  /\ w.call # "none" => "timeout" \in DOMAIN w /\ w.timeout \in {"finite", "forever"}

\* Commands are for the object there is, and none follows the one to delete it.
Commands == [do : {"set", "clear", "start", "stop", "delete"}, flags : SUBSET Flag]

CommandsFit(p, o) ==
  /\ p \in Seq(Commands)
  /\ \A i \in 1..Len(p) :
       p[i].do = "delete" => i = Len(p) /\ o.kind = "timer" /\ o.deleted

AnswerFits(a) ==
  /\ a \in [isr : BOOLEAN, timeout : Ob!Timeout, status : Ob!Status] \cup {Ob!NoAnswer}
  /\ a # Ob!NoAnswer =>
       /\ a.status = "osErrorTimeout" => ~a.isr /\ a.timeout # "none"
       /\ a.timeout # "none" => a.status # "osErrorResource"

HeapFits(h, o) ==
  /\ h \subseteq {"object", "callb"}
  /\ "object" \in h <=> o.onHeap
  /\ "callb" \in h <=> o.kind = "timer" /\ ~o.deleted

WaitsFit(w) == DOMAIN w = Thread /\ IsRecord(w) /\ \A t \in Thread : WaitTyped(w[t])

ObjectInv ==
  /\ ObjectTyped(obj) /\ HeapFits(heap, obj) /\ WaitsFit(objectWait)
  /\ CommandsFit(pended, obj) /\ AnswerFits(answer)

--------------------

\* What is answered at once, and who may be told of a time-out.
LEMMA ReturnsFits ==
  ASSUME NEW c \in Ob!Caller, NEW timeout \in Ob!Timeout, NEW outcome \in Ob!Status,
         Ob!Returns(c, timeout, outcome),
         outcome = "osErrorTimeout" => c # Ob!Interrupt /\ timeout # "none",
         timeout # "none" => outcome # "osErrorResource"
  PROVE  AnswerFits(answer')
<1>1. (c = Ob!Interrupt) \in BOOLEAN OBVIOUS
<1>2. answer' = [isr |-> c = Ob!Interrupt, timeout |-> timeout, status |-> outcome]
  BY DEF Ob!Returns
<1>3. answer'.isr = (c = Ob!Interrupt) /\ answer'.timeout = timeout /\ answer'.status = outcome
  BY <1>2
<1>4. answer' \in [isr : BOOLEAN, timeout : Ob!Timeout, status : Ob!Status] BY <1>1, <1>2
<1> QED BY <1>3, <1>4 DEF AnswerFits

\* What a refusal can be.
LEMMA RefusalIs ==
  ASSUME NEW c, NEW valid, NEW timeout
  PROVE  /\ Ob!Refusal(c, valid) \in {"osErrorISR", "osErrorParameter", "osOK"}
         /\ Ob!Refusal(c, valid) = "osOK" => c # Ob!Interrupt /\ valid
         /\ Ob!RefusalOfWait(c, valid, timeout) \in {"osErrorParameter", "osOK"}
         /\ Ob!RefusalOfWait(c, valid, timeout) = "osOK" =>
              valid /\ (c = Ob!Interrupt => timeout = "none")
BY DEF Ob!Refusal, Ob!RefusalOfWait

LEMMA RefusalKeeps ==
  ASSUME ObjectInv, NEW c \in Ob!Caller, NEW timeout \in Ob!Timeout,
         NEW outcome \in {"osErrorISR", "osErrorParameter", "osOK"},
         Ob!Refused(c, timeout, outcome)
  PROVE  ObjectInv'
<1>1. Ob!Returns(c, timeout, outcome) /\ UNCHANGED <<obj, heap, objectWait, pended>>
  BY DEF Ob!Refused
<1>2. AnswerFits(answer') BY <1>1, ReturnsFits DEF Ob!Status
<1> QED BY <1>1, <1>2 DEF ObjectInv

\* An object with other contents is on the heap as it was.
Alike(o, m) == /\ ObjectTyped(m) /\ m.kind = o.kind /\ m.onHeap = o.onHeap
               /\ o.kind = "timer" => m.deleted = o.deleted

LEMMA AlikeKeeps ==
  ASSUME ObjectInv, Alike(obj, obj'), UNCHANGED heap
  PROVE  /\ ObjectTyped(obj') /\ HeapFits(heap', obj')
         /\ \A p : CommandsFit(p, obj) => CommandsFit(p, obj')
BY DEF ObjectInv, Alike, HeapFits, CommandsFit

LEMMA ExceptAlike ==
  ASSUME ObjectTyped(obj), NEW f, f \notin {"kind", "onHeap", "deleted"}, NEW v
  PROVE  Alike(obj, [obj EXCEPT ![f] = v])
<1> DEFINE m == [obj EXCEPT ![f] = v]
<1>1. m = [k \in DOMAIN obj |-> IF k = f THEN v ELSE obj[k]] BY DEF ObjectTyped, IsRecord
<1>2. DOMAIN m = DOMAIN obj /\ \A k \in DOMAIN obj : k # f => m[k] = obj[k] BY <1>1
<1>3. IsRecord(m) BY <1>1, <1>2 DEF IsRecord
<1>4. m.kind = obj.kind /\ m.onHeap = obj.onHeap BY <1>2 DEF ObjectTyped
<1>5. obj.kind = "timer" => m.deleted = obj.deleted BY <1>2 DEF ObjectTyped
<1> HIDE DEF m
<1> QED BY <1>2, <1>3, <1>4, <1>5 DEF Alike, ObjectTyped, m

LEMMA DoneAlike ==
  ASSUME ObjectInv, NEW c, NEW call \in Ob!Called \ {"osEventFlagsWait"}, NEW message
  PROVE  Alike(obj, Ob!Done(c, call, message))
<1>0. ObjectTyped(obj) BY DEF ObjectInv
<1>1. CASE call = "osSemaphoreAcquire" BY <1>0, <1>1, ExceptAlike DEF Ob!Done
<1>2. CASE call = "osMutexAcquire"
  <2> DEFINE m == [obj EXCEPT !.holder = c]
  <2>1. Alike(obj, m) BY <1>0, ExceptAlike
  <2>2. Ob!Done(c, call, message) = [obj EXCEPT !.holder = c, !.depth = @ + 1]
    BY <1>2 DEF Ob!Done
  <2> QED BY <1>0, <2>2 DEF Alike, ObjectTyped, IsRecord
<1>3. CASE call = "osMessageQueuePut" BY <1>0, <1>3, ExceptAlike DEF Ob!Done
<1>4. CASE call = "osMessageQueueGet" BY <1>0, <1>4, ExceptAlike DEF Ob!Done
<1> QED BY <1>1, <1>2, <1>3, <1>4 DEF Ob!Called

--------------------
\* The calls.

\* A field that is not one of those every object has.
Inner == {"count", "holder", "depth", "messages", "bits", "active"}

LEMMA InnerAlike ==
  ASSUME ObjectInv, NEW f \in Inner, NEW v
  PROVE  Alike(obj, [obj EXCEPT ![f] = v]) /\ Alike(obj, obj)
BY ExceptAlike DEF ObjectInv, Inner, Alike

LEMMA WaitSet ==
  ASSUME NEW w, WaitsFit(w), NEW t \in Thread, NEW x, WaitTyped(x)
  PROVE  WaitsFit([w EXCEPT ![t] = x])
<1> DEFINE m == [w EXCEPT ![t] = x]
<1>1. m = [u \in Thread |-> IF u = t THEN x ELSE w[u]] BY DEF WaitsFit, IsRecord
<1>2. DOMAIN m = Thread /\ \A u \in Thread : m[u] = IF u = t THEN x ELSE w[u] BY <1>1
<1>3. IsRecord(m) BY <1>1, <1>2 DEF IsRecord
<1> HIDE DEF m
<1>4. WaitsFit(m) BY <1>2, <1>3 DEF WaitsFit
<1> QED BY <1>4 DEF m

LEMMA NoWaitTyped == WaitTyped(Ob!NoWait)
BY DEF WaitTyped, Ob!NoWait, IsRecord

LEMMA FailureIs ==
  ASSUME NEW timeout
  PROVE  /\ Ob!Failure(timeout) \in {"osErrorTimeout", "osErrorResource"}
         /\ Ob!Failure(timeout) = "osErrorTimeout" <=> timeout # "none"
BY DEF Ob!Failure

LEMMA CalledFits ==
  ASSUME NEW t \in Thread, ObjectInv, objectWait[t].call # "none"
  PROVE  objectWait[t].timeout \in {"finite", "forever"} /\ objectWait[t].call \in Ob!Called
BY DEF ObjectInv, WaitsFit, WaitTyped

\* A thread, or an interrupt that does not wait, tries what its call is about.
LEMMA TriesKeeps ==
  ASSUME ObjectInv, NEW c \in Ob!Caller, NEW to \in Ob!Timeout, NEW x,
         NEW what \in Ob!Called \ {"osEventFlagsWait"},
         c = Ob!Interrupt => to = "none", Ob!Tries(c, what, to, x)
  PROVE  ObjectInv'
<1>0. UNCHANGED <<heap, pended>> BY DEF Ob!Tries
<1>1. CASE obj' = Ob!Done(c, what, x) /\ Ob!Returns(c, to, "osOK") /\ UNCHANGED objectWait
  <2>1. Alike(obj, obj') BY <1>1, DoneAlike
  <2>2. AnswerFits(answer') BY <1>1, ReturnsFits DEF Ob!Status
  <2> QED BY <1>0, <1>1, <2>1, <2>2, AlikeKeeps DEF ObjectInv
<1>2. CASE to = "none" /\ UNCHANGED <<obj, objectWait>> /\ Ob!Returns(c, to, Ob!Failure(to))
  <2>1. Ob!Failure(to) = "osErrorResource" BY <1>2 DEF Ob!Failure
  <2>2. AnswerFits(answer') BY <1>2, <2>1, ReturnsFits DEF Ob!Status
  <2> QED BY <1>0, <1>2, <2>2 DEF ObjectInv
<1>3. CASE /\ to # "none" /\ UNCHANGED <<obj, answer>>
           /\ objectWait' = [objectWait EXCEPT ![c] = [call |-> what, timeout |-> to,
                                                       message |-> x]]
  <2>1. c \in Thread BY <1>3 DEF Ob!Caller
  <2> DEFINE w == [call |-> what, timeout |-> to, message |-> x]
  <2>2. WaitTyped(w)
    <3>1. IsRecord(w) /\ w.call = what /\ w.timeout = to /\ {"call", "timeout"} \subseteq DOMAIN w
      BY DEF IsRecord
    <3>2. what # "none" /\ to \in {"finite", "forever"} BY <1>3 DEF Ob!Called, Ob!Timeout
    <3> HIDE DEF w
    <3> QED BY <3>1, <3>2 DEF WaitTyped
  <2>3. WaitsFit(objectWait') BY <1>3, <2>1, <2>2, WaitSet DEF ObjectInv
  <2> QED BY <1>0, <1>3, <2>3 DEF ObjectInv
<1> QED BY <1>1, <1>2, <1>3 DEF Ob!Tries

LEMMA ServedKeeps ==
  ASSUME ObjectInv, NEW t \in Thread, Ob!WaitServed(t)
  PROVE  ObjectInv'
<1>1. /\ objectWait[t].call \in Ob!Called \ {"osEventFlagsWait"}
      /\ objectWait[t].timeout \in Ob!Timeout /\ t \in Ob!Caller
  BY CalledFits DEF Ob!WaitServed, Ob!Timeout, Ob!Caller
<1>2. /\ obj' = Ob!Done(t, objectWait[t].call, objectWait[t].message)
      /\ Ob!Returns(t, objectWait[t].timeout, "osOK") /\ UNCHANGED <<heap, pended>>
      /\ objectWait' = [objectWait EXCEPT ![t] = Ob!NoWait]
  BY DEF Ob!WaitServed
<1>3. Alike(obj, obj') /\ AnswerFits(answer') /\ WaitsFit(objectWait')
  BY <1>1, <1>2, DoneAlike, ReturnsFits, WaitSet, NoWaitTyped DEF Ob!Status, ObjectInv
<1> QED BY <1>2, <1>3, AlikeKeeps DEF ObjectInv

LEMMA OutKeeps ==
  ASSUME Ob!ObjectsFit, ObjectInv, NEW t \in Thread, Ob!WaitTimesOut(t)
  PROVE  ObjectInv'
<1>1. /\ Ob!Returns(t, "finite", Ob!Failure("finite")) /\ UNCHANGED <<obj, heap, pended>>
      /\ objectWait' = [objectWait EXCEPT ![t] = Ob!NoWait]
  BY DEF Ob!WaitTimesOut
<1>2. t \in Ob!Caller /\ t # Ob!Interrupt BY DEF Ob!Caller, Ob!ObjectsFit
<1>3. AnswerFits(answer') BY <1>1, <1>2, ReturnsFits, FailureIs DEF Ob!Status, Ob!Timeout
<1>4. WaitsFit(objectWait') BY <1>1, WaitSet, NoWaitTyped DEF ObjectInv
<1> QED BY <1>1, <1>3, <1>4 DEF ObjectInv

\* An object that is new is where its memory is.
LEMMA NewIs ==
  ASSUME NEW new, ObjectTyped(new), NEW b \in BOOLEAN, new.kind # "none"
  PROVE  LET m == [new EXCEPT !.onHeap = b]
         IN  ObjectTyped(m) /\ m.kind = new.kind /\ m.onHeap = b
             /\ (new.kind = "timer" => m.deleted = new.deleted)
BY DEF ObjectTyped, IsRecord

LEMMA NothingYet ==
  ASSUME ObjectInv, obj = Ob!NoObject
  PROVE  heap = {} /\ \A o : ~CommandsFit(pended, obj) \/ CommandsFit(pended, o)
<1>1. obj.kind = "none" /\ ~obj.onHeap BY DEF Ob!NoObject
<1> QED BY <1>1 DEF ObjectInv, HeapFits, CommandsFit

LEMMA SomebodyTold ==
  ASSUME \E t \in Thread : Ob!Free(t) /\ Ob!Returns(t, "none", IF obj' = Ob!NoObject
                                                                THEN "osError" ELSE "osOK")
  PROVE  AnswerFits(answer')
<1> PICK t \in Thread : Ob!Returns(t, "none", IF obj' = Ob!NoObject THEN "osError" ELSE "osOK")
  OBVIOUS
<1> QED BY ReturnsFits DEF Ob!Caller, Ob!Status, Ob!Timeout

LEMMA NewObjectKeeps ==
  ASSUME ObjectInv, NEW memory, NEW new, ObjectTyped(new),
         new.kind \in Ob!Kind \ {"timer"}, Ob!New(memory, new)
  PROVE  ObjectInv'
<1>0. obj = Ob!NoObject /\ UNCHANGED <<objectWait, pended>> /\ AnswerFits(answer')
  BY SomebodyTold DEF Ob!New
<1>1. CASE UNCHANGED <<obj, heap>> BY <1>0, <1>1 DEF ObjectInv
<1>2. CASE /\ obj' = [new EXCEPT !.onHeap = memory = "dynamic"]
           /\ heap' = IF memory = "dynamic" THEN heap \cup {"object"} ELSE heap
  <2>1. PICK b \in BOOLEAN : b <=> memory = "dynamic" OBVIOUS
  <2>2. obj' = [new EXCEPT !.onHeap = b] /\ heap' = IF b THEN {"object"} ELSE {}
    BY <1>0, <1>2, <2>1, NothingYet
  <2>3. ObjectTyped(obj') /\ obj'.kind = new.kind /\ obj'.onHeap = b
    BY <2>2, NewIs DEF Ob!Kind
  <2>4. HeapFits(heap', obj') BY <2>2, <2>3 DEF HeapFits
  <2> QED BY <1>0, <2>3, <2>4, NothingYet DEF ObjectInv
<1> QED BY <1>1, <1>2 DEF Ob!New

LEMMA NewTyped ==
  ASSUME NEW m, IsRecord(m), {"kind", "onHeap"} \subseteq DOMAIN m, ~m.onHeap,
         m.onHeap \in BOOLEAN, m.kind \in Ob!Kind, m.kind # "timer"
  PROVE  ObjectTyped(m)
BY DEF ObjectTyped

LEMMA SemaphoreMade ==
  ASSUME ObjectInv, NEW max, NEW initial, NEW memory, Ob!osSemaphoreNew(max, initial, memory)
  PROVE  ObjectInv'
<1> DEFINE m == [kind |-> "semaphore", onHeap |-> FALSE, max |-> max,
                 count |-> Ob!InitialCount(max, initial)]
<1>1. ObjectTyped(m) /\ m.kind = "semaphore" BY NewTyped DEF IsRecord, Ob!Kind
<1>2. Ob!New(memory, m) BY DEF Ob!osSemaphoreNew
<1> HIDE DEF m
<1> QED BY <1>1, <1>2, NewObjectKeeps DEF Ob!Kind

LEMMA MutexMade ==
  ASSUME ObjectInv, NEW recursive, NEW robust, NEW memory,
         Ob!osMutexNew(recursive, robust, memory)
  PROVE  ObjectInv'
<1> DEFINE m == [kind |-> "mutex", onHeap |-> FALSE, recursive |-> recursive,
                 holder |-> Ob!Nobody, depth |-> 0]
<1>1. ObjectTyped(m) /\ m.kind = "mutex" BY NewTyped DEF IsRecord, Ob!Kind
<1>2. Ob!New(IF robust THEN "unusable" ELSE memory, m) BY DEF Ob!osMutexNew
<1> HIDE DEF m
<1> QED BY <1>1, <1>2, NewObjectKeeps DEF Ob!Kind

LEMMA QueueMade ==
  ASSUME ObjectInv, NEW memory, Ob!osMessageQueueNew(memory)
  PROVE  ObjectInv'
<1> DEFINE m == [kind |-> "queue", onHeap |-> FALSE, messages |-> <<>>]
<1>1. ObjectTyped(m) /\ m.kind = "queue" BY NewTyped DEF IsRecord, Ob!Kind
<1>2. Ob!New(memory, m) BY DEF Ob!osMessageQueueNew
<1> HIDE DEF m
<1> QED BY <1>1, <1>2, NewObjectKeeps DEF Ob!Kind

LEMMA FlagsMade ==
  ASSUME ObjectInv, NEW memory, Ob!osEventFlagsNew(memory)
  PROVE  ObjectInv'
<1> DEFINE m == [kind |-> "flags", onHeap |-> FALSE, bits |-> {}]
<1>1. ObjectTyped(m) /\ m.kind = "flags" BY NewTyped DEF IsRecord, Ob!Kind
<1>2. Ob!New(memory, m) BY DEF Ob!osEventFlagsNew
<1> HIDE DEF m
<1> QED BY <1>1, <1>2, NewObjectKeeps DEF Ob!Kind

\* A timer's memory and that of its callback come and go together.
LEMMA TimerMade ==
  ASSUME ObjectInv, NEW reload, NEW memory, Ob!osTimerNew(reload, memory)
  PROVE  ObjectInv'
<1>0. obj = Ob!NoObject /\ UNCHANGED <<objectWait, pended>> /\ AnswerFits(answer')
      /\ heap = {} /\ \A o : CommandsFit(pended, o)
  BY SomebodyTold, NothingYet DEF Ob!osTimerNew, ObjectInv
<1>1. CASE obj' = obj /\ heap' = heap BY <1>0, <1>1 DEF ObjectInv
<1>2. CASE obj' = obj /\ heap' = Ob!FreeCallb(heap \cup {"callb"})
  <2>1. heap' = heap BY <1>0, <1>2 DEF Ob!FreeCallb
  <2> QED BY <1>0, <1>2, <2>1 DEF ObjectInv
<1>3. CASE /\ obj' = [kind |-> "timer", onHeap |-> memory = "dynamic", reload |-> reload,
                      active |-> FALSE, deleted |-> FALSE]
           /\ heap' = heap \cup {"callb"}
                           \cup (IF memory = "dynamic" THEN {"object"} ELSE {})
  <2>1. PICK b \in BOOLEAN : b = (memory = "dynamic") OBVIOUS
  <2>2. obj' = [kind |-> "timer", onHeap |-> b, reload |-> reload,
                active |-> FALSE, deleted |-> FALSE]
    BY <1>3, <2>1
  <2>3. /\ IsRecord(obj') /\ {"kind", "onHeap", "deleted"} \subseteq DOMAIN obj'
        /\ obj'.kind = "timer" /\ obj'.onHeap = b /\ obj'.deleted = FALSE
    BY <2>2 DEF IsRecord
  <2>4. ObjectTyped(obj') BY <2>3 DEF ObjectTyped, Ob!Kind
  <2>5. heap' = {"callb"} \cup (IF b THEN {"object"} ELSE {}) BY <1>0, <1>3, <2>1
  <2>6. HeapFits(heap', obj') BY <2>3, <2>5 DEF HeapFits
  <2> QED BY <1>0, <2>4, <2>6 DEF ObjectInv
<1> QED BY <1>1, <1>2, <1>3 DEF Ob!osTimerNew

LEMMA NoObjectFits ==
  ASSUME ObjectInv, obj' = Ob!NoObject, heap' = heap \ {"object"},
         obj.kind = "timer" => obj.deleted, NEW p, p = <<>>
  PROVE  ObjectTyped(obj') /\ HeapFits(heap', obj') /\ CommandsFit(p, obj')
<1>1. obj'.kind = "none" /\ obj'.onHeap = FALSE /\ DOMAIN obj' = {"kind", "onHeap"}
      /\ IsRecord(obj')
  BY DEF Ob!NoObject, IsRecord
<1>2. "callb" \notin heap BY DEF ObjectInv, HeapFits
<1>3. ObjectTyped(obj') BY <1>1 DEF ObjectTyped
<1>4. HeapFits(heap', obj') BY <1>1, <1>2 DEF ObjectInv, HeapFits
<1>5. p \in Seq(Commands) /\ Len(p) = 0 OBVIOUS
<1>6. CommandsFit(p, obj') BY <1>5 DEF CommandsFit
<1> QED BY <1>3, <1>4, <1>6

LEMMA ServedTyped ==
  ASSUME NEW w, WaitTyped(w), NEW bits
  PROVE  WaitTyped([w EXCEPT !.served = TRUE, !.bits = bits])
<1> DEFINE m == [w EXCEPT !.served = TRUE, !.bits = bits]
<1>1. m = [k \in DOMAIN w |-> IF k = "bits" THEN bits ELSE IF k = "served" THEN TRUE ELSE w[k]]
  BY DEF WaitTyped, IsRecord
<1>2. DOMAIN m = DOMAIN w /\ IsRecord(m) /\ m.call = w.call
  BY <1>1 DEF IsRecord, WaitTyped
<1>3. "timeout" \in DOMAIN w => m.timeout = w.timeout BY <1>1
<1>4. w.call = "none" => m = Ob!NoWait
  <2> SUFFICES ASSUME w = Ob!NoWait PROVE m = Ob!NoWait BY DEF WaitTyped
  <2> QED BY DEF Ob!NoWait
<1> HIDE DEF m
<1>5. WaitTyped(m) BY <1>2, <1>3, <1>4 DEF WaitTyped
<1> QED BY <1>5 DEF m

LEMMA DeletionKeeps ==
  ASSUME ObjectInv, NEW c \in Ob!Caller, NEW kind \in {"semaphore", "mutex", "queue", "flags"},
         NEW valid \in BOOLEAN, Ob!Delete(c, kind, valid)
  PROVE  ObjectInv'
<1>0. obj.kind = kind BY DEF Ob!Delete
<1>1. CASE Ob!Refused(c, "none", Ob!Refusal(c, valid))
  BY <1>1, RefusalIs, RefusalKeeps DEF Ob!Timeout
<1>2. CASE /\ pended = <<>> /\ Ob!Returns(c, "none", "osOK") /\ UNCHANGED pended
           /\ IF kind = "flags" THEN Ob!vEventGroupDelete ELSE Ob!vQueueDelete
  <2>1. AnswerFits(answer') BY <1>2, ReturnsFits DEF Ob!Timeout, Ob!Status
  <2>2. obj' = Ob!NoObject /\ heap' = heap \ {"object"}
    BY <1>2 DEF Ob!vEventGroupDelete, Ob!vQueueDelete
  <2>3. WaitsFit(objectWait')
    <3>1. CASE kind # "flags" BY <1>2, <3>1 DEF Ob!vQueueDelete, ObjectInv
    <3>2. CASE kind = "flags"
      <4>1. objectWait' = [t \in Thread |-> IF objectWait[t] = Ob!NoWait THEN Ob!NoWait
                              ELSE [objectWait[t] EXCEPT !.served = TRUE, !.bits = {}]]
        BY <1>2, <3>2 DEF Ob!vEventGroupDelete
      <4>2. \A t \in Thread : WaitTyped(objectWait'[t])
        BY <4>1, NoWaitTyped, ServedTyped DEF ObjectInv, WaitsFit
      <4> QED BY <4>1, <4>2 DEF WaitsFit, IsRecord
    <3> QED BY <3>1, <3>2
  <2> QED BY <1>0, <1>2, <2>1, <2>2, <2>3, NoObjectFits DEF ObjectInv
<1> QED BY <1>1, <1>2 DEF Ob!Delete

LEMMA GivesKeeps ==
  ASSUME ObjectInv, NEW c \in Ob!Caller, NEW possible \in BOOLEAN, NEW new, Alike(obj, new),
         Ob!Gives(c, possible, new)
  PROVE  ObjectInv'
<1>1. /\ obj' = IF possible THEN new ELSE obj
      /\ Ob!Returns(c, "none", IF possible THEN "osOK" ELSE "osErrorResource")
      /\ UNCHANGED <<heap, objectWait, pended>>
  BY DEF Ob!Gives
<1>2. AnswerFits(answer') BY <1>1, ReturnsFits DEF Ob!Timeout, Ob!Status
<1>3. Alike(obj, obj') BY <1>1 DEF Alike, ObjectInv
<1> QED BY <1>1, <1>2, <1>3, AlikeKeeps DEF ObjectInv

LEMMA TwoAlike ==
  ASSUME ObjectInv, NEW f \in Inner, NEW g \in Inner, NEW v, NEW w
  PROVE  Alike(obj, [obj EXCEPT ![f] = v, ![g] = w])
BY DEF ObjectInv, ObjectTyped, Alike, IsRecord, Inner

LEMMA InterruptCalls2 == Ob!Interrupt \in Ob!Caller /\ "none" \in Ob!Timeout
BY DEF Ob!Caller, Ob!Timeout

LEMMA SemaphoreKeeps ==
  ASSUME ObjectInv, NEW c \in Ob!Caller, NEW valid \in BOOLEAN, NEW to \in Ob!Timeout,
         Ob!osSemaphoreAcquire(c, valid, to) \/ Ob!osSemaphoreRelease(c, valid)
  PROVE  ObjectInv'
<1>1. CASE Ob!osSemaphoreAcquire(c, valid, to)
  <2>1. CASE Ob!Refused(c, to, Ob!RefusalOfWait(c, valid, to))
    BY <2>1, RefusalIs, RefusalKeeps
  <2>2. CASE /\ Ob!RefusalOfWait(c, valid, to) = "osOK"
             /\ Ob!Tries(c, "osSemaphoreAcquire", to, "none")
    BY <2>2, RefusalIs, TriesKeeps DEF Ob!Called
  <2> QED BY <1>1, <2>1, <2>2 DEF Ob!osSemaphoreAcquire
<1>2. CASE Ob!osSemaphoreRelease(c, valid)
  <2>1. CASE Ob!Refused(c, "none", Ob!RefusalOfWait(c, valid, "none"))
    BY <2>1, RefusalIs, RefusalKeeps, InterruptCalls2
  <2>2. CASE \E d \in Ob!Caller : Ob!Gives(d, obj.count < obj.max, [obj EXCEPT !.count = @ + 1])
    <3>1. PICK d \in Ob!Caller : Ob!Gives(d, obj.count < obj.max, [obj EXCEPT !.count = @ + 1])
      BY <2>2
    <3>2. PICK b \in BOOLEAN : b <=> obj.count < obj.max OBVIOUS
    <3> DEFINE m == [obj EXCEPT !.count = @ + 1]
    <3>3. Alike(obj, m) BY InnerAlike DEF Inner
    <3>4. Ob!Gives(d, b, m) BY <3>1, <3>2 DEF Ob!Gives
    <3> HIDE DEF m
    <3> QED BY <3>3, <3>4, GivesKeeps
  <2> QED
    BY <1>2, <2>1, <2>2, InterruptCalls2 DEF Ob!osSemaphoreRelease, Ob!xQueueGiveFromISR
<1> QED BY <1>1, <1>2

LEMMA MutexKeeps ==
  ASSUME ObjectInv, NEW c \in Ob!Caller, NEW valid \in BOOLEAN, NEW to \in Ob!Timeout,
         Ob!osMutexAcquire(c, valid, to) \/ Ob!osMutexRelease(c, valid)
  PROVE  ObjectInv'
<1>1. CASE Ob!osMutexAcquire(c, valid, to)
  <2>1. CASE Ob!Refused(c, to, Ob!Refusal(c, valid)) BY <2>1, RefusalIs, RefusalKeeps
  <2>2. CASE /\ Ob!Refusal(c, valid) = "osOK" /\ Ob!Tries(c, "osMutexAcquire", to, "none")
    BY <2>2, RefusalIs, TriesKeeps DEF Ob!Called
  <2> QED BY <1>1, <2>1, <2>2 DEF Ob!osMutexAcquire
<1>2. CASE Ob!osMutexRelease(c, valid)
  <2>1. CASE Ob!Refused(c, "none", Ob!Refusal(c, valid))
    BY <2>1, RefusalIs, RefusalKeeps, InterruptCalls2
  <2> DEFINE m == [obj EXCEPT !.depth = @ - 1,
                              !.holder = IF obj.depth = 1 THEN Ob!Nobody ELSE @]
  <2>2. CASE Ob!Gives(c, obj.holder = c, m)
    <3>1. PICK b \in BOOLEAN : b <=> obj.holder = c OBVIOUS
    <3>2. Alike(obj, m) BY TwoAlike DEF Inner
    <3> HIDE DEF m
    <3>3. Ob!Gives(c, b, m) BY <2>2, <3>1 DEF Ob!Gives
    <3> QED BY <3>2, <3>3, GivesKeeps
  <2> QED BY <1>2, <2>1, <2>2 DEF Ob!osMutexRelease
<1> QED BY <1>1, <1>2

LEMMA QueueKeeps ==
  ASSUME ObjectInv, NEW c \in Ob!Caller, NEW valid \in BOOLEAN, NEW to \in Ob!Timeout, NEW x,
         \/ Ob!osMessageQueuePut(c, valid, to, x) \/ Ob!osMessageQueueGet(c, valid, to)
         \/ Ob!osMessageQueueReset(c, valid)
  PROVE  ObjectInv'
<1>1. CASE Ob!Refused(c, to, Ob!RefusalOfWait(c, valid, to))
  BY <1>1, RefusalIs, RefusalKeeps
<1>2. CASE /\ Ob!RefusalOfWait(c, valid, to) = "osOK"
           /\ \/ Ob!Tries(c, "osMessageQueuePut", to, x)
              \/ Ob!Tries(c, "osMessageQueueGet", to, "none")
  BY <1>2, RefusalIs, TriesKeeps DEF Ob!Called
<1>3. CASE Ob!osMessageQueueReset(c, valid)
  <2>1. CASE Ob!Refused(c, "none", Ob!Refusal(c, valid))
    BY <2>1, RefusalIs, RefusalKeeps, InterruptCalls2
  <2> DEFINE m == [obj EXCEPT !.messages = <<>>]
  <2>2. CASE Ob!Gives(c, TRUE, m)
    <3>1. Alike(obj, m) BY InnerAlike DEF Inner
    <3> HIDE DEF m
    <3> QED BY <2>2, <3>1, GivesKeeps
  <2> QED BY <1>3, <2>1, <2>2 DEF Ob!osMessageQueueReset
<1> QED BY <1>1, <1>2, <1>3 DEF Ob!osMessageQueuePut, Ob!osMessageQueueGet

--------------------
\* Event flags and timers.

LEMMA SetBitsFits ==
  ASSUME ObjectInv, NEW flags, Ob!SetBits(flags)
  PROVE  Alike(obj, obj') /\ WaitsFit(objectWait')
<1> DEFINE now == obj.bits \cup flags
           due == {t \in Thread : /\ objectWait[t].call = "osEventFlagsWait"
                                  /\ ~objectWait[t].served
                                  /\ Ob!Meets(now, objectWait[t].flags, objectWait[t].all)}
           cleared == UNION {objectWait[t].flags : t \in {d \in due : objectWait[d].clear}}
<1>1. /\ obj' = [obj EXCEPT !.bits = now \ cleared]
      /\ objectWait' = [t \in Thread |-> IF t \notin due THEN objectWait[t]
                          ELSE [objectWait[t] EXCEPT !.served = TRUE, !.bits = now]]
  BY DEF Ob!SetBits
<1> HIDE DEF now, due, cleared
<1>2. Alike(obj, obj') BY <1>1, InnerAlike DEF Inner
<1>3. \A t \in Thread : WaitTyped(objectWait'[t])
  BY <1>1, ServedTyped DEF ObjectInv, WaitsFit
<1>4. WaitsFit(objectWait') BY <1>1, <1>3 DEF WaitsFit, IsRecord
<1> QED BY <1>2, <1>4

\* A command that is queued behind those that are.
LEMMA AppendFits ==
  ASSUME NEW p, NEW o, CommandsFit(p, o), NEW e \in Commands,
         \A i \in 1..Len(p) : p[i].do # "delete",
         e.do = "delete" => o.kind = "timer" /\ o.deleted
  PROVE  CommandsFit(Append(p, e), o)
<1>1. p \in Seq(Commands) BY DEF CommandsFit
<1>2. /\ Append(p, e) \in Seq(Commands) /\ Len(Append(p, e)) = Len(p) + 1
      /\ Append(p, e)[Len(p) + 1] = e
      /\ \A i \in 1..Len(p) : Append(p, e)[i] = p[i]
  BY <1>1
<1> QED BY <1>1, <1>2 DEF CommandsFit

LEMMA NoDeletion ==
  ASSUME ObjectInv, obj.kind # "timer" \/ ~obj.deleted
  PROVE  \A i \in 1..Len(pended) : pended[i].do # "delete"
BY DEF ObjectInv, CommandsFit

LEMMA TailFits ==
  ASSUME NEW p, NEW o, CommandsFit(p, o), p # <<>>
  PROVE  /\ Head(p) \in Commands /\ CommandsFit(Tail(p), o)
         /\ Head(p).do = "delete" => Tail(p) = <<>> /\ o.kind = "timer" /\ o.deleted
<1> DEFINE doomed == o.kind = "timer" /\ o.deleted
<1>1. p \in Seq(Commands) /\ Len(p) \in Nat /\ Len(p) # 0 BY DEF CommandsFit
<1>2. /\ \A i \in 1..Len(p) : p[i].do = "delete" => i = Len(p)
      /\ \A i \in 1..Len(p) : p[i].do = "delete" => doomed
  BY Zenon DEF CommandsFit
<1>3. /\ Tail(p) \in Seq(Commands) /\ Len(Tail(p)) = Len(p) - 1 /\ Head(p) = p[1]
      /\ \A i \in 1..Len(Tail(p)) : Tail(p)[i] = p[i + 1]
      /\ Head(p) \in Commands
  BY <1>1
<1>4. \A i \in 1..Len(Tail(p)) : i + 1 \in 1..Len(p) /\ (i + 1 = Len(p) => i = Len(Tail(p)))
  <2> DEFINE k == Len(p)
             m == Len(Tail(p))
  <2>1. k \in Nat /\ m = k - 1 BY <1>1, <1>3
  <2> HIDE DEF k, m
  <2>2. \A i \in 1..m : i + 1 \in 1..k /\ (i + 1 = k => i = m) BY <2>1
  <2> QED BY <2>2 DEF k, m
<1>5. CommandsFit(Tail(p), o)
  <2>1. \A i \in 1..Len(Tail(p)) : Tail(p)[i].do = "delete" => i = Len(Tail(p)) /\ doomed
    <3> HIDE DEF doomed
    <3> SUFFICES ASSUME NEW i \in 1..Len(Tail(p)), Tail(p)[i].do = "delete"
                 PROVE  i = Len(Tail(p)) /\ doomed
      BY Zenon
    <3>1. i + 1 \in 1..Len(p) /\ p[i + 1].do = "delete" BY <1>3, <1>4, Zenon
    <3>2. i + 1 = Len(p) /\ doomed BY <1>2, <3>1, Zenon
    <3> QED BY <1>4, <3>2, Zenon
  <2> QED BY <1>3, <2>1, Zenon DEF CommandsFit
<1>6. ASSUME Head(p).do = "delete" PROVE Tail(p) = <<>> /\ doomed
  <2>1. 1 \in 1..Len(p) BY <1>1
  <2>2. p[1].do = "delete" BY <1>3, <1>6, Zenon
  <2>3. 1 = Len(p) BY <1>2, <2>1, <2>2, Zenon
  <2>4. Tail(p) = <<>> BY <1>1, <1>3, <2>3
  <2>5. doomed BY <1>2, <2>1, <2>2, Zenon
  <2> QED BY <2>4, <2>5, Zenon
<1> QED BY <1>3, <1>5, <1>6, Zenon

LEMMA LeftFits ==
  ASSUME ObjectInv, obj.kind = "flags", NEW do \in {"set", "clear"}, NEW flags \in SUBSET Flag,
         Ob!LeftToDaemon(do, flags), UNCHANGED <<obj, heap, objectWait>>
  PROVE  ObjectInv'
<1>1. AnswerFits(answer') BY ReturnsFits, InterruptCalls2 DEF Ob!LeftToDaemon, Ob!Status
<1>2. CASE UNCHANGED pended BY <1>1, <1>2 DEF ObjectInv
<1>3. CASE pended' = Append(pended, [do |-> do, flags |-> flags])
  <2>1. [do |-> do, flags |-> flags] \in Commands /\ [do |-> do, flags |-> flags].do # "delete"
    BY DEF Commands
  <2>2. CommandsFit(pended', obj) BY <1>3, <2>1, NoDeletion, AppendFits DEF ObjectInv
  <2> QED BY <1>1, <2>2 DEF ObjectInv
<1> QED BY <1>2, <1>3 DEF Ob!LeftToDaemon

LEMMA FlagsKeeps ==
  ASSUME ObjectInv, NEW c \in Ob!Caller, NEW valid \in BOOLEAN, NEW flags \in SUBSET Flag,
         Ob!osEventFlagsSet(c, valid, flags) \/ Ob!osEventFlagsClear(c, valid, flags)
  PROVE  ObjectInv'
<1>0. obj.kind = "flags" BY DEF Ob!osEventFlagsSet, Ob!osEventFlagsClear
<1>1. CASE Ob!Refused(c, "none", Ob!RefusalOfWait(c, valid, "none"))
  BY <1>1, RefusalIs, RefusalKeeps, InterruptCalls2
<1>2. CASE /\ Ob!LeftToDaemon("set", flags) \/ Ob!LeftToDaemon("clear", flags)
           /\ UNCHANGED <<obj, heap, objectWait>>
  BY <1>0, <1>2, LeftFits
<1>3. CASE Ob!SetBits(flags) /\ Ob!Returns(c, "none", "osOK") /\ UNCHANGED <<heap, pended>>
  <2>1. AnswerFits(answer') BY <1>3, ReturnsFits, InterruptCalls2 DEF Ob!Status
  <2> QED BY <1>3, <2>1, SetBitsFits, AlikeKeeps DEF ObjectInv
<1>4. CASE /\ obj' = [obj EXCEPT !.bits = @ \ flags] /\ Ob!Returns(c, "none", "osOK")
           /\ UNCHANGED <<heap, objectWait, pended>>
  <2>1. AnswerFits(answer') BY <1>4, ReturnsFits, InterruptCalls2 DEF Ob!Status
  <2>2. Alike(obj, obj') BY <1>4, InnerAlike DEF Inner
  <2> QED BY <1>4, <2>1, <2>2, AlikeKeeps DEF ObjectInv
<1> QED BY <1>1, <1>2, <1>3, <1>4 DEF Ob!osEventFlagsSet, Ob!osEventFlagsClear

LEMMA ReportedFits ==
  ASSUME Ob!ObjectsFit, NEW c \in Ob!Caller, c # Ob!Interrupt, NEW to \in Ob!Timeout,
         NEW bits, NEW flags, NEW all, Ob!Returns(c, to, Ob!Reported(bits, flags, all, to))
  PROVE  AnswerFits(answer')
<1>1. Ob!Reported(bits, flags, all, to) \in {"osOK", Ob!Failure(to)} BY DEF Ob!Reported
<1>2. Ob!Reported(bits, flags, all, to) \in {"osOK", "osErrorTimeout", "osErrorResource"}
      /\ (Ob!Reported(bits, flags, all, to) = "osErrorTimeout" => to # "none")
      /\ (Ob!Reported(bits, flags, all, to) = "osErrorResource" => to = "none")
  BY <1>1, FailureIs
<1> HIDE DEF Ob!Reported
<1> QED BY <1>2, ReturnsFits DEF Ob!Status

LEMMA FlagsWaitKeeps ==
  ASSUME Ob!ObjectsFit, ObjectInv, NEW c \in Ob!Caller, NEW valid \in BOOLEAN, NEW flags,
         NEW all, NEW noClear, NEW to \in Ob!Timeout,
         Ob!osEventFlagsWait(c, valid, flags, all, noClear, to)
  PROVE  ObjectInv'
<1>1. CASE Ob!Refused(c, to, IF valid THEN Ob!Refusal(c, valid) ELSE "osErrorParameter")
  <2>1. (IF valid THEN Ob!Refusal(c, valid) ELSE "osErrorParameter")
          \in {"osErrorISR", "osErrorParameter", "osOK"}
    BY RefusalIs
  <2> QED BY <1>1, <2>1, RefusalKeeps
<1>2. CASE /\ Ob!Refusal(c, valid) = "osOK"
           /\ obj' = IF Ob!Meets(obj.bits, flags, all) /\ ~noClear
                       THEN [obj EXCEPT !.bits = @ \ flags] ELSE obj
           /\ Ob!Returns(c, to, Ob!Reported(obj.bits, flags, all, to))
           /\ UNCHANGED <<heap, objectWait, pended>>
  <2>1. AnswerFits(answer') BY <1>2, RefusalIs, ReportedFits
  <2>2. Alike(obj, obj') BY <1>2, InnerAlike DEF Inner
  <2> QED BY <1>2, <2>1, <2>2, AlikeKeeps DEF ObjectInv
<1>3. CASE /\ Ob!Refusal(c, valid) = "osOK" /\ to # "none" /\ UNCHANGED <<obj, heap, pended, answer>>
           /\ objectWait' = [objectWait EXCEPT ![c] =
                [call |-> "osEventFlagsWait", timeout |-> to, flags |-> flags,
                 all |-> all, clear |-> ~noClear, served |-> FALSE, bits |-> {}]]
  <2> DEFINE w == [call |-> "osEventFlagsWait", timeout |-> to, flags |-> flags,
                   all |-> all, clear |-> ~noClear, served |-> FALSE, bits |-> {}]
  <2>1. c \in Thread BY <1>3, RefusalIs DEF Ob!Caller
  <2>2. WaitTyped(w)
    <3>1. IsRecord(w) /\ w.call = "osEventFlagsWait" /\ w.timeout = to
          /\ {"call", "timeout"} \subseteq DOMAIN w
      BY DEF IsRecord
    <3>2. to \in {"finite", "forever"} BY <1>3 DEF Ob!Timeout
    <3> HIDE DEF w
    <3> QED BY <3>1, <3>2 DEF WaitTyped, Ob!Called
  <2>3. WaitsFit(objectWait') BY <1>3, <2>1, <2>2, WaitSet DEF ObjectInv
  <2> QED BY <1>3, <2>3 DEF ObjectInv
<1> QED BY <1>1, <1>2, <1>3 DEF Ob!osEventFlagsWait

LEMMA FlagsEndKeeps ==
  ASSUME Ob!ObjectsFit, ObjectInv, NEW t \in Thread, Ob!FlagsWaitEnds(t)
  PROVE  ObjectInv'
<1> DEFINE bits == IF objectWait[t].served THEN objectWait[t].bits ELSE obj.bits
<1>1. /\ objectWait[t].call = "osEventFlagsWait" /\ UNCHANGED <<obj, heap, pended>>
      /\ Ob!Returns(t, objectWait[t].timeout,
                    Ob!Reported(bits, objectWait[t].flags, objectWait[t].all, objectWait[t].timeout))
      /\ objectWait' = [objectWait EXCEPT ![t] = Ob!NoWait]
  BY DEF Ob!FlagsWaitEnds
<1>2. objectWait[t].timeout \in Ob!Timeout /\ t \in Ob!Caller /\ t # Ob!Interrupt
  BY <1>1, CalledFits DEF Ob!Timeout, Ob!Caller, Ob!ObjectsFit
<1> HIDE DEF bits
<1>3. AnswerFits(answer') BY <1>1, <1>2, ReportedFits
<1>4. WaitsFit(objectWait') BY <1>1, WaitSet, NoWaitTyped DEF ObjectInv
<1> QED BY <1>1, <1>3, <1>4 DEF ObjectInv

LEMMA PostsIs ==
  ASSUME ObjectInv, Ob!Usable, NEW c \in Ob!Caller, NEW do \in {"start", "stop", "delete"},
         NEW full \in {"osErrorResource", "osError"}, Ob!Posts(c, do, full)
  PROVE  /\ AnswerFits(answer')
         /\ \/ UNCHANGED pended
            \/ /\ pended' # pended
               /\ \A o : do = "delete" /\ o.kind = "timer" /\ o.deleted => CommandsFit(pended', o)
               /\ do # "delete" => CommandsFit(pended', obj)
<1>1. AnswerFits(answer') BY ReturnsFits, InterruptCalls2 DEF Ob!Posts, Ob!Status
<1>2. CASE pended' = Append(pended, [do |-> do, flags |-> {}])
  <2>1. [do |-> do, flags |-> {}] \in Commands /\ [do |-> do, flags |-> {}].do = do
    BY DEF Commands
  <2>2. obj.kind = "timer" /\ ~obj.deleted BY DEF Ob!Usable
  <2>3. pended \in Seq(Commands) BY DEF ObjectInv, CommandsFit
  <2>4. pended' # pended
    <3>1. Len(pended') = Len(pended) + 1 /\ Len(pended) \in Nat BY <1>2, <2>1, <2>3
    <3> QED BY <3>1
  <2>5. \A i \in 1..Len(pended) : pended[i].do # "delete" BY <2>2, NoDeletion
  <2>6. \A o : CommandsFit(pended, o) BY <2>3, <2>5 DEF CommandsFit
  <2> QED BY <1>1, <1>2, <2>1, <2>4, <2>5, <2>6, AppendFits
<1> QED BY <1>1, <1>2 DEF Ob!Posts

LEMMA TimerKeeps ==
  ASSUME ObjectInv, NEW c \in Ob!Caller, NEW valid \in BOOLEAN,
         Ob!osTimerStart(c, valid) \/ Ob!osTimerStop(c, valid)
  PROVE  ObjectInv'
<1>0. Ob!Usable BY DEF Ob!osTimerStart, Ob!osTimerStop
<1>1. CASE Ob!Refused(c, "none", Ob!Refusal(c, valid))
  BY <1>1, RefusalIs, RefusalKeeps, InterruptCalls2
<1>2. CASE /\ Ob!Posts(c, "start", "osErrorResource") \/ Ob!Posts(c, "stop", "osError")
           /\ UNCHANGED <<obj, heap, objectWait>>
  <2>1. AnswerFits(answer') /\ (UNCHANGED pended \/ CommandsFit(pended', obj))
    BY <1>0, <1>2, PostsIs
  <2> QED BY <1>2, <2>1 DEF ObjectInv
<1>3. CASE /\ Ob!Returns(c, "none", "osErrorResource")
           /\ UNCHANGED <<obj, heap, objectWait, pended>>
  <2>1. AnswerFits(answer') BY <1>3, ReturnsFits, InterruptCalls2 DEF Ob!Status
  <2> QED BY <1>3, <2>1 DEF ObjectInv
<1> QED BY <1>1, <1>2, <1>3 DEF Ob!osTimerStart, Ob!osTimerStop

LEMMA TimerDeleteKeeps ==
  ASSUME ObjectInv, NEW c \in Ob!Caller, NEW valid \in BOOLEAN, Ob!osTimerDelete(c, valid)
  PROVE  ObjectInv'
<1>0. Ob!Usable BY DEF Ob!osTimerDelete
<1>1. CASE Ob!Refused(c, "none", Ob!Refusal(c, valid))
  BY <1>1, RefusalIs, RefusalKeeps, InterruptCalls2
<1>2. CASE /\ Ob!Posts(c, "delete", "osErrorResource") /\ UNCHANGED objectWait
           /\ IF pended' = pended THEN UNCHANGED <<obj, heap>>
                ELSE obj' = [obj EXCEPT !.deleted = TRUE] /\ heap' = Ob!FreeCallb(heap)
  <2>1. CASE UNCHANGED pended
    <3>1. AnswerFits(answer') BY <1>0, <1>2, PostsIs
    <3> QED BY <1>2, <2>1, <3>1 DEF ObjectInv
  <2>2. CASE pended' # pended
    <3>1. obj' = [obj EXCEPT !.deleted = TRUE] /\ heap' = heap \ {"callb"}
      BY <1>2, <2>2 DEF Ob!FreeCallb
    <3>2. ObjectTyped(obj') /\ obj'.kind = "timer" /\ obj'.deleted = TRUE /\ obj'.onHeap = obj.onHeap
      BY <1>0, <3>1 DEF ObjectInv, ObjectTyped, IsRecord, Ob!Usable
    <3>3. HeapFits(heap', obj') BY <3>1, <3>2 DEF ObjectInv, HeapFits
    <3>4. AnswerFits(answer') /\ CommandsFit(pended', obj')
      BY <1>0, <1>2, <2>2, <3>2, PostsIs
    <3> QED BY <1>2, <3>2, <3>3, <3>4 DEF ObjectInv
  <2> QED BY <2>1, <2>2
<1> QED BY <1>1, <1>2 DEF Ob!osTimerDelete

LEMMA CallbackKeeps ==
  ASSUME ObjectInv, Ob!TimerCallback
  PROVE  ObjectInv'
<1>1. PICK b \in BOOLEAN : obj' = [obj EXCEPT !.active = b] BY DEF Ob!TimerCallback
<1>2. UNCHANGED <<heap, objectWait, pended, answer>> BY DEF Ob!TimerCallback
<1>3. Alike(obj, obj') BY <1>1, InnerAlike DEF Inner
<1> QED BY <1>2, <1>3, AlikeKeeps DEF ObjectInv

LEMMA DaemonKeeps ==
  ASSUME ObjectInv, Ob!Daemon
  PROVE  ObjectInv'
<1> PICK command : command = Head(pended) OBVIOUS
<1>0. /\ pended # <<>> /\ pended' = Tail(pended) /\ UNCHANGED answer
      /\ CASE command.do = "set" -> Ob!SetBits(command.flags) /\ UNCHANGED heap
           [] command.do = "clear" -> /\ obj' = [obj EXCEPT !.bits = @ \ command.flags]
                                      /\ UNCHANGED <<heap, objectWait>>
           [] command.do = "delete" -> /\ obj' = Ob!NoObject /\ heap' = heap \ {"object"}
                                       /\ UNCHANGED objectWait
           [] OTHER -> /\ obj' = [obj EXCEPT !.active = command.do = "start"]
                       /\ UNCHANGED <<heap, objectWait>>
  BY DEF Ob!Daemon
<1>1. /\ CommandsFit(pended', obj)
      /\ command.do = "delete" => pended' = <<>> /\ obj.kind = "timer" /\ obj.deleted
  BY <1>0, TailFits DEF ObjectInv
<1>2. CASE command.do = "set"
  <2>1. Ob!SetBits(command.flags) /\ UNCHANGED heap BY <1>0, <1>2
  <2>2. Alike(obj, obj') /\ WaitsFit(objectWait') BY <2>1, SetBitsFits
  <2> QED BY <1>0, <1>1, <2>1, <2>2, AlikeKeeps DEF ObjectInv
<1>3. CASE command.do = "clear"
  <2>1. obj' = [obj EXCEPT !.bits = @ \ command.flags] /\ UNCHANGED <<heap, objectWait>>
    BY <1>0, <1>3
  <2>2. Alike(obj, obj') BY <2>1, InnerAlike DEF Inner
  <2> QED BY <1>0, <1>1, <2>1, <2>2, AlikeKeeps DEF ObjectInv
<1>4. CASE command.do = "delete"
  <2>1. obj' = Ob!NoObject /\ heap' = heap \ {"object"} /\ UNCHANGED objectWait
    BY <1>0, <1>4
  <2>2. ObjectTyped(obj') /\ HeapFits(heap', obj') /\ CommandsFit(pended', obj')
    BY <1>1, <1>4, <2>1, NoObjectFits
  <2> QED BY <1>0, <2>1, <2>2 DEF ObjectInv
<1>5. CASE command.do \notin {"set", "clear", "delete"}
  <2>1. obj' = [obj EXCEPT !.active = command.do = "start"] /\ UNCHANGED <<heap, objectWait>>
    BY <1>0, <1>5
  <2>2. Alike(obj, obj') BY <2>1, InnerAlike DEF Inner
  <2> QED BY <1>0, <1>1, <2>1, <2>2, AlikeKeeps DEF ObjectInv
<1> QED BY <1>2, <1>3, <1>4, <1>5

LEMMA ObjectsStart == ASSUME Ob!Init PROVE ObjectInv
<1>1. obj = Ob!NoObject /\ heap = {} /\ pended = <<>> /\ answer = Ob!NoAnswer
      /\ objectWait = [t \in Thread |-> Ob!NoWait]
  BY DEF Ob!Init
<1>2. obj.kind = "none" /\ obj.onHeap = FALSE /\ DOMAIN obj = {"kind", "onHeap"} /\ IsRecord(obj)
  BY <1>1 DEF Ob!NoObject, IsRecord
<1>3. ObjectTyped(obj) BY <1>2 DEF ObjectTyped
<1>4. HeapFits(heap, obj) BY <1>1, <1>2 DEF HeapFits
<1>5. CommandsFit(pended, obj)
  <2>1. pended \in Seq(Commands) /\ Len(pended) = 0 BY <1>1
  <2> QED BY <2>1 DEF CommandsFit
<1>6. WaitsFit(objectWait) BY <1>1, NoWaitTyped DEF WaitsFit, IsRecord
<1>7. AnswerFits(answer) BY <1>1 DEF AnswerFits
<1> QED BY <1>3, <1>4, <1>5, <1>6, <1>7 DEF ObjectInv

LEMMA ObjectsStep ==
  ASSUME Ob!ObjectsFit, ObjectInv, [Ob!Next]_(Ob!vars)
  PROVE  ObjectInv'
<1>1. CASE UNCHANGED Ob!vars BY <1>1 DEF Ob!vars, ObjectInv
<1>2. CASE Ob!Creation
  BY <1>2, SemaphoreMade, MutexMade, QueueMade, FlagsMade, TimerMade DEF Ob!Creation
<1>3. CASE Ob!TimerCallback \/ Ob!Daemon BY <1>3, CallbackKeeps, DaemonKeeps
<1>4. CASE \E c \in Ob!Caller, valid \in BOOLEAN : Ob!Deletion(c, valid)
  BY <1>4, DeletionKeeps, TimerDeleteKeeps
     DEF Ob!Deletion, Ob!osSemaphoreDelete, Ob!osMutexDelete, Ob!osMessageQueueDelete,
         Ob!osEventFlagsDelete
<1>5. CASE \E c \in Ob!Caller, valid \in BOOLEAN : Ob!Use(c, valid)
  <2>1. PICK c \in Ob!Caller, valid \in BOOLEAN : Ob!Use(c, valid) BY <1>5
  <2>2. CASE \/ Ob!osSemaphoreRelease(c, valid) \/ Ob!osMutexRelease(c, valid)
             \/ Ob!osMessageQueueReset(c, valid) \/ Ob!osTimerStart(c, valid)
             \/ Ob!osTimerStop(c, valid)
    BY <2>2, SemaphoreKeeps, MutexKeeps, QueueKeeps, TimerKeeps, InterruptCalls2
  <2>3. CASE \E f \in Flag : \/ Ob!osEventFlagsSet(c, valid, {f})
                             \/ Ob!osEventFlagsClear(c, valid, {f})
    <3>1. \A f \in Flag : {f} \in SUBSET Flag OBVIOUS
    <3> QED BY <2>3, <3>1, FlagsKeeps
  <2>4. CASE \E w \in Ob!Timeout :
               \/ Ob!osSemaphoreAcquire(c, valid, w) \/ Ob!osMutexAcquire(c, valid, w)
               \/ Ob!osMessageQueueGet(c, valid, w)
               \/ \E x \in Message : Ob!osMessageQueuePut(c, valid, w, x)
    BY <2>4, SemaphoreKeeps, MutexKeeps, QueueKeeps
  <2>5. CASE \E w \in Ob!Timeout, flags \in SUBSET Flag, all \in Ob!Modes, noClear \in BOOLEAN :
               Ob!osEventFlagsWait(c, valid, flags, all, noClear, w)
    BY <2>5, FlagsWaitKeeps
  <2> QED BY <2>1, <2>2, <2>3, <2>4, <2>5 DEF Ob!Use
<1>6. CASE \E t \in Thread : Ob!WaitServed(t) \/ Ob!WaitTimesOut(t) \/ Ob!FlagsWaitEnds(t)
  BY <1>6, ServedKeeps, OutKeeps, FlagsEndKeeps
<1> QED BY <1>1, <1>2, <1>3, <1>4, <1>5, <1>6 DEF Ob!Next

\* Of the objects of cmsis_os2.c, whoever calls what in any order, also interrupts, with
\* memory that may be exhausted and a full queue of commands: the heap has got back what
\* no object needs, and only a thread that was ready to wait is told of a time-out, and
\* then of nothing else (osTimerDelete and the New functions, cmsis_os2.c:914, 1053).
THEOREM ObjectsAreAccounted ==
  ASSUME Ob!ObjectsFit PROVE Ob!Spec => [](Ob!TypeOK /\ Ob!HeapBalanced /\ Ob!TimeOutsReported)
<1>1. Ob!Init => ObjectInv BY ObjectsStart
<1>2. ObjectInv /\ [Ob!Next]_(Ob!vars) => ObjectInv' BY ObjectsStep
<1>3. ObjectInv => Ob!TypeOK /\ Ob!HeapBalanced /\ Ob!TimeOutsReported
  <2> SUFFICES ASSUME ObjectInv PROVE Ob!TypeOK /\ Ob!HeapBalanced /\ Ob!TimeOutsReported
    OBVIOUS
  <2>1. Ob!HeapBalanced BY DEF ObjectInv, HeapFits, Ob!HeapBalanced
  <2>2. Ob!TimeOutsReported BY DEF ObjectInv, AnswerFits, Ob!TimeOutsReported
  <2>3. Ob!TypeOK
    BY DEF ObjectInv, ObjectTyped, HeapFits, WaitsFit, WaitTyped, CommandsFit, Commands,
       AnswerFits, Ob!TypeOK
  <2> QED BY <2>1, <2>2, <2>3
<1> QED BY <1>1, <1>2, <1>3, PTL DEF Ob!Spec

=============================================================================
