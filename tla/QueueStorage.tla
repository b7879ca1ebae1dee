---------------------------- MODULE QueueStorage ----------------------------
(* The ring of items in a queue of queue.c: what the critical sections of the *)
(* send, receive and reset functions, of tasks, interrupts and co-routines    *)
(* alike, do with the storage.  Who waits and who wakes is in Queue.          *)
EXTENDS Integers, Sequences

CONSTANTS Item,
          Lengths   \* the lengths queues are created with

VARIABLES uxLength,
          pcWriteTo,         \* the free place that is written next
          pcReadFrom,        \* the place that was read last
          uxMessagesWaiting,
          storage,           \* places 0 to uxLength - 1, pcTail being uxLength
          pvBuffer           \* what was received or peeked at last

vars == <<uxLength, pcWriteTo, pcReadFrom, uxMessagesWaiting, storage, pvBuffer>>

Place == 0..(uxLength - 1)

TypeOK ==
  /\ uxLength \in Lengths
  /\ pcWriteTo \in Place /\ pcReadFrom \in Place
  /\ uxMessagesWaiting \in 0..uxLength
  /\ storage \in [Place -> Item]
  /\ pvBuffer \in Item

\* pvPortMalloc gives whatever was there, as does the caller of the static version.
Init ==
  /\ uxLength \in Lengths
  /\ storage \in [Place -> Item] /\ pvBuffer \in Item
  /\ uxMessagesWaiting = 0 /\ pcWriteTo = 0 /\ pcReadFrom = uxLength - 1

xQueueGenericReset ==
  /\ uxMessagesWaiting' = 0 /\ pcWriteTo' = 0 /\ pcReadFrom' = uxLength - 1
  /\ UNCHANGED <<uxLength, storage, pvBuffer>>

After(place) == IF place + 1 >= uxLength THEN 0 ELSE place + 1
Before(place) == IF place - 1 < 0 THEN uxLength - 1 ELSE place - 1

--------------------
(* prvCopyDataToQueue, by xPosition.                                          *)

SendToBack(x) ==
  /\ uxMessagesWaiting < uxLength
  /\ storage' = [storage EXCEPT ![pcWriteTo] = x]
  /\ pcWriteTo' = After(pcWriteTo)
  /\ uxMessagesWaiting' = uxMessagesWaiting + 1
  /\ UNCHANGED <<uxLength, pcReadFrom, pvBuffer>>

\* Mutant: the place in front is written, as by a pcReadFrom that is read next.
SendToFrontBefore(x) ==
  /\ uxMessagesWaiting < uxLength
  /\ pcReadFrom' = Before(pcReadFrom)
  /\ storage' = [storage EXCEPT ![Before(pcReadFrom)] = x]
  /\ uxMessagesWaiting' = uxMessagesWaiting + 1
  /\ UNCHANGED <<uxLength, pcWriteTo, pvBuffer>>

SendToFront(x) ==
  /\ uxMessagesWaiting < uxLength
  /\ storage' = [storage EXCEPT ![pcReadFrom] = x]
  /\ pcReadFrom' = Before(pcReadFrom)
  /\ uxMessagesWaiting' = uxMessagesWaiting + 1
  /\ UNCHANGED <<uxLength, pcWriteTo, pvBuffer>>

\* xQueueOverwrite, also of a full queue, which has one place; pcWriteTo stays.
Overwrite(x) ==
  /\ uxLength = 1
  /\ storage' = [storage EXCEPT ![pcReadFrom] = x]
  /\ pcReadFrom' = Before(pcReadFrom)
  /\ uxMessagesWaiting' = IF uxMessagesWaiting > 0 THEN uxMessagesWaiting
                                                   ELSE uxMessagesWaiting + 1
  /\ UNCHANGED <<uxLength, pcWriteTo, pvBuffer>>

\* prvCopyDataFromQueue.
xQueueReceive ==
  /\ uxMessagesWaiting > 0
  /\ pcReadFrom' = After(pcReadFrom) /\ pvBuffer' = storage[After(pcReadFrom)]
  /\ uxMessagesWaiting' = uxMessagesWaiting - 1
  /\ UNCHANGED <<uxLength, pcWriteTo, storage>>

\* pcReadFrom is put back, for the item stays.
xQueuePeek ==
  /\ uxMessagesWaiting > 0
  /\ pvBuffer' = storage[After(pcReadFrom)]
  /\ UNCHANGED <<uxLength, pcWriteTo, pcReadFrom, uxMessagesWaiting, storage>>

Next ==
  \/ \E x \in Item : SendToBack(x) \/ SendToFront(x) \/ Overwrite(x)
  \/ xQueueReceive \/ xQueuePeek \/ xQueueGenericReset

Spec == Init /\ [][Next]_vars

--------------------

\* The place of the i-th item, and the items in their order.
Ahead(i) == IF pcReadFrom + i >= uxLength THEN pcReadFrom + i - uxLength
                                          ELSE pcReadFrom + i

Contents == [i \in 1..uxMessagesWaiting |-> storage[Ahead(i)]]

\* The two pointers are as far apart as there are items.
PointersAgree == pcWriteTo = After(Ahead(uxMessagesWaiting))

Abstract == INSTANCE Deque WITH items <- Contents, room <- uxLength, got <- pvBuffer

\* However sends to the back and the front, receives and resets follow each other,
\* the ring is a sequence of items that loses, doubles and reorders none (queue.c:2110).
ImplementsDeque == Abstract!Spec
=============================================================================
