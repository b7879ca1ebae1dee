------------------------------- MODULE Deque --------------------------------
(* What the storage of a queue promises: items leave from the front, come at  *)
(* the back or at the front, and an item is what it was when it came.         *)
EXTENDS Naturals, Sequences

CONSTANTS Item, Lengths

VARIABLES items,
          room,   \* the most items
          got     \* what was received or peeked at last

vars == <<items, room, got>>

Init == items = <<>> /\ room \in Lengths /\ got \in Item

Full == Len(items) >= room

PushBack(x) == ~Full /\ items' = Append(items, x) /\ UNCHANGED <<room, got>>

PushFront(x) == ~Full /\ items' = <<x>> \o items /\ UNCHANGED <<room, got>>

\* The one item of a mailbox, if there is one, is replaced.
Overwrite(x) == room = 1 /\ items' = <<x>> /\ UNCHANGED <<room, got>>

Peek == items # <<>> /\ got' = Head(items) /\ UNCHANGED <<items, room>>

Pop == items # <<>> /\ got' = Head(items) /\ items' = Tail(items) /\ UNCHANGED room

Clear == items' = <<>> /\ UNCHANGED <<room, got>>

Next == \/ \E x \in Item : PushBack(x) \/ PushFront(x) \/ Overwrite(x)
        \/ Peek \/ Pop \/ Clear

Spec == Init /\ [][Next]_vars
=============================================================================
