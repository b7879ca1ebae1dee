----------------------------- MODULE OrderedList -----------------------------
(* What the scheduler relies on a List_t for: a sequence of items, and a      *)
(* cursor that visits them in turn.                                           *)
EXTENDS Naturals, Sequences, SequencesExt

CONSTANTS List, Item, MaxValue

VARIABLES items,     \* per list, its items from the head on
          cursor,    \* per list, the place last visited, 0 for none
          value      \* per item, what lists are ordered by

vars == <<items, cursor, value>>

Init == /\ items = [l \in List |-> <<>>]
        /\ cursor = [l \in List |-> 0]
        /\ value \in [Item -> 0..MaxValue]

Listed(i) == \E l \in List : i \in {items[l][p] : p \in DOMAIN items[l]}

\* i comes to place p; the cursor stays with the item it is at.
Put(l, i, p) ==
  /\ ~Listed(i)
  /\ items' = [items EXCEPT ![l] = InsertAt(@, p, i)]
  /\ cursor' = [cursor EXCEPT ![l] = IF @ >= p THEN @ + 1 ELSE @]
  /\ UNCHANGED value

\* After those that are not greater, as far as the first one that is.
InsertInOrder(l, i) ==
  LET before == {n \in 0..Len(items[l]) :
                   \A m \in 1..n : value[items[l][m]] <= value[i]}
      last == CHOOSE n \in before : \A m \in before : m <= n
  IN  Put(l, i, last + 1)

\* An item of the greatest value goes to the end whatever the order.
InsertLast(l, i) == value[i] = MaxValue /\ Put(l, i, Len(items[l]) + 1)

\* It is the last of all to be visited.
InsertToVisitLast(l, i) ==
  Put(l, i, IF cursor[l] = 0 THEN Len(items[l]) + 1 ELSE cursor[l])

TakeOut(l, p) ==
  /\ p \in DOMAIN items[l]
  /\ items' = [items EXCEPT ![l] = RemoveAt(@, p)]
  /\ cursor' = [cursor EXCEPT ![l] = IF @ >= p THEN @ - 1 ELSE @]
  /\ UNCHANGED value

VisitNext(l) ==
  /\ items[l] # <<>>
  /\ cursor' = [cursor EXCEPT ![l] = (@ % Len(items[l])) + 1]
  /\ UNCHANGED <<items, value>>

SetValue(i) ==
  /\ \E v \in 0..MaxValue : value' = [value EXCEPT ![i] = v]
  /\ UNCHANGED <<items, cursor>>

Next == \/ \E l \in List, i \in Item :
             InsertInOrder(l, i) \/ InsertLast(l, i) \/ InsertToVisitLast(l, i)
        \/ \E l \in List : \E p \in DOMAIN items[l] : TakeOut(l, p)
        \/ \E l \in List : VisitNext(l)
        \/ \E i \in Item : SetValue(i)

Spec == Init /\ [][Next]_vars
=============================================================================
