----------------------------- MODULE LinkedList -----------------------------
(* The lists of list.c, link by link.  A list is a ring of nodes: its end     *)
(* marker xListEnd, which stands for the list here, and its items.  Callers   *)
(* hold the interrupt mask or the scheduler, so a call is one step.           *)
EXTENDS Naturals, FiniteSets

CONSTANTS List, Item,
          NULL,
          portMAX_DELAY   \* the greatest item value, that of the end markers

VARIABLES pxNext, pxPrevious,   \* of every node
          xItemValue,           \* of every item
          pxContainer,          \* the list an item is in, or NULL
          pxIndex,              \* of every list, the node last visited
          uxNumberOfItems       \* of every list

vars == <<pxNext, pxPrevious, xItemValue, pxContainer, pxIndex, uxNumberOfItems>>

Node == List \cup Item
Value == 0..portMAX_DELAY

TypeOK ==
  /\ pxNext \in [Node -> Node]
  /\ pxPrevious \in [Node -> Node]
  /\ xItemValue \in [Item -> Value]
  /\ pxContainer \in [Item -> List \cup {NULL}]
  /\ pxIndex \in [List -> Node]
  /\ uxNumberOfItems \in [List -> Nat]

\* vListInitialise, vListInitialiseItem.
Init ==
  /\ pxNext = [n \in Node |-> n]
  /\ pxPrevious = [n \in Node |-> n]
  /\ xItemValue \in [Item -> Value]
  /\ pxContainer = [i \in Item |-> NULL]
  /\ pxIndex = [l \in List |-> l]
  /\ uxNumberOfItems = [l \in List |-> 0]

ValueOf(n) == IF n \in List THEN portMAX_DELAY ELSE xItemValue[n]

\* Item i between node n and the one after it.
LinkAfter(l, i, n) ==
  /\ pxNext' = [pxNext EXCEPT ![i] = pxNext[n], ![n] = i]
  /\ pxPrevious' = [pxPrevious EXCEPT ![i] = n, ![pxNext[n]] = i]
  /\ pxContainer' = [pxContainer EXCEPT ![i] = l]
  /\ uxNumberOfItems' = [uxNumberOfItems EXCEPT ![l] = @ + 1]

\* Mutant: on the other side of the index.
InsertAfterIndex(l, i) ==
  /\ pxContainer[i] = NULL
  /\ LinkAfter(l, i, pxIndex[l])
  /\ UNCHANGED <<pxIndex, xItemValue>>

vListInsertEnd(l, i) ==
  /\ pxContainer[i] = NULL
  /\ LinkAfter(l, i, pxPrevious[pxIndex[l]])
  /\ UNCHANGED <<pxIndex, xItemValue>>

\* The nodes the loop of vListInsert stops at or passes: it goes on from a node
\* while the value of the one after it is not greater than v.
Passed(l, v) ==
  LET goneOn(S) == l \in S /\ \A n \in S :
                                ValueOf(pxNext[n]) <= v => pxNext[n] \in S
  IN  {n \in Node : \A S \in SUBSET Node : goneOn(S) => n \in S}

vListInsert(l, i) ==
  /\ pxContainer[i] = NULL
  /\ IF xItemValue[i] = portMAX_DELAY
       THEN LinkAfter(l, i, pxPrevious[l])
       ELSE \E n \in Passed(l, xItemValue[i]) :
              /\ ValueOf(pxNext[n]) > xItemValue[i]
              /\ LinkAfter(l, i, n)
  /\ UNCHANGED <<pxIndex, xItemValue>>

\* Mutant: the index is left at the item that goes.
RemoveUnderIndex(i) ==
  LET l == pxContainer[i]
  IN  /\ l # NULL
      /\ pxPrevious' = [pxPrevious EXCEPT ![pxNext[i]] = pxPrevious[i]]
      /\ pxNext' = [pxNext EXCEPT ![pxPrevious[i]] = pxNext[i]]
      /\ pxContainer' = [pxContainer EXCEPT ![i] = NULL]
      /\ uxNumberOfItems' = [uxNumberOfItems EXCEPT ![l] = @ - 1]
      /\ UNCHANGED <<pxIndex, xItemValue>>

\* The item keeps its own links.
uxListRemove(i) ==
  LET l == pxContainer[i]
  IN  /\ l # NULL
      /\ pxPrevious' = [pxPrevious EXCEPT ![pxNext[i]] = pxPrevious[i]]
      /\ pxNext' = [pxNext EXCEPT ![pxPrevious[i]] = pxNext[i]]
      /\ pxIndex' = [pxIndex EXCEPT ![l] = IF @ = i THEN pxPrevious[i] ELSE @]
      /\ pxContainer' = [pxContainer EXCEPT ![i] = NULL]
      /\ uxNumberOfItems' = [uxNumberOfItems EXCEPT ![l] = @ - 1]
      /\ UNCHANGED xItemValue

\* The next node, the end marker skipped.
listGET_OWNER_OF_NEXT_ENTRY(l) ==
  /\ uxNumberOfItems[l] > 0
  /\ pxIndex' = [pxIndex EXCEPT ![l] = IF pxNext[@] = l THEN pxNext[l]
                                       ELSE pxNext[@]]
  /\ UNCHANGED <<pxNext, pxPrevious, xItemValue, pxContainer, uxNumberOfItems>>

\* Also of an item that is in a list: priority inheritance does so.
listSET_LIST_ITEM_VALUE(i) ==
  /\ \E v \in Value : xItemValue' = [xItemValue EXCEPT ![i] = v]
  /\ UNCHANGED <<pxNext, pxPrevious, pxContainer, pxIndex, uxNumberOfItems>>

Next == \/ \E l \in List, i \in Item : vListInsert(l, i) \/ vListInsertEnd(l, i)
        \/ \E i \in Item : uxListRemove(i) \/ listSET_LIST_ITEM_VALUE(i)
        \/ \E l \in List : listGET_OWNER_OF_NEXT_ENTRY(l)

Spec == Init /\ [][Next]_vars

--------------------

InList(l) == {l} \cup {i \in Item : pxContainer[i] = l}

\* The links stay inside the list and undo each other, and the index is at one of
\* its nodes.
LinkedBothWays(l) ==
  /\ \A n \in InList(l) : /\ pxNext[n] \in InList(l)
                          /\ pxPrevious[n] \in InList(l)
                          /\ pxPrevious[pxNext[n]] = n
                          /\ pxNext[pxPrevious[n]] = n
  /\ pxIndex[l] \in InList(l)

\* Every item is reached from the end marker.
OneRing(l) ==
  \A S \in SUBSET InList(l) :
    l \in S /\ (\A n \in S : pxNext[n] \in S) => S = InList(l)

Counted(l) ==
  uxNumberOfItems[l] = Cardinality({i \in Item : pxContainer[i] = l})

\* Whatever is inserted and removed, a list is one ring linked both ways, and
\* its count is that of its items (list.c:76, 104, 168).
WellLinked == \A l \in List : LinkedBothWays(l) /\ OneRing(l) /\ Counted(l)

\* The items from the head on.
Order(l) ==
  LET at[p \in 0..uxNumberOfItems[l]] == IF p = 0 THEN l ELSE pxNext[at[p - 1]]
  IN  [p \in 1..uxNumberOfItems[l] |-> at[p]]

Place(l) == IF pxIndex[l] = l THEN 0
            ELSE CHOOSE p \in DOMAIN Order(l) : Order(l)[p] = pxIndex[l]

Abstract == INSTANCE OrderedList WITH
              MaxValue <- portMAX_DELAY, value <- xItemValue,
              items <- [l \in List |-> Order(l)],
              cursor <- [l \in List |-> Place(l)]

\* The ring is a sequence: sorted insertion keeps the order among equals, an
\* insertion at the end is the last to be visited, and a removal under the
\* cursor neither skips an item nor visits one twice (list.c:104, 145, 182).
ImplementsOrderedList == Abstract!Spec
=============================================================================
