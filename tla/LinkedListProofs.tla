-------------------------- MODULE LinkedListProofs --------------------------
\* The lists of list.c stay well linked and are sequences of items, for any
\* number of lists and items and any range of item values; the ring of a
\* queue is a sequence of items too, for every length; the Ethernet
\* controller is configured when it is said to be up, however long transfers
\* take; a mail queue loses no block, for any number of them.
EXTENDS LinkedList, FiniteSetTheorems, SequenceTheorems, WellFoundedInduction, TLAPS

\* What the theorems assume: an item is not an end marker, items are finitely
\* many, and no list is at the address NULL.
Distinct == /\ List \cap Item = {}
            /\ NULL \notin List
            /\ IsFiniteSet(Item)
            /\ portMAX_DELAY \in Nat

IInv == TypeOK /\ WellLinked

ItemsOf(l) == {i \in Item : pxContainer[i] = l}

\* An item that goes between two nodes changes four links and one count.
LEMMA LinkFacts ==
  ASSUME Distinct, TypeOK, NEW l \in List, NEW i \in Item, NEW n \in Node,
         pxContainer[i] = NULL, n # i, pxNext[n] # i, LinkAfter(l, i, n)
  PROVE  /\ pxNext' \in [Node -> Node] /\ pxPrevious' \in [Node -> Node]
         /\ pxNext'[i] = pxNext[n] /\ pxNext'[n] = i
         /\ \A x \in Node \ {i, n} : pxNext'[x] = pxNext[x]
         /\ pxPrevious'[i] = n /\ pxPrevious'[pxNext[n]] = i
         /\ \A x \in Node \ {i, pxNext[n]} : pxPrevious'[x] = pxPrevious[x]
         /\ pxContainer' \in [Item -> List \cup {NULL}]
         /\ pxContainer'[i] = l
         /\ \A x \in Item \ {i} : pxContainer'[x] = pxContainer[x]
         /\ uxNumberOfItems' \in [List -> Nat]
         /\ uxNumberOfItems'[l] = uxNumberOfItems[l] + 1
         /\ \A k \in List \ {l} : uxNumberOfItems'[k] = uxNumberOfItems[k]
BY DEF Distinct, TypeOK, LinkAfter, Node

\* The lists as sets of nodes.
LEMMA LinkSets ==
  ASSUME Distinct, TypeOK, NEW l \in List, NEW i \in Item,
         pxContainer[i] = NULL, pxContainer'[i] = l,
         \A x \in Item \ {i} : pxContainer'[x] = pxContainer[x]
  PROVE  /\ i \notin InList(l)
         /\ InList(l)' = InList(l) \cup {i}
         /\ ItemsOf(l)' = ItemsOf(l) \cup {i}
         /\ \A k \in List \ {l} : /\ InList(k)' = InList(k)
                                  /\ ItemsOf(k)' = ItemsOf(k)
                                  /\ i \notin InList(k)
BY DEF Distinct, TypeOK, InList, ItemsOf

\* Rings of different lists have no node in common.
LEMMA Apart ==
  ASSUME Distinct, TypeOK, NEW l \in List, NEW k \in List, k # l
  PROVE  InList(k) \cap InList(l) = {}
BY DEF Distinct, TypeOK, InList

LEMMA InListNodes ==
  ASSUME NEW l \in List
  PROVE  l \in InList(l) /\ InList(l) \subseteq Node
BY DEF InList, Node

\* Linking an item into a list leaves all lists well linked.
LEMMA LinkKeepsWellLinked ==
  ASSUME Distinct, IInv, NEW l \in List, NEW i \in Item, NEW n \in InList(l),
         pxContainer[i] = NULL, LinkAfter(l, i, n), UNCHANGED pxIndex
  PROVE  WellLinked'
<1>0. /\ TypeOK /\ WellLinked /\ n \in Node /\ LinkedBothWays(l) /\ OneRing(l)
      /\ i \notin InList(l) /\ n # i /\ pxNext[n] \in InList(l) /\ pxNext[n] # i
  BY InListNodes DEF IInv, WellLinked, LinkedBothWays, InList, Distinct
<1>1. /\ pxNext'[i] = pxNext[n] /\ pxNext'[n] = i
      /\ \A x \in Node \ {i, n} : pxNext'[x] = pxNext[x]
      /\ pxPrevious'[i] = n /\ pxPrevious'[pxNext[n]] = i
      /\ \A x \in Node \ {i, pxNext[n]} : pxPrevious'[x] = pxPrevious[x]
      /\ pxContainer'[i] = l
      /\ \A x \in Item \ {i} : pxContainer'[x] = pxContainer[x]
      /\ uxNumberOfItems'[l] = uxNumberOfItems[l] + 1
      /\ \A k \in List \ {l} : uxNumberOfItems'[k] = uxNumberOfItems[k]
  BY <1>0, LinkFacts
<1>2. /\ InList(l)' = InList(l) \cup {i}
      /\ ItemsOf(l)' = ItemsOf(l) \cup {i}
      /\ \A k \in List \ {l} : /\ InList(k)' = InList(k)
                               /\ ItemsOf(k)' = ItemsOf(k)
                               /\ i \notin InList(k)
  BY <1>0, <1>1, LinkSets
<1>3. SUFFICES ASSUME NEW k \in List
               PROVE  (LinkedBothWays(k) /\ OneRing(k) /\ Counted(k))'
  BY DEF WellLinked
<1>4. LinkedBothWays(k) /\ OneRing(k) /\ Counted(k) BY <1>0 DEF WellLinked
<1>5. CASE k # l
  <2>1. InList(k) \cap InList(l) = {} /\ InList(k) \subseteq Node
    BY <1>0, <1>5, Apart, InListNodes
  <2>2. \A x \in InList(k) : /\ pxNext'[x] = pxNext[x]
                             /\ pxPrevious'[x] = pxPrevious[x]
    BY <2>1, <1>0, <1>1, <1>2, <1>5
  <2>3. LinkedBothWays(k)' BY <2>2, <1>2, <1>4, <1>5 DEF LinkedBothWays
  <2>4. OneRing(k)' BY <2>2, <1>2, <1>4, <1>5 DEF OneRing
  <2>5. Counted(k)' BY <1>1, <1>2, <1>4, <1>5 DEF Counted, ItemsOf
  <2> QED BY <2>3, <2>4, <2>5
<1>6. CASE k = l
  <2>1. LinkedBothWays(l)'
    <3>1. ASSUME NEW x \in InList(l) \cup {i}
          PROVE  /\ pxNext'[x] \in InList(l) \cup {i}
                 /\ pxPrevious'[x] \in InList(l) \cup {i}
                 /\ pxPrevious'[pxNext'[x]] = x
                 /\ pxNext'[pxPrevious'[x]] = x
      <4>1. CASE x = i BY <4>1, <1>0, <1>1
      <4>2. CASE x # i
        <5>1. x \in InList(l) /\ x \in Node /\ pxNext[x] \in InList(l)
              /\ pxPrevious[x] \in InList(l) /\ pxNext[x] \in Node
              /\ pxPrevious[x] \in Node /\ pxPrevious[pxNext[x]] = x
              /\ pxNext[pxPrevious[x]] = x /\ pxPrevious[pxNext[n]] = n
          BY <4>2, <1>0, InListNodes DEF LinkedBothWays
        <5>2. /\ pxNext'[x] \in InList(l) \cup {i}
              /\ pxPrevious'[pxNext'[x]] = x
          BY <4>2, <5>1, <1>0, <1>1
        <5>3. /\ pxPrevious'[x] \in InList(l) \cup {i}
              /\ pxNext'[pxPrevious'[x]] = x
          BY <4>2, <5>1, <1>0, <1>1
        <5> QED BY <5>2, <5>3
      <4> QED BY <4>1, <4>2
    <3>2. pxIndex'[l] \in InList(l) \cup {i} BY <1>0 DEF LinkedBothWays
    <3> QED BY <3>1, <3>2, <1>2 DEF LinkedBothWays
  <2>2. OneRing(l)'
    <3>1. SUFFICES ASSUME NEW S \in SUBSET (InList(l) \cup {i}), l \in S,
                          \A x \in S : pxNext'[x] \in S
                   PROVE  S = InList(l) \cup {i}
      BY <1>2 DEF OneRing
    <3>2. \A x \in S \ {i} : pxNext[x] \in S \ {i}
      <4>1. TAKE x \in S \ {i}
      <4>2. x \in Node /\ pxNext[x] \in InList(l) BY <1>0, InListNodes DEF LinkedBothWays
      <4>3. CASE x = n BY <4>3, <3>1, <1>0, <1>1
      <4>4. CASE x # n BY <4>2, <4>4, <3>1, <1>0, <1>1
      <4> QED BY <4>3, <4>4
    <3>3. S \ {i} \in SUBSET InList(l) /\ l \in S \ {i} BY <3>1, <1>0, InListNodes
    <3>4. S \ {i} = InList(l) BY <3>2, <3>3, <1>0 DEF OneRing
    <3>5. i \in S BY <3>4, <3>1, <1>1
    <3> QED BY <3>4, <3>5
  <2>3. Counted(l)'
    <3>1. IsFiniteSet(ItemsOf(l)) /\ i \notin ItemsOf(l)
      BY <1>0, FS_Subset DEF ItemsOf, Distinct, InList
    <3>2. Cardinality(ItemsOf(l) \cup {i}) = Cardinality(ItemsOf(l)) + 1
      BY <3>1, FS_AddElement
    <3>3. Counted(l) /\ Cardinality(ItemsOf(l)) = uxNumberOfItems[l]
      BY <1>4, <1>6 DEF Counted, ItemsOf
    <3>4. Cardinality(ItemsOf(l)') = uxNumberOfItems'[l] BY <3>2, <3>3, <1>1, <1>2
    <3> QED BY <3>4 DEF Counted, ItemsOf
  <2> QED BY <1>6, <2>1, <2>2, <2>3
<1> QED BY <1>5, <1>6

\* The loop of vListInsert stays in the list.
LEMMA PassedInList ==
  ASSUME IInv, NEW l \in List, NEW v
  PROVE  Passed(l, v) \subseteq InList(l)
<1>1. InList(l) \in SUBSET Node /\ l \in InList(l)
      /\ \A n \in InList(l) : pxNext[n] \in InList(l)
  BY InListNodes DEF IInv, WellLinked, LinkedBothWays
<1> QED BY <1>1 DEF Passed

\* What an item that leaves its list changes.
LEMMA UnlinkFacts ==
  ASSUME Distinct, TypeOK, NEW i \in Item, uxListRemove(i),
         uxNumberOfItems[pxContainer[i]] > 0
  PROVE  /\ pxNext' \in [Node -> Node] /\ pxPrevious' \in [Node -> Node]
         /\ pxNext'[pxPrevious[i]] = pxNext[i]
         /\ \A x \in Node \ {pxPrevious[i]} : pxNext'[x] = pxNext[x]
         /\ pxPrevious'[pxNext[i]] = pxPrevious[i]
         /\ \A x \in Node \ {pxNext[i]} : pxPrevious'[x] = pxPrevious[x]
         /\ pxContainer[i] \in List
         /\ pxContainer' \in [Item -> List \cup {NULL}]
         /\ pxContainer'[i] = NULL
         /\ \A x \in Item \ {i} : pxContainer'[x] = pxContainer[x]
         /\ uxNumberOfItems' \in [List -> Nat]
         /\ uxNumberOfItems'[pxContainer[i]] = uxNumberOfItems[pxContainer[i]] - 1
         /\ \A k \in List \ {pxContainer[i]} :
              uxNumberOfItems'[k] = uxNumberOfItems[k]
         /\ pxIndex' \in [List -> Node]
         /\ pxIndex'[pxContainer[i]] =
              IF pxIndex[pxContainer[i]] = i THEN pxPrevious[i]
              ELSE pxIndex[pxContainer[i]]
         /\ \A k \in List \ {pxContainer[i]} : pxIndex'[k] = pxIndex[k]
BY DEF Distinct, TypeOK, uxListRemove, Node

LEMMA UnlinkSets ==
  ASSUME Distinct, TypeOK, NEW l \in List, NEW i \in Item,
         pxContainer[i] = l, pxContainer'[i] = NULL,
         \A x \in Item \ {i} : pxContainer'[x] = pxContainer[x]
  PROVE  /\ i \in InList(l) /\ i # l /\ i \in ItemsOf(l)
         /\ InList(l)' = InList(l) \ {i}
         /\ ItemsOf(l)' = ItemsOf(l) \ {i}
         /\ \A k \in List \ {l} : /\ InList(k)' = InList(k)
                                  /\ ItemsOf(k)' = ItemsOf(k)
BY DEF Distinct, TypeOK, InList, ItemsOf

\* A list with an item counts at least one.
LEMMA CountPositive ==
  ASSUME Distinct, IInv, NEW i \in Item, pxContainer[i] \in List
  PROVE  uxNumberOfItems[pxContainer[i]] > 0
<1> DEFINE l == pxContainer[i]
<1>1. IsFiniteSet(ItemsOf(l)) /\ i \in ItemsOf(l) BY FS_Subset DEF ItemsOf, Distinct
<1>2. Cardinality(ItemsOf(l)) # 0 /\ Cardinality(ItemsOf(l)) \in Nat
  BY <1>1, FS_EmptySet, FS_CardinalityType
<1>3. uxNumberOfItems[l] = Cardinality(ItemsOf(l))
  BY DEF IInv, WellLinked, Counted, ItemsOf
<1> QED BY <1>2, <1>3

LEMMA RemoveKeepsWellLinked ==
  ASSUME Distinct, IInv, NEW i \in Item, uxListRemove(i), NEW l, NEW p, NEW m,
         l = pxContainer[i], p = pxPrevious[i], m = pxNext[i]
  PROVE  TypeOK' /\ WellLinked'
<1>0. /\ TypeOK /\ WellLinked /\ l \in List BY DEF IInv, uxListRemove, TypeOK
<1>1. uxNumberOfItems[l] > 0 BY <1>0, CountPositive
<1>2. /\ pxNext' \in [Node -> Node] /\ pxPrevious' \in [Node -> Node]
      /\ pxNext'[p] = m
      /\ \A x \in Node \ {p} : pxNext'[x] = pxNext[x]
      /\ pxPrevious'[m] = p
      /\ \A x \in Node \ {m} : pxPrevious'[x] = pxPrevious[x]
      /\ pxContainer' \in [Item -> List \cup {NULL}]
      /\ pxContainer'[i] = NULL
      /\ \A x \in Item \ {i} : pxContainer'[x] = pxContainer[x]
      /\ uxNumberOfItems' \in [List -> Nat]
      /\ uxNumberOfItems'[l] = uxNumberOfItems[l] - 1
      /\ \A k \in List \ {l} : uxNumberOfItems'[k] = uxNumberOfItems[k]
      /\ pxIndex' \in [List -> Node]
      /\ pxIndex'[l] = IF pxIndex[l] = i THEN p ELSE pxIndex[l]
      /\ \A k \in List \ {l} : pxIndex'[k] = pxIndex[k]
  BY <1>0, <1>1, UnlinkFacts
<1>3. TypeOK' BY <1>0, <1>2 DEF TypeOK, uxListRemove
<1>4. /\ i \in InList(l) /\ i # l /\ i \in ItemsOf(l)
      /\ InList(l)' = InList(l) \ {i}
      /\ ItemsOf(l)' = ItemsOf(l) \ {i}
      /\ \A k \in List \ {l} : /\ InList(k)' = InList(k)
                               /\ ItemsOf(k)' = ItemsOf(k)
  BY <1>0, <1>2, UnlinkSets
<1>5. /\ LinkedBothWays(l) /\ OneRing(l) /\ Counted(l)
      /\ InList(l) \subseteq Node /\ l \in InList(l)
      /\ p \in InList(l) /\ m \in InList(l)
      /\ pxNext[p] = i /\ pxPrevious[m] = i
  BY <1>0, <1>4, InListNodes DEF WellLinked, LinkedBothWays
<1>6. p # i /\ m # i
  <2>1. SUFFICES ASSUME p = i \/ m = i PROVE FALSE OBVIOUS
  <2>2. p = i /\ m = i BY <2>1, <1>4, <1>5 DEF LinkedBothWays
  <2>3. \A x \in InList(l) \ {i} : pxNext[x] \in InList(l) \ {i}
    BY <2>2, <1>4, <1>5 DEF LinkedBothWays
  <2> QED BY <2>3, <1>4, <1>5 DEF OneRing
<1>7. SUFFICES ASSUME NEW k \in List
               PROVE  (LinkedBothWays(k) /\ OneRing(k) /\ Counted(k))'
  BY <1>3 DEF WellLinked
<1>8. CASE k # l
  <2>1. /\ InList(k) \cap InList(l) = {} /\ InList(k) \subseteq Node
        /\ LinkedBothWays(k) /\ OneRing(k) /\ Counted(k)
    BY <1>0, <1>8, Apart, InListNodes DEF WellLinked
  <2>2. \A x \in InList(k) : /\ pxNext'[x] = pxNext[x]
                             /\ pxPrevious'[x] = pxPrevious[x]
    BY <2>1, <1>2, <1>5
  <2>3. LinkedBothWays(k)' BY <2>1, <2>2, <1>2, <1>4, <1>8 DEF LinkedBothWays
  <2>4. OneRing(k)' BY <2>1, <2>2, <1>4, <1>8 DEF OneRing
  <2>5. Counted(k)' BY <2>1, <1>2, <1>4, <1>8 DEF Counted, ItemsOf
  <2> QED BY <2>3, <2>4, <2>5
<1>9. CASE k = l
  <2>1. LinkedBothWays(l)'
    <3>1. ASSUME NEW x \in InList(l) \ {i}
          PROVE  /\ pxNext'[x] \in InList(l) \ {i}
                 /\ pxPrevious'[x] \in InList(l) \ {i}
                 /\ pxPrevious'[pxNext'[x]] = x
                 /\ pxNext'[pxPrevious'[x]] = x
      <4>1. x \in Node /\ pxNext[x] \in InList(l) /\ pxPrevious[x] \in InList(l)
            /\ pxNext[x] \in Node /\ pxPrevious[x] \in Node
            /\ pxPrevious[pxNext[x]] = x /\ pxNext[pxPrevious[x]] = x
            /\ m \in Node /\ p \in Node
        BY <1>5 DEF LinkedBothWays
      <4>2. /\ pxNext'[x] \in InList(l) \ {i} /\ pxPrevious'[pxNext'[x]] = x
        <5>1. CASE x = p BY <5>1, <1>2, <1>5, <1>6
        <5>2. CASE x # p BY <5>2, <4>1, <1>2, <1>5
        <5> QED BY <5>1, <5>2
      <4>3. /\ pxPrevious'[x] \in InList(l) \ {i} /\ pxNext'[pxPrevious'[x]] = x
        <5>1. CASE x = m BY <5>1, <1>2, <1>5, <1>6
        <5>2. CASE x # m BY <5>2, <4>1, <1>2, <1>5
        <5> QED BY <5>1, <5>2
      <4> QED BY <4>2, <4>3
    <3>2. pxIndex'[l] \in InList(l) \ {i} BY <1>2, <1>5, <1>6 DEF LinkedBothWays
    <3> QED BY <3>1, <3>2, <1>4 DEF LinkedBothWays
  <2>2. OneRing(l)'
    <3>1. SUFFICES ASSUME NEW S \in SUBSET (InList(l) \ {i}), l \in S,
                          \A x \in S : pxNext'[x] \in S
                   PROVE  S = InList(l) \ {i}
      BY <1>4 DEF OneRing
    <3>2. p \in S
      <4>1. SUFFICES ASSUME p \notin S PROVE FALSE OBVIOUS
      <4>2. \A x \in S : pxNext[x] \in S BY <4>1, <3>1, <1>2, <1>5
      <4>3. S = InList(l) BY <4>2, <3>1, <1>5 DEF OneRing
      <4> QED BY <4>3, <3>1, <1>4
    <3>3. \A x \in S \cup {i} : pxNext[x] \in S \cup {i}
      <4>1. TAKE x \in S \cup {i}
      <4>2. CASE x = i BY <4>2, <3>1, <3>2, <1>2
      <4>3. CASE x # i /\ x = p BY <4>3, <1>5
      <4>4. CASE x # i /\ x # p BY <4>4, <3>1, <1>2, <1>5
      <4> QED BY <4>2, <4>3, <4>4
    <3>4. S \cup {i} = InList(l)
      <4> DEFINE R == S \cup {i}
      <4>1. R \in SUBSET InList(l) /\ l \in R /\ \A x \in R : pxNext[x] \in R
        BY <3>1, <3>3, <1>4
      <4> HIDE DEF R
      <4>2. R = InList(l) BY <4>1, <1>5 DEF OneRing
      <4> QED BY <4>2 DEF R
    <3> QED BY <3>1, <3>4
  <2>3. Counted(l)'
    <3>1. IsFiniteSet(ItemsOf(l)) BY FS_Subset DEF ItemsOf, Distinct
    <3>2. Cardinality(ItemsOf(l) \ {i}) = Cardinality(ItemsOf(l)) - 1
      BY <3>1, <1>4, FS_RemoveElement
    <3>3. Cardinality(ItemsOf(l)) = uxNumberOfItems[l] BY <1>5 DEF Counted, ItemsOf
    <3>4. Cardinality(ItemsOf(l)') = uxNumberOfItems'[l] BY <3>2, <3>3, <1>2, <1>4
    <3> QED BY <3>4 DEF Counted, ItemsOf
  <2> QED BY <1>9, <2>1, <2>2, <2>3
<1> QED BY <1>8, <1>9

LEMMA InitIInv == ASSUME Distinct, Init PROVE IInv
<1>1. TypeOK BY DEF Init, TypeOK, Node, Value
<1>2. ASSUME NEW l \in List
      PROVE  LinkedBothWays(l) /\ OneRing(l) /\ Counted(l)
  <2>1. InList(l) = {l} /\ {i \in Item : pxContainer[i] = l} = {} /\ l \in Node
    BY DEF Init, Distinct, InList, Node
  <2>2. LinkedBothWays(l) /\ OneRing(l) BY <2>1 DEF Init, LinkedBothWays, OneRing
  <2>3. Counted(l) BY <2>1, FS_EmptySet DEF Init, Counted
  <2> QED BY <2>2, <2>3
<1> QED BY <1>1, <1>2 DEF IInv, WellLinked

\* An insertion keeps the types.
LEMMA LinkKeepsType ==
  ASSUME Distinct, IInv, NEW l \in List, NEW i \in Item, NEW n \in InList(l),
         pxContainer[i] = NULL, LinkAfter(l, i, n),
         UNCHANGED <<pxIndex, xItemValue>>
  PROVE  TypeOK'
<1>1. n \in Node /\ n # i /\ pxNext[n] # i
  BY InListNodes DEF IInv, WellLinked, LinkedBothWays, InList, Distinct
<1>2. TypeOK BY DEF IInv
<1>3. /\ pxNext' \in [Node -> Node] /\ pxPrevious' \in [Node -> Node]
      /\ pxContainer' \in [Item -> List \cup {NULL}]
      /\ uxNumberOfItems' \in [List -> Nat]
  BY <1>1, <1>2, LinkFacts
<1> QED BY <1>2, <1>3 DEF TypeOK

LEMMA StepIInv == ASSUME Distinct, IInv, [Next]_vars PROVE IInv'
<1>0. TypeOK /\ WellLinked BY DEF IInv
<1>1. ASSUME NEW l \in List, NEW i \in Item, vListInsertEnd(l, i) PROVE IInv'
  <2>1. pxPrevious[pxIndex[l]] \in InList(l) BY <1>0 DEF WellLinked, LinkedBothWays
  <2> QED BY <1>1, <2>1, LinkKeepsType, LinkKeepsWellLinked
          DEF vListInsertEnd, IInv
<1>2. ASSUME NEW l \in List, NEW i \in Item, vListInsert(l, i) PROVE IInv'
  <2>1. \E n \in InList(l) : LinkAfter(l, i, n)
    <3>1. pxPrevious[l] \in InList(l) BY <1>0, InListNodes DEF WellLinked, LinkedBothWays
    <3>2. Passed(l, xItemValue[i]) \subseteq InList(l) BY PassedInList
    <3> QED BY <1>2, <3>1, <3>2 DEF vListInsert
  <2> QED BY <1>2, <2>1, LinkKeepsType, LinkKeepsWellLinked
          DEF vListInsert, IInv
<1>3. ASSUME NEW i \in Item, uxListRemove(i) PROVE IInv'
  <2>1. ASSUME NEW l, NEW p, NEW m,
               l = pxContainer[i], p = pxPrevious[i], m = pxNext[i]
        PROVE  TypeOK' /\ WellLinked'
    BY <1>3, <2>1, RemoveKeepsWellLinked
  <2> QED BY <2>1 DEF IInv
<1>4. ASSUME NEW i \in Item, listSET_LIST_ITEM_VALUE(i) PROVE IInv'
  <2>1. TypeOK' BY <1>0, <1>4 DEF listSET_LIST_ITEM_VALUE, TypeOK
  <2>2. WellLinked' BY <1>0, <1>4 DEF listSET_LIST_ITEM_VALUE, WellLinked, LinkedBothWays,
                      OneRing, Counted, InList
  <2> QED BY <2>1, <2>2 DEF IInv
<1>5. ASSUME NEW l \in List, listGET_OWNER_OF_NEXT_ENTRY(l) PROVE IInv'
  <2>1. \A n \in InList(l) : pxNext[n] \in InList(l)
    BY <1>0 DEF WellLinked, LinkedBothWays
  <2>2. pxIndex'[l] \in InList(l) /\ pxIndex' \in [List -> Node]
        /\ \A k \in List \ {l} : pxIndex'[k] = pxIndex[k]
    BY <1>0, <1>5, <2>1, InListNodes
    DEF listGET_OWNER_OF_NEXT_ENTRY, TypeOK, WellLinked, LinkedBothWays
  <2>3. TypeOK' BY <1>0, <1>5, <2>2 DEF listGET_OWNER_OF_NEXT_ENTRY, TypeOK
  <2>4. WellLinked' BY <1>0, <1>5, <2>2
    DEF listGET_OWNER_OF_NEXT_ENTRY, WellLinked, LinkedBothWays, OneRing,
        Counted, InList
  <2> QED BY <2>3, <2>4 DEF IInv
<1>6. CASE UNCHANGED vars
  <2>1. TypeOK' BY <1>0, <1>6 DEF vars, TypeOK
  <2>2. WellLinked'
    BY <1>0, <1>6 DEF vars, WellLinked, LinkedBothWays, OneRing, Counted, InList
  <2> QED BY <2>1, <2>2 DEF IInv
<1> QED BY <1>1, <1>2, <1>3, <1>4, <1>5, <1>6 DEF Next

\* Whatever sequence of insertions and removals the kernel makes, every list is
\* one ring linked both ways with the right count (list.c:76, 104, 168).
THEOREM ListsStayWellLinked == ASSUME Distinct PROVE Spec => []WellLinked
<1>1. Init => IInv BY InitIInv
<1>2. IInv /\ [Next]_vars => IInv' BY StepIInv
<1>3. IInv => WellLinked BY DEF IInv
<1> QED BY <1>1, <1>2, <1>3, PTL DEF Spec

--------------------
\* s are the nodes from the end marker l on, of a ring with n items.
Chain(next, l, n, s) ==
  /\ s \in [0..n -> Node] /\ s[0] = l
  /\ \A p \in 1..n : s[p] = next[s[p - 1]] /\ s[p] \in Item

Nodes(next, l, n) ==
  LET at[p \in 0..n] == IF p = 0 THEN l ELSE next[at[p - 1]] IN at
Walk(next, l, n) == [p \in 1..n |-> Nodes(next, l, n)[p]]

LEMMA OrderIsWalk ==
  ASSUME NEW l \in List
  PROVE  /\ Order(l) = Walk(pxNext, l, uxNumberOfItems[l])
         /\ Order(l)' = Walk(pxNext', l, uxNumberOfItems'[l])
<1>1. Order(l) = Walk(pxNext, l, uxNumberOfItems[l]) BY DEF Order, Walk, Nodes
<1>2. Order(l)' = Walk(pxNext', l, uxNumberOfItems'[l]) BY DEF Order, Walk, Nodes
<1> QED BY <1>1, <1>2

LEMMA LeastOf ==
  ASSUME NEW S \in SUBSET Nat, S # {}
  PROVE  \E x \in S : \A y \in S : x <= y
<1> DEFINE R == {ss \in Nat \X Nat : ss[1] < ss[2]}
<1>1. PICK x \in S : \A y \in S : ~ (<<y, x>> \in R)
  <2>1. IsWellFoundedOn(R, Nat) BY NatLessThanWellFounded, Zenon DEF OpToRel
  <2> HIDE DEF R
  <2> QED BY <2>1, WFMin
<1>2. ASSUME NEW y \in S PROVE x <= y
  <2>1. x \in Nat /\ y \in Nat /\ ~ (y < x) BY <1>1
  <2> QED BY <2>1
<1> QED BY <1>2

\* There is one such sequence.
LEMMA WalkIs ==
  ASSUME NEW next, NEW l, NEW n \in Nat, NEW s, Chain(next, l, n, s)
  PROVE  Walk(next, l, n) = [p \in 1..n |-> s[p]]
<1> DEFINE Steps(f) == [p \in 0..n |-> IF p = 0 THEN l ELSE next[f[p - 1]]]
<1>1. /\ s \in [0..n -> Node] /\ s[0] = l
      /\ \A p \in 1..n : s[p] = next[s[p - 1]]
  BY DEF Chain
<1>2. s = Steps(s)
  <2>1. \A p \in 0..n : s[p] = IF p = 0 THEN l ELSE next[s[p - 1]] BY <1>1
  <2> QED BY <1>1, <2>1
<1>3. ASSUME NEW f, f = Steps(f) PROVE f = s
  <2>1. /\ DOMAIN f = 0..n
        /\ \A p \in 0..n : f[p] = IF p = 0 THEN l ELSE next[f[p - 1]]
    BY <1>3
  <2> HIDE DEF Steps
  <2> DEFINE D == {p \in 0..n : f[p] # s[p]}
  <2>2. D = {}
    <3>1. SUFFICES ASSUME D # {} PROVE FALSE OBVIOUS
    <3>2. PICK p \in D : \A q \in D : p <= q
      <4>1. D \in SUBSET Nat OBVIOUS
      <4> HIDE DEF D
      <4> QED BY <3>1, <4>1, LeastOf
    <3>3. p \in 0..n /\ f[p] # s[p] /\ p # 0 BY <3>2, <2>1, <1>1
    <3>4. p - 1 \in 0..n /\ p \in 1..n /\ ~ (p <= p - 1) BY <3>3
    <3>5. f[p - 1] = s[p - 1] BY <3>2, <3>4
    <3> QED BY <3>3, <3>4, <3>5, <2>1, <1>1
  <2>3. \A p \in 0..n : f[p] = s[p] BY <2>2
  <2>4. f = [p \in 0..n |-> f[p]]
    <3>1. f = Steps(f) BY <1>3
    <3> QED BY <3>1 DEF Steps
  <2> QED BY <2>3, <2>4, <1>1
<1>4. Nodes(next, l, n) = CHOOSE f : f = Steps(f) BY DEF Nodes
<1>5. (CHOOSE f : f = Steps(f)) = s
  <2> HIDE DEF Steps
  <2> QED BY <1>2, <1>3
<1> QED BY <1>4, <1>5 DEF Walk

--------------------
\* Rings, with the place the index is at.

Items(s, n) == [p \in 1..n |-> s[p]]
PlaceIn(order, index, l) ==
  IF index = l THEN 0 ELSE CHOOSE p \in DOMAIN order : order[p] = index

View(next, container, index, l, n, s, c) ==
  /\ Chain(next, l, n, s) /\ next[s[n]] = l
  /\ \A p, q \in 0..n : s[p] = s[q] => p = q
  /\ \A p \in 1..n : container[s[p]] = l
  /\ \A x \in Item : container[x] = l => \E p \in 1..n : s[p] = x
  /\ c \in 0..n /\ s[c] = index

LEMMA ViewShows ==
  ASSUME Distinct, NEW next, NEW container, NEW index, NEW l \in List, NEW n \in Nat,
         NEW s, NEW c, View(next, container, index, l, n, s, c)
  PROVE  Walk(next, l, n) = Items(s, n) /\ PlaceIn(Items(s, n), index, l) = c
<1>1. Walk(next, l, n) = Items(s, n) BY WalkIs DEF View, Items
<1>2. /\ s[0] = l /\ \A p \in 1..n : s[p] \in Item /\ s[p] # l
      /\ \A p, q \in 0..n : s[p] = s[q] => p = q
      /\ c \in 0..n /\ s[c] = index
  <2>1. /\ s[0] = l /\ \A p \in 1..n : s[p] \in Item
        /\ \A p, q \in 0..n : s[p] = s[q] => p = q
        /\ c \in 0..n /\ s[c] = index
    BY DEF View, Chain
  <2>2. \A x \in Item : x # l BY DEF Distinct
  <2> QED BY <2>1, <2>2
<1>3. DOMAIN Items(s, n) = 1..n /\ \A p \in 1..n : Items(s, n)[p] = s[p] BY DEF Items
<1>4. CASE index = l
  <2>1. c = 0
    <3>1. c \in 1..n => s[c] # l BY <1>2
    <3> QED BY <3>1, <1>2, <1>4
  <2> QED BY <1>1, <2>1, <1>4 DEF PlaceIn
<1>5. CASE index # l
  <2>1. c \in 1..n /\ Items(s, n)[c] = index BY <1>2, <1>3, <1>5
  <2>2. \A p \in 1..n : Items(s, n)[p] = index => p = c BY <1>2, <1>3, <2>1
  <2>3. PlaceIn(Items(s, n), index, l) = CHOOSE p \in DOMAIN Items(s, n) : Items(s, n)[p] = index
    BY <1>5 DEF PlaceIn
  <2>4. \A p \in DOMAIN Items(s, n) : Items(s, n)[p] = index <=> p = c BY <1>3, <2>1, <2>2
  <2>5. c \in DOMAIN Items(s, n) BY <1>3, <2>1
  <2> HIDE DEF Items
  <2> QED BY <1>1, <2>3, <2>4, <2>5
<1> QED BY <1>4, <1>5

\* What a change elsewhere leaves.
LEMMA ViewStays ==
  ASSUME NEW next, NEW container, NEW index, NEW l \in List, NEW n \in Nat,
         NEW s, NEW c, View(next, container, index, l, n, s, c),
         NEW next2, NEW container2,
         \A p \in 0..n : next2[s[p]] = next[s[p]],
         \A x \in Item : container2[x] = l <=> container[x] = l
  PROVE  View(next2, container2, index, l, n, s, c)
<1>1. /\ s \in [0..n -> Node] /\ s[0] = l
      /\ \A p \in 1..n : s[p] = next[s[p - 1]] /\ s[p] \in Item
      /\ next[s[n]] = l
  BY DEF View, Chain
<1>2. Chain(next2, l, n, s)
  <2>1. \A p \in 1..n : p - 1 \in 0..n OBVIOUS
  <2> QED BY <1>1, <2>1 DEF Chain
<1>3. next2[s[n]] = l BY <1>1
<1> QED BY <1>1, <1>2, <1>3 DEF View

Longer(s, n, p, i) ==
  [q \in 0..n + 1 |-> IF q <= p THEN s[q] ELSE IF q = p + 1 THEN i ELSE s[q - 1]]

\* Item i is linked in after node m.
LinkedIn(next, container, l, i, m, next2, container2) ==
  /\ container[i] # l /\ next2[i] = next[m] /\ next2[m] = i
  /\ \A x \in Node \ {i, m} : next2[x] = next[x]
  /\ container2[i] = l /\ \A x \in Item \ {i} : container2[x] = container[x]

LEMMA Inserted ==
  ASSUME Distinct, NEW next, NEW container, NEW index, NEW l \in List, NEW n \in Nat,
         NEW s, NEW c, View(next, container, index, l, n, s, c),
         NEW i \in Item, NEW p \in 0..n, NEW next2, NEW container2,
         LinkedIn(next, container, l, i, s[p], next2, container2)
  PROVE  View(next2, container2, index, l, n + 1, Longer(s, n, p, i),
              IF c >= p + 1 THEN c + 1 ELSE c)
<1> DEFINE t == Longer(s, n, p, i)
<1>0. /\ container[i] # l /\ next2[i] = next[s[p]] /\ next2[s[p]] = i
      /\ \A x \in Node \ {i, s[p]} : next2[x] = next[x]
      /\ container2[i] = l /\ \A x \in Item \ {i} : container2[x] = container[x]
  BY DEF LinkedIn
<1>1. /\ s \in [0..n -> Node] /\ s[0] = l
      /\ \A q \in 1..n : s[q] = next[s[q - 1]] /\ s[q] \in Item
      /\ next[s[n]] = l
      /\ \A q, r \in 0..n : s[q] = s[r] => q = r
      /\ \A q \in 1..n : container[s[q]] = l
      /\ \A x \in Item : container[x] = l => \E q \in 1..n : s[q] = x
      /\ c \in 0..n /\ s[c] = index
  BY DEF View, Chain
<1>2. i \in Node /\ i # l /\ l \in Node BY DEF Distinct, Node
<1>3. \A q \in 0..n : s[q] # i /\ s[q] \in Node
  <2>1. TAKE q \in 0..n
  <2>2. CASE q = 0 BY <1>1, <1>2, <2>2
  <2>3. CASE q # 0
    <3>1. q \in 1..n BY <2>3
    <3> QED BY <1>0, <1>1, <3>1
  <2> QED BY <2>2, <2>3
<1>4. t = [q \in 0..n + 1 |-> IF q <= p THEN s[q] ELSE IF q = p + 1 THEN i ELSE s[q - 1]]
  BY DEF Longer
<1> HIDE DEF t
<1>5. /\ \A q \in 0..p : q \in 0..n /\ q \in 0..n + 1 /\ t[q] = s[q]
      /\ p + 1 \in 0..n + 1 /\ t[p + 1] = i
      /\ \A q \in (p + 2)..(n + 1) : q \in 0..n + 1 /\ q - 1 \in 1..n /\ t[q] = s[q - 1]
      /\ \A q \in 0..n + 1 : q \in 0..p \/ q = p + 1 \/ q \in (p + 2)..(n + 1)
  BY <1>4
<1>6. t \in [0..n + 1 -> Node] /\ t[0] = l
  <2>1. \A q \in 0..n + 1 : t[q] \in Node BY <1>2, <1>3, <1>5
  <2>2. t = [q \in 0..n + 1 |-> t[q]] BY <1>4
  <2>3. 0 \in 0..p OBVIOUS
  <2> QED BY <1>1, <1>5, <2>1, <2>2, <2>3
<1>7. \A x \in Node : x # i /\ x # s[p] => next2[x] = next[x] BY <1>0
<1>8. \A q \in 0..n : q # p => next2[s[q]] = next[s[q]] BY <1>1, <1>3, <1>7
<1>9. ASSUME NEW q \in 1..(n + 1) PROVE t[q] = next2[t[q - 1]] /\ t[q] \in Item
  <2>1. CASE q <= p
    <3>1. q \in 0..p /\ q - 1 \in 0..p /\ q \in 1..n /\ q - 1 \in 0..n /\ q - 1 # p
      BY <2>1
    <3> QED BY <3>1, <1>1, <1>5, <1>8
  <2>2. CASE q = p + 1
    <3>1. q - 1 = p /\ p \in 0..p BY <2>2
    <3> QED BY <1>0, <3>1, <2>2, <1>5
  <2>3. CASE q = p + 2
    <3>1. q - 1 = p + 1 /\ q \in (p + 2)..(n + 1) /\ p + 1 \in 1..n /\ (p + 1) - 1 = p
      BY <2>3
    <3>2. t[q - 1] = i /\ t[q] = s[p + 1] BY <3>1, <1>5
    <3>3. s[p + 1] = next[s[p]] /\ s[p + 1] \in Item BY <3>1, <1>1
    <3> QED BY <1>0, <3>2, <3>3
  <2>4. CASE q > p + 2
    <3>1. /\ q \in (p + 2)..(n + 1) /\ q - 1 \in (p + 2)..(n + 1)
          /\ q - 1 \in 1..n /\ (q - 1) - 1 \in 0..n /\ (q - 1) - 1 # p
      BY <2>4
    <3>2. t[q] = s[q - 1] /\ t[q - 1] = s[(q - 1) - 1] BY <3>1, <1>5
    <3>3. s[q - 1] = next[s[(q - 1) - 1]] /\ s[q - 1] \in Item BY <3>1, <1>1
    <3> QED BY <3>1, <3>2, <3>3, <1>8
  <2> QED BY <2>1, <2>2, <2>3, <2>4
<1>10. next2[t[n + 1]] = l
  <2>1. CASE p = n
    <3>1. t[n + 1] = i BY <2>1, <1>5
    <3> QED BY <1>0, <3>1, <2>1, <1>1
  <2>2. CASE p # n
    <3>1. n + 1 \in (p + 2)..(n + 1) /\ (n + 1) - 1 = n /\ n \in 0..n BY <2>2
    <3>2. t[n + 1] = s[n] BY <3>1, <1>5
    <3> QED BY <3>1, <3>2, <2>2, <1>1, <1>8
  <2> QED BY <2>1, <2>2
<1>11. ASSUME NEW q \in 0..n + 1, NEW r \in 0..n + 1, t[q] = t[r] PROVE q = r
  <2> DEFINE back(j) == IF j <= p THEN j ELSE j - 1
  <2>1. \A j \in 0..n + 1 : j # p + 1 => back(j) \in 0..n /\ t[j] = s[back(j)]
    <3>1. TAKE j \in 0..n + 1
    <3>2. CASE j <= p
      <4>1. j \in 0..p BY <3>2
      <4> QED BY <4>1, <3>2, <1>5
    <3>3. CASE j > p + 1
      <4>1. j \in (p + 2)..(n + 1) BY <3>3
      <4> QED BY <4>1, <3>3, <1>5
    <3> QED BY <3>2, <3>3
  <2>2. \A j, h \in 0..n + 1 : j # p + 1 /\ h # p + 1 /\ back(j) = back(h) => j = h
    OBVIOUS
  <2> HIDE DEF back
  <2>3. CASE q = p + 1 \/ r = p + 1 BY <2>1, <2>3, <1>3, <1>5, <1>11
  <2>4. CASE q # p + 1 /\ r # p + 1
    <3>1. s[back(q)] = s[back(r)] /\ back(q) \in 0..n /\ back(r) \in 0..n
      BY <2>1, <2>4, <1>11
    <3> QED BY <3>1, <2>2, <2>4, <1>1
  <2> QED BY <2>3, <2>4
<1>12. ASSUME NEW q \in 1..(n + 1) PROVE container2[t[q]] = l
  <2>1. CASE q = p + 1 BY <1>0, <2>1, <1>5
  <2>2. CASE q # p + 1
    <3>1. PICK h \in 1..n : t[q] = s[h]
      <4>1. CASE q <= p
        <5>1. q \in 0..p /\ q \in 1..n BY <4>1
        <5> QED BY <5>1, <1>5
      <4>2. CASE q > p + 1
        <5>1. q \in (p + 2)..(n + 1) BY <4>2
        <5> QED BY <5>1, <1>5
      <4> QED BY <2>2, <4>1, <4>2
    <3>2. h \in 0..n OBVIOUS
    <3> QED BY <1>0, <3>1, <3>2, <1>1, <1>3
  <2> QED BY <2>1, <2>2
<1>13. ASSUME NEW x \in Item, container2[x] = l PROVE \E q \in 1..(n + 1) : t[q] = x
  <2>1. CASE x = i
    <3>1. p + 1 \in 1..(n + 1) OBVIOUS
    <3> QED BY <2>1, <3>1, <1>5
  <2>2. CASE x # i
    <3>1. PICK q \in 1..n : s[q] = x BY <1>0, <2>2, <1>1, <1>13
    <3>2. CASE q <= p
      <4>1. q \in 0..p /\ q \in 1..(n + 1) BY <3>2
      <4> QED BY <4>1, <3>1, <1>5
    <3>3. CASE q > p
      <4>1. q + 1 \in (p + 2)..(n + 1) /\ q + 1 \in 1..(n + 1) /\ (q + 1) - 1 = q BY <3>3
      <4> QED BY <4>1, <3>1, <1>5
    <3> QED BY <3>2, <3>3
  <2> QED BY <2>1, <2>2
<1>14. /\ (IF c >= p + 1 THEN c + 1 ELSE c) \in 0..n + 1
       /\ t[IF c >= p + 1 THEN c + 1 ELSE c] = index
  <2>1. CASE c >= p + 1
    <3>1. c + 1 \in (p + 2)..(n + 1) /\ c + 1 \in 0..n + 1 /\ (c + 1) - 1 = c
      BY <2>1, <1>1
    <3> QED BY <3>1, <2>1, <1>1, <1>5
  <2>2. CASE ~(c >= p + 1)
    <3>1. c \in 0..p BY <2>2, <1>1
    <3> QED BY <3>1, <2>2, <1>1, <1>5
  <2> QED BY <2>1, <2>2
<1>15. Chain(next2, l, n + 1, t) BY <1>6, <1>9 DEF Chain
<1>16. View(next2, container2, index, l, n + 1, t, IF c >= p + 1 THEN c + 1 ELSE c)
  BY <1>10, <1>11, <1>12, <1>13, <1>14, <1>15 DEF View
<1> QED BY <1>16 DEF t

LEMMA InsertedAs ==
  ASSUME Distinct, NEW next, NEW container, NEW index, NEW l \in List, NEW n \in Nat,
         NEW s, NEW c, View(next, container, index, l, n, s, c),
         NEW i \in Item, NEW p \in 0..n, NEW next2, NEW container2,
         LinkedIn(next, container, l, i, s[p], next2, container2),
         NEW t, t = Longer(s, n, p, i), NEW d, d = IF c >= p + 1 THEN c + 1 ELSE c
  PROVE  View(next2, container2, index, l, n + 1, t, d)
BY Inserted, Zenon

Shorter(s, n, p) == [q \in 0..n - 1 |-> IF q < p THEN s[q] ELSE s[q + 1]]

\* Item i is linked out from behind node m.
LinkedOut(next, container, l, i, m, next2, container2) ==
  /\ next2[m] = next[i] /\ \A x \in Node \ {m} : next2[x] = next[x]
  /\ container2[i] # l /\ \A x \in Item \ {i} : container2[x] = container[x]

\* An index at it goes back.
LEMMA Removed ==
  ASSUME Distinct, NEW next, NEW container, NEW index, NEW l \in List, NEW n \in Nat,
         NEW s, NEW c, View(next, container, index, l, n, s, c),
         NEW p \in 1..n, NEW next2, NEW container2,
         LinkedOut(next, container, l, s[p], s[p - 1], next2, container2)
  PROVE  View(next2, container2, IF index = s[p] THEN s[p - 1] ELSE index, l, n - 1,
              Shorter(s, n, p), IF c >= p THEN c - 1 ELSE c)
<1> DEFINE t == Shorter(s, n, p)
<1>0. /\ next2[s[p - 1]] = next[s[p]] /\ \A x \in Node \ {s[p - 1]} : next2[x] = next[x]
      /\ container2[s[p]] # l /\ \A x \in Item \ {s[p]} : container2[x] = container[x]
  BY DEF LinkedOut
<1>1. /\ s \in [0..n -> Node] /\ s[0] = l
      /\ \A q \in 1..n : s[q] = next[s[q - 1]] /\ s[q] \in Item
      /\ next[s[n]] = l
      /\ \A q, r \in 0..n : s[q] = s[r] => q = r
      /\ \A q \in 1..n : container[s[q]] = l
      /\ \A x \in Item : container[x] = l => \E q \in 1..n : s[q] = x
      /\ c \in 0..n /\ s[c] = index
  BY DEF View, Chain
<1>2. n - 1 \in Nat /\ p - 1 \in 0..n /\ p \in 0..n OBVIOUS
<1>3. t = [q \in 0..n - 1 |-> IF q < p THEN s[q] ELSE s[q + 1]] BY DEF Shorter
<1> HIDE DEF t
<1>4. /\ \A q \in 0..(p - 1) : q \in 0..n /\ q \in 0..n - 1 /\ t[q] = s[q]
      /\ \A q \in p..(n - 1) : q \in 0..n - 1 /\ q + 1 \in 1..n /\ t[q] = s[q + 1]
      /\ \A q \in 0..n - 1 : q \in 0..(p - 1) \/ q \in p..(n - 1)
  BY <1>3
<1>5. t \in [0..n - 1 -> Node] /\ t[0] = l
  <2>1. ASSUME NEW q \in 0..n - 1 PROVE t[q] \in Node
    <3>1. \A h \in 0..n : s[h] \in Node BY <1>1
    <3>2. CASE q \in 0..(p - 1) BY <3>1, <3>2, <1>4
    <3>3. CASE q \in p..(n - 1)
      <4>1. q + 1 \in 0..n BY <3>3
      <4> QED BY <4>1, <3>1, <3>3, <1>4
    <3> QED BY <3>2, <3>3, <1>4
  <2>2. t = [q \in 0..n - 1 |-> t[q]] BY <1>3
  <2>3. 0 \in 0..(p - 1) OBVIOUS
  <2> QED BY <1>1, <1>4, <2>1, <2>2, <2>3
<1>6. \A q \in 0..n : q # p - 1 => next2[s[q]] = next[s[q]]
  <2>1. \A q \in 0..n : s[q] \in Node BY <1>1
  <2> QED BY <1>0, <2>1, <1>1, <1>2
<1>7. ASSUME NEW q \in 1..(n - 1) PROVE t[q] = next2[t[q - 1]] /\ t[q] \in Item
  <2>1. CASE q < p
    <3>1. q \in 0..(p - 1) /\ q - 1 \in 0..(p - 1) /\ q \in 1..n /\ q - 1 \in 0..n /\ q - 1 # p - 1
      BY <2>1
    <3> QED BY <3>1, <1>1, <1>4, <1>6
  <2>2. CASE q = p
    <3>1. q - 1 \in 0..(p - 1) /\ q \in p..(n - 1) /\ q + 1 \in 1..n /\ (q + 1) - 1 = p
      BY <2>2
    <3>2. t[q - 1] = s[p - 1] /\ t[q] = s[q + 1] BY <3>1, <2>2, <1>4
    <3>3. s[q + 1] = next[s[p]] /\ s[q + 1] \in Item BY <3>1, <1>1
    <3> QED BY <1>0, <3>2, <3>3
  <2>3. CASE q > p
    <3>1. /\ q \in p..(n - 1) /\ q - 1 \in p..(n - 1) /\ (q - 1) + 1 = q
          /\ q \in 0..n /\ q # p - 1 /\ q + 1 \in 1..n /\ (q + 1) - 1 = q
      BY <2>3
    <3>2. t[q] = s[q + 1] /\ t[q - 1] = s[q] BY <3>1, <1>4
    <3>3. s[q + 1] = next[s[q]] /\ s[q + 1] \in Item BY <3>1, <1>1
    <3> QED BY <3>1, <3>2, <3>3, <1>6
  <2> QED BY <2>1, <2>2, <2>3
<1>8. next2[t[n - 1]] = l
  <2>1. CASE p = n
    <3>1. n - 1 \in 0..(p - 1) BY <2>1
    <3> QED BY <1>0, <3>1, <2>1, <1>1, <1>4
  <2>2. CASE p # n
    <3>1. n - 1 \in p..(n - 1) /\ (n - 1) + 1 = n /\ n \in 0..n /\ n # p - 1 BY <2>2
    <3> QED BY <3>1, <1>1, <1>4, <1>6
  <2> QED BY <2>1, <2>2
<1> DEFINE back(j) == IF j < p THEN j ELSE j + 1
<1>9. /\ \A j \in 0..n - 1 : back(j) \in 0..n /\ back(j) # p /\ t[j] = s[back(j)]
      /\ \A j, h \in 0..n - 1 : back(j) = back(h) => j = h
      /\ \A j \in 1..(n - 1) : back(j) \in 1..n
      /\ \A h \in 1..n : h # p => \E j \in 1..(n - 1) : back(j) = h
  <2>1. \A j \in 0..n - 1 : t[j] = s[back(j)] BY <1>3
  <2>2. \A j \in 0..n - 1 : back(j) \in 0..n /\ back(j) # p OBVIOUS
  <2>3. \A j, h \in 0..n - 1 : back(j) = back(h) => j = h OBVIOUS
  <2>4. \A j \in 1..(n - 1) : back(j) \in 1..n OBVIOUS
  <2>5. ASSUME NEW h \in 1..n, h # p PROVE \E j \in 1..(n - 1) : back(j) = h
    <3>1. CASE h < p
      <4>1. h \in 1..(n - 1) /\ back(h) = h BY <3>1
      <4> QED BY <4>1
    <3>2. CASE h > p
      <4>1. h - 1 \in 1..(n - 1) /\ back(h - 1) = h BY <3>2
      <4> QED BY <4>1
    <3> QED BY <2>5, <3>1, <3>2
  <2> QED BY <2>1, <2>2, <2>3, <2>4, <2>5
<1> HIDE DEF back
<1>10. \A j \in 1..(n - 1) : j \in 0..n - 1 OBVIOUS
<1>11. \A q, r \in 0..n - 1 : t[q] = t[r] => q = r BY <1>1, <1>9
<1>12. \A q \in 1..(n - 1) : container2[t[q]] = l
  <2>1. TAKE q \in 1..(n - 1)
  <2>2. back(q) \in 1..n /\ back(q) \in 0..n /\ back(q) # p /\ t[q] = s[back(q)]
    BY <1>9, <1>10
  <2>3. s[back(q)] # s[p] /\ s[back(q)] \in Item BY <2>2, <1>1, <1>2
  <2> QED BY <1>0, <2>2, <2>3, <1>1
<1>13. ASSUME NEW x \in Item, container2[x] = l PROVE \E q \in 1..(n - 1) : t[q] = x
  <2>1. PICK h \in 1..n : s[h] = x BY <1>0, <1>1, <1>2, <1>13
  <2>2. h # p BY <1>0, <2>1, <1>13
  <2>3. PICK j \in 1..(n - 1) : back(j) = h BY <2>2, <1>9
  <2> QED BY <2>1, <2>3, <1>9, <1>10
<1>14. /\ (IF c >= p THEN c - 1 ELSE c) \in 0..n - 1
       /\ t[IF c >= p THEN c - 1 ELSE c] = IF index = s[p] THEN s[p - 1] ELSE index
  <2>1. index = s[p] <=> c = p BY <1>1, <1>2
  <2>2. CASE c = p
    <3>1. c - 1 \in 0..(p - 1) BY <2>2
    <3> QED BY <3>1, <2>1, <2>2, <1>4
  <2>3. CASE c > p
    <3>1. c - 1 \in p..(n - 1) /\ (c - 1) + 1 = c /\ c >= p /\ c # p BY <2>3, <1>1
    <3>2. t[c - 1] = s[c] /\ c - 1 \in 0..n - 1 BY <3>1, <1>4
    <3> QED BY <3>1, <3>2, <2>1, <1>1
  <2>4. CASE c < p
    <3>1. c \in 0..(p - 1) /\ ~(c >= p) /\ c # p BY <2>4, <1>1
    <3> QED BY <3>1, <2>1, <1>1, <1>4
  <2> QED BY <2>2, <2>3, <2>4, <1>1
<1>15. Chain(next2, l, n - 1, t) BY <1>5, <1>7 DEF Chain
<1>16. View(next2, container2, IF index = s[p] THEN s[p - 1] ELSE index, l, n - 1, t,
            IF c >= p THEN c - 1 ELSE c)
  BY <1>8, <1>11, <1>12, <1>13, <1>14, <1>15 DEF View
<1> QED BY <1>16 DEF t

LEMMA RemovedAs ==
  ASSUME Distinct, NEW next, NEW container, NEW index, NEW l \in List, NEW n \in Nat,
         NEW s, NEW c, View(next, container, index, l, n, s, c),
         NEW p \in 1..n, NEW next2, NEW container2,
         LinkedOut(next, container, l, s[p], s[p - 1], next2, container2),
         NEW index2, index2 = IF index = s[p] THEN s[p - 1] ELSE index,
         NEW t, t = Shorter(s, n, p), NEW d, d = IF c >= p THEN c - 1 ELSE c
  PROVE  View(next2, container2, index2, l, n - 1, t, d)
BY Removed, Zenon

--------------------
\* What an insertion and a removal make of the sequence of the items.

LEMMA ItemsSequence ==
  ASSUME NEW n \in Nat, NEW s, \A p \in 1..n : s[p] \in Item
  PROVE  /\ Items(s, n) \in Seq(Item) /\ Len(Items(s, n)) = n
         /\ \A p \in 1..n : Items(s, n)[p] = s[p]
<1>1. Items(s, n) \in [1..n -> Item] BY DEF Items
<1>2. Items(s, n) \in Seq(Item) /\ Len(Items(s, n)) = n BY <1>1, LenProperties
<1> QED BY <1>2 DEF Items

LEMMA JoinIs ==
  ASSUME NEW a \in Seq(Item), NEW b \in Seq(Item), NEW m \in Nat, NEW k \in Nat,
         Len(a) = m, Len(b) = k
  PROVE  /\ a \o b = [q \in 1..(m + k) |-> IF q <= m THEN a[q] ELSE b[q - m]]
         /\ a \o b \in Seq(Item)
<1>1. /\ a \o b \in Seq(Item) /\ Len(a \o b) = m + k
      /\ \A q \in 1..(m + k) : (a \o b)[q] = IF q <= m THEN a[q] ELSE b[q - m]
  BY ConcatProperties
<1> DEFINE w == a \o b
<1>2. /\ w \in Seq(Item) /\ Len(w) = m + k
      /\ \A q \in 1..(m + k) : w[q] = IF q <= m THEN a[q] ELSE b[q - m]
  BY <1>1
<1> HIDE DEF w
<1>3. w \in [1..(m + k) -> Item] BY <1>2, LenProperties
<1>4. w = [q \in 1..(m + k) |-> IF q <= m THEN a[q] ELSE b[q - m]] BY <1>2, <1>3
<1> QED BY <1>2, <1>4 DEF w

LEMMA ItemsInserted ==
  ASSUME NEW n \in Nat, NEW s, \A q \in 1..n : s[q] \in Item,
         NEW i \in Item, NEW p \in 0..n
  PROVE  Items(Longer(s, n, p, i), n + 1) = Abstract!InsertAt(Items(s, n), p + 1, i)
<1> DEFINE l == Items(s, n)
           front == SubSeq(l, 1, (p + 1) - 1)
           back == SubSeq(l, p + 1, Len(l))
           t == Longer(s, n, p, i)
<1>1. l \in Seq(Item) /\ Len(l) = n /\ \A q \in 1..n : l[q] = s[q] BY ItemsSequence
<1>2. /\ t = [q \in 0..n + 1 |-> IF q <= p THEN s[q] ELSE IF q = p + 1 THEN i ELSE s[q - 1]]
      /\ Items(t, n + 1) = [q \in 1..n + 1 |-> t[q]]
  BY DEF Longer, Items
<1> HIDE DEF l, t
<1>3. front \in Seq(Item) /\ Len(front) = p /\ \A q \in 1..p : front[q] = l[q]
  BY <1>1, SubSeqProperties
<1>4. back \in Seq(Item) /\ Len(back) = n - p /\ \A q \in 1..(n - p) : back[q] = l[p + q]
  BY <1>1, SubSeqProperties
<1>5. Abstract!InsertAt(l, p + 1, i) = front \o <<i>> \o back BY DEF Abstract!InsertAt
<1> HIDE DEF front, back
<1> DEFINE u == front \o <<i>>
<1>6. u = [q \in 1..(p + 1) |-> IF q <= p THEN front[q] ELSE <<i>>[q - p]]
      /\ u \in Seq(Item)
  BY <1>3, JoinIs
<1> HIDE DEF u
<1>7. Len(u) = p + 1 /\ (\A q \in 1..p : u[q] = front[q]) /\ u[p + 1] = i
  <2>1. u[p + 1] = <<i>>[1] BY <1>6
  <2>2. \A q \in 1..p : u[q] = front[q] BY <1>6
  <2>3. DOMAIN u = 1..(p + 1) BY <1>6
  <2> QED BY <1>6, <2>1, <2>2, <2>3, LenProperties
<1>8. u \o back = [q \in 1..((p + 1) + (n - p)) |->
                     IF q <= p + 1 THEN u[q] ELSE back[q - (p + 1)]]
  <2>1. p + 1 \in Nat /\ n - p \in Nat OBVIOUS
  <2>2. u \in Seq(Item) /\ back \in Seq(Item) /\ Len(u) = p + 1 /\ Len(back) = n - p
    BY <1>4, <1>6, <1>7
  <2>3. PICK m \in Nat, k \in Nat : m = p + 1 /\ k = n - p BY <2>1
  <2>4. u \in Seq(Item) /\ back \in Seq(Item) /\ Len(u) = m /\ Len(back) = k BY <2>2, <2>3
  <2>5. u \o back = [q \in 1..(m + k) |-> IF q <= m THEN u[q] ELSE back[q - m]]
    BY <2>4, JoinIs
  <2> QED BY <2>3, <2>5
<1>9. 1..((p + 1) + (n - p)) = 1..n + 1 OBVIOUS
<1>10. ASSUME NEW q \in 1..n + 1
       PROVE  t[q] = IF q <= p + 1 THEN u[q] ELSE back[q - (p + 1)]
  <2>2. q \in 0..n + 1 /\ q \in 1..(n + 1) OBVIOUS
  <2>3. CASE q <= p BY <2>2, <2>3, <1>1, <1>2, <1>3, <1>7
  <2>4. CASE q = p + 1 BY <2>2, <2>4, <1>2, <1>7
  <2>5. CASE q > p + 1
    <3>1. q - (p + 1) \in 1..(n - p) /\ p + (q - (p + 1)) = q - 1 /\ q - 1 \in 1..n
      BY <2>5
    <3>2. back[q - (p + 1)] = l[q - 1] BY <3>1, <1>4
    <3> QED BY <3>1, <3>2, <2>2, <2>5, <1>1, <1>2
  <2> QED BY <2>3, <2>4, <2>5
<1>11. Items(t, n + 1) = u \o back BY <1>2, <1>8, <1>9, <1>10
<1> QED BY <1>5, <1>11 DEF u, l, t

LEMMA ItemsRemoved ==
  ASSUME NEW n \in Nat, NEW s, \A q \in 1..n : s[q] \in Item, NEW p \in 1..n
  PROVE  Items(Shorter(s, n, p), n - 1) = Abstract!RemoveAt(Items(s, n), p)
<1> DEFINE l == Items(s, n)
           front == SubSeq(l, 1, p - 1)
           back == SubSeq(l, p + 1, Len(l))
           t == Shorter(s, n, p)
<1>1. l \in Seq(Item) /\ Len(l) = n /\ \A q \in 1..n : l[q] = s[q] BY ItemsSequence
<1>2. /\ t = [q \in 0..n - 1 |-> IF q < p THEN s[q] ELSE s[q + 1]]
      /\ Items(t, n - 1) = [q \in 1..n - 1 |-> t[q]]
  BY DEF Shorter, Items
<1> HIDE DEF l, t
<1>3. front \in Seq(Item) /\ Len(front) = p - 1 /\ \A q \in 1..(p - 1) : front[q] = l[q]
  BY <1>1, SubSeqProperties
<1>4. back \in Seq(Item) /\ Len(back) = n - p /\ \A q \in 1..(n - p) : back[q] = l[p + q]
  BY <1>1, SubSeqProperties
<1>5. Abstract!RemoveAt(l, p) = front \o back BY DEF Abstract!RemoveAt
<1> HIDE DEF front, back
<1>6. front \o back = [q \in 1..((p - 1) + (n - p)) |->
                         IF q <= p - 1 THEN front[q] ELSE back[q - (p - 1)]]
  <2>1. p - 1 \in Nat /\ n - p \in Nat OBVIOUS
  <2> QED BY <2>1, <1>3, <1>4, JoinIs
<1>7. 1..((p - 1) + (n - p)) = 1..n - 1 OBVIOUS
<1>8. ASSUME NEW q \in 1..n - 1
      PROVE  t[q] = IF q <= p - 1 THEN front[q] ELSE back[q - (p - 1)]
  <2>2. q \in 0..n - 1 OBVIOUS
  <2>3. CASE q < p
    <3>1. q <= p - 1 /\ q \in 1..(p - 1) /\ q \in 1..n BY <2>3
    <3> QED BY <2>2, <2>3, <3>1, <1>1, <1>2, <1>3
  <2>4. CASE q >= p
    <3>1. /\ q - (p - 1) \in 1..(n - p) /\ p + (q - (p - 1)) = q + 1 /\ q + 1 \in 1..n
          /\ ~(q <= p - 1) /\ ~(q < p)
      BY <2>4
    <3>2. back[q - (p - 1)] = l[q + 1] BY <3>1, <1>4
    <3> QED BY <3>1, <3>2, <2>2, <1>1, <1>2
  <2> QED BY <2>3, <2>4
<1>9. Items(t, n - 1) = front \o back BY <1>2, <1>6, <1>7, <1>8
<1> QED BY <1>5, <1>9 DEF l, t

--------------------
\* Every step is one of OrderedList.

AllViews == \A l \in List : \E s, c :
              View(pxNext, pxContainer, pxIndex[l], l, uxNumberOfItems[l], s, c)

LEMMA Shows ==
  ASSUME Distinct, TypeOK, NEW l \in List, NEW s, NEW c,
         View(pxNext, pxContainer, pxIndex[l], l, uxNumberOfItems[l], s, c)
  PROVE  Order(l) = Items(s, uxNumberOfItems[l]) /\ Place(l) = c
<1>1. uxNumberOfItems[l] \in Nat BY DEF TypeOK
<1>2. Order(l) = Walk(pxNext, l, uxNumberOfItems[l]) BY OrderIsWalk
<1>3. Place(l) = PlaceIn(Order(l), pxIndex[l], l) BY DEF Place, PlaceIn
<1> QED BY <1>1, <1>2, <1>3, ViewShows

LEMMA ShowsNext ==
  ASSUME Distinct, TypeOK', NEW l \in List, NEW s, NEW c,
         View(pxNext', pxContainer', pxIndex'[l], l, uxNumberOfItems'[l], s, c)
  PROVE  Order(l)' = Items(s, uxNumberOfItems'[l]) /\ Place(l)' = c
<1>1. uxNumberOfItems'[l] \in Nat BY DEF TypeOK
<1>2. Order(l)' = Walk(pxNext', l, uxNumberOfItems'[l]) BY OrderIsWalk
<1>3. Place(l)' = PlaceIn(Order(l)', pxIndex'[l], l) BY DEF Place, PlaceIn
<1> QED BY <1>1, <1>2, <1>3, ViewShows

\* Where the nodes of a ring are.
Members(l, n, s) ==
  /\ n \in Nat /\ s[0] = l /\ pxNext[s[n]] = l
  /\ \A q \in 0..n : s[q] \in InList(l) /\ s[q] \in Node
  /\ \A q \in 1..n : s[q] \in Item /\ pxContainer[s[q]] = l /\ s[q] = pxNext[s[q - 1]]

LEMMA ViewInList ==
  ASSUME NEW l \in List, NEW s, NEW c, TypeOK,
         View(pxNext, pxContainer, pxIndex[l], l, uxNumberOfItems[l], s, c)
  PROVE  Members(l, uxNumberOfItems[l], s)
<1> DEFINE n == uxNumberOfItems[l]
<1>1. /\ n \in Nat /\ s[0] = l /\ pxNext[s[n]] = l
      /\ \A q \in 1..n : s[q] \in Item /\ pxContainer[s[q]] = l /\ s[q] = pxNext[s[q - 1]]
  BY DEF View, Chain, TypeOK
<1> HIDE DEF n
<1>2. ASSUME NEW q \in 0..n PROVE s[q] \in InList(l) /\ s[q] \in Node
  <2>1. CASE q = 0 BY <1>1, <2>1 DEF InList, Node
  <2>2. CASE q # 0
    <3>1. q \in 1..n BY <2>2, <1>1
    <3> QED BY <3>1, <1>1 DEF InList, Node
  <2> QED BY <2>1, <2>2
<1>3. Members(l, n, s) BY <1>1, <1>2 DEF Members
<1> QED BY <1>3 DEF n

\* Lists that a step does not touch.
ListStays(k) ==
  /\ \A x \in InList(k) : pxNext'[x] = pxNext[x]
  /\ \A x \in Item : pxContainer'[x] = k <=> pxContainer[x] = k
  /\ pxIndex'[k] = pxIndex[k] /\ uxNumberOfItems'[k] = uxNumberOfItems[k]

LEMMA StaysElsewhere ==
  ASSUME Distinct, TypeOK, TypeOK', NEW k \in List, ListStays(k),
         \E s, c : View(pxNext, pxContainer, pxIndex[k], k, uxNumberOfItems[k], s, c)
  PROVE  /\ \E s, c : View(pxNext', pxContainer', pxIndex'[k], k, uxNumberOfItems'[k], s, c)
         /\ Order(k)' = Order(k) /\ Place(k)' = Place(k)
<1>1. PICK s, c : View(pxNext, pxContainer, pxIndex[k], k, uxNumberOfItems[k], s, c)
  OBVIOUS
<1>2. /\ uxNumberOfItems[k] \in Nat
      /\ \A q \in 0..uxNumberOfItems[k] : pxNext'[s[q]] = pxNext[s[q]]
      /\ \A x \in Item : pxContainer'[x] = k <=> pxContainer[x] = k
  <2>1. Members(k, uxNumberOfItems[k], s) BY <1>1, ViewInList
  <2> QED BY <2>1 DEF ListStays, Members
<1>3. View(pxNext', pxContainer', pxIndex[k], k, uxNumberOfItems[k], s, c)
  BY <1>1, <1>2, ViewStays
<1>4. View(pxNext', pxContainer', pxIndex'[k], k, uxNumberOfItems'[k], s, c)
  BY <1>3 DEF ListStays
<1>5. Order(k)' = Items(s, uxNumberOfItems'[k]) /\ Place(k)' = c BY <1>4, ShowsNext
<1>6. Order(k) = Items(s, uxNumberOfItems[k]) /\ Place(k) = c BY <1>1, Shows
<1> QED BY <1>4, <1>5, <1>6 DEF ListStays

\* One list changes.
LEMMA OneListChanges ==
  ASSUME Distinct, TypeOK, TypeOK', AllViews, NEW l \in List,
         \A k \in List \ {l} : ListStays(k),
         NEW s, NEW c, View(pxNext', pxContainer', pxIndex'[l], l, uxNumberOfItems'[l], s, c)
  PROVE  /\ AllViews'
         /\ [k \in List |-> Order(k)]' =
              [[k \in List |-> Order(k)] EXCEPT ![l] = Items(s, uxNumberOfItems'[l])]
         /\ [k \in List |-> Place(k)]' = [[k \in List |-> Place(k)] EXCEPT ![l] = c]
<1>1. ASSUME NEW k \in List \ {l}
      PROVE  /\ \E t, d : View(pxNext', pxContainer', pxIndex'[k], k, uxNumberOfItems'[k], t, d)
             /\ Order(k)' = Order(k) /\ Place(k)' = Place(k)
  BY <1>1, StaysElsewhere DEF AllViews
<1>2. Order(l)' = Items(s, uxNumberOfItems'[l]) /\ Place(l)' = c BY ShowsNext
<1>3. AllViews' BY <1>1 DEF AllViews
<1> QED BY <1>1, <1>2, <1>3

LEMMA PutStep ==
  ASSUME Distinct, IInv, TypeOK', AllViews, NEW l \in List, NEW i \in Item, NEW s, NEW c,
         View(pxNext, pxContainer, pxIndex[l], l, uxNumberOfItems[l], s, c),
         pxContainer[i] = NULL, NEW p \in 0..uxNumberOfItems[l],
         LinkAfter(l, i, s[p]), UNCHANGED <<pxIndex, xItemValue>>
  PROVE  AllViews' /\ Abstract!Put(l, i, p + 1)
<1> DEFINE n == uxNumberOfItems[l]
           m == s[p]
           t == Longer(s, n, p, i)
           d == IF c >= p + 1 THEN c + 1 ELSE c
<1>1. TypeOK /\ WellLinked BY DEF IInv
<1>2. n \in Nat /\ m \in InList(l) /\ m \in Node /\ \A q \in 1..n : s[q] \in Item
  <2>1. Members(l, n, s) BY <1>1, ViewInList
  <2> QED BY <2>1 DEF Members
<1>3. i \notin InList(l) /\ m # i /\ pxNext[m] # i
  <2>1. i \notin InList(l) BY DEF InList, Distinct
  <2>2. pxNext[m] \in InList(l) BY <1>1, <1>2 DEF WellLinked, LinkedBothWays
  <2> QED BY <2>1, <2>2, <1>2
<1>4. /\ pxNext'[i] = pxNext[m] /\ pxNext'[m] = i
      /\ \A x \in Node \ {i, m} : pxNext'[x] = pxNext[x]
      /\ pxContainer'[i] = l
      /\ \A x \in Item \ {i} : pxContainer'[x] = pxContainer[x]
      /\ uxNumberOfItems'[l] = n + 1
      /\ \A k \in List \ {l} : uxNumberOfItems'[k] = uxNumberOfItems[k]
  BY <1>1, <1>2, <1>3, LinkFacts
<1>5. pxContainer[i] # l BY DEF Distinct
<1>6. View(pxNext', pxContainer', pxIndex[l], l, n + 1, t, d)
  <2>1. t = Longer(s, n, p, i) /\ d = IF c >= p + 1 THEN c + 1 ELSE c OBVIOUS
  <2>2. LinkedIn(pxNext, pxContainer, l, i, s[p], pxNext', pxContainer')
    BY <1>4, <1>5 DEF LinkedIn
  <2> HIDE DEF n, t, d
  <2>3. View(pxNext, pxContainer, pxIndex[l], l, n, s, c) /\ p \in 0..n /\ n \in Nat
    BY <1>2 DEF n
  <2> QED BY <2>1, <2>2, <2>3, InsertedAs, Zenon
<1>7. View(pxNext', pxContainer', pxIndex'[l], l, uxNumberOfItems'[l], t, d) BY <1>4, <1>6
<1>8. ASSUME NEW k \in List \ {l} PROVE ListStays(k)
  <2>1. InList(k) \cap InList(l) = {} /\ InList(k) \subseteq Node /\ i \notin InList(k)
    BY <1>1, Apart, InListNodes DEF InList, Distinct
  <2>2. \A x \in Item : pxContainer'[x] = k <=> pxContainer[x] = k BY <1>4 DEF Distinct
  <2> QED BY <2>1, <2>2, <1>2, <1>4 DEF ListStays
<1>9. /\ AllViews'
      /\ [k \in List |-> Order(k)]' = [[k \in List |-> Order(k)] EXCEPT ![l] = Items(t, n + 1)]
      /\ [k \in List |-> Place(k)]' = [[k \in List |-> Place(k)] EXCEPT ![l] = d]
  <2> HIDE DEF t, d
  <2>1. /\ AllViews'
        /\ [k \in List |-> Order(k)]' =
             [[k \in List |-> Order(k)] EXCEPT ![l] = Items(t, uxNumberOfItems'[l])]
        /\ [k \in List |-> Place(k)]' = [[k \in List |-> Place(k)] EXCEPT ![l] = d]
    BY <1>1, <1>7, <1>8, OneListChanges, Zenon
  <2> QED BY <1>4, <2>1
<1>10. Items(t, n + 1) = Abstract!InsertAt(Items(s, n), p + 1, i)
  <2> HIDE DEF n
  <2>1. p \in 0..n BY DEF n
  <2> QED BY <2>1, <1>2, ItemsInserted
<1>11. Order(l) = Items(s, n) /\ Place(l) = c BY <1>1, Shows
<1>12. ASSUME NEW k \in List, NEW q \in DOMAIN Order(k) PROVE Order(k)[q] # i
  <2>1. PICK u, e : View(pxNext, pxContainer, pxIndex[k], k, uxNumberOfItems[k], u, e)
    BY DEF AllViews
  <2>2. /\ Order(k) = Items(u, uxNumberOfItems[k])
        /\ \A r \in 1..uxNumberOfItems[k] : pxContainer[u[r]] = k
    <3>1. Members(k, uxNumberOfItems[k], u) /\ Order(k) = Items(u, uxNumberOfItems[k])
      BY <2>1, <1>1, Shows, ViewInList
    <3> QED BY <3>1 DEF Members
  <2>3. q \in 1..uxNumberOfItems[k] /\ Order(k)[q] = u[q] BY <2>2, <1>12 DEF Items
  <2> QED BY <2>2, <2>3 DEF Distinct
<1>13. ~Abstract!Listed(i) BY <1>12 DEF Abstract!Listed
<1> HIDE DEF n, t, d
<1>14. d = IF c >= p + 1 THEN c + 1 ELSE c BY DEF d
<1> QED BY <1>9, <1>10, <1>11, <1>13, <1>14 DEF Abstract!Put

\* Where the node before a node of the list is.
LEMMA BeforeIs ==
  ASSUME IInv, NEW l \in List, NEW s, NEW c, NEW q \in 0..uxNumberOfItems[l],
         View(pxNext, pxContainer, pxIndex[l], l, uxNumberOfItems[l], s, c)
  PROVE  pxPrevious[s[q]] = s[IF q = 0 THEN uxNumberOfItems[l] ELSE q - 1]
<1> DEFINE n == uxNumberOfItems[l]
<1>1. TypeOK /\ LinkedBothWays(l) BY DEF IInv, WellLinked
<1>2. /\ n \in Nat /\ s[0] = l /\ pxNext[s[n]] = l
      /\ \A r \in 0..n : s[r] \in InList(l)
      /\ \A r \in 1..n : s[r] = pxNext[s[r - 1]]
  <2>1. Members(l, n, s) BY <1>1, ViewInList
  <2> QED BY <2>1 DEF Members
<1>3. \A x \in InList(l) : pxPrevious[pxNext[x]] = x BY <1>1 DEF LinkedBothWays
<1> HIDE DEF n
<1>4. CASE q = 0
  <2>1. n \in 0..n BY <1>2
  <2>2. pxPrevious[s[0]] = s[n] BY <2>1, <1>2, <1>3
  <2> QED BY <2>2, <1>4 DEF n
<1>5. CASE q # 0
  <2>1. q \in 1..n /\ q - 1 \in 0..n BY <1>2, <1>5 DEF n
  <2>2. pxPrevious[s[q]] = s[q - 1] BY <2>1, <1>2, <1>3
  <2> QED BY <2>2, <1>5
<1> QED BY <1>4, <1>5

LEMMA InsertEndStep ==
  ASSUME Distinct, IInv, TypeOK', AllViews, NEW l \in List, NEW i \in Item,
         vListInsertEnd(l, i)
  PROVE  AllViews' /\ Abstract!InsertToVisitLast(l, i)
<1> DEFINE n == uxNumberOfItems[l]
<1>1. PICK s, c : View(pxNext, pxContainer, pxIndex[l], l, n, s, c) BY DEF AllViews
<1>2. TypeOK /\ n \in Nat /\ c \in 0..n /\ s[c] = pxIndex[l] /\ \A q \in 1..n : s[q] \in Item
  <2>1. TypeOK /\ Members(l, n, s) BY <1>1, ViewInList DEF IInv
  <2> QED BY <1>1, <2>1 DEF Members, View
<1>3. PICK p \in 0..n : p = IF c = 0 THEN n ELSE c - 1
  <2> HIDE DEF n
  <2>1. (IF c = 0 THEN n ELSE c - 1) \in 0..n BY <1>2
  <2> QED BY <2>1
<1>4. pxPrevious[pxIndex[l]] = s[p] BY <1>1, <1>2, <1>3, BeforeIs
<1>5. AllViews' /\ Abstract!Put(l, i, p + 1) BY <1>1, <1>4, PutStep DEF vListInsertEnd
<1>6. Order(l) = Items(s, n) /\ Place(l) = c /\ Len(Order(l)) = n
  <2>1. Order(l) = Items(s, n) /\ Place(l) = c BY <1>1, <1>2, Shows
  <2> HIDE DEF n
  <2> QED BY <2>1, <1>2, ItemsSequence
<1>7. p + 1 = IF c = 0 THEN n + 1 ELSE c
  <2> HIDE DEF n
  <2> QED BY <1>2, <1>3
<1> HIDE DEF n
<1> QED BY <1>5, <1>6, <1>7 DEF Abstract!InsertToVisitLast

\* Where the loop of vListInsert stops.
LEMMA PassedIs ==
  ASSUME Distinct, IInv, NEW l \in List, NEW v \in Value, v # portMAX_DELAY, NEW s, NEW c,
         View(pxNext, pxContainer, pxIndex[l], l, uxNumberOfItems[l], s, c),
         NEW m \in Passed(l, v)
  PROVE  \E p \in 0..uxNumberOfItems[l] :
           m = s[p] /\ \A q \in 1..p : xItemValue[s[q]] <= v
<1> DEFINE n == uxNumberOfItems[l]
           S == {x \in Node : \E p \in 0..n : x = s[p] /\ \A q \in 1..p : xItemValue[s[q]] <= v}
<1>1. /\ TypeOK /\ n \in Nat /\ s[0] = l /\ pxNext[s[n]] = l
      /\ \A q \in 0..n : s[q] \in Node
      /\ \A q \in 1..n : s[q] \in Item /\ s[q] = pxNext[s[q - 1]]
  <2>1. TypeOK /\ Members(l, n, s) BY ViewInList DEF IInv
  <2> QED BY <2>1 DEF Members
<1> HIDE DEF n
<1>2. l \in S
  <2>1. 0 \in 0..n /\ 1..0 = {} BY <1>1
  <2>2. l \in Node BY DEF Node
  <2> QED BY <2>1, <2>2, <1>1
<1>3. ASSUME NEW x \in S, ValueOf(pxNext[x]) <= v PROVE pxNext[x] \in S
  <2>1. PICK p \in 0..n : x = s[p] /\ \A q \in 1..p : xItemValue[s[q]] <= v OBVIOUS
  <2>2. CASE p = n BY <2>1, <2>2, <1>1, <1>2
  <2>3. CASE p # n
    <3>1. p + 1 \in 1..n /\ p + 1 \in 0..n /\ (p + 1) - 1 = p BY <2>3, <1>1
    <3>2. pxNext[x] = s[p + 1] /\ s[p + 1] \in Item /\ s[p + 1] \in Node
      BY <3>1, <2>1, <1>1
    <3>3. xItemValue[s[p + 1]] <= v BY <3>2, <1>3 DEF ValueOf, Distinct
    <3>4. \A q \in 1..(p + 1) : q \in 1..p \/ q = p + 1 OBVIOUS
    <3>5. \A q \in 1..(p + 1) : xItemValue[s[q]] <= v BY <3>3, <3>4, <2>1
    <3> QED BY <3>1, <3>2, <3>5
  <2> QED BY <2>2, <2>3
<1>4. S \in SUBSET Node OBVIOUS
<1>5. m \in S
  <2> HIDE DEF S
  <2> QED BY <1>2, <1>3, <1>4 DEF Passed
<1> QED BY <1>5 DEF n

LEMMA InsertStep ==
  ASSUME Distinct, IInv, TypeOK', AllViews, NEW l \in List, NEW i \in Item,
         vListInsert(l, i)
  PROVE  AllViews' /\ (Abstract!InsertInOrder(l, i) \/ Abstract!InsertLast(l, i))
<1> DEFINE n == uxNumberOfItems[l]
           v == xItemValue[i]
<1>1. PICK s, c : View(pxNext, pxContainer, pxIndex[l], l, n, s, c) BY DEF AllViews
<1>2. /\ TypeOK /\ n \in Nat /\ s[0] = l /\ pxNext[s[n]] = l /\ v \in Value
      /\ \A q \in 1..n : s[q] \in Item /\ s[q] = pxNext[s[q - 1]]
  <2>1. TypeOK /\ Members(l, n, s) BY <1>1, ViewInList DEF IInv
  <2> QED BY <2>1 DEF Members, TypeOK
<1>3. Order(l) = Items(s, n) /\ Len(Order(l)) = n /\ \A q \in 1..n : Order(l)[q] = s[q]
  <2>1. Order(l) = Items(s, n) BY <1>1, <1>2, Shows
  <2> HIDE DEF n
  <2> QED BY <2>1, <1>2, ItemsSequence
<1>4. CASE v = portMAX_DELAY
  <2>1. 0 \in 0..n /\ n \in 0..n
    <3> HIDE DEF n
    <3> QED BY <1>2
  <2>2. pxPrevious[s[0]] = s[n] BY <1>1, <2>1, BeforeIs
  <2>3. LinkAfter(l, i, s[n]) /\ UNCHANGED <<pxIndex, xItemValue>> /\ pxContainer[i] = NULL
    BY <1>2, <1>4, <2>2 DEF vListInsert
  <2>4. AllViews' /\ Abstract!Put(l, i, n + 1) BY <1>1, <2>1, <2>3, PutStep
  <2> QED BY <1>3, <1>4, <2>4 DEF Abstract!InsertLast
<1>5. CASE v # portMAX_DELAY
  <2>1. PICK m \in Passed(l, v) : ValueOf(pxNext[m]) > v /\ LinkAfter(l, i, m)
    BY <1>5 DEF vListInsert
  <2>2. UNCHANGED <<pxIndex, xItemValue>> /\ pxContainer[i] = NULL BY DEF vListInsert
  <2>3. PICK p \in 0..n : m = s[p] /\ \A q \in 1..p : xItemValue[s[q]] <= v
    <3>1. v \in Value /\ v # portMAX_DELAY BY <1>2, <1>5
    <3> HIDE DEF v
    <3> QED BY <1>1, <3>1, PassedIs
  <2>4. AllViews' /\ Abstract!Put(l, i, p + 1) BY <1>1, <2>1, <2>2, <2>3, PutStep
  <2> DEFINE before == {h \in 0..Len(Order(l)) : \A q \in 1..h : xItemValue[Order(l)[q]] <= v}
  <2>5. p \in before BY <2>3, <1>2, <1>3
  <2>6. ASSUME NEW h \in before PROVE h <= p
    <3>1. h \in 0..n /\ \A q \in 1..h : xItemValue[s[q]] <= v BY <1>2, <1>3
    <3>2. SUFFICES ASSUME h > p PROVE FALSE BY <3>1
    <3> HIDE DEF n, v
    <3>3. p + 1 \in 1..h /\ p + 1 \in 1..n /\ (p + 1) - 1 = p BY <3>1, <3>2, <1>2
    <3>4. pxNext[m] = s[p + 1] /\ s[p + 1] \in Item BY <3>3, <2>3, <1>2
    <3>5. xItemValue[s[p + 1]] <= v /\ xItemValue[s[p + 1]] > v
      BY <3>1, <3>3, <3>4, <2>1 DEF ValueOf, Distinct
    <3>6. xItemValue[s[p + 1]] \in Nat /\ v \in Nat
      BY <3>4, <1>2 DEF TypeOK, Value, Distinct
    <3> QED BY <3>5, <3>6
  <2>7. (CHOOSE h \in before : \A m_1 \in before : m_1 <= h) = p
    <3>1. before \subseteq Nat /\ p \in Nat BY <1>2, <1>3
    <3> HIDE DEF before
    <3>2. \A h \in before : (\A m_1 \in before : m_1 <= h) <=> h = p BY <3>1, <2>5, <2>6
    <3> QED BY <3>2, <2>5
  <2> QED BY <2>4, <2>7 DEF Abstract!InsertInOrder
<1> QED BY <1>4, <1>5

LEMMA RemoveStep ==
  ASSUME Distinct, IInv, TypeOK', AllViews, NEW i \in Item, uxListRemove(i)
  PROVE  AllViews' /\ \E l \in List : \E p \in DOMAIN Order(l) : Abstract!TakeOut(l, p)
<1>1. TypeOK BY DEF IInv
<1>2. PICK l \in List : l = pxContainer[i] BY <1>1 DEF uxListRemove, TypeOK
<1> DEFINE n == uxNumberOfItems[l]
<1>3. PICK s, c : View(pxNext, pxContainer, pxIndex[l], l, n, s, c) BY DEF AllViews
<1>4. Members(l, n, s) /\ Order(l) = Items(s, n) /\ Place(l) = c
  BY <1>1, <1>3, Shows, ViewInList
<1>5. PICK p \in 1..n : s[p] = i BY <1>2, <1>3 DEF View
<1>6. p \in 0..n /\ p # 0 /\ n > 0 /\ p - 1 \in 0..n
  <2>1. n \in Nat BY <1>1, <1>2 DEF TypeOK
  <2> HIDE DEF n
  <2> QED BY <2>1
<1>7. pxPrevious[i] = s[p - 1]
  <2>1. pxPrevious[s[p]] = s[IF p = 0 THEN n ELSE p - 1] BY <1>3, <1>6, BeforeIs
  <2> QED BY <2>1, <1>5, <1>6
<1>8. /\ pxNext'[s[p - 1]] = pxNext[i]
      /\ \A x \in Node \ {s[p - 1]} : pxNext'[x] = pxNext[x]
      /\ pxContainer'[i] = NULL
      /\ \A x \in Item \ {i} : pxContainer'[x] = pxContainer[x]
      /\ uxNumberOfItems'[l] = n - 1
      /\ \A k \in List \ {l} : uxNumberOfItems'[k] = uxNumberOfItems[k]
      /\ pxIndex'[l] = IF pxIndex[l] = i THEN s[p - 1] ELSE pxIndex[l]
      /\ \A k \in List \ {l} : pxIndex'[k] = pxIndex[k]
  <2>1. uxNumberOfItems[pxContainer[i]] > 0 BY <1>2, <1>6
  <2> QED BY <2>1, <1>1, <1>2, <1>7, UnlinkFacts
<1>9. LinkedOut(pxNext, pxContainer, l, s[p], s[p - 1], pxNext', pxContainer')
  BY <1>5, <1>8 DEF LinkedOut, Distinct
<1> DEFINE t == Shorter(s, n, p)
           d == IF c >= p THEN c - 1 ELSE c
<1>10. View(pxNext', pxContainer', pxIndex'[l], l, uxNumberOfItems'[l], t, d)
  <2>1. /\ t = Shorter(s, n, p) /\ d = IF c >= p THEN c - 1 ELSE c
        /\ pxIndex'[l] = IF pxIndex[l] = s[p] THEN s[p - 1] ELSE pxIndex[l]
    BY <1>5, <1>8
  <2>2. n \in Nat BY <1>4 DEF Members
  <2> HIDE DEF n, t, d
  <2>3. View(pxNext, pxContainer, pxIndex[l], l, n, s, c) /\ p \in 1..n
    BY <1>3, <1>6 DEF n
  <2>4. View(pxNext', pxContainer', pxIndex'[l], l, n - 1, t, d)
    BY <2>1, <2>2, <2>3, <1>9, RemovedAs, Zenon
  <2> QED BY <2>4, <1>8
<1>11. ASSUME NEW k \in List \ {l} PROVE ListStays(k)
  <2>1. s[p - 1] \in InList(l) BY <1>4, <1>6 DEF Members
  <2>2. InList(k) \cap InList(l) = {} /\ InList(k) \subseteq Node
    BY <1>1, Apart, InListNodes
  <2>3. \A x \in Item : pxContainer'[x] = k <=> pxContainer[x] = k
    BY <1>2, <1>8 DEF Distinct
  <2> QED BY <2>1, <2>2, <2>3, <1>8 DEF ListStays
<1>12. /\ AllViews'
       /\ [k \in List |-> Order(k)]' = [[k \in List |-> Order(k)] EXCEPT ![l] = Items(t, n - 1)]
       /\ [k \in List |-> Place(k)]' = [[k \in List |-> Place(k)] EXCEPT ![l] = d]
  <2> HIDE DEF t, d
  <2>1. /\ AllViews'
        /\ [k \in List |-> Order(k)]' =
             [[k \in List |-> Order(k)] EXCEPT ![l] = Items(t, uxNumberOfItems'[l])]
        /\ [k \in List |-> Place(k)]' = [[k \in List |-> Place(k)] EXCEPT ![l] = d]
    BY <1>1, <1>10, <1>11, OneListChanges, Zenon
  <2> QED BY <1>8, <2>1
<1>13. /\ Items(t, n - 1) = Abstract!RemoveAt(Order(l), p) /\ p \in DOMAIN Order(l)
  <2>1. n \in Nat /\ \A q \in 1..n : s[q] \in Item BY <1>4 DEF Members
  <2> HIDE DEF n
  <2> QED BY <2>1, <1>4, <1>5, ItemsRemoved DEF Items
<1>14. d = IF c >= p THEN c - 1 ELSE c OBVIOUS
<1>15. UNCHANGED xItemValue BY DEF uxListRemove
<1> HIDE DEF n, t, d
<1>16. Abstract!TakeOut(l, p) BY <1>4, <1>12, <1>13, <1>14, <1>15 DEF Abstract!TakeOut
<1> QED BY <1>12, <1>13, <1>16

\* The place visited next.
LEMMA NextPlace ==
  ASSUME NEW n \in Nat, n > 0, NEW c \in 0..n
  PROVE  (c % n) + 1 = IF c = n THEN 1 ELSE c + 1
<1>1. CASE c = n
  <2>1. n % n = 0 BY Z3
  <2> QED BY <1>1, <2>1
<1>2. CASE c # n
  <2>1. c \in 0..(n - 1) BY <1>2
  <2>2. c % n = c BY <2>1
  <2> QED BY <1>2, <2>2
<1> QED BY <1>1, <1>2

LEMMA VisitStep ==
  ASSUME Distinct, IInv, TypeOK', AllViews, NEW l \in List, listGET_OWNER_OF_NEXT_ENTRY(l)
  PROVE  AllViews' /\ Abstract!VisitNext(l)
<1> DEFINE n == uxNumberOfItems[l]
<1>1. PICK s, c : View(pxNext, pxContainer, pxIndex[l], l, n, s, c) BY DEF AllViews
<1>2. TypeOK /\ Members(l, n, s) /\ Order(l) = Items(s, n) /\ Place(l) = c
  BY <1>1, Shows, ViewInList DEF IInv
<1>3. /\ n \in Nat /\ n > 0 /\ c \in 0..n /\ s[c] = pxIndex[l] /\ s[0] = l /\ pxNext[s[n]] = l
      /\ \A q \in 1..n : s[q] \in Item /\ s[q] # l /\ s[q] = pxNext[s[q - 1]]
  BY <1>1, <1>2 DEF Members, View, listGET_OWNER_OF_NEXT_ENTRY, Distinct
<1>4. /\ pxIndex'[l] = IF pxNext[s[c]] = l THEN pxNext[l] ELSE pxNext[s[c]]
      /\ \A k \in List \ {l} : pxIndex'[k] = pxIndex[k]
      /\ UNCHANGED <<pxNext, pxPrevious, xItemValue, pxContainer, uxNumberOfItems>>
  BY <1>2, <1>3 DEF TypeOK, listGET_OWNER_OF_NEXT_ENTRY
<1>5. PICK d \in 1..n : d = (c % n) + 1 /\ s[d] = pxIndex'[l]
  <2> HIDE DEF n
  <2>1. (c % n) + 1 = IF c = n THEN 1 ELSE c + 1 BY <1>3, NextPlace
  <2>2. CASE c = n
    <3>1. 1 \in 1..n /\ 1 - 1 = 0 BY <1>3
    <3> QED BY <3>1, <2>1, <2>2, <1>3, <1>4
  <2>3. CASE c # n
    <3>1. c + 1 \in 1..n /\ (c + 1) - 1 = c BY <2>3, <1>3
    <3>2. pxNext[s[c]] = s[c + 1] /\ s[c + 1] # l BY <3>1, <1>3
    <3> QED BY <3>1, <3>2, <2>1, <2>3, <1>4
  <2> QED BY <2>2, <2>3
<1>6. View(pxNext', pxContainer', pxIndex'[l], l, uxNumberOfItems'[l], s, d)
  <2>1. View(pxNext, pxContainer, pxIndex'[l], l, n, s, d)
    <3> HIDE DEF n
    <3>1. d \in 0..n /\ View(pxNext, pxContainer, pxIndex[l], l, n, s, c) BY <1>1 DEF n
    <3> QED BY <3>1, <1>5 DEF View
  <2> QED BY <2>1, <1>4
<1>7. ASSUME NEW k \in List \ {l} PROVE ListStays(k) BY <1>4 DEF ListStays
<1>8. /\ AllViews'
      /\ [k \in List |-> Order(k)]'
           = [[k \in List |-> Order(k)] EXCEPT ![l] = Items(s, uxNumberOfItems'[l])]
      /\ [k \in List |-> Place(k)]' = [[k \in List |-> Place(k)] EXCEPT ![l] = d]
  BY <1>2, <1>6, <1>7, OneListChanges, Zenon
<1>9. [k \in List |-> Order(k)]' = [k \in List |-> Order(k)] BY <1>2, <1>4, <1>8
<1>10. Order(l) # <<>> /\ Len(Order(l)) = n
  <2> HIDE DEF n
  <2>1. Len(Order(l)) = n BY <1>2, <1>3, ItemsSequence
  <2> QED BY <2>1, <1>3
<1> HIDE DEF n
<1>11. Abstract!VisitNext(l) BY <1>2, <1>4, <1>5, <1>8, <1>9, <1>10 DEF Abstract!VisitNext
<1> QED BY <1>8, <1>11

\* The links stay as they are.
LEMMA NothingMoves ==
  ASSUME Distinct, IInv, TypeOK', AllViews,
         UNCHANGED <<pxNext, pxPrevious, pxContainer, pxIndex, uxNumberOfItems>>
  PROVE  /\ AllViews'
         /\ [k \in List |-> Order(k)]' = [k \in List |-> Order(k)]
         /\ [k \in List |-> Place(k)]' = [k \in List |-> Place(k)]
<1>1. ASSUME NEW k \in List
      PROVE  /\ \E s, c : View(pxNext', pxContainer', pxIndex'[k], k, uxNumberOfItems'[k], s, c)
             /\ Order(k)' = Order(k) /\ Place(k)' = Place(k)
  <2>1. ListStays(k) /\ TypeOK BY DEF ListStays, IInv
  <2>2. \E s, c : View(pxNext, pxContainer, pxIndex[k], k, uxNumberOfItems[k], s, c)
    BY DEF AllViews
  <2> QED BY <2>1, <2>2, StaysElsewhere, Zenon
<1> QED BY <1>1 DEF AllViews

LEMMA InitOrdered ==
  ASSUME Distinct, Init
  PROVE  AllViews /\ Abstract!Init
<1>1. IInv /\ TypeOK BY InitIInv DEF IInv
<1>2. ASSUME NEW l \in List
      PROVE  /\ \E s, c : View(pxNext, pxContainer, pxIndex[l], l, uxNumberOfItems[l], s, c)
             /\ Order(l) = <<>> /\ Place(l) = 0
  <2> DEFINE s == [q \in 0..0 |-> l]
  <2>1. /\ l \in Node /\ pxNext[l] = l /\ pxIndex[l] = l /\ uxNumberOfItems[l] = 0
        /\ \A x \in Item : pxContainer[x] # l
    BY DEF Init, Node, Distinct
  <2>2. s \in [0..0 -> Node] /\ s[0] = l /\ 1..0 = {} /\ \A q \in 0..0 : q = 0 BY <2>1
  <2> HIDE DEF s
  <2>3. View(pxNext, pxContainer, pxIndex[l], l, 0, s, 0) BY <2>1, <2>2 DEF View, Chain
  <2>4. View(pxNext, pxContainer, pxIndex[l], l, uxNumberOfItems[l], s, 0) BY <2>1, <2>3
  <2>5. Order(l) = Items(s, uxNumberOfItems[l]) /\ Place(l) = 0 BY <2>4, <1>1, Shows
  <2>6. Items(s, 0) = <<>> BY <2>2 DEF Items
  <2> QED BY <2>1, <2>4, <2>5, <2>6
<1>3. xItemValue \in [Item -> 0..portMAX_DELAY] BY DEF Init, Value
<1> QED BY <1>2, <1>3 DEF AllViews, Abstract!Init

LEMMA StepOrdered ==
  ASSUME Distinct, IInv, AllViews, [Next]_vars
  PROVE  AllViews' /\ [Abstract!Next]_(Abstract!vars)
<1>1. TypeOK' BY StepIInv DEF IInv
<1>2. ASSUME NEW l \in List, NEW i \in Item, vListInsert(l, i)
      PROVE  AllViews' /\ Abstract!Next
  BY <1>1, <1>2, InsertStep DEF Abstract!Next
<1>3. ASSUME NEW l \in List, NEW i \in Item, vListInsertEnd(l, i)
      PROVE  AllViews' /\ Abstract!Next
  BY <1>1, <1>3, InsertEndStep DEF Abstract!Next
<1>4. ASSUME NEW i \in Item, uxListRemove(i) PROVE AllViews' /\ Abstract!Next
  BY <1>1, <1>4, RemoveStep DEF Abstract!Next
<1>5. ASSUME NEW i \in Item, listSET_LIST_ITEM_VALUE(i) PROVE AllViews' /\ Abstract!Next
  <2>1. /\ UNCHANGED <<pxNext, pxPrevious, pxContainer, pxIndex, uxNumberOfItems>>
        /\ \E v \in 0..portMAX_DELAY : xItemValue' = [xItemValue EXCEPT ![i] = v]
    BY <1>5 DEF listSET_LIST_ITEM_VALUE, Value
  <2>2. /\ AllViews'
        /\ [k \in List |-> Order(k)]' = [k \in List |-> Order(k)]
        /\ [k \in List |-> Place(k)]' = [k \in List |-> Place(k)]
    BY <2>1, <1>1, NothingMoves
  <2>3. Abstract!SetValue(i) BY <2>1, <2>2 DEF Abstract!SetValue
  <2> QED BY <2>2, <2>3 DEF Abstract!Next
<1>6. ASSUME NEW l \in List, listGET_OWNER_OF_NEXT_ENTRY(l) PROVE AllViews' /\ Abstract!Next
  BY <1>1, <1>6, VisitStep DEF Abstract!Next
<1>7. CASE UNCHANGED vars
  <2>1. UNCHANGED <<pxNext, pxPrevious, pxContainer, pxIndex, uxNumberOfItems>>
        /\ xItemValue' = xItemValue
    BY <1>7 DEF vars
  <2>2. /\ AllViews'
        /\ [k \in List |-> Order(k)]' = [k \in List |-> Order(k)]
        /\ [k \in List |-> Place(k)]' = [k \in List |-> Place(k)]
    BY <2>1, <1>1, NothingMoves
  <2> QED BY <2>1, <2>2 DEF Abstract!vars
<1> QED BY <1>2, <1>3, <1>4, <1>5, <1>6, <1>7 DEF Next

\* However insertions, removals and visits follow each other, a list is a sequence of
\* items: sorted insertion keeps the order among equals, an insertion at the end is
\* visited last, and a removal under the index neither skips an item nor has one
\* visited twice (list.c:76, 104, 168, list.h:280).
THEOREM ListsAreOrdered == ASSUME Distinct PROVE Spec => ImplementsOrderedList
<1>1. Init => IInv /\ AllViews /\ Abstract!Init BY InitIInv, InitOrdered
<1>2. IInv /\ AllViews /\ [Next]_vars
        => IInv' /\ AllViews' /\ [Abstract!Next]_(Abstract!vars)
  BY StepIInv, StepOrdered
<1> QED BY <1>1, <1>2, PTL DEF Spec, ImplementsOrderedList, Abstract!Spec

--------------------
\* The storage of a queue is a sequence of items, for every length a queue can
\* have and all items.

CONSTANTS Stored, Lengths
VARIABLES uxLength, pcWriteTo, pcReadFrom, uxMessagesWaiting, storage, pvBuffer

Q == INSTANCE QueueStorage WITH Item <- Stored

\* Queues are created with room for an item (the assertions at queue.c:314, 372).
LengthsArePositive == Lengths \subseteq Nat \ {0}

StorageInv == Q!TypeOK /\ Q!PointersAgree

\* The ring by itself: l places, of which r was read last and n hold items.

Following(l, p) == IF p + 1 >= l THEN 0 ELSE p + 1
Preceding(l, p) == IF p - 1 < 0 THEN l - 1 ELSE p - 1
Nth(l, r, i) == IF r + i >= l THEN r + i - l ELSE r + i
ListOf(l, r, n, s) == [i \in 1..n |-> s[Nth(l, r, i)]]

IsListOf(items, l, r, n, s) ==
  /\ items \in Seq(Stored) /\ Len(items) = n
  /\ \A i \in 1..n : items[i] = s[Nth(l, r, i)]

\* The items of a ring are a sequence of them.
LEMMA RingIsSequence ==
  ASSUME NEW l \in Nat \ {0}, NEW r \in 0..(l - 1), NEW n \in 0..l,
         NEW s \in [0..(l - 1) -> Stored]
  PROVE  IsListOf(ListOf(l, r, n, s), l, r, n, s)
<1>1. \A i \in 1..n : Nth(l, r, i) \in 0..(l - 1)  BY DEF Nth
<1>2. \A i \in 1..n : s[Nth(l, r, i)] \in Stored  BY <1>1
<1>3. ListOf(l, r, n, s) \in [1..n -> Stored]  BY <1>2 DEF ListOf
<1>4. ListOf(l, r, n, s) \in Seq(Stored)  BY <1>3, SeqDef
<1>5. DOMAIN ListOf(l, r, n, s) = 1..n  BY DEF ListOf
<1>6. Len(ListOf(l, r, n, s)) = n
  <2> DEFINE k == Len(ListOf(l, r, n, s))
  <2>1. k \in Nat /\ 1..n = 1..k  BY <1>4, <1>5, LenProperties
  <2> HIDE DEF k
  <2>2. n \in 1..n <=> n \in 1..k  BY <2>1
  <2>3. k \in 1..n <=> k \in 1..k  BY <2>1
  <2>4. n <= k  BY <2>1, <2>2
  <2>5. k <= n  BY <2>1, <2>3
  <2>6. k = n  BY <2>1, <2>4, <2>5
  <2> QED  BY <2>6 DEF k
<1> QED  BY <1>4, <1>6 DEF ListOf, IsListOf

\* Who writes the place after the last item appends to the sequence.
LEMMA WriteAppends ==
  ASSUME NEW l \in Nat \ {0}, NEW r \in 0..(l - 1), NEW n \in 0..(l - 1),
         NEW s \in [0..(l - 1) -> Stored], NEW t \in [0..(l - 1) -> Stored],
         \A p \in 0..(l - 1) : p # Following(l, Nth(l, r, n)) => t[p] = s[p]
  PROVE  ListOf(l, r, n + 1, t) = Append(ListOf(l, r, n, s), t[Following(l, Nth(l, r, n))])
<1> DEFINE w == Following(l, Nth(l, r, n))
           x == t[w]
           old == ListOf(l, r, n, s)
           m == n + 1
           new == ListOf(l, r, m, t)
<1>0. m = n + 1 /\ m \in 0..l  OBVIOUS
<1>1. w \in 0..(l - 1) /\ w = Nth(l, r, n + 1)  BY DEF Following, Nth
<1>2. \A i \in 1..n : Nth(l, r, i) \in 0..(l - 1) /\ Nth(l, r, i) # w BY <1>1 DEF Nth
<1>3. x \in Stored  BY <1>1
<1>4. \A i \in 1..n : t[Nth(l, r, i)] = s[Nth(l, r, i)]  BY <1>2, <1>1
<1>5. /\ old \in Seq(Stored) /\ Len(old) = n
      /\ \A i \in 1..n : old[i] = s[Nth(l, r, i)]
  <2>1. n \in 0..l  OBVIOUS
  <2>2. IsListOf(old, l, r, n, s)  BY <2>1, RingIsSequence, Zenon
  <2> QED  BY <2>2 DEF IsListOf
<1> HIDE DEF m
<1>6. /\ new \in Seq(Stored) /\ Len(new) = m
      /\ \A i \in 1..m : new[i] = t[Nth(l, r, i)]
  <2>1. IsListOf(new, l, r, m, t)  BY <1>0, RingIsSequence, Zenon
  <2> QED  BY <2>1 DEF IsListOf
<1> HIDE DEF old, new, w, x
<1>7. /\ Append(old, x) \in Seq(Stored) /\ Len(Append(old, x)) = n + 1
      /\ \A i \in 1..n : Append(old, x)[i] = old[i]
      /\ Append(old, x)[n + 1] = x
  BY <1>3, <1>5, AppendProperties
<1>8. \A i \in 1..m : new[i] = Append(old, x)[i]
  <2> TAKE i \in 1..m
  <2>1. CASE i \in 1..n  BY <2>1, <1>4, <1>5, <1>6, <1>7
  <2>2. CASE i = m
    <3>1. new[m] = t[w]  BY <1>0, <1>1, <1>6, <2>2
    <3>2. Append(old, x)[m] = x  BY <1>0, <1>7
    <3>3. t[w] = x  BY DEF x
    <3> QED  BY <2>2, <3>1, <3>2, <3>3
  <2>3. i \in 1..n \/ i = m  BY <1>0
  <2> QED  BY <2>1, <2>2, <2>3, Zenon
<1>9. new = Append(old, x)  BY <1>0, <1>6, <1>7, <1>8, SeqEqual
<1> QED  BY <1>9 DEF old, new, m, x, w

\* Who writes the place read last, and steps back over it, prepends.
LEMMA WritePrepends ==
  ASSUME NEW l \in Nat \ {0}, NEW r \in 0..(l - 1), NEW n \in 0..(l - 1),
         NEW s \in [0..(l - 1) -> Stored], NEW t \in [0..(l - 1) -> Stored],
         \A p \in 0..(l - 1) : p # r => t[p] = s[p]
  PROVE  ListOf(l, Preceding(l, r), n + 1, t) = <<t[r]>> \o ListOf(l, r, n, s)
<1> DEFINE q == Preceding(l, r)
           x == t[r]
           old == ListOf(l, r, n, s)
           m == n + 1
           new == ListOf(l, q, m, t)
<1>0. m = n + 1 /\ m \in 0..l  OBVIOUS
<1>1. q \in 0..(l - 1) /\ Nth(l, q, 1) = r  BY DEF Preceding, Nth
<1>2. \A i \in 1..n : /\ Nth(l, r, i) \in 0..(l - 1) /\ Nth(l, r, i) # r
                      /\ Nth(l, q, i + 1) = Nth(l, r, i)
  BY DEF Preceding, Nth
<1>3. x \in Stored  OBVIOUS
<1>4. \A i \in 1..n : t[Nth(l, q, i + 1)] = s[Nth(l, r, i)]  BY <1>2
<1>5. /\ old \in Seq(Stored) /\ Len(old) = n
      /\ \A i \in 1..n : old[i] = s[Nth(l, r, i)]
  <2>1. n \in 0..l  OBVIOUS
  <2>2. IsListOf(old, l, r, n, s)  BY <2>1, RingIsSequence, Zenon
  <2> QED  BY <2>2 DEF IsListOf
<1> HIDE DEF m, q
<1>6. /\ new \in Seq(Stored) /\ Len(new) = m
      /\ \A i \in 1..m : new[i] = t[Nth(l, q, i)]
  <2>1. IsListOf(new, l, q, m, t)  BY <1>0, <1>1, RingIsSequence, Zenon
  <2> QED  BY <2>1 DEF IsListOf
<1> HIDE DEF old, new, x
<1>7. <<x>> \in Seq(Stored) /\ Len(<<x>>) = 1 /\ <<x>>[1] = x  BY <1>3
<1>8. /\ <<x>> \o old \in Seq(Stored) /\ Len(<<x>> \o old) = m
      /\ \A i \in 1..m :
           (<<x>> \o old)[i] = IF i <= 1 THEN <<x>>[i] ELSE old[i - 1]
  BY <1>0, <1>5, <1>7, ConcatProperties
<1>9. \A i \in 1..m : new[i] = (<<x>> \o old)[i]
  <2> TAKE i \in 1..m
  <2>1. CASE i = 1
    <3>1. new[i] = t[r]  BY <2>1, <1>1, <1>6
    <3>2. (<<x>> \o old)[i] = x  BY <2>1, <1>7, <1>8
    <3> QED  BY <3>1, <3>2 DEF x
  <2>2. CASE i # 1
    <3>1. i - 1 \in 1..n /\ (i - 1) + 1 = i  BY <1>0, <2>2
    <3>2. new[i] = t[Nth(l, q, (i - 1) + 1)]  BY <3>1, <1>6
    <3>3. new[i] = old[i - 1]  BY <3>1, <3>2, <1>4, <1>5
    <3> QED  BY <2>2, <3>1, <3>3, <1>8
  <2> QED  BY <2>1, <2>2
<1>10. new = <<x>> \o old  BY <1>6, <1>8, <1>9, SeqEqual
<1> QED  BY <1>10 DEF old, new, m, q, x

\* Who reads the place after the one read last has the head, and leaves the tail.
LEMMA ReadPops ==
  ASSUME NEW l \in Nat \ {0}, NEW r \in 0..(l - 1), NEW n \in 1..l,
         NEW s \in [0..(l - 1) -> Stored]
  PROVE  /\ ListOf(l, r, n, s) # <<>>
         /\ s[Following(l, r)] = Head(ListOf(l, r, n, s))
         /\ ListOf(l, Following(l, r), n - 1, s) = Tail(ListOf(l, r, n, s))
<1> DEFINE q == Following(l, r)
           old == ListOf(l, r, n, s)
           m == n - 1
           new == ListOf(l, q, m, s)
<1>0. m = n - 1 /\ m \in 0..l  OBVIOUS
<1>1. q \in 0..(l - 1) /\ Nth(l, r, 1) = q  BY DEF Following, Nth
<1>2. \A i \in 1..(n - 1) : Nth(l, q, i) = Nth(l, r, i + 1)  BY DEF Following, Nth
<1>3. /\ old \in Seq(Stored) /\ Len(old) = n
      /\ \A i \in 1..n : old[i] = s[Nth(l, r, i)]
  <2>1. n \in 0..l  OBVIOUS
  <2>2. IsListOf(old, l, r, n, s)  BY <2>1, RingIsSequence, Zenon
  <2> QED  BY <2>2 DEF IsListOf
<1> HIDE DEF m, q
<1>4. /\ new \in Seq(Stored) /\ Len(new) = m
      /\ \A i \in 1..m : new[i] = s[Nth(l, q, i)]
  <2>1. IsListOf(new, l, q, m, s)  BY <1>0, <1>1, RingIsSequence, Zenon
  <2> QED  BY <2>1 DEF IsListOf
<1> HIDE DEF old, new
<1>5. old # <<>>  BY <1>3, EmptySeq
<1>6. /\ Head(old) = old[1] /\ Tail(old) \in Seq(Stored) /\ Len(Tail(old)) = m
      /\ \A i \in 1..m : Tail(old)[i] = old[i + 1]
  BY <1>0, <1>3, <1>5, HeadTailProperties
<1>7. \A i \in 1..m : new[i] = Tail(old)[i]
  <2> TAKE i \in 1..m
  <2>1. i + 1 \in 1..n  BY <1>0
  <2> QED  BY <2>1, <1>0, <1>2, <1>3, <1>4, <1>6
<1>8. new = Tail(old)  BY <1>4, <1>6, <1>7, SeqEqual
<1>9. s[q] = Head(old)  BY <1>1, <1>3, <1>6
<1> QED  BY <1>5, <1>8, <1>9 DEF old, new, m, q

\* The queue.

LEMMA ContentsOfRing ==
  Q!Contents = ListOf(uxLength, pcReadFrom, uxMessagesWaiting, storage)
BY DEF Q!Contents, Q!Ahead, ListOf, Nth

LEMMA ContentsOfNextRing ==
  Q!Contents' = ListOf(uxLength', pcReadFrom', uxMessagesWaiting', storage')
BY DEF Q!Contents, Q!Ahead, ListOf, Nth

\* The invariant, of values: what the lemmas of the ring are cited for.
LEMMA Ring ==
  ASSUME LengthsArePositive, StorageInv
  PROVE  /\ uxLength \in Nat \ {0} /\ pcReadFrom \in 0..(uxLength - 1)
         /\ uxMessagesWaiting \in 0..uxLength
         /\ storage \in [0..(uxLength - 1) -> Stored]
         /\ pcWriteTo = Following(uxLength, Nth(uxLength, pcReadFrom, uxMessagesWaiting))
BY DEF LengthsArePositive, StorageInv, Q!TypeOK, Q!Place, Q!PointersAgree, Q!After, Q!Ahead,
       Following, Nth

LEMMA InitEstablishesIInv == ASSUME LengthsArePositive, Q!Init PROVE StorageInv
BY DEF LengthsArePositive, Q!Init, StorageInv, Q!TypeOK, Q!Place, Q!PointersAgree, Q!After, Q!Ahead

LEMMA StepPreservesIInv ==
  ASSUME LengthsArePositive, StorageInv, [Q!Next]_(Q!vars)
  PROVE  StorageInv'
<1>1. /\ uxLength \in Nat \ {0} /\ pcReadFrom \in 0..(uxLength - 1)
      /\ uxMessagesWaiting \in 0..uxLength
      /\ pcWriteTo \in 0..(uxLength - 1) /\ pvBuffer \in Stored
      /\ storage \in [0..(uxLength - 1) -> Stored] /\ uxLength \in Lengths
      /\ pcWriteTo = Q!After(Q!Ahead(uxMessagesWaiting))
  BY DEF LengthsArePositive, StorageInv, Q!TypeOK, Q!Place, Q!PointersAgree
<1>2. ASSUME NEW x \in Stored, Q!SendToBack(x) PROVE StorageInv'
  BY <1>1, <1>2 DEF Q!SendToBack, StorageInv, Q!TypeOK, Q!Place, Q!PointersAgree,
                    Q!After, Q!Ahead
<1>3. ASSUME NEW x \in Stored, Q!SendToFront(x) PROVE StorageInv' BY <1>1, <1>3
     DEF Q!SendToFront, StorageInv, Q!TypeOK, Q!Place, Q!PointersAgree, Q!After, Q!Before, Q!Ahead
<1>4. ASSUME NEW x \in Stored, Q!Overwrite(x) PROVE StorageInv' BY <1>1, <1>4
     DEF Q!Overwrite, StorageInv, Q!TypeOK, Q!Place, Q!PointersAgree, Q!After, Q!Before, Q!Ahead
<1>5. CASE Q!xQueueReceive
  BY <1>1, <1>5 DEF Q!xQueueReceive, StorageInv, Q!TypeOK, Q!Place, Q!PointersAgree,
                    Q!After, Q!Ahead
<1>6. CASE Q!xQueuePeek
  BY <1>1, <1>6 DEF Q!xQueuePeek, StorageInv, Q!TypeOK, Q!Place, Q!PointersAgree,
                    Q!After, Q!Ahead
<1>7. CASE Q!xQueueGenericReset BY <1>1, <1>7
     DEF Q!xQueueGenericReset, StorageInv, Q!TypeOK, Q!Place, Q!PointersAgree, Q!After, Q!Ahead
<1>8. CASE UNCHANGED Q!vars
  BY <1>8 DEF Q!vars, StorageInv, Q!TypeOK, Q!Place, Q!PointersAgree, Q!After,
              Q!Ahead
<1> QED  BY <1>2, <1>3, <1>4, <1>5, <1>6, <1>7, <1>8 DEF Q!Next

\* Whatever the sends and receives, the two pointers into the storage are as far
\* apart as uxMessagesWaiting says (queue.c:2110, 2163).
THEOREM PointersStayApart == ASSUME LengthsArePositive PROVE Q!Spec => []StorageInv
<1>1. Q!Init => StorageInv  BY InitEstablishesIInv
<1>2. StorageInv /\ [Q!Next]_(Q!vars) => StorageInv'  BY StepPreservesIInv
<1> QED  BY <1>1, <1>2, PTL DEF Q!Spec

LEMMA InitIsEmpty == ASSUME LengthsArePositive, Q!Init PROVE Q!Abstract!Init
<1>1. uxLength \in Lengths /\ pvBuffer \in Stored /\ StorageInv /\ uxMessagesWaiting = 0
  BY InitEstablishesIInv DEF Q!Init
<1>2. IsListOf(Q!Contents, uxLength, pcReadFrom, 0, storage)
  BY <1>1, Ring, ContentsOfRing, RingIsSequence
<1>3. Q!Contents = <<>>  BY <1>2, EmptySeq DEF IsListOf
<1> QED  BY <1>1, <1>3 DEF Q!Abstract!Init

LEMMA ReadsAreHead ==
  ASSUME LengthsArePositive, StorageInv, uxMessagesWaiting > 0
  PROVE  /\ Q!Contents # <<>>
         /\ storage[Q!After(pcReadFrom)] = Head(Q!Contents)
         /\ ListOf(uxLength, Q!After(pcReadFrom), uxMessagesWaiting - 1, storage)
              = Tail(Q!Contents)
<1>1. /\ uxLength \in Nat \ {0} /\ pcReadFrom \in 0..(uxLength - 1)
      /\ uxMessagesWaiting \in 1..uxLength
      /\ storage \in [0..(uxLength - 1) -> Stored]
  BY Ring
<1>2. Q!After(pcReadFrom) = Following(uxLength, pcReadFrom)  BY DEF Q!After, Following
<1> QED  BY <1>1, <1>2, ReadPops, ContentsOfRing

LEMMA StepImplementsStep ==
  ASSUME LengthsArePositive, StorageInv, [Q!Next]_(Q!vars)
  PROVE  [Q!Abstract!Next]_(Q!Abstract!vars)
<1> DEFINE n == uxMessagesWaiting
<1>1. /\ uxLength \in Nat \ {0} /\ pcReadFrom \in 0..(uxLength - 1)
      /\ n \in 0..uxLength
      /\ storage \in [0..(uxLength - 1) -> Stored]
      /\ pcWriteTo = Following(uxLength, Nth(uxLength, pcReadFrom, n))
  BY Ring
<1>2. /\ Q!Contents \in Seq(Stored) /\ Len(Q!Contents) = n
  BY <1>1, RingIsSequence, ContentsOfRing DEF IsListOf
<1>3. pcWriteTo \in 0..(uxLength - 1)  BY DEF StorageInv, Q!TypeOK, Q!Place
<1>4. ASSUME NEW x \in Stored, Q!SendToBack(x) PROVE Q!Abstract!PushBack(x)
  <2>1. n \in 0..(uxLength - 1)  BY <1>1, <1>4 DEF Q!SendToBack
  <2>2. /\ storage' \in [0..(uxLength - 1) -> Stored] /\ storage'[pcWriteTo] = x
        /\ \A p \in 0..(uxLength - 1) : p # pcWriteTo => storage'[p] = storage[p]
    BY <1>1, <1>3, <1>4 DEF Q!SendToBack
  <2> DEFINE w == Following(uxLength, Nth(uxLength, pcReadFrom, n))
  <2>3. ListOf(uxLength, pcReadFrom, n + 1, storage')
          = Append(ListOf(uxLength, pcReadFrom, n, storage), x)
    <3>1. storage'[w] = x  BY <1>1, <2>2
    <3>2. \A p \in 0..(uxLength - 1) : p # w => storage'[p] = storage[p] BY <1>1, <2>2
    <3>3. ListOf(uxLength, pcReadFrom, n + 1, storage')
            = Append(ListOf(uxLength, pcReadFrom, n, storage), storage'[w])
      BY <1>1, <2>1, <2>2, <3>2, WriteAppends
    <3> QED  BY <3>1, <3>3
  <2>4. Q!Contents' = Append(Q!Contents, x)
    BY <1>4, <2>3, ContentsOfRing, ContentsOfNextRing DEF Q!SendToBack
  <2> QED  BY <1>1, <1>2, <1>4, <2>1, <2>4
           DEF Q!SendToBack, Q!Abstract!PushBack, Q!Abstract!Full
<1>5. ASSUME NEW x \in Stored, Q!SendToFront(x) PROVE Q!Abstract!PushFront(x)
  <2>1. n \in 0..(uxLength - 1)  BY <1>1, <1>5 DEF Q!SendToFront
  <2>2. /\ storage' \in [0..(uxLength - 1) -> Stored] /\ storage'[pcReadFrom] = x
        /\ \A p \in 0..(uxLength - 1) : p # pcReadFrom => storage'[p] = storage[p]
    BY <1>1, <1>5 DEF Q!SendToFront
  <2>3. ListOf(uxLength, Preceding(uxLength, pcReadFrom), n + 1, storage')
          = <<x>> \o ListOf(uxLength, pcReadFrom, n, storage)
    BY <1>1, <2>1, <2>2, WritePrepends
  <2>4. Q!Contents' = <<x>> \o Q!Contents
    BY <1>5, <2>3, ContentsOfRing, ContentsOfNextRing
       DEF Q!SendToFront, Q!Before, Preceding
  <2> QED  BY <1>1, <1>2, <1>5, <2>1, <2>4
           DEF Q!SendToFront, Q!Abstract!PushFront, Q!Abstract!Full
<1>6. ASSUME NEW x \in Stored, Q!Overwrite(x) PROVE Q!Abstract!Overwrite(x)
  <2>1. uxLength' = 1 /\ pcReadFrom' = 0 /\ uxMessagesWaiting' = 1 /\ storage'[0] = x
        /\ storage' \in [0..0 -> Stored]
    BY <1>1, <1>6 DEF Q!Overwrite, Q!Before
  <2>2. IsListOf(ListOf(1, 0, 1, storage'), 1, 0, 1, storage')
    <3>1. 1 \in Nat \ {0} /\ 0 \in 0..(1 - 1) /\ 1 \in 0..1
          /\ storage' \in [0..(1 - 1) -> Stored]
      BY <2>1
    <3> QED  BY <3>1, RingIsSequence, Zenon
  <2>3. Q!Contents' = ListOf(1, 0, 1, storage')  BY <2>1, ContentsOfNextRing
  <2>4. Q!Contents' \in Seq(Stored) /\ Len(Q!Contents') = 1 /\ Q!Contents'[1] = x
    BY <2>1, <2>2, <2>3 DEF IsListOf, Nth
  <2>5. <<x>> \in Seq(Stored) /\ Len(<<x>>) = 1 /\ <<x>>[1] = x  OBVIOUS
  <2>6. \A i \in 1..1 : Q!Contents'[i] = <<x>>[i]  BY <2>4, <2>5
  <2>7. Q!Contents' = <<x>>  BY <2>4, <2>5, <2>6, SeqEqual
  <2> QED  BY <1>6, <2>7 DEF Q!Overwrite, Q!Abstract!Overwrite
<1>7. CASE Q!xQueueReceive
  <2>1. n > 0 /\ Q!Contents # <<>> /\ pvBuffer' = Head(Q!Contents)
        /\ ListOf(uxLength, Q!After(pcReadFrom), n - 1, storage) = Tail(Q!Contents)
    BY <1>7, ReadsAreHead DEF Q!xQueueReceive
  <2>2. Q!Contents' = Tail(Q!Contents)
    BY <1>7, <2>1, ContentsOfNextRing DEF Q!xQueueReceive
  <2> QED  BY <1>7, <2>1, <2>2 DEF Q!xQueueReceive, Q!Abstract!Pop, Q!Abstract!Next
<1>8. CASE Q!xQueuePeek
  <2>1. Q!Contents # <<>> /\ pvBuffer' = Head(Q!Contents)
    BY <1>8, ReadsAreHead DEF Q!xQueuePeek
  <2>2. Q!Contents' = Q!Contents
    BY <1>8, ContentsOfRing, ContentsOfNextRing DEF Q!xQueuePeek
  <2> QED  BY <1>8, <2>1, <2>2 DEF Q!xQueuePeek, Q!Abstract!Peek, Q!Abstract!Next
<1>9. CASE Q!xQueueGenericReset
  <2>1. uxMessagesWaiting' = 0 /\ pcReadFrom' \in 0..(uxLength - 1)
        /\ uxLength' = uxLength /\ storage' = storage /\ pvBuffer' = pvBuffer
    BY <1>1, <1>9 DEF Q!xQueueGenericReset
  <2>2. IsListOf(ListOf(uxLength, pcReadFrom', 0, storage),
                 uxLength, pcReadFrom', 0, storage)
    BY <1>1, <2>1, RingIsSequence
  <2>3. Q!Contents' = <<>>  BY <2>1, <2>2, ContentsOfNextRing, EmptySeq DEF IsListOf
  <2> QED  BY <2>1, <2>3 DEF Q!Abstract!Clear, Q!Abstract!Next
<1>10. CASE UNCHANGED Q!vars
  <2>1. Q!Contents' = Q!Contents BY <1>10, ContentsOfRing, ContentsOfNextRing DEF Q!vars
  <2> QED  BY <1>10, <2>1 DEF Q!vars, Q!Abstract!vars
<1> QED  BY <1>4, <1>5, <1>6, <1>7, <1>8, <1>9, <1>10 DEF Q!Next, Q!Abstract!Next

\* A queue of any length, created with whatever in its storage, is a sequence of
\* items: sends put them at its back or front, receives take its head.
THEOREM StorageIsDeque == ASSUME LengthsArePositive PROVE Q!Spec => Q!ImplementsDeque
<1>1. Q!Init => Q!Abstract!Init  BY InitIsEmpty
<1>2. StorageInv /\ [Q!Next]_(Q!vars) => [Q!Abstract!Next]_(Q!Abstract!vars)  BY StepImplementsStep
<1>3. Q!Spec => []StorageInv  BY PointersStayApart
<1> QED  BY <1>1, <1>2, <1>3, PTL DEF Q!Spec, Q!ImplementsDeque, Q!Abstract!Spec

--------------------
\* The Ethernet controller, for any number of polls before a time-out.

CONSTANT PollBound
VARIABLES mac, cr, acc, data, phy, macCall, phyCall, pc, value, state, ignored

Lan == INSTANCE Lan9118

Set == SUBSET Lan!Bits
Command == [busy : BOOLEAN, write : BOOLEAN, reg : Lan!PhyReg, meant : Set]
Transfer == [busy : BOOLEAN, write : BOOLEAN, reg : Lan!MacReg, data : Set,
             command : Command]
MacCall == [at : {"idle", "start", "command", "poll", "done"}, write : BOOLEAN,
            reg : Lan!MacReg \cup {"none"}, data : Set, command : Command, left : Nat,
            error : BOOLEAN]
PhyCall == [at : {"idle", "asks", "data", "command", "poll", "reads", "done"},
            write : BOOLEAN, reg : Lan!PhyReg \cup {"none"}, data : Set,
            command : Command, left : Nat, error : BOOLEAN]
Mii == {"MII_ACC", "MII_DATA"}

LanTyped ==
  /\ mac \in Transfer /\ acc \in Command /\ cr \in Set /\ data \in Set /\ value \in Set
  /\ phy \in [Lan!PhyReg -> Set] /\ macCall \in MacCall /\ phyCall \in PhyCall
  /\ pc \in 1..16 /\ state \in {"down", "up", "error"} /\ ignored \in BOOLEAN

\* A call of the MAC's, by where it is.
Written(reg) == macCall.write /\ macCall.reg = reg
Asked(reg) == ~macCall.write /\ macCall.reg = reg
Starting == macCall.at \in {"start", "command"}
Polled == macCall.at = "poll" /\ ~mac.busy
Answered == macCall.at = "done" /\ ~macCall.error

CallBooked ==
  /\ macCall.at = "idle" => macCall = Lan!Idle
  /\ macCall.at \notin {"idle", "done"} => macCall.left >= 1 /\ ~macCall.error
  /\ macCall.at # "idle" => macCall.reg \in Lan!MacReg
  /\ macCall.at = "command" => macCall.write /\ ~mac.busy
  /\ macCall.at \in {"command", "poll"} /\ macCall.write =>
       mac.data = macCall.data /\ mac.command = macCall.command
  /\ macCall.at = "poll" /\ mac.busy => mac.write = macCall.write /\ mac.reg = macCall.reg
  /\ Answered /\ (~macCall.write \/ macCall.reg \in {"CR", "MII_DATA"}) => ~mac.busy

\* Nothing changes the data register while a transfer to the PHY needs it.
WritesApart ==
  /\ Starting /\ macCall.write /\ macCall.reg \in Mii => ~mac.busy /\ ~acc.busy
  /\ Starting /\ Written("MII_ACC") /\ macCall.command.write =>
       data = macCall.command.meant
  /\ mac.busy /\ mac.write /\ mac.reg \in Mii => ~acc.busy
  /\ mac.busy /\ mac.write /\ mac.reg = "MII_ACC" /\ mac.command.write =>
       data = mac.command.meant
  /\ Polled \/ Answered => (Written("MII_DATA") => ~acc.busy /\ data = macCall.data)
  /\ Polled /\ Asked("MII_ACC") /\ acc.busy => mac.command.busy
  /\ Answered /\ Asked("MII_ACC") /\ acc.busy => macCall.command.busy
  /\ Lan!NoTornTransfer

\* Which call of the MAC's a call of the PHY's is in.
PhyPlaced ==
  /\ phyCall.at \in {"idle", "done"} => macCall.reg \notin Mii
  /\ phyCall.at = "done" => macCall.at = "idle"
  /\ phyCall.at \notin {"idle", "done"} => macCall.at # "idle" /\ phyCall.reg \in Lan!PhyReg
  /\ phyCall.at \in {"asks", "poll"} => Asked("MII_ACC")
  /\ phyCall.at = "data" =>
       Written("MII_DATA") /\ macCall.data = phyCall.data /\ phyCall.write
  /\ phyCall.at = "command" => Written("MII_ACC")
  /\ phyCall.at = "reads" => Asked("MII_DATA") /\ ~phyCall.write
  /\ phyCall.at = "idle" => phyCall = Lan!Idle
  /\ phyCall.at # "done" => ~phyCall.error
  /\ phyCall.at \notin {"idle", "done"} => phyCall.left >= 1

\* As long as no function had an error.
Going == ~ignored /\ state # "error" /\ ~macCall.error /\ ~phyCall.error

\* What a register of the PHY has once d was written to it or read from it.
EffectOf(reg, d) ==
  \/ phy[reg] = d
  \/ reg = "BCTRL" /\ "RESET" \in d /\ phy[reg] = {} /\ pc <= 5
Asks4(c) == [busy |-> TRUE, write |-> c.write, reg |-> c.reg,
             meant |-> IF c.write THEN c.data ELSE {}]
Issued == \/ phyCall.at = "poll"
          \/ phyCall.at = "command" /\ macCall.at \in {"poll", "done"}

StepBooked ==
  /\ phyCall.at = "idle" => ~acc.busy /\ (macCall.at # "poll" => ~mac.busy)
  /\ phyCall.at = "idle" /\ macCall.at # "idle" =>
       /\ pc <= 15 /\ Lan!Step.on = "mac" /\ macCall.reg = Lan!Step.reg
       /\ macCall.write = Lan!Step.write
       /\ macCall.write => macCall.data = value \cup Lan!Step.adds
       /\ macCall.reg = "CR" /\ Polled => cr = mac.data
       /\ macCall.reg = "CR" /\ macCall.at = "done" => cr = macCall.data
  /\ phyCall.at # "idle" =>
       /\ pc <= 15 /\ Lan!Step.on = "phy" /\ phyCall.reg = Lan!Step.reg
       /\ phyCall.write = Lan!Step.write
       /\ phyCall.write /\ phyCall.at # "done" => phyCall.data = value \cup Lan!Step.adds
  /\ phyCall.at \in {"asks", "data", "reads"} =>
       /\ ~acc.busy /\ (macCall.at \in {"start", "command", "done"} => ~mac.busy)

PhyBooked ==
  /\ phyCall.at \in {"command", "poll"} /\ phyCall.write => data = phyCall.data
  /\ phyCall.at = "command" => macCall.command = Asks4(phyCall)
  /\ Issued => /\ mac.busy /\ mac.write =>
                    mac.reg = "MII_ACC" /\ mac.command = Asks4(phyCall)
               /\ acc.busy => acc = Asks4(phyCall)
               /\ ~acc.busy /\ ~(mac.busy /\ mac.write) => EffectOf(phyCall.reg, data)
  /\ phyCall.at = "reads" =>
       /\ EffectOf(phyCall.reg, data) /\ (mac.busy => ~mac.write)
       /\ Polled => mac.data = data
       /\ Answered => macCall.data = data
  /\ phyCall.at = "done" =>
       /\ ~mac.busy /\ ~acc.busy /\ EffectOf(phyCall.reg, data)
       /\ data = IF phyCall.write THEN value \cup Lan!Step.adds ELSE phyCall.data

Progress ==
  /\ pc <= 10 => cr = {}
  /\ pc = 11 => value = {} /\ cr \in {{}, {"TXEN"}}
  /\ pc = 12 => cr = {"TXEN"}
  /\ pc = 13 => value = {"TXEN"} /\ cr \in {{"TXEN"}, {"TXEN", "RXEN"}}
  /\ pc >= 14 => cr = {"TXEN", "RXEN"}
  /\ pc >= 6 => "RESET" \notin phy["BCTRL"]
  /\ pc = 9 => "RESET" \notin value
  /\ pc >= 8 => "CAPS" \in phy["ANEG_ADV"]
  /\ pc >= 10 => "ANEG_EN" \in phy["BCTRL"]
  /\ state = IF pc >= 14 THEN "up" ELSE "down"

UpStays ==
  state = "up" /\ ~ignored =>
    /\ pc >= 14 /\ ~acc.busy /\ (mac.busy => ~mac.write) /\ ~macCall.write
    /\ phyCall.at = "idle"

LanInv == /\ LanTyped /\ CallBooked /\ WritesApart /\ PhyPlaced
          /\ Going => StepBooked /\ PhyBooked /\ Progress
          /\ UpStays /\ Lan!UpMeansConfigured

--------------------
\* The script of the initialisation, step by step.

Entries == [on : {"mac", "phy"}, write : BOOLEAN, reg : Lan!MacReg \cup Lan!PhyReg, adds : Set]

\* t is s, which has n entries, and one or two more.
Extended(t, s, n, p) == s \in Seq(Entries) /\ Len(s) = n /\ t = s \o p
Follows(t, s, n, m) == /\ t \in Seq(Entries) /\ Len(t) = m
                       /\ \A i \in 1..n : t[i] = s[i]

LEMMA TwoMore ==
  ASSUME NEW s, NEW a \in Entries, NEW b \in Entries, NEW n \in Nat,
         NEW t, Extended(t, s, n, <<a, b>>)
  PROVE  Follows(t, s, n, n + 2) /\ t[n + 1] = a /\ t[n + 2] = b
<1>0. s \in Seq(Entries) /\ Len(s) = n /\ t = s \o <<a, b>> BY DEF Extended
<1>1. PICK p : p = <<a, b>> OBVIOUS
<1>2. p \in Seq(Entries) /\ Len(p) = 2 /\ p[1] = a /\ p[2] = b BY <1>1
<1>3. t = s \o p BY <1>0, <1>1
<1>4. /\ s \o p \in Seq(Entries) /\ Len(s \o p) = Len(s) + Len(p)
      /\ \A i \in 1..Len(s) + Len(p) :
           (s \o p)[i] = IF i <= Len(s) THEN s[i] ELSE p[i - Len(s)]
  BY <1>0, <1>2, ConcatProperties
<1>5. /\ t \in Seq(Entries) /\ Len(t) = n + 2
      /\ \A i \in 1..n + 2 : t[i] = IF i <= n THEN s[i] ELSE p[i - n]
  BY <1>0, <1>2, <1>3, <1>4
<1>6. n + 1 \in 1..n + 2 /\ ~(n + 1 <= n) /\ (n + 1) - n = 1 OBVIOUS
<1>d. n + 2 \in 1..n + 2 /\ ~(n + 2 <= n) /\ (n + 2) - n = 2 OBVIOUS
<1>7. t[n + 1] = p[1] /\ t[n + 2] = p[2] BY <1>5, <1>6, <1>d
<1>8. \A i \in 1..n : t[i] = s[i] BY <1>5
<1> QED BY <1>2, <1>5, <1>7, <1>8 DEF Follows

LEMMA OneMore ==
  ASSUME NEW s, NEW a \in Entries, NEW n \in Nat,
         NEW t, Extended(t, s, n, <<a>>)
  PROVE  Follows(t, s, n, n + 1) /\ t[n + 1] = a
<1>0. s \in Seq(Entries) /\ Len(s) = n /\ t = s \o <<a>> BY DEF Extended
<1>1. PICK p : p = <<a>> OBVIOUS
<1>2. p \in Seq(Entries) /\ Len(p) = 1 /\ p[1] = a BY <1>1
<1>3. t = s \o p BY <1>0, <1>1
<1>4. /\ s \o p \in Seq(Entries) /\ Len(s \o p) = Len(s) + Len(p)
      /\ \A i \in 1..Len(s) + Len(p) :
           (s \o p)[i] = IF i <= Len(s) THEN s[i] ELSE p[i - Len(s)]
  BY <1>0, <1>2, ConcatProperties
<1>5. /\ t \in Seq(Entries) /\ Len(t) = n + 1
      /\ \A i \in 1..n + 1 : t[i] = IF i <= n THEN s[i] ELSE p[i - n]
  BY <1>0, <1>2, <1>3, <1>4
<1>6. n + 1 \in 1..n + 1 /\ ~(n + 1 <= n) /\ (n + 1) - n = 1 OBVIOUS
<1>7. t[n + 1] = p[1] BY <1>5, <1>6
<1>8. \A i \in 1..n : t[i] = s[i] BY <1>5
<1> QED BY <1>2, <1>5, <1>7, <1>8 DEF Follows

LEMMA Scripted ==
  /\ Len(Lan!lan9118_init) = 13 /\ Len(Lan!LowLevelInit) = 15
  /\ Lan!LowLevelInit[1] = Lan!Reads("phy", "ID1") /\ Lan!LowLevelInit[2] = Lan!Reads("phy", "ID2")
  /\ Lan!LowLevelInit[3] = Lan!Reads("phy", "BCTRL")
  /\ Lan!LowLevelInit[4] = Lan!Writes("phy", "BCTRL", {"RESET"})
  /\ Lan!LowLevelInit[5] = Lan!Reads("phy", "BCTRL")
  /\ Lan!LowLevelInit[6] = Lan!Reads("phy", "ANEG_ADV")
  /\ Lan!LowLevelInit[7] = Lan!Writes("phy", "ANEG_ADV", {"CAPS"})
  /\ Lan!LowLevelInit[8] = Lan!Reads("phy", "BCTRL")
  /\ Lan!LowLevelInit[9] = Lan!Writes("phy", "BCTRL", {"ANEG_EN"})
  /\ Lan!LowLevelInit[10] = Lan!Reads("mac", "CR")
  /\ Lan!LowLevelInit[11] = Lan!Writes("mac", "CR", {"TXEN"})
  /\ Lan!LowLevelInit[12] = Lan!Reads("mac", "CR")
  /\ Lan!LowLevelInit[13] = Lan!Writes("mac", "CR", {"RXEN"})
  /\ Lan!LowLevelInit[14] = Lan!Reads("mac", "ADDRH") /\ Lan!LowLevelInit[15] = Lan!Reads("mac", "ADDRL")
<1> DEFINE a1 == Lan!Reads("phy", "ID1")  a2 == Lan!Reads("phy", "ID2")
           a3 == Lan!Reads("phy", "BCTRL")  a4 == Lan!Writes("phy", "BCTRL", {"RESET"})
           a6 == Lan!Reads("phy", "ANEG_ADV")  a7 == Lan!Writes("phy", "ANEG_ADV", {"CAPS"})
           a9 == Lan!Writes("phy", "BCTRL", {"ANEG_EN"})
           a10 == Lan!Reads("mac", "CR")  a11 == Lan!Writes("mac", "CR", {"TXEN"})
           a13 == Lan!Writes("mac", "CR", {"RXEN"})
           a14 == Lan!Reads("mac", "ADDRH")  a15 == Lan!Reads("mac", "ADDRL")
           s1 == <<a1, a2>>
           s2 == s1 \o <<a3, a4>>
           s3 == s2 \o <<a3>>
           s4 == s3 \o <<a6, a7>>
           s5 == s4 \o <<a3, a9>>
           s6 == s5 \o <<a10, a11>>
           s7 == s6 \o <<a10, a13>>
           s8 == s7 \o <<a14, a15>>
<1>0. /\ a1 \in Entries /\ a2 \in Entries /\ a3 \in Entries /\ a4 \in Entries
      /\ a6 \in Entries /\ a7 \in Entries /\ a9 \in Entries /\ a10 \in Entries
      /\ a11 \in Entries /\ a13 \in Entries /\ a14 \in Entries /\ a15 \in Entries
  BY DEF Entries, Lan!Reads, Lan!Writes, Set, Lan!Bits, Lan!MacReg, Lan!PhyReg
<1>e. Lan!lan9118_init = s7 /\ Lan!LowLevelInit = s8
  BY DEF Lan!LowLevelInit, Lan!lan9118_init, Lan!lan9118_check_phy,
     Lan!lan9118_reset_phy, Lan!CheckReset, Lan!lan9118_advertise_cap,
     Lan!lan9118_establish_link, Lan!lan9118_enable_mac_xmit,
     Lan!lan9118_enable_mac_recv, Lan!lan9118_read_mac_address
<1> HIDE DEF a1, a2, a3, a4, a6, a7, a9, a10, a11, a13, a14, a15
<1>1. s1 \in Seq(Entries) /\ Len(s1) = 2 /\ s1[1] = a1 /\ s1[2] = a2 BY <1>0
<1> HIDE DEF s1
<1>q2. Extended(s2, s1, 2, <<a3, a4>>) BY <1>1 DEF Extended
<1> HIDE DEF s2
<1>2. /\ s2 \in Seq(Entries) /\ Len(s2) = 4 /\ \A i \in 1..2 : s2[i] = s1[i]
      /\ s2[3] = a3 /\ s2[4] = a4
  <2>0. 2 \in Nat OBVIOUS
  <2>1. Follows(s2, s1, 2, 2 + 2)
        /\ s2[2 + 1] = a3 /\ s2[2 + 2] = a4
    BY <1>0, <1>q2, <2>0, TwoMore
  <2> QED BY <2>1 DEF Follows
<1>q3. Extended(s3, s2, 4, <<a3>>) BY <1>2 DEF Extended
<1> HIDE DEF s3
<1>3. /\ s3 \in Seq(Entries) /\ Len(s3) = 5 /\ \A i \in 1..4 : s3[i] = s2[i]
      /\ s3[5] = a3
  <2>0. 4 \in Nat OBVIOUS
  <2>1. Follows(s3, s2, 4, 4 + 1)
        /\ s3[4 + 1] = a3
    BY <1>0, <1>q3, <2>0, OneMore
  <2> QED BY <2>1 DEF Follows
<1>q4. Extended(s4, s3, 5, <<a6, a7>>) BY <1>3 DEF Extended
<1> HIDE DEF s4
<1>4. /\ s4 \in Seq(Entries) /\ Len(s4) = 7 /\ \A i \in 1..5 : s4[i] = s3[i]
      /\ s4[6] = a6 /\ s4[7] = a7
  <2>0. 5 \in Nat OBVIOUS
  <2>1. Follows(s4, s3, 5, 5 + 2)
        /\ s4[5 + 1] = a6 /\ s4[5 + 2] = a7
    BY <1>0, <1>q4, <2>0, TwoMore
  <2> QED BY <2>1 DEF Follows
<1>q5. Extended(s5, s4, 7, <<a3, a9>>) BY <1>4 DEF Extended
<1> HIDE DEF s5
<1>5. /\ s5 \in Seq(Entries) /\ Len(s5) = 9 /\ \A i \in 1..7 : s5[i] = s4[i]
      /\ s5[8] = a3 /\ s5[9] = a9
  <2>0. 7 \in Nat OBVIOUS
  <2>1. Follows(s5, s4, 7, 7 + 2)
        /\ s5[7 + 1] = a3 /\ s5[7 + 2] = a9
    BY <1>0, <1>q5, <2>0, TwoMore
  <2> QED BY <2>1 DEF Follows
<1>q6. Extended(s6, s5, 9, <<a10, a11>>) BY <1>5 DEF Extended
<1> HIDE DEF s6
<1>6. /\ s6 \in Seq(Entries) /\ Len(s6) = 11 /\ \A i \in 1..9 : s6[i] = s5[i]
      /\ s6[10] = a10 /\ s6[11] = a11
  <2>0. 9 \in Nat OBVIOUS
  <2>1. Follows(s6, s5, 9, 9 + 2)
        /\ s6[9 + 1] = a10 /\ s6[9 + 2] = a11
    BY <1>0, <1>q6, <2>0, TwoMore
  <2> QED BY <2>1 DEF Follows
<1>q7. Extended(s7, s6, 11, <<a10, a13>>) BY <1>6 DEF Extended
<1> HIDE DEF s7
<1>7. /\ s7 \in Seq(Entries) /\ Len(s7) = 13 /\ \A i \in 1..11 : s7[i] = s6[i]
      /\ s7[12] = a10 /\ s7[13] = a13
  <2>0. 11 \in Nat OBVIOUS
  <2>1. Follows(s7, s6, 11, 11 + 2)
        /\ s7[11 + 1] = a10 /\ s7[11 + 2] = a13
    BY <1>0, <1>q7, <2>0, TwoMore
  <2> QED BY <2>1 DEF Follows
<1>q8. Extended(s8, s7, 13, <<a14, a15>>) BY <1>7 DEF Extended
<1> HIDE DEF s8
<1>8. /\ s8 \in Seq(Entries) /\ Len(s8) = 15 /\ \A i \in 1..13 : s8[i] = s7[i]
      /\ s8[14] = a14 /\ s8[15] = a15
  <2>0. 13 \in Nat OBVIOUS
  <2>1. Follows(s8, s7, 13, 13 + 2)
        /\ s8[13 + 1] = a14 /\ s8[13 + 2] = a15
    BY <1>0, <1>q8, <2>0, TwoMore
  <2> QED BY <2>1 DEF Follows
<1>9. /\ s8[1] = a1 /\ s8[2] = a2 /\ s8[3] = a3 /\ s8[4] = a4 /\ s8[5] = a3
      /\ s8[6] = a6 /\ s8[7] = a7 /\ s8[8] = a3 /\ s8[9] = a9 /\ s8[10] = a10
      /\ s8[11] = a11 /\ s8[12] = a10 /\ s8[13] = a13 /\ s8[14] = a14 /\ s8[15] = a15
  BY <1>1, <1>2, <1>3, <1>4, <1>5, <1>6, <1>7, <1>8
<1> QED BY <1>7, <1>8, <1>9, <1>e
     DEF a1, a2, a3, a4, a6, a7, a9, a10, a11, a13, a14, a15

\* The step, by its number.
LEMMA StepFacts ==
  ASSUME pc \in 1..15
  PROVE  /\ Lan!Step.on = IF pc <= 9 THEN "phy" ELSE "mac"
         /\ Lan!Step.write <=> pc \in {4, 7, 9, 11, 13}
         /\ pc <= 9 => Lan!Step.reg \in Lan!PhyReg
         /\ pc >= 10 => Lan!Step.reg \in {"CR", "ADDRH", "ADDRL"}
         /\ pc \in 10..13 => Lan!Step.reg = "CR"
         /\ pc \in {5, 8, 9} => Lan!Step.reg = "BCTRL"
         /\ pc \in {6, 7} => Lan!Step.reg = "ANEG_ADV"
         /\ pc = 14 => Lan!Step.reg = "ADDRH"
         /\ pc = 15 => Lan!Step.reg = "ADDRL"
         /\ Lan!Step.adds \in Set
         /\ pc = 7 => Lan!Step.adds = {"CAPS"}
         /\ pc = 9 => Lan!Step.adds = {"ANEG_EN"}
         /\ pc = 11 => Lan!Step.adds = {"TXEN"}
         /\ pc = 13 => Lan!Step.adds = {"RXEN"}
         /\ Lan!Step.write \in BOOLEAN
<1>1. PICK q \in 1..15 : q = pc OBVIOUS
<1>2. PICK e : e = Lan!LowLevelInit[q] OBVIOUS
<1>3. \/ q = 1 /\ e = Lan!Reads("phy", "ID1")
      \/ q = 2 /\ e = Lan!Reads("phy", "ID2")
      \/ q = 3 /\ e = Lan!Reads("phy", "BCTRL")
      \/ q = 4 /\ e = Lan!Writes("phy", "BCTRL", {"RESET"})
      \/ q = 5 /\ e = Lan!Reads("phy", "BCTRL")
      \/ q = 6 /\ e = Lan!Reads("phy", "ANEG_ADV")
      \/ q = 7 /\ e = Lan!Writes("phy", "ANEG_ADV", {"CAPS"})
      \/ q = 8 /\ e = Lan!Reads("phy", "BCTRL")
      \/ q = 9 /\ e = Lan!Writes("phy", "BCTRL", {"ANEG_EN"})
      \/ q = 10 /\ e = Lan!Reads("mac", "CR")
      \/ q = 11 /\ e = Lan!Writes("mac", "CR", {"TXEN"})
      \/ q = 12 /\ e = Lan!Reads("mac", "CR")
      \/ q = 13 /\ e = Lan!Writes("mac", "CR", {"RXEN"})
      \/ q = 14 /\ e = Lan!Reads("mac", "ADDRH")
      \/ q = 15 /\ e = Lan!Reads("mac", "ADDRL")
  BY <1>2, Scripted
<1>4. e.on = IF q <= 9 THEN "phy" ELSE "mac" BY <1>3 DEF Lan!Reads, Lan!Writes
<1>9. \/ e.write = TRUE /\ q \in {4, 7, 9, 11, 13}
      \/ e.write = FALSE /\ q \notin {4, 7, 9, 11, 13}
  BY <1>3 DEF Lan!Reads, Lan!Writes
<1>5. /\ q <= 9 => e.reg \in Lan!PhyReg
      /\ q >= 10 => e.reg \in {"CR", "ADDRH", "ADDRL"}
      /\ q \in 10..13 => e.reg = "CR"
      /\ q \in {5, 8, 9} => e.reg = "BCTRL"
      /\ q \in {6, 7} => e.reg = "ANEG_ADV"
      /\ q = 14 => e.reg = "ADDRH"
      /\ q = 15 => e.reg = "ADDRL"
  BY <1>3 DEF Lan!Reads, Lan!Writes, Lan!PhyReg
<1>6. /\ q = 7 => e.adds = {"CAPS"}
      /\ q = 9 => e.adds = {"ANEG_EN"}
      /\ q = 11 => e.adds = {"TXEN"}
      /\ q = 13 => e.adds = {"RXEN"}
  BY <1>3 DEF Lan!Reads, Lan!Writes
<1>7. e.adds \in {{}, {"RESET"}, {"CAPS"}, {"ANEG_EN"}, {"TXEN"}, {"RXEN"}}
  BY <1>3 DEF Lan!Reads, Lan!Writes
<1>8. e.adds \in Set BY <1>7 DEF Set, Lan!Bits
<1> QED BY <1>1, <1>2, <1>4, <1>5, <1>6, <1>8, <1>9 DEF Lan!Step

--------------------
\* The controller.

Calling == /\ macCall' = macCall /\ phyCall' = phyCall /\ pc' = pc /\ value' = value
           /\ state' = state /\ ignored' = ignored

LEMMA PhyResetKeeps == ASSUME LanInv, Lan!PhyResetEnds PROVE LanInv'
<1>1. /\ "RESET" \in phy["BCTRL"] /\ phy' \in [Lan!PhyReg -> Set] /\ phy'["BCTRL"] = {}
      /\ \A r \in Lan!PhyReg : r # "BCTRL" => phy'[r] = phy[r]
  <2>1. {} \in Set /\ "BCTRL" \in Lan!PhyReg BY DEF Set, Lan!PhyReg
  <2>2. phy \in [Lan!PhyReg -> Set] /\ phy' = [phy EXCEPT !["BCTRL"] = {}]
    BY DEF LanInv, LanTyped, Lan!PhyResetEnds
  <2> QED BY <2>1, <2>2 DEF Lan!PhyResetEnds
<1>2. /\ mac' = mac /\ cr' = cr /\ acc' = acc /\ data' = data /\ Calling
  BY DEF Lan!PhyResetEnds, Lan!calls, Calling
<1>3. Lan!Step' = Lan!Step BY <1>2 DEF Lan!Step, Calling
<1>4. LanTyped' BY <1>1, <1>2 DEF LanInv, LanTyped, Calling
<1>5. CallBooked' /\ PhyPlaced'
  BY <1>2 DEF LanInv, CallBooked, PhyPlaced, Calling, Answered, Written, Asked
<1>6. WritesApart'
  BY <1>2 DEF LanInv, WritesApart, Calling, Starting, Polled, Answered, Written,
     Asked, Lan!NoTornTransfer
<1>7. ASSUME Going' PROVE StepBooked' /\ PhyBooked' /\ Progress'
  <2>1. StepBooked /\ PhyBooked /\ Progress BY <1>2, <1>7 DEF LanInv, Going, Calling
  <2>2. StepBooked' BY <1>2, <1>3, <2>1 DEF StepBooked, Calling, Polled
  <2>3. Progress' /\ pc <= 5
    BY <1>1, <1>2, <2>1 DEF LanInv, LanTyped, Progress, Calling, Lan!PhyReg
  <2>4. ASSUME NEW r \in Lan!PhyReg, EffectOf(r, data) PROVE EffectOf(r, data)'
    BY <1>1, <1>2, <2>3, <2>4 DEF EffectOf, Calling, Lan!PhyReg
  <2>5. phyCall.at # "idle" => phyCall.reg \in Lan!PhyReg
    <3>1. phyCall.at # "idle" => pc \in 1..9 /\ phyCall.reg = Lan!Step.reg
      BY <2>1, StepFacts DEF LanInv, LanTyped, StepBooked
    <3> QED BY <3>1, StepFacts
  <2>6. PhyBooked' BY <1>2, <1>3, <2>1, <2>4, <2>5
       DEF PhyBooked, Calling, Polled, Answered, Issued, Asks4
  <2> QED BY <2>2, <2>3, <2>6
<1>8. UpStays' BY <1>2 DEF LanInv, UpStays, Calling
<1>9. Lan!UpMeansConfigured'
  BY <1>1, <1>2 DEF LanInv, Lan!UpMeansConfigured, Calling, Lan!PhyReg
<1> QED BY <1>4, <1>5, <1>6, <1>7, <1>8, <1>9 DEF LanInv

LEMMA MiiKeeps == ASSUME LanInv, Lan!MiiCompletes PROVE LanInv'
<1>1. PICK a : a = [acc EXCEPT !.busy = FALSE] OBVIOUS
<1>2. acc \in Command /\ phy \in [Lan!PhyReg -> Set] /\ data \in Set
  BY DEF LanInv, LanTyped
<1>3. /\ a \in Command /\ ~a.busy /\ a.write = acc.write /\ a.reg = acc.reg
      /\ a.meant = acc.meant /\ acc.reg \in Lan!PhyReg /\ acc.write \in BOOLEAN
  BY <1>1, <1>2 DEF Command
<1>4. acc.busy /\ acc' = a /\ mac' = mac /\ cr' = cr /\ Calling
  BY <1>1 DEF Lan!MiiCompletes, Lan!calls, Calling
<1>5. /\ data' \in Set /\ phy' \in [Lan!PhyReg -> Set] /\ phy'[acc.reg] = data'
      /\ \A r \in Lan!PhyReg : r # acc.reg => phy'[r] = phy[r]
      /\ acc.write => data' = data
      /\ ~acc.write => phy' = phy
  BY <1>2, <1>3 DEF Lan!MiiCompletes
<1>6. Lan!Step' = Lan!Step BY <1>4 DEF Lan!Step, Calling
<1>7. LanTyped' BY <1>3, <1>4, <1>5 DEF LanInv, LanTyped, Calling
<1>8. CallBooked' /\ PhyPlaced'
  BY <1>4 DEF LanInv, CallBooked, PhyPlaced, Calling, Answered, Written, Asked
<1>9. WritesApart'
  <2>1. /\ ~(Starting /\ macCall.write /\ macCall.reg \in Mii)
        /\ ~(mac.busy /\ mac.write /\ mac.reg \in Mii)
        /\ ~((Polled \/ Answered) /\ Written("MII_DATA"))
    BY <1>4 DEF LanInv, WritesApart
  <2>2. /\ Starting' = Starting /\ Polled' = Polled /\ Answered' = Answered
        /\ \A r : Written(r)' = Written(r)
    BY <1>4 DEF Calling, Starting, Polled, Answered, Written
  <2>3. ~acc'.busy /\ macCall' = macCall /\ mac' = mac BY <1>3, <1>4 DEF Calling
  <2> QED BY <2>1, <2>2, <2>3 DEF WritesApart, Lan!NoTornTransfer, Mii, Written
<1>10. ASSUME Going' PROVE StepBooked' /\ PhyBooked' /\ Progress'
  <2>1. StepBooked /\ PhyBooked /\ Progress BY <1>4, <1>10 DEF LanInv, Going, Calling
  <2>2. /\ Issued /\ acc = Asks4(phyCall) /\ phyCall.at \in {"command", "poll"}
        /\ pc \in 1..9 /\ phyCall.reg = Lan!Step.reg /\ phyCall.write = Lan!Step.write
        /\ acc.reg = phyCall.reg /\ acc.write = phyCall.write
    <3>1. phyCall.at \in {"command", "poll"}
      BY <1>4, <2>1 DEF LanInv, LanTyped, StepBooked, PhyBooked, PhyCall
    <3>2. phyCall.at = "command" => macCall.at \in {"poll", "done"}
      BY <1>4, <3>1 DEF LanInv, LanTyped, MacCall, WritesApart, PhyPlaced, Starting,
         Written, Mii
    <3>3. Issued /\ acc = Asks4(phyCall) BY <1>4, <2>1, <3>1, <3>2 DEF PhyBooked, Issued
    <3>4. pc \in 1..15 /\ Lan!Step.on = "phy" /\ phyCall.reg = Lan!Step.reg
          /\ phyCall.write = Lan!Step.write
      BY <2>1, <3>1 DEF LanInv, LanTyped, StepBooked
    <3>5. pc \in 1..9 BY <3>4, StepFacts
    <3> QED BY <3>1, <3>3, <3>4, <3>5 DEF Asks4
  <2>3. StepBooked' BY <1>3, <1>4, <1>6, <2>1, <2>2 DEF StepBooked, Calling, Polled
  <2>4. EffectOf(phyCall.reg, data)' BY <1>4, <1>5, <2>2 DEF EffectOf, Calling
  <2>5. PhyBooked' BY <1>3, <1>4, <1>5, <1>6, <2>1, <2>2, <2>4
       DEF PhyBooked, Calling, Polled, Answered, Issued, Asks4
  <2>6. acc.write => data = value \cup Lan!Step.adds
    BY <2>1, <2>2 DEF PhyBooked, StepBooked
  <2>7. Progress' BY <1>4, <1>5, <2>1, <2>2, <2>6, StepFacts
       DEF LanInv, LanTyped, Progress, Calling, Lan!PhyReg
  <2> QED BY <2>3, <2>5, <2>7
<1>11. UpStays' /\ Lan!UpMeansConfigured'
  BY <1>4 DEF LanInv, UpStays, Lan!UpMeansConfigured, Calling
<1> QED BY <1>7, <1>8, <1>9, <1>10, <1>11 DEF LanInv

LEMMA MacWrote ==
  ASSUME LanInv, mac.busy, mac.write, mac'.busy = FALSE, mac' \in Transfer,
         mac'.write = mac.write, mac'.reg = mac.reg, mac'.data = mac.data,
         mac'.command = mac.command, phy' = phy, Calling,
         cr' = IF mac.reg = "CR" THEN mac.data ELSE cr,
         data' = IF mac.reg = "MII_DATA" THEN mac.data ELSE data,
         acc' = IF mac.reg = "MII_ACC" THEN mac.command ELSE acc
  PROVE  LanInv'
<1>1. mac.data \in Set /\ mac.command \in Command /\ mac.reg \in Lan!MacReg
  BY DEF LanInv, LanTyped, Transfer
<1>2. LanTyped' BY <1>1 DEF LanInv, LanTyped, Calling
<1>3. CallBooked' /\ PhyPlaced'
  BY DEF LanInv, CallBooked, PhyPlaced, Calling, Answered, Written, Asked
<1>4. WritesApart'
  BY DEF LanInv, WritesApart, CallBooked, Calling, Starting, Polled, Answered,
     Written, Asked, Lan!NoTornTransfer, Mii
<1>5. Lan!Step' = Lan!Step BY DEF Lan!Step, Calling
<1>6. ASSUME Going' PROVE StepBooked' /\ PhyBooked' /\ Progress'
  <2>1. StepBooked /\ PhyBooked /\ Progress BY <1>6 DEF LanInv, Going, Calling
  <2>2. macCall.at \in {"idle", "start", "command", "poll", "done"}
    BY DEF LanInv, LanTyped, MacCall
  <2>3. phyCall.at \in {"idle", "asks", "data", "command", "poll", "reads", "done"}
    BY DEF LanInv, LanTyped, PhyCall
  <2>4. phyCall.at = "idle" => /\ macCall.at = "poll" /\ macCall.write
                               /\ macCall.reg = mac.reg /\ mac.reg \notin Mii
                               /\ mac.data = value \cup Lan!Step.adds
                               /\ pc \in 10..15
    <3>1. phyCall.at = "idle" => macCall.at = "poll" BY <2>1 DEF StepBooked
    <3>2. phyCall.at = "idle" => Lan!Step.on = "mac" /\ pc \in 1..15
      BY <2>1, <3>1 DEF StepBooked, LanInv, LanTyped
    <3>3. phyCall.at = "idle" => pc \in 10..15 BY <3>2, StepFacts
    <3> QED BY <2>1, <3>1, <3>3 DEF StepBooked, LanInv, CallBooked, PhyPlaced
  <2>5. phyCall.at # "idle" => mac.reg \in Mii
    <3>1. phyCall.at = "data" => macCall.at = "poll"
      BY <2>1, <2>2 DEF StepBooked, LanInv, PhyPlaced
    <3>2. phyCall.at \notin {"asks", "reads", "done"}
      BY <2>1, <2>2 DEF StepBooked, PhyBooked, LanInv, PhyPlaced, CallBooked, Asked
    <3>3. phyCall.at = "command" => Issued
      BY <2>1, <2>2 DEF LanInv, PhyPlaced, WritesApart, Written, Starting, Issued,
         Mii
    <3>4. phyCall.at = "poll" => Issued BY DEF Issued
    <3>5. Issued => mac.reg = "MII_ACC" BY <2>1 DEF PhyBooked
    <3>6. phyCall.at = "data" => mac.reg = "MII_DATA"
      BY <3>1 DEF LanInv, PhyPlaced, CallBooked, Written
    <3> QED BY <2>3, <3>2, <3>3, <3>4, <3>5, <3>6 DEF Mii
  <2>6. StepBooked'
    BY <1>5, <2>1, <2>2, <2>4, <2>5 DEF StepBooked, Calling, Polled, LanInv,
       CallBooked, PhyPlaced, WritesApart, Mii, Asked, Written
  <2>7. PhyBooked'
    <3>1. phyCall.at \in {"command", "poll"} => Issued /\ mac.reg = "MII_ACC"
      <4>1. phyCall.at = "command" => Issued
        BY <2>1, <2>2 DEF LanInv, PhyPlaced, WritesApart, Written, Starting, Issued,
           Mii
      <4> QED BY <2>1, <4>1 DEF Issued, PhyBooked
    <3>2. phyCall.at \notin {"reads", "done"} BY <2>1 DEF PhyBooked
    <3>3. Issued' = Issued /\ (Issued => phyCall.at \in {"command", "poll"})
      BY DEF Issued, Calling
    <3>4. Asks4(phyCall)' = Asks4(phyCall) BY DEF Calling, Asks4
    <3>5. Issued => acc' = Asks4(phyCall) /\ acc'.busy
      BY <2>1, <3>1, <3>3 DEF PhyBooked, Asks4
    <3>6. phyCall.at \in {"command", "poll"} => data' = data BY <3>1
    <3> QED BY <1>5, <2>1, <3>2, <3>3, <3>4, <3>5, <3>6 DEF PhyBooked, Calling
  <2>8. Progress'
    <3>1. cr' # cr => /\ cr' = value \cup Lan!Step.adds /\ pc \in 10..15 /\ Lan!Step.write
      BY <2>1, <2>4, <2>5 DEF Mii, StepBooked
    <3>2. cr' # cr => pc \in {11, 13} BY <3>1, StepFacts
    <3> QED BY <2>1, <3>1, <3>2, StepFacts DEF Progress, Calling
  <2> QED BY <2>6, <2>7, <2>8
<1>7. UpStays' /\ Lan!UpMeansConfigured'
  BY DEF LanInv, UpStays, Lan!UpMeansConfigured, Calling
<1> QED BY <1>2, <1>3, <1>4, <1>6, <1>7 DEF LanInv

LEMMA MacReadOver ==
  ASSUME LanInv, mac.busy, ~mac.write, mac'.busy = FALSE, mac' \in Transfer,
         mac'.write = mac.write, mac'.reg = mac.reg, mac'.command = acc,
         mac.reg = "CR" => mac'.data = cr, mac.reg = "MII_DATA" => mac'.data = data,
         phy' = phy, Calling, cr' = cr, data' = data, acc' = acc
  PROVE  LanInv'
<1>1. LanTyped' BY DEF LanInv, LanTyped, Calling
<1>2. CallBooked' /\ PhyPlaced'
  BY DEF LanInv, CallBooked, PhyPlaced, Calling, Answered, Written, Asked
<1>3. WritesApart'
  BY DEF LanInv, WritesApart, CallBooked, Calling, Starting, Polled, Answered,
     Written, Asked, Lan!NoTornTransfer, Mii
<1>4. Lan!Step' = Lan!Step BY DEF Lan!Step, Calling
<1>5. ASSUME Going' PROVE StepBooked' /\ PhyBooked' /\ Progress'
  <2>1. StepBooked /\ PhyBooked /\ Progress BY <1>5 DEF LanInv, Going, Calling
  <2>2. StepBooked' BY <1>4, <2>1 DEF StepBooked, Calling, Polled, LanInv, CallBooked
  <2>3. Issued' = Issued /\ Asks4(phyCall)' = Asks4(phyCall) BY DEF Issued, Calling, Asks4
  <2>4. EffectOf(phyCall.reg, data)' = EffectOf(phyCall.reg, data)
    BY DEF EffectOf, Calling
  <2>5. phyCall.at = "reads" => /\ Polled' => mac'.data = data
                                /\ ~Answered
    BY DEF LanInv, PhyPlaced, CallBooked, Polled, Asked, Answered, Calling
  <2>6. PhyBooked' BY <1>4, <2>1, <2>3, <2>4, <2>5 DEF PhyBooked, Calling, Answered
  <2>7. Progress' BY <2>1 DEF Progress, Calling
  <2> QED BY <2>2, <2>6, <2>7
<1>6. UpStays' /\ Lan!UpMeansConfigured'
  BY DEF LanInv, UpStays, Lan!UpMeansConfigured, Calling
<1> QED BY <1>1, <1>2, <1>3, <1>5, <1>6 DEF LanInv

LEMMA MacKeeps == ASSUME LanInv, Lan!MacCompletes PROVE LanInv'
<1>1. PICK m : m = mac OBVIOUS
<1>2. m \in Transfer /\ acc \in Command /\ cr \in Set /\ data \in Set
  BY <1>1 DEF LanInv, LanTyped
<1>3. /\ m.reg \in Lan!MacReg /\ m.write \in BOOLEAN /\ m.data \in Set /\ m.command \in Command
  BY <1>2 DEF Transfer
<1>4. m.busy /\ phy' = phy /\ Calling BY <1>1 DEF Lan!MacCompletes, Lan!calls, Calling
<1>5. CASE m.write
  <2>1. PICK n : n = [m EXCEPT !.busy = FALSE] OBVIOUS
  <2>2. /\ n \in Transfer /\ n.busy = FALSE /\ n.write = m.write /\ n.reg = m.reg
        /\ n.data = m.data /\ n.command = m.command
    BY <1>2, <2>1 DEF Transfer
  <2>3. /\ mac' = n
        /\ cr' = IF m.reg = "CR" THEN m.data ELSE cr
        /\ data' = IF m.reg = "MII_DATA" THEN m.data ELSE data
        /\ acc' = IF m.reg = "MII_ACC" THEN m.command ELSE acc
    BY <1>1, <1>5, <2>1 DEF Lan!MacCompletes
  <2> QED BY <1>1, <1>2, <1>3, <1>4, <1>5, <2>2, <2>3, MacWrote
<1>6. CASE ~m.write
  <2>1. PICK n, d : /\ d = CASE m.reg = "CR" -> cr [] m.reg = "MII_DATA" -> data [] OTHER -> {}
                    /\ n = [m EXCEPT !.busy = FALSE, !.command = acc, !.data = d]
    OBVIOUS
  <2>2. /\ d \in Set /\ (m.reg = "CR" => d = cr) /\ (m.reg = "MII_DATA" => d = data)
    BY <1>2, <2>1 DEF Set
  <2>3. /\ n \in Transfer /\ n.busy = FALSE /\ n.write = m.write /\ n.reg = m.reg
        /\ n.data = d /\ n.command = acc
    BY <1>2, <2>1, <2>2 DEF Transfer
  <2>4. mac' = n /\ cr' = cr /\ data' = data /\ acc' = acc
    BY <1>1, <1>6, <2>1 DEF Lan!MacCompletes
  <2> QED BY <1>1, <1>2, <1>4, <1>6, <2>2, <2>3, <2>4, MacReadOver
<1> QED BY <1>3, <1>5, <1>6

--------------------
\* The calls of the MAC's registers.

\* A step of such a call is within a step of the script, and of a call of the PHY's.
MacStep == /\ cr' = cr /\ acc' = acc /\ data' = data /\ phy' = phy /\ phyCall' = phyCall
           /\ pc' = pc /\ value' = value /\ state' = state /\ ignored' = ignored
           /\ Lan!Step' = Lan!Step
SameCall(c) == /\ c \in MacCall /\ c.write = macCall.write /\ c.reg = macCall.reg
               /\ c.data = macCall.data /\ c.command = macCall.command
               /\ c.left = macCall.left

LEMMA MacStepIs ==
  ASSUME UNCHANGED <<cr, acc, data, phy, phyCall, pc, value, state, ignored>>
  PROVE  MacStep
BY DEF MacStep, Lan!Step

LEMMA EffectSame ==
  ASSUME MacStep
  PROVE  /\ EffectOf(phyCall.reg, data)' = EffectOf(phyCall.reg, data)
         /\ Asks4(phyCall)' = Asks4(phyCall)
BY DEF MacStep, EffectOf, Asks4

LEMMA MacRefusedKeeps == ASSUME LanInv, Lan!MacRefused PROVE LanInv'
<1>1. PICK c, d : c = macCall /\ d = [c EXCEPT !.at = "done", !.error = TRUE] OBVIOUS
<1>2. c \in MacCall /\ c.at = "start" BY <1>1 DEF LanInv, LanTyped, Lan!MacRefused
<1>3. SameCall(d) /\ d.at = "done" /\ d.error BY <1>1, <1>2 DEF MacCall, SameCall
<1>4. macCall' = d /\ mac' = mac /\ MacStep
  BY <1>1, MacStepIs DEF Lan!MacRefused, Lan!registers, Lan!script
<1>5. ~Going' BY <1>3, <1>4 DEF Going
<1>6. LanTyped' BY <1>3, <1>4 DEF LanInv, LanTyped, MacStep, SameCall
<1>7. CallBooked' /\ PhyPlaced' BY <1>1, <1>2, <1>3, <1>4
     DEF LanInv, CallBooked, PhyPlaced, MacStep, SameCall, Answered, Written, Asked
<1>8. WritesApart'
  BY <1>1, <1>2, <1>3, <1>4 DEF LanInv, WritesApart, MacStep, SameCall, Starting,
     Polled, Answered, Written, Asked, Lan!NoTornTransfer
<1>9. UpStays' /\ Lan!UpMeansConfigured'
  BY <1>3, <1>4 DEF LanInv, UpStays, Lan!UpMeansConfigured, MacStep, SameCall
<1> QED BY <1>5, <1>6, <1>7, <1>8, <1>9 DEF LanInv

LEMMA ReadKeeps == ASSUME LanInv, Lan!lan9118_mac_regread PROVE LanInv'
<1>1. PICK c, d : c = macCall /\ d = [c EXCEPT !.at = "poll"] OBVIOUS
<1>2. c \in MacCall /\ c.at = "start" /\ ~c.write /\ ~mac.busy
  BY <1>1 DEF LanInv, LanTyped, Lan!lan9118_mac_regread
<1>3. SameCall(d) /\ d.at = "poll" /\ d.error = c.error
  BY <1>1, <1>2 DEF MacCall, SameCall
<1>4. macCall' = d /\ MacStep
  BY <1>1, MacStepIs DEF Lan!lan9118_mac_regread, Lan!registers, Lan!script
<1>5. c.reg \in Lan!MacReg BY <1>1, <1>2 DEF LanInv, CallBooked
<1>6. PICK m : m = [mac EXCEPT !.busy = TRUE, !.write = FALSE, !.reg = c.reg] OBVIOUS
<1>7. /\ m \in Transfer /\ m.busy = TRUE /\ m.write = FALSE /\ m.reg = c.reg
      /\ m.data = mac.data /\ m.command = mac.command
  BY <1>5, <1>6 DEF LanInv, LanTyped, Transfer
<1>8. mac' = m BY <1>1, <1>6 DEF Lan!lan9118_mac_regread
<1>9. LanTyped' BY <1>3, <1>4, <1>7, <1>8 DEF LanInv, LanTyped, MacStep, SameCall
<1>10. CallBooked' /\ PhyPlaced'
  <2>1. c.write = FALSE BY <1>2 DEF MacCall
  <2>2. CallBooked' BY <1>1, <1>2, <1>3, <1>4, <1>5, <1>7, <1>8, <2>1
       DEF LanInv, CallBooked, MacStep, SameCall, Answered
  <2>3. PhyPlaced'
    BY <1>1, <1>2, <1>3, <1>4 DEF LanInv, PhyPlaced, MacStep, SameCall, Written,
       Asked
  <2> QED BY <2>2, <2>3
<1>11. WritesApart'
  BY <1>1, <1>2, <1>3, <1>4, <1>7, <1>8 DEF LanInv, WritesApart, MacStep, SameCall,
     Starting, Polled, Answered, Written, Asked, Lan!NoTornTransfer
<1>12. ASSUME Going' PROVE StepBooked' /\ PhyBooked' /\ Progress'
  <2>1. StepBooked /\ PhyBooked /\ Progress
    BY <1>1, <1>3, <1>4, <1>12 DEF LanInv, Going, MacStep
  <2>2. StepBooked'
    BY <1>1, <1>2, <1>3, <1>4, <1>7, <1>8, <2>1 DEF StepBooked, MacStep, SameCall,
       Polled
  <2>3. phyCall.at \notin {"command", "data", "done"}
    BY <1>1, <1>2 DEF LanInv, PhyPlaced, Written
  <2>4. Issued' <=> phyCall.at = "poll" BY <1>4, <2>3 DEF Issued, MacStep
  <2>5. phyCall.at = "poll" => Issued BY DEF Issued
  <2>6. PhyBooked'
    BY <1>1, <1>2, <1>3, <1>4, <1>7, <1>8, <2>1, <2>3, <2>4, <2>5, EffectSame
       DEF PhyBooked, MacStep, Polled, Answered
  <2>7. Progress' BY <1>4, <2>1 DEF Progress, MacStep
  <2> QED BY <2>2, <2>6, <2>7
<1>13. UpStays' /\ Lan!UpMeansConfigured' BY <1>1, <1>2, <1>3, <1>4, <1>7, <1>8
     DEF LanInv, UpStays, Lan!UpMeansConfigured, MacStep, SameCall
<1> QED BY <1>9, <1>10, <1>11, <1>12, <1>13 DEF LanInv

LEMMA WriteKeeps == ASSUME LanInv, Lan!lan9118_mac_regwrite PROVE LanInv'
<1>1. PICK c, d : c = macCall /\ d = [c EXCEPT !.at = "command"] OBVIOUS
<1>2. c \in MacCall /\ c.at = "start" /\ c.write /\ ~mac.busy
  BY <1>1 DEF LanInv, LanTyped, Lan!lan9118_mac_regwrite
<1>3. SameCall(d) /\ d.at = "command" /\ d.error = c.error
  BY <1>1, <1>2 DEF MacCall, SameCall
<1>4. macCall' = d /\ MacStep
  BY <1>1, MacStepIs DEF Lan!lan9118_mac_regwrite, Lan!registers, Lan!script
<1>5. c.data \in Set /\ c.command \in Command BY <1>2 DEF MacCall
<1>6. PICK m : m = [mac EXCEPT !.data = c.data, !.command = c.command] OBVIOUS
<1>7. /\ m \in Transfer /\ m.busy = mac.busy /\ m.write = mac.write /\ m.reg = mac.reg
      /\ m.data = c.data /\ m.command = c.command
  BY <1>5, <1>6 DEF LanInv, LanTyped, Transfer
<1>8. mac' = m BY <1>1, <1>6 DEF Lan!lan9118_mac_regwrite
<1>9. LanTyped' BY <1>3, <1>4, <1>7, <1>8 DEF LanInv, LanTyped, MacStep, SameCall
<1>10. CallBooked' /\ PhyPlaced' BY <1>1, <1>2, <1>3, <1>4, <1>7, <1>8
     DEF LanInv, CallBooked, PhyPlaced, MacStep, SameCall, Answered, Written, Asked
<1>11. WritesApart'
  BY <1>1, <1>2, <1>3, <1>4, <1>7, <1>8 DEF LanInv, WritesApart, MacStep, SameCall,
     Starting, Polled, Answered, Written, Asked, Lan!NoTornTransfer
<1>12. ASSUME Going' PROVE StepBooked' /\ PhyBooked' /\ Progress'
  <2>1. StepBooked /\ PhyBooked /\ Progress
    BY <1>1, <1>3, <1>4, <1>12 DEF LanInv, Going, MacStep
  <2>2. StepBooked'
    BY <1>1, <1>2, <1>3, <1>4, <1>7, <1>8, <2>1 DEF StepBooked, MacStep, SameCall,
       Polled
  <2>3. phyCall.at \notin {"asks", "poll", "reads", "done"}
    BY <1>1, <1>2 DEF LanInv, PhyPlaced, Asked
  <2>4. ~Issued' BY <1>3, <1>4, <2>3 DEF Issued, MacStep
  <2>6. PhyBooked' BY <1>1, <1>2, <1>3, <1>4, <1>7, <1>8, <2>1, <2>3, <2>4, EffectSame
       DEF PhyBooked, MacStep, SameCall
  <2>7. Progress' BY <1>4, <2>1 DEF Progress, MacStep
  <2> QED BY <2>2, <2>6, <2>7
<1>13. UpStays' /\ Lan!UpMeansConfigured' BY <1>1, <1>2, <1>3, <1>4, <1>7, <1>8
     DEF LanInv, UpStays, Lan!UpMeansConfigured, MacStep, SameCall
<1> QED BY <1>9, <1>10, <1>11, <1>12, <1>13 DEF LanInv

LEMMA CommandKeeps == ASSUME LanInv, Lan!WriteCommand PROVE LanInv'
<1>1. PICK c, d : c = macCall /\ d = [c EXCEPT !.at = "poll"] OBVIOUS
<1>2. c \in MacCall /\ c.at = "command" /\ c.write /\ ~mac.busy
  BY <1>1 DEF LanInv, LanTyped, CallBooked, Lan!WriteCommand
<1>3. SameCall(d) /\ d.at = "poll" /\ d.error = c.error
  BY <1>1, <1>2 DEF MacCall, SameCall
<1>4. macCall' = d /\ MacStep
  BY <1>1, MacStepIs DEF Lan!WriteCommand, Lan!registers, Lan!script
<1>5. c.reg \in Lan!MacReg /\ mac.data = c.data /\ mac.command = c.command
  BY <1>1, <1>2 DEF LanInv, CallBooked
<1>6. PICK m : m = [mac EXCEPT !.busy = TRUE, !.write = TRUE, !.reg = c.reg] OBVIOUS
<1>7. /\ m \in Transfer /\ m.busy = TRUE /\ m.write = TRUE /\ m.reg = c.reg
      /\ m.data = c.data /\ m.command = c.command
  BY <1>5, <1>6 DEF LanInv, LanTyped, Transfer
<1>8. mac' = m BY <1>1, <1>6 DEF Lan!WriteCommand
<1>9. LanTyped' BY <1>3, <1>4, <1>7, <1>8 DEF LanInv, LanTyped, MacStep, SameCall
<1>10. CallBooked' /\ PhyPlaced' BY <1>1, <1>2, <1>3, <1>4, <1>7, <1>8
     DEF LanInv, CallBooked, PhyPlaced, MacStep, SameCall, Answered, Written, Asked
<1>11. WritesApart'
  BY <1>1, <1>2, <1>3, <1>4, <1>7, <1>8 DEF LanInv, WritesApart, MacStep, SameCall,
     Starting, Polled, Answered, Written, Asked, Lan!NoTornTransfer
<1>12. ASSUME Going' PROVE StepBooked' /\ PhyBooked' /\ Progress'
  <2>1. StepBooked /\ PhyBooked /\ Progress
    BY <1>1, <1>3, <1>4, <1>12 DEF LanInv, Going, MacStep
  <2>2. StepBooked'
    BY <1>1, <1>2, <1>3, <1>4, <1>7, <1>8, <2>1 DEF StepBooked, MacStep, SameCall,
       Polled
  <2>3. phyCall.at \notin {"asks", "poll", "reads", "done"}
    BY <1>1, <1>2 DEF LanInv, PhyPlaced, Asked
  <2>4. phyCall.at = "command" => c.reg = "MII_ACC" /\ c.command = Asks4(phyCall)
    BY <1>1, <2>1 DEF LanInv, PhyPlaced, Written, PhyBooked
  <2>5. Issued' => phyCall.at = "command" BY <1>4, <2>3 DEF Issued, MacStep
  <2>6. phyCall.at = "command" => ~acc.busy
    BY <1>1, <1>2, <2>4 DEF LanInv, WritesApart, Starting, Mii
  <2>7. PhyBooked'
    BY <1>1, <1>2, <1>3, <1>4, <1>7, <1>8, <2>1, <2>3, <2>4, <2>5, <2>6, EffectSame
       DEF PhyBooked, MacStep, SameCall
  <2>8. Progress' BY <1>4, <2>1 DEF Progress, MacStep
  <2> QED BY <2>2, <2>7, <2>8
<1>13. UpStays' /\ Lan!UpMeansConfigured' BY <1>1, <1>2, <1>3, <1>4, <1>7, <1>8
     DEF LanInv, UpStays, Lan!UpMeansConfigured, MacStep, SameCall
<1> QED BY <1>9, <1>10, <1>11, <1>12, <1>13 DEF LanInv

LEMMA PollsKeep == ASSUME LanInv, Lan!MacPolls PROVE LanInv'
<1>1. PICK c, left : c = macCall /\ left = c.left - 1 OBVIOUS
<1>2. /\ c \in MacCall /\ c.at = "poll" /\ ~c.error /\ c.reg \in Lan!MacReg /\ left \in Nat
      /\ c.write => mac.data = c.data /\ mac.command = c.command
  <2>1. c \in MacCall /\ c.at = "poll" /\ c.left >= 1 /\ ~c.error /\ c.reg \in Lan!MacReg
    BY <1>1 DEF LanInv, LanTyped, CallBooked, Lan!MacPolls
  <2>2. c.left \in Nat BY <2>1 DEF MacCall
  <2> QED BY <1>1, <2>1, <2>2 DEF LanInv, CallBooked
<1>3. mac' = mac /\ MacStep BY <1>1, MacStepIs DEF Lan!MacPolls, Lan!registers, Lan!script
<1>4. mac.data \in Set /\ mac.command \in Command BY DEF LanInv, LanTyped, Transfer
<1>5. CASE left > 0 /\ Lan!Awaited(macCall)
  <2>1. PICK d : d = [c EXCEPT !.left = left] OBVIOUS
  <2>2. /\ d \in MacCall /\ d.at = c.at /\ d.write = c.write /\ d.reg = c.reg
        /\ d.data = c.data /\ d.command = c.command /\ d.error = c.error /\ d.left >= 1
    BY <1>2, <1>5, <2>1 DEF MacCall
  <2>3. macCall' = d BY <1>1, <1>5, <2>1 DEF Lan!MacPolls
  <2>4. LanTyped' BY <1>3, <2>2, <2>3 DEF LanInv, LanTyped, MacStep
  <2>5. CallBooked' /\ PhyPlaced' BY <1>1, <1>2, <1>3, <2>2, <2>3
       DEF LanInv, CallBooked, PhyPlaced, MacStep, Answered, Written, Asked
  <2>6. WritesApart' BY <1>1, <1>2, <1>3, <2>2, <2>3
       DEF LanInv, WritesApart, MacStep, Starting, Polled, Answered, Written, Asked,
           Lan!NoTornTransfer
  <2>7. ASSUME Going' PROVE StepBooked' /\ PhyBooked' /\ Progress'
    <3>1. StepBooked /\ PhyBooked /\ Progress
      BY <1>1, <1>3, <2>2, <2>3, <2>7 DEF LanInv, Going, MacStep
    <3>2. StepBooked'
      BY <1>1, <1>2, <1>3, <2>2, <2>3, <3>1 DEF StepBooked, MacStep, Polled
    <3>3. Issued' = Issued BY <1>1, <1>3, <2>2, <2>3 DEF Issued, MacStep
    <3>4. PhyBooked' BY <1>1, <1>2, <1>3, <2>2, <2>3, <3>1, <3>3, EffectSame
         DEF PhyBooked, MacStep, Polled, Answered
    <3>5. Progress' BY <1>3, <3>1 DEF Progress, MacStep
    <3> QED BY <3>2, <3>4, <3>5
  <2>8. UpStays' /\ Lan!UpMeansConfigured'
    BY <1>1, <1>3, <2>2, <2>3 DEF LanInv, UpStays, Lan!UpMeansConfigured, MacStep
  <2> QED BY <2>4, <2>5, <2>6, <2>7, <2>8 DEF LanInv
<1>6. CASE ~(left > 0 /\ Lan!Awaited(macCall))
  <2>0. PICK e : e = (left = 0) OBVIOUS
  <2>t. e \in BOOLEAN /\ (e \/ left # 0) BY <2>0
  <2>1. PICK d : d = [c EXCEPT !.at = "done", !.left = 0, !.error = e,
                        !.data = mac.data, !.command = mac.command]
    OBVIOUS
  <2>2. /\ d \in MacCall /\ d.at = "done" /\ d.write = c.write /\ d.reg = c.reg
        /\ d.data = mac.data /\ d.command = mac.command /\ d.error = e
    BY <1>2, <1>4, <2>1, <2>t DEF MacCall
  <2>3. macCall' = d BY <1>1, <1>6, <2>0, <2>1 DEF Lan!MacPolls
  <2>4. ~d.error => /\ ~c.write => ~mac.busy
                    /\ c.reg \in {"CR", "ADDRL", "MII_DATA"} => ~mac.busy
    <3>1. ~d.error => left # 0 BY <2>2, <2>t
    <3>2. ~d.error => ~Lan!Awaited(c)
      <4>1. left # 0 => left > 0 BY <1>2
      <4> QED BY <1>1, <1>6, <3>1, <4>1
    <3> QED BY <1>1, <3>2 DEF Lan!Awaited
  <2>5. c.write => d.data = c.data /\ d.command = c.command BY <1>2, <2>2
  <2>6. LanTyped' BY <1>3, <2>2, <2>3 DEF LanInv, LanTyped, MacStep
  <2>7. CallBooked' /\ PhyPlaced' BY <1>1, <1>2, <1>3, <2>2, <2>3, <2>4, <2>5
       DEF LanInv, CallBooked, PhyPlaced, MacStep, Answered, Written, Asked
  <2>8. WritesApart' BY <1>1, <1>2, <1>3, <2>2, <2>3, <2>4, <2>5
       DEF LanInv, WritesApart, MacStep, Starting, Polled, Answered, Written, Asked,
           Lan!NoTornTransfer
  <2>9. ASSUME Going' PROVE StepBooked' /\ PhyBooked' /\ Progress'
    <3>1. StepBooked /\ PhyBooked /\ Progress /\ ~d.error
      BY <1>1, <1>2, <1>3, <2>2, <2>3, <2>9 DEF LanInv, Going, MacStep
    <3>2. phyCall.at = "idle" => ~mac.busy
      <4>1. phyCall.at = "idle" => /\ pc \in 1..15 /\ Lan!Step.on = "mac"
                                   /\ c.reg = Lan!Step.reg /\ c.write = Lan!Step.write
        BY <1>1, <1>2, <3>1 DEF StepBooked, LanInv, LanTyped
      <4>2. Lan!Step.on = "mac" /\ Lan!Step.write /\ pc \in 1..15 => pc \in {11, 13}
        BY StepFacts
      <4>3. pc \in {11, 13} => Lan!Step.reg = "CR" BY StepFacts
      <4>4. phyCall.at = "idle" /\ c.write => c.reg = "CR" BY <4>1, <4>2, <4>3
      <4> QED BY <2>4, <3>1, <4>4
    <3>3. phyCall.at \in {"asks", "data", "reads"} => ~mac.busy
      BY <1>1, <2>4, <3>1 DEF LanInv, PhyPlaced, Asked, Written
    <3>4. StepBooked' BY <1>1, <1>2, <1>3, <2>2, <2>3, <2>5, <3>1, <3>2, <3>3
         DEF StepBooked, MacStep, Polled
    <3>5. Issued' = Issued BY <1>1, <1>2, <1>3, <2>2, <2>3 DEF Issued, MacStep
    <3>6. phyCall.at = "command" => c.write BY <1>1 DEF LanInv, PhyPlaced, Written
    <3>7. PhyBooked'
      BY <1>1, <1>2, <1>3, <2>2, <2>3, <2>5, <3>1, <3>3, <3>5, <3>6, EffectSame
         DEF PhyBooked, MacStep, Polled, Answered
    <3>8. Progress' BY <1>3, <3>1 DEF Progress, MacStep
    <3> QED BY <3>4, <3>7, <3>8
  <2>10. UpStays' /\ Lan!UpMeansConfigured'
    BY <1>1, <1>3, <2>2, <2>3 DEF LanInv, UpStays, Lan!UpMeansConfigured, MacStep
  <2> QED BY <2>6, <2>7, <2>8, <2>9, <2>10 DEF LanInv
<1> QED BY <1>5, <1>6

--------------------
\* The calls of the PHY's registers.

PhyStep == /\ mac' = mac /\ cr' = cr /\ acc' = acc /\ data' = data /\ phy' = phy
           /\ pc' = pc /\ value' = value /\ state' = state /\ ignored' = ignored
           /\ Lan!Step' = Lan!Step
InPhy == phyCall.at \notin {"idle", "done"}

\* What holds whether or not there were errors.
Anyway == /\ LanTyped /\ CallBooked /\ WritesApart /\ PhyPlaced /\ UpStays
          /\ Lan!UpMeansConfigured
\* The call is at the place a, otherwise as it was.
PhyAt(a) == /\ phyCall' \in PhyCall /\ phyCall'.at = a
            /\ phyCall'.write = phyCall.write /\ phyCall'.reg = phyCall.reg
            /\ phyCall'.command = phyCall.command
\* The MAC's call that belongs to a place.
Belongs(a, write, reg, d) ==
  \/ a \in {"asks", "poll"} /\ write = FALSE /\ reg = "MII_ACC"
  \/ a = "data" /\ write = TRUE /\ reg = "MII_DATA" /\ d = phyCall.data /\ phyCall.write
  \/ a = "command" /\ write = TRUE /\ reg = "MII_ACC"
  \/ a = "reads" /\ write = FALSE /\ reg = "MII_DATA" /\ ~phyCall.write
\* Where a write may begin.
MayWrite(reg, command) ==
  /\ ~mac.busy /\ ~acc.busy
  /\ reg = "MII_ACC" /\ command.write => data = command.meant

LEMMA PhyStepIs == ASSUME UNCHANGED <<mac, Lan!registers, Lan!script>> PROVE PhyStep
BY DEF PhyStep, Lan!registers, Lan!script, Lan!Step

LEMMA IdleIs ==
  /\ Lan!Idle \in MacCall /\ Lan!Idle \in PhyCall /\ Lan!Idle.at = "idle" /\ Lan!Idle.write = FALSE
  /\ Lan!Idle.reg = "none" /\ Lan!Idle.error = FALSE /\ Lan!Idle.data = {}
  /\ Lan!NoCommand \in Command /\ Lan!NoCommand.write = FALSE /\ Lan!NoCommand.busy = FALSE
<1>1. Lan!NoCommand \in Command /\ Lan!NoCommand.write = FALSE /\ Lan!NoCommand.busy = FALSE
  BY DEF Lan!NoCommand, Command, Set, Lan!PhyReg
<1> QED BY <1>1 DEF Lan!Idle, MacCall, PhyCall, Set

LEMMA CallsFacts ==
  ASSUME Lan!LanFits, NEW w \in BOOLEAN, NEW r \in Lan!MacReg, NEW d \in Set, NEW m \in Command,
         Lan!MacCalls(w, r, d, m)
  PROVE  /\ macCall' \in MacCall /\ macCall'.at = "start" /\ macCall'.write = w
         /\ macCall'.reg = r /\ macCall'.data = d /\ macCall'.command = m
         /\ macCall'.left >= 1 /\ macCall'.error = FALSE
BY DEF Lan!LanFits, Lan!MacCalls, MacCall

LEMMA CallFollows ==
  ASSUME Lan!LanFits, LanInv, InPhy, PhyStep, NEW a, NEW w \in BOOLEAN, NEW r \in Lan!MacReg,
         NEW d \in Set, NEW m \in Command, Lan!MacCalls(w, r, d, m), PhyAt(a),
         phyCall'.left >= 1, phyCall'.data = phyCall.data, phyCall'.error = FALSE,
         Belongs(a, w, r, d), w => MayWrite(r, m)
  PROVE  Anyway'
<1>1. /\ macCall' \in MacCall /\ macCall'.at = "start" /\ macCall'.write = w
      /\ macCall'.reg = r /\ macCall'.data = d /\ macCall'.command = m
      /\ macCall'.left >= 1 /\ macCall'.error = FALSE
  BY CallsFacts
<1>2. LanTyped' BY <1>1 DEF LanInv, LanTyped, PhyStep, PhyAt
<1>3. CallBooked' BY <1>1 DEF CallBooked, Answered
<1>4. WritesApart'
  BY <1>1 DEF LanInv, WritesApart, PhyStep, MayWrite, Starting, Polled, Answered,
     Written, Asked, Lan!NoTornTransfer
<1>5. phyCall.reg \in Lan!PhyReg BY DEF LanInv, PhyPlaced, InPhy
<1>6. PhyPlaced' BY <1>1, <1>5 DEF PhyPlaced, PhyAt, Belongs, Written, Asked
<1>7. UpStays' /\ Lan!UpMeansConfigured'
  BY DEF LanInv, InPhy, UpStays, Lan!UpMeansConfigured, PhyStep
<1> QED BY <1>2, <1>3, <1>4, <1>6, <1>7 DEF Anyway

LEMMA DoneFacts ==
  ASSUME LanInv, InPhy, PhyStep, NEW e \in BOOLEAN, NEW d \in Set, Lan!PhyDone(e, d)
  PROVE  /\ Anyway' /\ PhyAt("done") /\ phyCall'.error = e /\ phyCall'.data = d
         /\ macCall' = Lan!Idle
<1>1. PICK p, q : p = phyCall /\ q = [p EXCEPT !.at = "done", !.error = e, !.data = d]
  OBVIOUS
<1>2. /\ q \in PhyCall /\ q.at = "done" /\ q.error = e /\ q.data = d /\ q.write = p.write
      /\ q.reg = p.reg /\ q.command = p.command
  BY <1>1 DEF LanInv, LanTyped, PhyCall
<1>3. phyCall' = q /\ macCall' = Lan!Idle BY <1>1 DEF Lan!PhyDone
<1>4. PhyAt("done") BY <1>1, <1>2, <1>3 DEF PhyAt
<1>5. LanTyped' BY <1>2, <1>3, IdleIs DEF LanInv, LanTyped, PhyStep
<1>6. CallBooked' BY <1>3, IdleIs DEF CallBooked, Answered
<1>7. WritesApart'
  BY <1>3, IdleIs DEF LanInv, WritesApart, PhyStep, Starting, Polled, Answered,
     Written, Asked, Lan!NoTornTransfer
<1>8. PhyPlaced' BY <1>2, <1>3, IdleIs DEF PhyPlaced, Mii
<1>9. UpStays' /\ Lan!UpMeansConfigured'
  BY DEF LanInv, InPhy, UpStays, Lan!UpMeansConfigured, PhyStep
<1> QED BY <1>2, <1>3, <1>4, <1>5, <1>6, <1>7, <1>8, <1>9 DEF Anyway

LEMMA FailureKeeps ==
  ASSUME LanInv, InPhy, PhyStep, Lan!PhyDone(TRUE, {})
  PROVE  LanInv'
<1>1. TRUE \in BOOLEAN /\ {} \in Set BY DEF Set
<1>2. Anyway' /\ phyCall'.error = TRUE BY <1>1, DoneFacts
<1> QED BY <1>2 DEF Anyway, LanInv, Going

LEMMA StepGoesOn ==
  ASSUME LanInv, InPhy, PhyStep, Going', ~macCall.error, NEW a, PhyAt(a), a # "idle",
         a # "done" => phyCall'.data = phyCall.data,
         a \in {"asks", "data", "reads"} => ~mac.busy /\ ~acc.busy
  PROVE  StepBooked /\ PhyBooked /\ Progress /\ StepBooked' /\ Progress'
<1>1. ~phyCall.error BY DEF LanInv, PhyPlaced, InPhy
<1>2. StepBooked /\ PhyBooked /\ Progress BY <1>1 DEF LanInv, Going, PhyStep
<1>3. StepBooked' BY <1>2 DEF StepBooked, InPhy, PhyStep, PhyAt
<1>4. Progress' BY <1>2 DEF Progress, PhyStep
<1> QED BY <1>2, <1>3, <1>4

LEMMA PhyMoves ==
  ASSUME LanInv, InPhy, NEW a \in {"data", "command", "poll", "reads"},
         phyCall' = [phyCall EXCEPT !.at = a]
  PROVE  /\ PhyAt(a) /\ phyCall'.left >= 1 /\ phyCall'.data = phyCall.data
         /\ phyCall'.error = FALSE
<1>1. PICK p, q : p = phyCall /\ q = [p EXCEPT !.at = a] OBVIOUS
<1>2. /\ q \in PhyCall /\ q.at = a /\ q.write = p.write /\ q.reg = p.reg
      /\ q.command = p.command /\ q.data = p.data /\ q.left = p.left /\ q.error = p.error
      /\ p.error \in BOOLEAN
  BY <1>1 DEF LanInv, LanTyped, PhyCall
<1>3. p.left >= 1 /\ ~p.error BY <1>1 DEF LanInv, PhyPlaced, InPhy
<1> QED BY <1>1, <1>2, <1>3 DEF PhyAt

\* Once the command is given its end is asked for.
LEMMA PollKeeps ==
  ASSUME Lan!LanFits, LanInv, InPhy, Issued, PhyStep, ~macCall.error, Lan!Asks, PhyAt("poll"),
         phyCall'.left >= 1, phyCall'.data = phyCall.data, phyCall'.error = FALSE
  PROVE  LanInv'
<1>1. FALSE \in BOOLEAN /\ "MII_ACC" \in Lan!MacReg /\ {} \in Set BY DEF Lan!MacReg, Set
<1>2. Lan!MacCalls(FALSE, "MII_ACC", {}, Lan!NoCommand) /\ Belongs("poll", FALSE, "MII_ACC", {})
  BY DEF Lan!Asks, Belongs
<1>3. Anyway' /\ macCall'.at = "start" BY <1>1, <1>2, IdleIs, CallFollows, CallsFacts
<1>4. ASSUME Going' PROVE StepBooked' /\ PhyBooked' /\ Progress'
  <2>1. StepBooked /\ PhyBooked /\ StepBooked' /\ Progress' BY <1>4, StepGoesOn
  <2>2. phyCall.at \in {"command", "poll"} BY DEF Issued
  <2>3. Asks4(phyCall)' = Asks4(phyCall) BY DEF PhyAt, Asks4
  <2>4. EffectOf(phyCall.reg, data)' = EffectOf(phyCall.reg, data)
    BY DEF EffectOf, PhyStep, PhyAt
  <2>5. PhyBooked' BY <2>1, <2>2, <2>3, <2>4 DEF PhyBooked, PhyStep, PhyAt
  <2> QED BY <2>1, <2>5
<1> QED BY <1>3, <1>4 DEF Anyway, LanInv

\* The command for the PHY, and where it is given.
LEMMA StartKeeps ==
  ASSUME Lan!LanFits, LanInv, InPhy, PhyStep, Lan!Starts, ~macCall.error,
         phyCall' = [phyCall EXCEPT !.at = "command"], ~mac.busy, ~acc.busy,
         phyCall.write => data = phyCall.data
  PROVE  LanInv'
<1>1. PICK p, q : p = phyCall /\ q = [p EXCEPT !.at = "command"] OBVIOUS
<1>2. /\ q \in PhyCall /\ q.at = "command" /\ q.write = p.write /\ q.reg = p.reg
      /\ q.command = p.command /\ q.data = p.data /\ q.left = p.left /\ q.error = p.error
      /\ p.write \in BOOLEAN /\ p.data \in Set
  BY <1>1 DEF LanInv, LanTyped, PhyCall
<1>3. phyCall' = q /\ p.reg \in Lan!PhyReg /\ p.left >= 1 /\ p.error = FALSE
  <2>1. phyCall' = q /\ p.reg \in Lan!PhyReg /\ p.left >= 1 /\ ~p.error
    BY <1>1 DEF LanInv, PhyPlaced, InPhy
  <2>2. p.error \in BOOLEAN BY <1>1 DEF LanInv, LanTyped, PhyCall
  <2> QED BY <2>1, <2>2
<1>4. PICK m : m = [busy |-> TRUE, write |-> p.write, reg |-> p.reg,
                    meant |-> IF p.write THEN p.data ELSE {}]
  OBVIOUS
<1>5. /\ m \in Command /\ m.write = p.write /\ m = Asks4(phyCall)
      /\ m.write => m.meant = p.data
  BY <1>1, <1>2, <1>3, <1>4 DEF Command, Asks4, Set
<1>6. Lan!MacCalls(TRUE, "MII_ACC", {}, m) BY <1>1, <1>4 DEF Lan!Starts
<1>7. TRUE \in BOOLEAN /\ "MII_ACC" \in Lan!MacReg /\ {} \in Set BY DEF Lan!MacReg, Set
<1>8. PhyAt("command") /\ phyCall'.left >= 1 /\ phyCall'.data = phyCall.data
      /\ phyCall'.error = FALSE
  BY <1>1, <1>2, <1>3 DEF PhyAt
<1>9. Belongs("command", TRUE, "MII_ACC", {}) /\ MayWrite("MII_ACC", m)
  BY <1>1, <1>5 DEF Belongs, MayWrite
<1>10. Anyway' BY <1>5, <1>6, <1>7, <1>8, <1>9, CallFollows
<1>11. /\ macCall'.at = "start" /\ macCall'.command = m BY <1>5, <1>6, <1>7, CallsFacts
<1>12. ASSUME Going' PROVE StepBooked' /\ PhyBooked' /\ Progress'
  <2>1. StepBooked' /\ Progress' BY <1>8, <1>12, StepGoesOn
  <2>2. ~Issued' /\ phyCall'.at = "command" BY <1>8, <1>11 DEF Issued, PhyAt
  <2>3. Asks4(phyCall)' = m BY <1>1, <1>2, <1>3, <1>5 DEF Asks4
  <2>4. PhyBooked' BY <1>1, <1>2, <1>3, <1>11, <2>2, <2>3 DEF PhyBooked, PhyStep
  <2> QED BY <2>1, <2>4
<1> QED BY <1>10, <1>12 DEF Anyway, LanInv

LEMMA AskedKeeps == ASSUME Lan!LanFits, LanInv, Lan!PhyAsked PROVE LanInv'
<1>1. /\ phyCall.at = "asks" /\ macCall.at = "done" /\ PhyStep /\ InPhy
  BY PhyStepIs DEF Lan!PhyAsked, Lan!MacDone, InPhy
<1>2. CASE macCall.error \/ macCall.command.busy
  BY <1>1, <1>2, FailureKeeps DEF Lan!PhyAsked
<1>3. CASE ~(macCall.error \/ macCall.command.busy)
  <2>1. ~mac.busy /\ ~acc.busy
    BY <1>1, <1>3 DEF LanInv, PhyPlaced, CallBooked, WritesApart, Answered, Asked
  <2>2. CASE ~phyCall.write
    <3>1. Lan!Starts /\ phyCall' = [phyCall EXCEPT !.at = "command"]
      BY <1>3, <2>2 DEF Lan!PhyAsked
    <3> QED BY <1>1, <1>3, <2>1, <2>2, <3>1, StartKeeps
  <2>3. CASE phyCall.write
    <3>1. /\ Lan!MacCalls(TRUE, "MII_DATA", phyCall.data, Lan!NoCommand)
          /\ phyCall' = [phyCall EXCEPT !.at = "data"]
      BY <1>3, <2>3 DEF Lan!PhyAsked
    <3>2. PhyAt("data") /\ phyCall'.left >= 1 /\ phyCall'.data = phyCall.data
          /\ phyCall'.error = FALSE
      BY <1>1, <3>1, PhyMoves
    <3>3. TRUE \in BOOLEAN /\ "MII_DATA" \in Lan!MacReg /\ phyCall.data \in Set
      BY DEF Lan!MacReg, LanInv, LanTyped, PhyCall
    <3>4. Belongs("data", TRUE, "MII_DATA", phyCall.data) /\ MayWrite("MII_DATA", Lan!NoCommand)
      BY <2>1, <2>3 DEF Belongs, MayWrite
    <3>5. Anyway' /\ macCall'.at = "start"
      BY <1>1, <3>1, <3>2, <3>3, <3>4, IdleIs, CallFollows, CallsFacts
    <3>6. ASSUME Going' PROVE StepBooked' /\ PhyBooked' /\ Progress'
      <4>1. StepBooked' /\ Progress' BY <1>1, <1>3, <2>1, <3>2, <3>6, StepGoesOn
      <4>2. PhyBooked' BY <3>2 DEF PhyBooked, Issued, PhyAt
      <4> QED BY <4>1, <4>2
    <3> QED BY <3>5, <3>6 DEF Anyway, LanInv
  <2> QED BY <2>2, <2>3
<1> QED BY <1>2, <1>3

LEMMA DataWrittenKeeps == ASSUME Lan!LanFits, LanInv, Lan!PhyDataWritten PROVE LanInv'
<1>1. /\ phyCall.at = "data" /\ macCall.at = "done" /\ PhyStep /\ InPhy
  BY PhyStepIs DEF Lan!PhyDataWritten, Lan!MacDone, InPhy
<1>2. CASE macCall.error BY <1>1, <1>2, FailureKeeps DEF Lan!PhyDataWritten
<1>3. CASE ~macCall.error
  <2>1. ~mac.busy /\ ~acc.busy /\ data = phyCall.data
    BY <1>1, <1>3 DEF LanInv, PhyPlaced, CallBooked, WritesApart, Answered, Written
  <2>2. Lan!Starts /\ phyCall' = [phyCall EXCEPT !.at = "command"]
    BY <1>3 DEF Lan!PhyDataWritten
  <2> QED BY <1>1, <1>3, <2>1, <2>2, StartKeeps
<1> QED BY <1>2, <1>3

LEMMA StartedKeeps == ASSUME Lan!LanFits, LanInv, Lan!PhyStarted PROVE LanInv'
<1>1. /\ phyCall.at = "command" /\ macCall.at = "done" /\ PhyStep /\ InPhy
  BY PhyStepIs DEF Lan!PhyStarted, Lan!MacDone, InPhy
<1>2. CASE macCall.error BY <1>1, <1>2, FailureKeeps DEF Lan!PhyStarted
<1>3. CASE ~macCall.error
  <2>1. Lan!Asks /\ phyCall' = [phyCall EXCEPT !.at = "poll"] BY <1>3 DEF Lan!PhyStarted
  <2>2. PhyAt("poll") /\ phyCall'.left >= 1 /\ phyCall'.data = phyCall.data
        /\ phyCall'.error = FALSE
    BY <1>1, <2>1, PhyMoves
  <2>3. Issued BY <1>1 DEF Issued
  <2> QED BY <1>1, <1>3, <2>1, <2>2, <2>3, PollKeeps
<1> QED BY <1>2, <1>3

LEMMA PolledKeeps == ASSUME Lan!LanFits, LanInv, Lan!PhyPolled PROVE LanInv'
<1>1. /\ phyCall.at = "poll" /\ macCall.at = "done" /\ PhyStep /\ InPhy /\ Issued
  BY PhyStepIs DEF Lan!PhyPolled, Lan!MacDone, InPhy, Issued
<1>2. CASE macCall.error BY <1>1, <1>2, FailureKeeps DEF Lan!PhyPolled
<1>3. CASE ~macCall.error
  <2>1. PICK left : left = phyCall.left - 1 OBVIOUS
  <2>2. left \in Nat
    <3>1. phyCall.left \in Nat /\ phyCall.left >= 1
      BY <1>1 DEF LanInv, LanTyped, PhyPlaced, PhyCall
    <3> QED BY <2>1, <3>1
  <2>3. ~mac.busy /\ (~macCall.command.busy => ~acc.busy)
    BY <1>1, <1>3 DEF LanInv, PhyPlaced, CallBooked, WritesApart, Answered, Asked
  <2>4. CASE left > 0 /\ macCall.command.busy
    <3>1. Lan!Asks /\ phyCall' = [phyCall EXCEPT !.left = left]
      BY <1>3, <2>1, <2>4 DEF Lan!PhyPolled
    <3>2. PICK p, q : p = phyCall /\ q = [p EXCEPT !.left = left] OBVIOUS
    <3>3. /\ q \in PhyCall /\ q.at = p.at /\ q.write = p.write /\ q.reg = p.reg
          /\ q.command = p.command /\ q.data = p.data /\ q.left = left
          /\ q.error = p.error /\ p.error \in BOOLEAN
      BY <2>2, <3>2 DEF LanInv, LanTyped, PhyCall
    <3>4. ~p.error BY <1>1, <3>2 DEF LanInv, PhyPlaced
    <3>5. left >= 1 BY <2>2, <2>4
    <3>6. PhyAt("poll") /\ phyCall'.left >= 1 /\ phyCall'.data = phyCall.data
          /\ phyCall'.error = FALSE
      BY <1>1, <3>1, <3>2, <3>3, <3>4, <3>5 DEF PhyAt
    <3> QED BY <1>1, <1>3, <3>1, <3>6, PollKeeps
  <2>5. CASE ~(left > 0 /\ macCall.command.busy) /\ left = 0
    <3>1. Lan!PhyDone(TRUE, {}) BY <1>3, <2>1, <2>5 DEF Lan!PhyPolled
    <3> QED BY <1>1, <3>1, FailureKeeps
  <2>6. CASE ~(left > 0 /\ macCall.command.busy) /\ left # 0 /\ phyCall.write
    <3>1. Lan!PhyDone(FALSE, {}) BY <1>3, <2>1, <2>6 DEF Lan!PhyPolled
    <3>2. ~acc.busy
      <4>1. left > 0 BY <2>2, <2>6
      <4> QED BY <2>3, <2>6, <4>1
    <3>3. FALSE \in BOOLEAN /\ {} \in Set BY DEF Set
    <3>4. Anyway' /\ PhyAt("done") /\ macCall' = Lan!Idle BY <1>1, <3>1, <3>3, DoneFacts
    <3>5. ASSUME Going' PROVE StepBooked' /\ PhyBooked' /\ Progress'
      <4>1. StepBooked /\ PhyBooked /\ StepBooked' /\ Progress'
        BY <1>1, <1>3, <3>4, <3>5, StepGoesOn
      <4>2. EffectOf(phyCall.reg, data) /\ data = value \cup Lan!Step.adds
        BY <1>1, <2>3, <2>6, <3>2, <4>1 DEF PhyBooked, StepBooked
      <4>3. EffectOf(phyCall.reg, data)' BY <1>1, <3>4, <4>2 DEF EffectOf, PhyStep, PhyAt
      <4>4. PhyBooked'
        BY <1>1, <2>3, <2>6, <3>2, <3>4, <4>2, <4>3 DEF PhyBooked, PhyStep, PhyAt,
           Issued
      <4> QED BY <4>1, <4>4
    <3> QED BY <3>4, <3>5 DEF Anyway, LanInv
  <2>7. CASE ~(left > 0 /\ macCall.command.busy) /\ left # 0 /\ ~phyCall.write
    <3>1. /\ Lan!MacCalls(FALSE, "MII_DATA", {}, Lan!NoCommand)
          /\ phyCall' = [phyCall EXCEPT !.at = "reads"]
      BY <1>3, <2>1, <2>7 DEF Lan!PhyPolled
    <3>2. ~acc.busy
      <4>1. left > 0 BY <2>2, <2>7
      <4> QED BY <2>3, <2>7, <4>1
    <3>3. PhyAt("reads") /\ phyCall'.left >= 1 /\ phyCall'.data = phyCall.data
          /\ phyCall'.error = FALSE
      BY <1>1, <3>1, PhyMoves
    <3>4. FALSE \in BOOLEAN /\ "MII_DATA" \in Lan!MacReg /\ {} \in Set
      BY DEF Lan!MacReg, Set
    <3>5. Belongs("reads", FALSE, "MII_DATA", {}) BY <2>7 DEF Belongs
    <3>6. Anyway' /\ macCall'.at = "start"
      BY <1>1, <3>1, <3>3, <3>4, <3>5, IdleIs, CallFollows, CallsFacts
    <3>7. ASSUME Going' PROVE StepBooked' /\ PhyBooked' /\ Progress'
      <4>1. StepBooked /\ PhyBooked /\ StepBooked' /\ Progress'
        BY <1>1, <1>3, <2>3, <3>2, <3>3, <3>7, StepGoesOn
      <4>2. EffectOf(phyCall.reg, data) BY <1>1, <2>3, <3>2, <4>1 DEF PhyBooked
      <4>3. EffectOf(phyCall.reg, data)' BY <1>1, <3>3, <4>2 DEF EffectOf, PhyStep, PhyAt
      <4>4. PhyBooked' BY <1>1, <2>3, <3>2, <3>3, <3>6, <4>3
           DEF PhyBooked, PhyStep, PhyAt, Issued, Polled, Answered
      <4> QED BY <4>1, <4>4
    <3> QED BY <3>6, <3>7 DEF Anyway, LanInv
  <2> QED BY <2>4, <2>5, <2>6, <2>7
<1> QED BY <1>2, <1>3

LEMMA PhyReadKeeps == ASSUME LanInv, Lan!PhyRead PROVE LanInv'
<1>1. /\ phyCall.at = "reads" /\ macCall.at = "done" /\ PhyStep /\ InPhy
  BY PhyStepIs DEF Lan!PhyRead, Lan!MacDone, InPhy
<1>2. macCall.error \in BOOLEAN /\ macCall.data \in Set /\ {} \in Set
  BY DEF LanInv, LanTyped, MacCall, Set
<1>3. CASE macCall.error
  <2>1. Lan!PhyDone(TRUE, {}) BY <1>2, <1>3 DEF Lan!PhyRead
  <2> QED BY <1>1, <2>1, FailureKeeps
<1>4. CASE ~macCall.error
  <2>1. Lan!PhyDone(FALSE, macCall.data) /\ FALSE \in BOOLEAN
    BY <1>2, <1>4 DEF Lan!PhyRead
  <2>2. /\ Anyway' /\ PhyAt("done") /\ macCall' = Lan!Idle /\ phyCall'.data = macCall.data
    BY <1>1, <1>2, <2>1, DoneFacts
  <2>3. ASSUME Going' PROVE StepBooked' /\ PhyBooked' /\ Progress'
    <3>1. StepBooked /\ PhyBooked /\ StepBooked' /\ Progress'
      BY <1>1, <1>4, <2>2, <2>3, StepGoesOn
    <3>2. /\ EffectOf(phyCall.reg, data) /\ data = macCall.data /\ ~mac.busy /\ ~acc.busy
          /\ ~phyCall.write
      BY <1>1, <1>4, <3>1 DEF PhyBooked, StepBooked, Answered, LanInv, PhyPlaced
    <3>3. EffectOf(phyCall.reg, data)' BY <1>1, <2>2, <3>2 DEF EffectOf, PhyStep, PhyAt
    <3>4. PhyBooked' BY <1>1, <2>2, <3>2, <3>3 DEF PhyBooked, PhyStep, PhyAt, Issued
    <3> QED BY <3>1, <3>4
  <2> QED BY <2>2, <2>3 DEF Anyway, LanInv
<1> QED BY <1>3, <1>4

--------------------
\* The script.

LEMMA OverIs == ASSUME LanInv PROVE ~Lan!Over <=> (state # "error" /\ pc \in 1..15)
BY Scripted DEF Lan!Over, LanInv, LanTyped

LEMMA BeginsKeeps == ASSUME Lan!LanFits, LanInv, Lan!StepBegins PROVE LanInv'
<1>1. /\ PhyStep /\ phyCall = Lan!Idle /\ macCall = Lan!Idle /\ state # "error" /\ pc \in 1..15
  BY OverIs, PhyStepIs DEF Lan!StepBegins
<1>2. PICK d : d = IF Lan!Step.write THEN value \cup Lan!Step.adds ELSE {} OBVIOUS
<1>3. Lan!Step.write \in BOOLEAN /\ d \in Set
  BY <1>1, <1>2, StepFacts DEF LanInv, LanTyped, Set
<1>4. CASE Lan!Step.on = "phy"
  <2>1. PICK q : q = [Lan!Idle EXCEPT !.at = "asks", !.write = Lan!Step.write, !.reg = Lan!Step.reg,
                        !.left = PollBound, !.data = d]
    OBVIOUS
  <2>2. pc \in 1..9 /\ Lan!Step.reg \in Lan!PhyReg BY <1>1, <1>4, StepFacts
  <2>3. /\ q \in PhyCall /\ q.at = "asks" /\ q.write = Lan!Step.write /\ q.reg = Lan!Step.reg
        /\ q.left >= 1 /\ q.data = d /\ q.error = FALSE
    <3>1. PICK i : i = Lan!Idle OBVIOUS
    <3>2. i \in PhyCall /\ i.error = FALSE BY <3>1, IdleIs
    <3>3. PollBound \in Nat /\ PollBound >= 1 BY DEF Lan!LanFits
    <3>4. q = [i EXCEPT !.at = "asks", !.write = Lan!Step.write, !.reg = Lan!Step.reg,
                 !.left = PollBound, !.data = d]
      BY <2>1, <3>1
    <3> QED BY <1>3, <2>2, <3>2, <3>3, <3>4 DEF PhyCall
  <2>4. phyCall' = q /\ Lan!MacCalls(FALSE, "MII_ACC", {}, Lan!NoCommand)
    BY <1>2, <1>4, <2>1 DEF Lan!StepBegins, Lan!Asks
  <2>5. FALSE \in BOOLEAN /\ "MII_ACC" \in Lan!MacReg /\ {} \in Set BY DEF Lan!MacReg, Set
  <2>6. /\ macCall' \in MacCall /\ macCall'.at = "start" /\ macCall'.write = FALSE
        /\ macCall'.reg = "MII_ACC" /\ macCall'.left >= 1 /\ macCall'.error = FALSE
    BY <2>4, <2>5, IdleIs, CallsFacts
  <2>7. LanTyped' BY <1>1, <2>3, <2>4, <2>6 DEF LanInv, LanTyped, PhyStep
  <2>8. CallBooked' BY <2>5, <2>6 DEF CallBooked, Answered
  <2>9. WritesApart'
    BY <1>1, <2>6 DEF LanInv, WritesApart, PhyStep, Starting, Polled, Answered,
       Written, Asked, Lan!NoTornTransfer
  <2>10. PhyPlaced' BY <2>2, <2>3, <2>4, <2>6 DEF PhyPlaced, Asked
  <2>11. ~(state = "up" /\ ~ignored)
    <3>1. ASSUME state = "up", ~ignored PROVE FALSE
      <4>1. Going BY <1>1, <3>1, IdleIs DEF Going
      <4>2. Progress /\ pc \in 1..9 BY <2>2, <4>1 DEF LanInv
      <4> QED BY <3>1, <4>2 DEF Progress
    <3> QED BY <3>1
  <2>12. UpStays' /\ Lan!UpMeansConfigured'
    BY <1>1, <2>11 DEF UpStays, Lan!UpMeansConfigured, PhyStep
  <2>13. ASSUME Going' PROVE StepBooked' /\ PhyBooked' /\ Progress'
    <3>1. StepBooked /\ Progress BY <1>1, <2>13, IdleIs DEF LanInv, Going, PhyStep
    <3>2. ~mac.busy /\ ~acc.busy BY <1>1, <3>1, IdleIs DEF StepBooked
    <3>3. StepBooked' BY <1>1, <1>2, <1>4, <2>3, <2>4, <3>2 DEF StepBooked, PhyStep
    <3>4. PhyBooked' BY <2>3, <2>4 DEF PhyBooked, Issued
    <3>5. Progress' BY <1>1, <3>1 DEF Progress, PhyStep
    <3> QED BY <3>3, <3>4, <3>5
  <2> QED BY <2>7, <2>8, <2>9, <2>10, <2>12, <2>13 DEF LanInv
<1>5. CASE Lan!Step.on # "phy"
  <2>1. pc \in 10..15 /\ Lan!Step.reg \in {"CR", "ADDRH", "ADDRL"} /\ Lan!Step.on = "mac"
    BY <1>1, <1>5, StepFacts
  <2>2. Lan!MacCalls(Lan!Step.write, Lan!Step.reg, d, Lan!NoCommand) /\ phyCall' = phyCall
    BY <1>2, <1>5 DEF Lan!StepBegins
  <2>3. /\ macCall' \in MacCall /\ macCall'.at = "start" /\ macCall'.write = Lan!Step.write
        /\ macCall'.reg = Lan!Step.reg /\ macCall'.data = d /\ macCall'.left >= 1
        /\ macCall'.error = FALSE
    <3>1. Lan!Step.reg \in Lan!MacReg BY <2>1 DEF Lan!MacReg
    <3> QED BY <1>3, <2>2, <3>1, IdleIs, CallsFacts
  <2>4. LanTyped' BY <1>1, <2>2, <2>3 DEF LanInv, LanTyped, PhyStep
  <2>5. CallBooked' BY <2>1, <2>3 DEF CallBooked, Answered, Lan!MacReg
  <2>6. WritesApart'
    BY <1>1, <2>1, <2>3 DEF LanInv, WritesApart, PhyStep, Starting, Polled,
       Answered, Written, Asked, Lan!NoTornTransfer, Mii
  <2>7. PhyPlaced' BY <1>1, <2>1, <2>2, <2>3, IdleIs DEF LanInv, PhyPlaced, Mii
  <2>8. state = "up" /\ ~ignored => ~Lan!Step.write
    <3>1. state = "up" /\ ~ignored => pc \in {14, 15} BY <1>1 DEF LanInv, UpStays
    <3> QED BY <3>1, StepFacts
  <2>9. UpStays' /\ Lan!UpMeansConfigured'
    BY <1>1, <2>2, <2>3, <2>8 DEF LanInv, UpStays, Lan!UpMeansConfigured, PhyStep
  <2>10. ASSUME Going' PROVE StepBooked' /\ PhyBooked' /\ Progress'
    <3>1. StepBooked /\ Progress BY <1>1, <2>10, IdleIs DEF LanInv, Going, PhyStep
    <3>2. ~mac.busy /\ ~acc.busy BY <1>1, <3>1, IdleIs DEF StepBooked
    <3>3. StepBooked'
      BY <1>1, <1>2, <2>1, <2>2, <2>3, <3>2, IdleIs DEF StepBooked, PhyStep, Polled
    <3>4. PhyBooked' BY <1>1, <2>2, IdleIs DEF PhyBooked, Issued
    <3>5. Progress' BY <1>1, <3>1 DEF Progress, PhyStep
    <3> QED BY <3>3, <3>4, <3>5
  <2> QED BY <2>4, <2>5, <2>6, <2>7, <2>9, <2>10 DEF LanInv
<1> QED BY <1>4, <1>5

\* What the step that is over has done and read.
LEMMA ResultIs ==
  ASSUME LanInv, Going, pc \in 1..15, Lan!Returns.at = "done"
  PROVE  /\ ~mac.busy /\ ~acc.busy
         /\ Lan!Step.on = "phy" => /\ EffectOf(Lan!Step.reg, data)
                                   /\ Lan!Step.write => data = value \cup Lan!Step.adds
                                   /\ ~Lan!Step.write => data = Lan!Returns.data
         /\ Lan!Step.on = "mac" => /\ Lan!Step.reg = "CR" => cr = Lan!Returns.data
                                   /\ Lan!Step.write => Lan!Returns.data = value \cup Lan!Step.adds
<1>1. StepBooked /\ PhyBooked BY DEF LanInv
<1>2. CASE Lan!Step.on = "phy"
  <2>1. phyCall.at = "done" /\ Lan!Returns = phyCall BY <1>2 DEF Lan!Returns
  <2> QED BY <1>1, <1>2, <2>1 DEF StepBooked, PhyBooked
<1>3. CASE Lan!Step.on # "phy"
  <2>1. macCall.at = "done" /\ Lan!Returns = macCall BY <1>3 DEF Lan!Returns
  <2>2. phyCall.at = "idle" BY <1>1, <1>3 DEF StepBooked
  <2> QED BY <1>1, <1>3, <2>1, <2>2 DEF StepBooked
<1>4. Lan!Step.on \in {"phy", "mac"} BY StepFacts
<1> QED BY <1>2, <1>3, <1>4

LEMMA ReturnsKeeps == ASSUME LanInv, Lan!StepReturns PROVE LanInv'
<1>1. /\ state # "error" /\ pc \in 1..15 /\ Lan!Returns.at = "done"
      /\ phyCall' = Lan!Idle /\ macCall' = Lan!Idle /\ pc' = pc + 1
      /\ mac' = mac /\ cr' = cr /\ acc' = acc /\ data' = data /\ phy' = phy
  BY OverIs DEF Lan!StepReturns, Lan!registers
<1>2. PICK err, read : /\ err = Lan!Returns.error
                       /\ read = IF Lan!Step.write \/ err THEN {} ELSE Lan!Returns.data
  OBVIOUS
<1>3. /\ value' = read /\ ignored' = (ignored \/ (err /\ Lan!MayFail))
      /\ state' = CASE (err /\ ~Lan!MayFail) \/ Lan!Refuses(read) -> "error"
                    [] pc = Len(Lan!lan9118_init) -> "up"
                    [] OTHER -> state
  BY <1>2 DEF Lan!StepReturns
<1>4. err \in BOOLEAN /\ read \in Set
  <2>1. Lan!Returns.error \in BOOLEAN /\ Lan!Returns.data \in Set
    BY DEF Lan!Returns, LanInv, LanTyped, MacCall, PhyCall
  <2> QED BY <1>2, <2>1 DEF Set
<1>5. Len(Lan!lan9118_init) = 13 BY Scripted
<1>6. LanTyped'
  <2>1. state' \in {"down", "up", "error"} BY <1>3 DEF LanInv, LanTyped
  <2>2. ignored' \in BOOLEAN BY <1>3, <1>4 DEF LanInv, LanTyped, Lan!MayFail
  <2>3. pc' \in 1..16 BY <1>1
  <2> QED BY <1>1, <1>3, <1>4, <2>1, <2>2, <2>3, IdleIs DEF LanInv, LanTyped
<1>7. CallBooked' /\ PhyPlaced' BY <1>1, IdleIs DEF CallBooked, PhyPlaced, Answered, Mii
<1>8. WritesApart' BY <1>1, IdleIs DEF LanInv, WritesApart, Starting, Polled, Answered,
     Lan!NoTornTransfer
\* Going on without errors.
<1>9. ASSUME ~ignored', state' # "error"
      PROVE  Going /\ ~err /\ ~Lan!Refuses(read)
  <2>1. ~ignored /\ ~(err /\ Lan!MayFail) /\ ~(err /\ ~Lan!MayFail) /\ ~Lan!Refuses(read)
    <3>1. ~ignored /\ ~(err /\ Lan!MayFail) BY <1>3, <1>9, Zenon
    <3>2. CASE (err /\ ~Lan!MayFail) \/ Lan!Refuses(read)
      <4>1. pc # Len(Lan!lan9118_init) BY <1>1, <1>5, <3>2 DEF Lan!MayFail, Lan!Refuses
      <4>2. state' = "error" BY <1>3, <3>2, <4>1, Zenon
      <4> QED BY <4>2, <1>9
    <3>3. CASE ~((err /\ ~Lan!MayFail) \/ Lan!Refuses(read)) BY <3>1, <3>3, Zenon
    <3> QED BY <3>2, <3>3, Zenon
  <2>2. ~err BY <2>1
  <2>3. ~macCall.error /\ ~phyCall.error
    <3>1. CASE Lan!Step.on = "phy"
      <4>1. Lan!Returns = phyCall /\ phyCall.at = "done" BY <1>1, <3>1 DEF Lan!Returns
      <4>2. macCall = Lan!Idle BY <4>1 DEF LanInv, PhyPlaced, CallBooked
      <4> QED BY <1>2, <2>2, <4>1, <4>2, IdleIs
    <3>2. CASE Lan!Step.on # "phy"
      <4>1. Lan!Returns = macCall BY <3>2 DEF Lan!Returns
      <4>2. phyCall.at # "done" BY <1>1, <4>1, IdleIs DEF LanInv, PhyPlaced
      <4> QED BY <1>2, <2>2, <4>1, <4>2 DEF LanInv, PhyPlaced
    <3> QED BY <3>1, <3>2
  <2> QED BY <1>1, <2>1, <2>2, <2>3 DEF Going
<1>10. ASSUME ~ignored', state' # "error"
       PROVE  /\ ~mac.busy /\ ~acc.busy /\ Progress'
  <2>1. Going /\ Progress /\ ~err /\ ~Lan!Refuses(read) BY <1>9, <1>10 DEF LanInv
  <2>2. /\ ~mac.busy /\ ~acc.busy
        /\ Lan!Step.on = "phy" => /\ EffectOf(Lan!Step.reg, data)
                                  /\ Lan!Step.write => data = value \cup Lan!Step.adds
                                  /\ ~Lan!Step.write => data = Lan!Returns.data
        /\ Lan!Step.on = "mac" => /\ Lan!Step.reg = "CR" => cr = Lan!Returns.data
                                  /\ Lan!Step.write => Lan!Returns.data = value \cup Lan!Step.adds
    BY <1>1, <2>1, ResultIs
  <2>3. read = IF Lan!Step.write THEN {} ELSE Lan!Returns.data BY <1>2, <2>1
  <2>4. pc = 5 => "RESET" \notin phy["BCTRL"]
    <3>1. pc = 5 => /\ Lan!Step.on = "phy" /\ Lan!Step.reg = "BCTRL" /\ ~Lan!Step.write
      BY StepFacts
    <3>2. pc = 5 => "RESET" \notin read BY <2>1 DEF Lan!Refuses
    <3> QED BY <2>2, <2>3, <3>1, <3>2 DEF EffectOf
  <2>5. pc = 8 => "RESET" \notin read
    <3>1. pc = 8 => /\ Lan!Step.on = "phy" /\ Lan!Step.reg = "BCTRL" /\ ~Lan!Step.write
      BY StepFacts
    <3>2. pc = 8 => "RESET" \notin phy["BCTRL"] BY <2>1 DEF Progress
    <3>3. pc = 8 => phy["BCTRL"] = data BY <2>2, <3>1 DEF EffectOf
    <3> QED BY <2>2, <2>3, <3>1, <3>2, <3>3
  <2>6. pc = 7 => "CAPS" \in phy["ANEG_ADV"]
    <3>1. pc = 7 => /\ Lan!Step.on = "phy" /\ Lan!Step.reg = "ANEG_ADV" /\ Lan!Step.write
                    /\ Lan!Step.adds = {"CAPS"}
      BY StepFacts
    <3> QED BY <2>2, <3>1 DEF EffectOf
  <2>7. pc = 9 => "ANEG_EN" \in phy["BCTRL"]
    <3>1. pc = 9 => /\ Lan!Step.on = "phy" /\ Lan!Step.reg = "BCTRL" /\ Lan!Step.write
                    /\ Lan!Step.adds = {"ANEG_EN"}
      BY StepFacts
    <3> QED BY <2>2, <3>1 DEF EffectOf
  <2>8. pc \in 10..13 => /\ cr = Lan!Returns.data
                         /\ pc \in {10, 12} => read = cr
                         /\ pc \in {11, 13} => cr = value \cup Lan!Step.adds
    <3>1. pc \in 10..13 => /\ Lan!Step.on = "mac" /\ Lan!Step.reg = "CR"
                           /\ Lan!Step.write <=> pc \in {11, 13}
      BY StepFacts
    <3> QED BY <2>2, <2>3, <3>1
  <2>9. /\ pc = 11 => cr = {"TXEN"}
        /\ pc = 13 => cr = {"TXEN", "RXEN"}
    BY <2>1, <2>8, StepFacts DEF Progress
  <2>10. state' = IF pc + 1 >= 14 THEN "up" ELSE "down"
    <3>1. state' = IF pc = 13 THEN "up" ELSE state BY <1>3, <1>5, <1>10
    <3> QED BY <1>1, <2>1, <3>1 DEF Progress
  <2>11. pc \in {10, 12} => read = cr BY <2>8
  <2>12. Progress'
    BY <1>1, <1>3, <2>1, <2>4, <2>5, <2>6, <2>7, <2>9, <2>10, <2>11 DEF Progress
  <2> QED BY <2>2, <2>12
<1>11. ASSUME Going' PROVE StepBooked' /\ PhyBooked' /\ Progress'
  <2>1. ~mac.busy /\ ~acc.busy /\ Progress' BY <1>10, <1>11 DEF Going
  <2>2. StepBooked' BY <1>1, <2>1, IdleIs DEF StepBooked
  <2>3. PhyBooked' BY <1>1, IdleIs DEF PhyBooked, Issued
  <2> QED BY <2>1, <2>2, <2>3
<1>12. UpStays' /\ Lan!UpMeansConfigured'
  <2>1. ASSUME state' = "up", ~ignored'
        PROVE  ~mac.busy /\ ~acc.busy /\ Progress'
    BY <1>10, <2>1
  <2> QED BY <1>1, <2>1, IdleIs DEF UpStays, Lan!UpMeansConfigured, Progress
<1> QED BY <1>6, <1>7, <1>8, <1>11, <1>12 DEF LanInv

\* The state at the start, also after the power was off.
Fresh == /\ mac = Lan!NoTransfer /\ cr = {} /\ data = {} /\ acc = Lan!NoCommand
         /\ phy \in {Lan!PhyWith({}), Lan!PhyWith({"ID"})} /\ macCall = Lan!Idle /\ phyCall = Lan!Idle
         /\ pc = 1 /\ value = {} /\ state = "down" /\ ignored = FALSE

LEMMA FreshIs == ASSUME Fresh PROVE LanInv
<1>1. Lan!NoTransfer \in Transfer /\ Lan!NoTransfer.busy = FALSE
  BY IdleIs DEF Lan!NoTransfer, Transfer, Set, Lan!MacReg
<1>2. /\ Lan!PhyWith({}) \in [Lan!PhyReg -> Set] /\ Lan!PhyWith({"ID"}) \in [Lan!PhyReg -> Set]
      /\ Lan!PhyWith({})["BCTRL"] = {} /\ Lan!PhyWith({"ID"})["BCTRL"] = {}
  <2>1. {} \in Set /\ {"ID"} \in Set /\ "BCTRL" \in Lan!PhyReg
    BY DEF Set, Lan!Bits, Lan!PhyReg
  <2> QED BY <2>1 DEF Lan!PhyWith
<1>3. LanTyped
  <2>1. cr \in Set /\ data \in Set /\ value \in Set BY DEF Fresh, Set
  <2>2. mac \in Transfer /\ acc \in Command /\ macCall \in MacCall /\ phyCall \in PhyCall
    BY <1>1, IdleIs DEF Fresh
  <2>3. phy \in [Lan!PhyReg -> Set] BY <1>2 DEF Fresh
  <2>4. pc \in 1..16 /\ state \in {"down", "up", "error"} BY DEF Fresh
  <2>5. ignored \in BOOLEAN BY DEF Fresh
  <2> QED BY <2>1, <2>2, <2>3, <2>4, <2>5 DEF LanTyped
<1>4. CallBooked /\ PhyPlaced BY IdleIs DEF Fresh, CallBooked, PhyPlaced, Answered, Mii
<1>5. WritesApart BY <1>1, IdleIs DEF Fresh, WritesApart, Starting, Polled, Answered,
     Lan!NoTornTransfer
<1>6. StepBooked /\ PhyBooked BY <1>1, IdleIs DEF Fresh, StepBooked, PhyBooked, Issued
<1>7. Progress /\ UpStays /\ Lan!UpMeansConfigured
  BY DEF Fresh, Progress, UpStays, Lan!UpMeansConfigured
<1> QED BY <1>3, <1>4, <1>5, <1>6, <1>7 DEF LanInv

LEMMA LanStep == ASSUME Lan!LanFits, LanInv, [Lan!Next]_(Lan!vars) PROVE LanInv'
<1>1. CASE UNCHANGED Lan!vars
  <2>1. /\ mac' = mac /\ cr' = cr /\ acc' = acc /\ data' = data /\ phy' = phy
        /\ macCall' = macCall /\ phyCall' = phyCall /\ pc' = pc /\ value' = value
        /\ state' = state /\ ignored' = ignored
    BY <1>1 DEF Lan!vars
  <2>2. LanTyped' /\ CallBooked' /\ PhyPlaced'
    BY <2>1 DEF LanInv, LanTyped, CallBooked, PhyPlaced, Answered, Written, Asked
  <2>3. WritesApart'
    BY <2>1 DEF LanInv, WritesApart, Starting, Polled, Answered, Written, Asked,
       Lan!NoTornTransfer
  <2>4. Lan!Step' = Lan!Step /\ EffectOf(phyCall.reg, data)' = EffectOf(phyCall.reg, data)
        /\ Asks4(phyCall)' = Asks4(phyCall) /\ Issued' = Issued
    BY <2>1 DEF Lan!Step, EffectOf, Asks4, Issued
  <2>5. Going' => StepBooked' /\ PhyBooked' /\ Progress' BY <2>1, <2>4
       DEF LanInv, Going, StepBooked, PhyBooked, Progress, Polled, Answered
  <2>6. UpStays' /\ Lan!UpMeansConfigured'
    BY <2>1 DEF LanInv, UpStays, Lan!UpMeansConfigured
  <2> QED BY <2>2, <2>3, <2>5, <2>6 DEF LanInv
<1>2. ASSUME Lan!PowerCycle PROVE LanInv'
  <2>1. Fresh' BY <1>2 DEF Lan!PowerCycle, Fresh
  <2>2. Fresh' => LanInv' BY FreshIs, PTL
  <2> QED BY <2>1, <2>2
<1>3. CASE Lan!Next
  BY <1>2, <1>3, MacKeeps, MiiKeeps, PhyResetKeeps, MacRefusedKeeps, ReadKeeps,
     WriteKeeps, CommandKeeps, PollsKeep, AskedKeeps, DataWrittenKeeps,
     StartedKeeps, PolledKeeps, PhyReadKeeps, BeginsKeeps, ReturnsKeeps DEF Lan!Next
<1> QED BY <1>1, <1>3

\* However long transfers take and whichever calls time out: no transfer to the PHY
\* writes what another call put into the data register, and a controller that is said
\* to be up, no error having been ignored, is configured (lan9118_eth_drv.c:584-609).
THEOREM LinkStaysWhole ==
  ASSUME Lan!LanFits PROVE Lan!Spec => [](Lan!NoTornTransfer /\ Lan!UpMeansConfigured)
<1>1. Lan!Init => LanInv
  <2>1. Lan!Init => Fresh BY DEF Lan!Init, Fresh
  <2> QED BY <2>1, FreshIs
<1>2. LanInv /\ [Lan!Next]_(Lan!vars) => LanInv' BY LanStep
<1>3. LanInv => Lan!NoTornTransfer /\ Lan!UpMeansConfigured BY DEF LanInv, WritesApart
<1> QED BY <1>1, <1>2, <1>3, PTL DEF Lan!Spec

--------------------
\* The mail queue, for any tasks and any number of blocks.

CONSTANTS Task, Block
VARIABLES mp_id, mq_id, creating, free, mails, holder, wait

Mail == INSTANCE MailQueue

\* What the module means by these is what is meant here.
LEMMA SameFinite == ASSUME NEW S PROVE Mail!IsFiniteSet(S) <=> IsFiniteSet(S)
BY DEF Mail!IsFiniteSet, IsFiniteSet

LEMMA SameCardinality == \A S : Mail!Cardinality(S) = Cardinality(S)
BY DEF Mail!Cardinality, Cardinality

LEMMA BlocksFinite == ASSUME Mail!MailFits PROVE IsFiniteSet(Block)
BY SameFinite DEF Mail!MailFits

MailTyped ==
  /\ mp_id \in BOOLEAN /\ mq_id \in Nat
  /\ creating \in {"no", "pool", "queue", "done"}
  /\ free \subseteq Block /\ mails \in Seq(Block)
  /\ holder \in [Block -> Mail!Context \cup {Mail!Nobody}]
  /\ wait \in [Task -> {"none", "alloc", "get"} \X BOOLEAN]

\* No block is twice in the queue.
NoneTwice == \A i, j \in 1..Len(mails) : mails[i] = mails[j] => i = j
Queued(b) == \E i \in 1..Len(mails) : mails[i] = b

\* Each block is in one place.
MailPlaced(b) ==
  /\ b \in free => holder[b] = Mail!Nobody /\ ~Queued(b)
  /\ holder[b] # Mail!Nobody => ~Queued(b)
  /\ b \in free \/ holder[b] # Mail!Nobody \/ Queued(b)

\* Until it is there nobody uses it.
Unused ==
  /\ mails = <<>> /\ holder = [b \in Block |-> Mail!Nobody] /\ wait = [t \in Task |-> Mail!Awake]
  /\ free = IF mp_id THEN Block ELSE {}
  /\ creating = "no" => ~mp_id
  /\ creating # "queue" => mq_id = 0
  /\ mq_id \in {0, Mail!queue_sz}

InUse == /\ mp_id /\ mq_id = Mail!queue_sz
         /\ \A b \in Block : MailPlaced(b)
         /\ NoneTwice

MailInv == /\ MailTyped
           /\ ~Mail!Made => Unused
           /\ Mail!Made => InUse

Fixed == mp_id' = mp_id /\ mq_id' = mq_id /\ creating' = creating

--------------------

LEMMA AppendedTo ==
  ASSUME NEW b \in Block, mails \in Seq(Block), mails' = Append(mails, b),
         NoneTwice, ~Queued(b)
  PROVE  /\ mails' \in Seq(Block) /\ NoneTwice'
         /\ \A d : Queued(d)' <=> Queued(d) \/ d = b
<1>1. /\ mails' \in Seq(Block) /\ Len(mails') = Len(mails) + 1 /\ Len(mails) \in Nat
      /\ \A i \in 1..Len(mails) : mails'[i] = mails[i]
      /\ mails'[Len(mails) + 1] = b
  BY AppendProperties
<1>2. NoneTwice' BY <1>1 DEF NoneTwice, Queued
<1>3. ASSUME NEW d PROVE Queued(d)' <=> Queued(d) \/ d = b
  <2>1. CASE d = b BY <1>1, <2>1 DEF Queued
  <2>2. CASE d # b BY <1>1, <2>2 DEF Queued
  <2> QED BY <2>1, <2>2
<1> QED BY <1>1, <1>2, <1>3

LEMMA TakenFrom ==
  ASSUME NEW h, h = Head(mails),
         mails \in Seq(Block), mails # <<>>, mails' = Tail(mails), NoneTwice
  PROVE  /\ mails' \in Seq(Block) /\ NoneTwice'
         /\ h \in Block /\ Queued(h) /\ ~Queued(h)'
         /\ \A d : d # h => (Queued(d)' <=> Queued(d))
<1>1. /\ mails' \in Seq(Block) /\ Len(mails) \in Nat /\ Len(mails) > 0
      /\ Len(mails') = Len(mails) - 1
      /\ \A i \in 1..Len(mails') : mails'[i] = mails[i + 1]
      /\ Head(mails) = mails[1]
  BY HeadTailProperties, EmptySeq
<1>2. h \in Block /\ Queued(h) BY <1>1 DEF Queued
<1>3. NoneTwice' BY <1>1 DEF NoneTwice
<1>4. ~Queued(h)' BY <1>1 DEF Queued, NoneTwice
<1>5. ASSUME NEW d, d # h PROVE Queued(d)' <=> Queued(d)
  <2>1. Queued(d)' => Queued(d) BY <1>1 DEF Queued
  <2>2. ASSUME NEW i \in 1..Len(mails), mails[i] = d PROVE Queued(d)'
    <3>1. i # 1 /\ i - 1 \in 1..Len(mails') /\ (i - 1) + 1 = i BY <1>1, <1>5, <2>2
    <3> QED BY <1>1, <2>2, <3>1 DEF Queued
  <2> QED BY <2>1, <2>2 DEF Queued
<1> QED BY <1>1, <1>2, <1>3, <1>4, <1>5

\* A step that moves no block but one.
LEMMA OthersStay ==
  ASSUME MailTyped, MailTyped', Mail!Made, InUse, Fixed,
         NEW b \in Block, MailPlaced(b)', NoneTwice',
         \A d \in Block \ {b} : /\ d \in free' <=> d \in free
                                /\ holder'[d] = holder[d]
                                /\ Queued(d)' <=> Queued(d)
  PROVE  MailInv'
<1>1. Mail!Made' /\ mp_id' /\ mq_id' = Mail!queue_sz BY DEF Mail!Made, Fixed, InUse
<1>2. ASSUME NEW d \in Block PROVE MailPlaced(d)'
  <2>1. CASE d = b BY <2>1
  <2>2. CASE d # b BY <2>2 DEF InUse, MailPlaced
  <2> QED BY <2>1, <2>2
<1>3. InUse' BY <1>1, <1>2 DEF InUse, Mail!queue_sz
<1> QED BY <1>1, <1>3 DEF MailInv

LEMMA AllocKeeps ==
  ASSUME Mail!MailFits, MailInv, Mail!Made, Fixed,
         NEW c \in Mail!Context, Mail!Allocated(c), mails' = mails,
         wait' \in [Task -> {"none", "alloc", "get"} \X BOOLEAN]
  PROVE  MailInv'
<1>1. PICK b \in free : free' = free \ {b} /\ holder' = [holder EXCEPT ![b] = c]
  BY DEF Mail!Allocated
<1>2. /\ b \in Block /\ c # Mail!Nobody /\ MailPlaced(b)
      /\ holder \in [Block -> Mail!Context \cup {Mail!Nobody}]
      /\ NoneTwice
  BY <1>1 DEF MailInv, MailTyped, InUse, Mail!MailFits, Mail!Context, Mail!Handler,
     Mail!Nobody
<1>3. /\ holder' \in [Block -> Mail!Context \cup {Mail!Nobody}] /\ holder'[b] = c
      /\ \A d \in Block \ {b} : holder'[d] = holder[d]
  BY <1>1, <1>2
<1>4. MailTyped' BY <1>1, <1>3 DEF MailInv, MailTyped, Fixed
<1>5. \A d : Queued(d)' <=> Queued(d) BY DEF Queued
<1>6. MailPlaced(b)' /\ NoneTwice' BY <1>1, <1>2, <1>3, <1>5 DEF MailPlaced, NoneTwice
<1> QED BY <1>1, <1>2, <1>3, <1>4, <1>5, <1>6, OthersStay DEF MailInv

LEMMA ReceiveKeeps ==
  ASSUME Mail!MailFits, MailInv, Mail!Made, Fixed,
         NEW c \in Mail!Context, Mail!Received(c), free' = free,
         wait' \in [Task -> {"none", "alloc", "get"} \X BOOLEAN]
  PROVE  MailInv'
<1>1. PICK b : b = Head(mails) OBVIOUS
<1>2. /\ mails # <<>> /\ mails' = Tail(mails) /\ holder' = [holder EXCEPT ![b] = c]
      /\ mails \in Seq(Block) /\ NoneTwice /\ holder \in [Block -> Mail!Context \cup {Mail!Nobody}]
      /\ c # Mail!Nobody
  BY <1>1 DEF Mail!Received, MailInv, MailTyped, InUse, Mail!MailFits, Mail!Context,
     Mail!Handler, Mail!Nobody
<1>3. /\ mails' \in Seq(Block) /\ NoneTwice' /\ b \in Block /\ Queued(b) /\ ~Queued(b)'
      /\ \A d : d # b => (Queued(d)' <=> Queued(d))
  BY <1>1, <1>2, TakenFrom
<1>4. /\ holder' \in [Block -> Mail!Context \cup {Mail!Nobody}] /\ holder'[b] = c
      /\ \A d \in Block \ {b} : holder'[d] = holder[d]
  BY <1>2, <1>3
<1>5. MailTyped' BY <1>3, <1>4 DEF MailInv, MailTyped, Fixed
<1>6. b \notin free BY <1>3 DEF MailInv, InUse, MailPlaced
<1>7. MailPlaced(b)' BY <1>2, <1>3, <1>4, <1>6 DEF MailPlaced
<1> QED BY <1>3, <1>4, <1>5, <1>7, OthersStay DEF MailInv

LEMMA PutKeeps ==
  ASSUME Mail!MailFits, MailInv, NEW c \in Mail!Context, NEW b \in Block, Mail!osMailPut(c, b)
  PROVE  MailInv'
<1>1. Mail!Made /\ holder[b] = c /\ Fixed /\ free' = free /\ wait' = wait /\ c # Mail!Nobody
  BY DEF Mail!osMailPut, Mail!Calls, Fixed, Mail!MailFits, Mail!Context,
     Mail!Handler, Mail!Nobody
<1>2. /\ mails \in Seq(Block) /\ NoneTwice /\ holder \in [Block -> Mail!Context \cup {Mail!Nobody}]
      /\ MailPlaced(b) /\ InUse /\ MailTyped
  BY <1>1 DEF MailInv, MailTyped, InUse
<1>3. ~Queued(b) /\ b \notin free BY <1>1, <1>2 DEF MailPlaced
<1>4. CASE mails' = Append(mails, b) /\ holder' = [holder EXCEPT ![b] = Mail!Nobody]
  <2>1. /\ mails' \in Seq(Block) /\ NoneTwice'
        /\ \A d : Queued(d)' <=> Queued(d) \/ d = b
    BY <1>2, <1>3, <1>4, AppendedTo
  <2>2. /\ holder' \in [Block -> Mail!Context \cup {Mail!Nobody}] /\ holder'[b] = Mail!Nobody
        /\ \A d \in Block \ {b} : holder'[d] = holder[d]
    BY <1>2, <1>4
  <2>3. MailTyped' BY <1>1, <1>2, <2>1, <2>2 DEF MailTyped, Fixed
  <2>4. MailPlaced(b)' BY <1>1, <1>3, <2>1, <2>2 DEF MailPlaced
  <2>5. \A d \in Block \ {b} : Queued(d)' <=> Queued(d) BY <2>1
  <2> QED BY <1>1, <1>2, <2>1, <2>2, <2>3, <2>4, <2>5, OthersStay
<1>5. CASE mails' = mails /\ holder' = holder
  <2>1. MailTyped' /\ NoneTwice' /\ \A d : Queued(d)' <=> Queued(d)
    BY <1>1, <1>2, <1>5 DEF MailTyped, Fixed, NoneTwice, Queued
  <2>2. MailPlaced(b)' BY <1>1, <1>2, <1>5, <2>1 DEF MailPlaced
  <2> QED BY <1>1, <1>2, <1>5, <2>1, <2>2, OthersStay
<1> QED BY <1>4, <1>5 DEF Mail!osMailPut

LEMMA FreeKeeps ==
  ASSUME Mail!MailFits, MailInv, NEW c \in Mail!Context, NEW b \in Block, Mail!osMailFree(c, b)
  PROVE  MailInv'
<1>1. /\ Mail!Made /\ holder[b] = c /\ Fixed /\ mails' = mails /\ wait' = wait /\ c # Mail!Nobody
      /\ free' = free \cup {b} /\ holder' = [holder EXCEPT ![b] = Mail!Nobody]
  BY DEF Mail!osMailFree, Mail!Calls, Fixed, Mail!MailFits, Mail!Context,
     Mail!Handler, Mail!Nobody
<1>2. /\ holder \in [Block -> Mail!Context \cup {Mail!Nobody}]
      /\ MailPlaced(b) /\ InUse /\ MailTyped
      /\ NoneTwice
  BY <1>1 DEF MailInv, MailTyped, InUse
<1>3. NoneTwice' /\ \A d : Queued(d)' <=> Queued(d) BY <1>1, <1>2 DEF NoneTwice, Queued
<1>4. /\ holder' \in [Block -> Mail!Context \cup {Mail!Nobody}] /\ holder'[b] = Mail!Nobody
      /\ \A d \in Block \ {b} : holder'[d] = holder[d]
  BY <1>1, <1>2
<1>5. MailTyped' BY <1>1, <1>2, <1>4 DEF MailTyped, Fixed
<1>6. MailPlaced(b)' BY <1>1, <1>2, <1>3, <1>4 DEF MailPlaced
<1> QED BY <1>1, <1>2, <1>3, <1>4, <1>5, <1>6, OthersStay

\* Only who waits changes.
LEMMA WaitKeeps ==
  ASSUME MailInv, Mail!Made, Fixed, free' = free, mails' = mails, holder' = holder,
         wait' \in [Task -> {"none", "alloc", "get"} \X BOOLEAN]
  PROVE  MailInv'
<1>1. MailTyped' /\ Mail!Made' BY DEF MailInv, MailTyped, Mail!Made, Fixed
<1>2. NoneTwice' /\ \A d \in Block : MailPlaced(d)'
  BY DEF MailInv, InUse, NoneTwice, MailPlaced, Queued
<1>3. InUse' BY <1>2 DEF MailInv, InUse, Fixed, Mail!queue_sz
<1> QED BY <1>1, <1>3 DEF MailInv

LEMMA CreationKeeps ==
  ASSUME Mail!MailFits, MailInv, Mail!NewPool \/ Mail!NewQueue \/ Mail!CreateReturns
  PROVE  MailInv'
<1>1. ~Mail!Made /\ Unused /\ MailTyped
  BY DEF MailInv, Mail!NewPool, Mail!NewQueue, Mail!CreateReturns, Mail!Made
<1>2. Mail!queue_sz \in Nat
  <2>1. Cardinality(Block) \in Nat BY BlocksFinite, FS_CardinalityType
  <2> QED BY <2>1, SameCardinality DEF Mail!queue_sz
<1>3. mails' = <<>> /\ holder' = holder /\ wait' = wait
  BY <1>1 DEF Mail!NewPool, Mail!NewQueue, Mail!CreateReturns, Unused, Mail!blocks
<1>4. CASE Mail!NewPool
  <2>1. MailTyped' BY <1>1, <1>3, <1>4, EmptySeq DEF Mail!NewPool, MailTyped
  <2>2. Unused' /\ ~Mail!Made'
    BY <1>1, <1>3, <1>4 DEF Mail!NewPool, Unused, Mail!Made, Mail!queue_sz
  <2> QED BY <2>1, <2>2 DEF MailInv
<1>5. CASE Mail!NewQueue
  <2>1. MailTyped' BY <1>1, <1>2, <1>3, <1>5 DEF Mail!NewQueue, MailTyped, Mail!blocks
  <2>2. Unused' /\ ~Mail!Made'
    BY <1>1, <1>3, <1>5 DEF Mail!NewQueue, Unused, Mail!Made, Mail!queue_sz,
       Mail!blocks
  <2> QED BY <2>1, <2>2 DEF MailInv
<1>6. CASE Mail!CreateReturns /\ mp_id /\ mq_id > 0
  <2>1. /\ creating' = "done" /\ mp_id' = mp_id /\ mq_id' = mq_id /\ free' = free
        /\ mails' = mails
    BY <1>1, <1>3, <1>6 DEF Mail!CreateReturns, Unused
  <2>2. MailTyped' /\ Mail!Made' BY <1>1, <1>3, <2>1 DEF MailTyped, Mail!Made
  <2>3. mq_id = Mail!queue_sz /\ free = Block BY <1>1, <1>2, <1>6 DEF Unused
  <2>4. Len(mails') = 0 BY <1>3
  <2>5. NoneTwice' /\ \A d \in Block : ~Queued(d)' BY <2>4 DEF NoneTwice, Queued
  <2>6. \A d \in Block : MailPlaced(d)'
    BY <1>1, <1>3, <2>1, <2>3, <2>5 DEF MailPlaced, Unused
  <2>7. InUse' BY <1>6, <2>1, <2>3, <2>5, <2>6 DEF InUse, Mail!queue_sz
  <2> QED BY <2>2, <2>7 DEF MailInv
<1>7. CASE Mail!CreateReturns /\ ~(mp_id /\ mq_id > 0)
  <2>1. creating' = "no" /\ mp_id' = FALSE /\ mq_id' = 0 /\ free' = {}
    BY <1>7 DEF Mail!CreateReturns
  <2>2. MailTyped' BY <1>1, <1>3, <2>1, EmptySeq DEF MailTyped
  <2>3. Unused' /\ ~Mail!Made' BY <1>1, <1>3, <2>1 DEF Unused, Mail!Made
  <2> QED BY <2>2, <2>3 DEF MailInv
<1> QED BY <1>4, <1>5, <1>6, <1>7

LEMMA WaitIsTyped ==
  ASSUME MailTyped, NEW t \in Task, NEW w \in {"none", "alloc", "get"} \X BOOLEAN,
         wait' = [wait EXCEPT ![t] = w]
  PROVE  wait' \in [Task -> {"none", "alloc", "get"} \X BOOLEAN]
BY DEF MailTyped

LEMMA BlocksKeeps ==
  ASSUME MailInv, Mail!Made, Fixed, NEW t \in Task, NEW in \in {"alloc", "get"}, Mail!Blocks(t, in)
  PROVE  MailInv'
<1>1. PICK timeout \in BOOLEAN : wait' = [wait EXCEPT ![t] = <<in, timeout>>]
  BY DEF Mail!Blocks
<1>2. <<in, timeout>> \in {"none", "alloc", "get"} \X BOOLEAN OBVIOUS
<1>3. wait' \in [Task -> {"none", "alloc", "get"} \X BOOLEAN]
  BY <1>1, <1>2, WaitIsTyped DEF MailInv
<1> QED BY <1>3, WaitKeeps DEF Mail!Blocks

LEMMA MailStep == ASSUME Mail!MailFits, MailInv, [Mail!Next]_(Mail!vars) PROVE MailInv'
<1>0. MailTyped /\ wait \in [Task -> {"none", "alloc", "get"} \X BOOLEAN]
  BY DEF MailInv, MailTyped
<1>1. CASE UNCHANGED Mail!vars
  <2>1. /\ Fixed /\ free' = free /\ mails' = mails /\ holder' = holder /\ wait' = wait
    BY <1>1 DEF Mail!vars, Fixed
  <2>2. CASE Mail!Made BY <1>0, <2>1, <2>2, WaitKeeps
  <2>3. CASE ~Mail!Made
    <3>1. MailTyped' /\ Unused' /\ ~Mail!Made'
      BY <2>1, <2>3 DEF MailInv, MailTyped, Unused, Mail!Made, Fixed, Mail!queue_sz
    <3> QED BY <3>1 DEF MailInv
  <2> QED BY <2>2, <2>3
<1>2. ASSUME NEW c \in Mail!Context, Mail!osMailAlloc(c) PROVE MailInv'
  <2>1. Mail!Made /\ Fixed BY <1>2 DEF Mail!osMailAlloc, Mail!Calls, Fixed
  <2>2. CASE Mail!Allocated(c) /\ UNCHANGED <<mails, wait>>
    BY <1>0, <2>1, <2>2, AllocKeeps
  <2>3. CASE c # Mail!Handler /\ Mail!Blocks(c, "alloc")
    <3>1. c \in Task BY <2>3 DEF Mail!Context
    <3> QED BY <2>1, <2>3, <3>1, BlocksKeeps
  <2>4. CASE UNCHANGED Mail!blocks BY <1>0, <2>1, <2>4, WaitKeeps DEF Mail!blocks
  <2> QED BY <1>2, <2>2, <2>3, <2>4 DEF Mail!osMailAlloc
<1>3. ASSUME NEW c \in Mail!Context, Mail!osMailGet(c) PROVE MailInv'
  <2>1. Mail!Made /\ Fixed BY <1>3 DEF Mail!osMailGet, Mail!Calls, Fixed
  <2>2. CASE Mail!Received(c) /\ UNCHANGED <<free, wait>>
    BY <1>0, <2>1, <2>2, ReceiveKeeps
  <2>3. CASE c # Mail!Handler /\ Mail!Blocks(c, "get")
    <3>1. c \in Task BY <2>3 DEF Mail!Context
    <3> QED BY <2>1, <2>3, <3>1, BlocksKeeps
  <2>4. CASE UNCHANGED Mail!blocks BY <1>0, <2>1, <2>4, WaitKeeps DEF Mail!blocks
  <2> QED BY <1>3, <2>2, <2>3, <2>4 DEF Mail!osMailGet
<1>4. ASSUME NEW t \in Task, Mail!WaitServed(t) PROVE MailInv'
  <2>1. Fixed /\ wait' = [wait EXCEPT ![t] = Mail!Awake] /\ wait[t][1] # "none"
    BY <1>4 DEF Mail!WaitServed, Fixed
  <2>2. Mail!Made
    <3>1. wait[t] # Mail!Awake
      <4>1. Mail!Awake[1] = "none" BY DEF Mail!Awake
      <4> QED BY <2>1, <4>1, Zenon
    <3>2. ~Mail!Made => wait[t] = Mail!Awake
      <4>1. ~Mail!Made => wait = [u \in Task |-> Mail!Awake] BY DEF MailInv, Unused
      <4> QED BY <4>1, Zenon
    <3> QED BY <3>1, <3>2
  <2>3. wait' \in [Task -> {"none", "alloc", "get"} \X BOOLEAN]
    <3>1. Mail!Awake \in {"none", "alloc", "get"} \X BOOLEAN BY DEF Mail!Awake
    <3> QED BY <1>0, <2>1, <3>1, WaitIsTyped
  <2>4. t \in Mail!Context BY DEF Mail!Context
  <2> QED BY <1>4, <2>1, <2>2, <2>3, <2>4, AllocKeeps, ReceiveKeeps DEF Mail!WaitServed
<1>5. ASSUME NEW t \in Task, Mail!WaitTimesOut(t) PROVE MailInv'
  <2>1. /\ Fixed /\ wait' = [wait EXCEPT ![t] = Mail!Awake] /\ wait[t][2]
        /\ free' = free /\ mails' = mails /\ holder' = holder
    BY <1>5 DEF Mail!WaitTimesOut, Fixed
  <2>2. Mail!Made
    <3>1. wait[t] # Mail!Awake
      <4>1. Mail!Awake[2] = FALSE BY DEF Mail!Awake
      <4> QED BY <2>1, <4>1, Zenon
    <3>2. ~Mail!Made => wait[t] = Mail!Awake
      <4>1. ~Mail!Made => wait = [u \in Task |-> Mail!Awake] BY DEF MailInv, Unused
      <4> QED BY <4>1, Zenon
    <3> QED BY <3>1, <3>2
  <2>3. wait' \in [Task -> {"none", "alloc", "get"} \X BOOLEAN]
    <3>1. Mail!Awake \in {"none", "alloc", "get"} \X BOOLEAN BY DEF Mail!Awake
    <3> QED BY <1>0, <2>1, <3>1, WaitIsTyped
  <2> QED BY <2>1, <2>2, <2>3, WaitKeeps
<1> QED BY <1>1, <1>2, <1>3, <1>4, <1>5, CreationKeeps, PutKeeps, FreeKeeps DEF Mail!Next

LEMMA MailInit == ASSUME Mail!MailFits, Mail!Init PROVE MailInv
<1>1. ~Mail!Made /\ Unused BY DEF Mail!Init, Mail!Made, Unused
<1>2. mails \in Seq(Block) BY EmptySeq DEF Mail!Init
<1>3. MailTyped BY <1>2 DEF Mail!Init, MailTyped, Mail!Awake, Mail!Context
<1> QED BY <1>1, <1>3 DEF MailInv

--------------------

LEMMA MailsFit ==
  ASSUME Mail!MailFits, MailInv, Mail!Made, NEW b \in Block, holder[b] # Mail!Nobody
  PROVE  Len(mails) < mq_id
<1>1. mails \in Seq(Block) /\ NoneTwice /\ ~Queued(b) /\ mq_id = Cardinality(Block)
  BY SameCardinality DEF MailInv, MailTyped, InUse, MailPlaced, Mail!queue_sz
<1>2. PICK n \in Nat : n = Len(mails) BY <1>1
<1>3. mails \in Injection(1..n, Block \ {b})
  <2>1. mails \in [1..n -> Block \ {b}] BY <1>1, <1>2 DEF Queued
  <2> QED BY <1>1, <1>2, <2>1 DEF NoneTwice, Injection, IsInjective
<1>4. IsFiniteSet(Block \ {b}) /\ Cardinality(Block \ {b}) = Cardinality(Block) - 1
  BY BlocksFinite, FS_RemoveElement
<1>5. Cardinality(1..n) <= Cardinality(Block \ {b}) BY <1>3, <1>4, FS_Injection
<1>6. Cardinality(1..n) = n
  <2>1. Cardinality(1..n) = IF 1 > n THEN 0 ELSE n - 1 + 1 BY FS_Interval
  <2> QED BY <2>1
<1>7. Cardinality(Block) \in Nat BY BlocksFinite, FS_CardinalityType
<1> QED BY <1>1, <1>2, <1>4, <1>5, <1>6, <1>7

LEMMA OnePlace ==
  ASSUME Mail!MailFits, MailInv, Mail!Made, NEW b \in Block
  PROVE  Cardinality({i \in DOMAIN mails : mails[i] = b})
           = IF b \in free \/ holder[b] # Mail!Nobody THEN 0 ELSE 1
<1>1. /\ mails \in Seq(Block) /\ NoneTwice /\ MailPlaced(b) /\ DOMAIN mails = 1..Len(mails)
  BY DEF MailInv, MailTyped, InUse
<1>2. CASE b \in free \/ holder[b] # Mail!Nobody
  <2>1. {i \in DOMAIN mails : mails[i] = b} = {} BY <1>1, <1>2 DEF MailPlaced, Queued
  <2> QED BY <1>2, <2>1, FS_EmptySet
<1>3. CASE ~(b \in free \/ holder[b] # Mail!Nobody)
  <2>1. PICK i \in 1..Len(mails) : mails[i] = b BY <1>1, <1>3 DEF MailPlaced, Queued
  <2>2. {j \in DOMAIN mails : mails[j] = b} = {i} BY <1>1, <2>1 DEF NoneTwice
  <2> QED BY <1>3, <2>2, FS_Singleton
<1> QED BY <1>2, <1>3

\* Whoever waits or gives up, from whichever context: a block is in one place, in the
\* pool, in the queue or with whom it was given to; a put is never refused; and a
\* creation that fails leaves nothing (cmsis_os1.c:269-279, 314-324).
THEOREM MailsStayAccounted == ASSUME Mail!MailFits PROVE Mail!Spec => []Mail!MailsAccounted
<1>1. Mail!Init => MailInv BY MailInit
<1>2. MailInv /\ [Mail!Next]_(Mail!vars) => MailInv' BY MailStep
<1>3. ASSUME MailInv PROVE Mail!MailsAccounted
  <2>1. creating = "no" => ~mp_id /\ mq_id = 0 BY <1>3 DEF MailInv, Mail!Made, Unused
  <2>2. \A b \in free : holder[b] = Mail!Nobody
    <3>1. CASE Mail!Made BY <1>3, <3>1 DEF MailInv, MailTyped, InUse, MailPlaced
    <3>2. CASE ~Mail!Made BY <1>3, <3>2 DEF MailInv, MailTyped, Unused
    <3> QED BY <3>1, <3>2
  <2>3. ASSUME Mail!Made, NEW b \in Block
        PROVE  Mail!Cardinality({i \in DOMAIN mails : mails[i] = b})
                 = IF b \in free \/ holder[b] # Mail!Nobody THEN 0 ELSE 1
    <3>1. Mail!Cardinality({i \in DOMAIN mails : mails[i] = b})
            = Cardinality({i \in DOMAIN mails : mails[i] = b})
      BY SameCardinality
    <3> QED BY <1>3, <2>3, <3>1, OnePlace
  <2>4. ASSUME Mail!Made, NEW b \in Block, holder[b] # Mail!Nobody PROVE Len(mails) < mq_id
    BY <1>3, <2>4, MailsFit
  <2> QED BY <2>1, <2>2, <2>3, <2>4 DEF Mail!MailsAccounted
<1> QED BY <1>1, <1>2, <1>3, PTL DEF Mail!Spec
=============================================================================
