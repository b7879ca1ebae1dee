---------------------------- MODULE MutexProofs ----------------------------
\* Theorems about Mutex, for any tasks, mutexes, priorities and uses of them.
EXTENDS Mutex, TLAPS, FiniteSetTheorems, SequenceTheorems, WellFoundedInduction

--------------------
\* Event lists.

\* A set of numbers that has a member has a least one.
LEMMA LeastMember ==
  ASSUME NEW S \in SUBSET Nat, S # {}
  PROVE  Min(S) \in S
<1> DEFINE R == {ss \in Nat \X Nat : ss[1] < ss[2]}
<1>1. PICK x \in S : \A y \in S : ~ (<<y, x>> \in R)
  <2>1. IsWellFoundedOn(R, Nat) BY NatLessThanWellFounded, Zenon DEF OpToRel
  <2> HIDE DEF R
  <2> QED BY <2>1, WFMin
<1>2. \A y \in S : x <= y
  <2>1. ASSUME NEW y \in S PROVE x <= y
    <3>1. x \in Nat /\ y \in Nat /\ ~ (y < x) BY <1>1
    <3> QED BY <3>1
  <2> QED BY <2>1
<1> QED BY <1>2 DEF Min

\* An event list: no task is on it twice.
EventListOf(l) == l \in Seq(Task) /\ IsInjective(l)

LEMMA ListFacts ==
  ASSUME NEW l, l \in Seq(Task)
  PROVE  /\ Len(l) \in Nat /\ DOMAIN l = 1..Len(l)
         /\ \A i \in 1..Len(l) : l[i] \in Task
         /\ \A t : t \in Range(l) <=> \E i \in 1..Len(l) : l[i] = t
         /\ IsInjective(l) <=> \A i, j \in 1..Len(l) : l[i] = l[j] => i = j
<1>1. Len(l) \in Nat /\ DOMAIN l = 1..Len(l) /\ \A i \in 1..Len(l) : l[i] \in Task
  BY LenProperties, ElementOfSeq
<1> QED BY <1>1 DEF Range, IsInjective

LEMMA InsertAnywhere ==
  ASSUME NEW l, EventListOf(l), NEW t \in Task, t \notin Range(l),
         NEW i \in 1..(Len(l) + 1)
  PROVE  /\ EventListOf(InsertAt(l, i, t))
         /\ Range(InsertAt(l, i, t)) = Range(l) \cup {t}
<1> DEFINE r == InsertAt(l, i, t)
           front == SubSeq(l, 1, i - 1)
           back == SubSeq(l, i, Len(l))
<1>1. /\ Len(l) \in Nat /\ l \in Seq(Task) /\ i \in Int
      /\ \A j \in 1..Len(l) : l[j] \in Task /\ l[j] # t
      /\ \A j, h \in 1..Len(l) : l[j] = l[h] => j = h
  BY ListFacts DEF EventListOf
<1>2. /\ front \in Seq(Task) /\ Len(front) = i - 1
      /\ \A j \in 1..(i - 1) : front[j] = l[j]
  BY <1>1, SubSeqProperties
<1>3. /\ back \in Seq(Task) /\ Len(back) = Len(l) + 1 - i
      /\ \A j \in 1..(Len(l) + 1 - i) : back[j] = l[i + j - 1]
  BY <1>1, SubSeqProperties
<1>4. <<t>> \in Seq(Task) /\ Len(<<t>>) = 1 /\ <<t>>[1] = t OBVIOUS
<1>5. /\ front \o <<t>> \in Seq(Task) /\ Len(front \o <<t>>) = i
      /\ \A j \in 1..i : (front \o <<t>>)[j] = IF j < i THEN l[j] ELSE t
  <2> HIDE DEF front
  <2> QED BY <1>1, <1>2, <1>4, ConcatProperties
<1>6. /\ r \in Seq(Task) /\ Len(r) = Len(l) + 1
      /\ \A j \in 1..(i - 1) : r[j] = l[j]
      /\ r[i] = t
      /\ \A j \in i..Len(l) : r[j + 1] = l[j]
  <2> DEFINE f == front \o <<t>>
  <2>1. r = f \o back BY DEF InsertAt
  <2>2. f \in Seq(Task) /\ Len(f) = i BY <1>5
  <2>3. /\ \A j \in 1..(i - 1) : f[j] = l[j]
        /\ f[i] = t
    BY <1>1, <1>5
  <2> HIDE DEF front, back, r, f
  <2>4. /\ r \in Seq(Task) /\ Len(r) = Len(f) + Len(back)
        /\ \A j \in 1..(Len(f) + Len(back)) : r[j] = IF j <= Len(f) THEN f[j]
                                                     ELSE back[j - Len(f)]
    BY <1>3, <2>1, <2>2, ConcatProperties
  <2>5. Len(f) + Len(back) = Len(l) + 1 BY <1>1, <1>3, <2>2
  <2>6. \A j \in 1..(Len(l) + 1) : r[j] = IF j <= i THEN f[j] ELSE back[j - i]
    BY <2>2, <2>4, <2>5
  <2>7. ASSUME NEW j \in i..Len(l) PROVE r[j + 1] = l[j]
    <3>1. /\ j + 1 \in 1..(Len(l) + 1) /\ ~ (j + 1 <= i) /\ i + ((j + 1) - i) - 1 = j
          /\ (j + 1) - i \in 1..(Len(l) + 1 - i)
      BY <1>1
    <3>2. r[j + 1] = back[(j + 1) - i] BY <2>6, <3>1
    <3> QED BY <1>3, <3>1, <3>2
  <2>8. ASSUME NEW j \in 1..i PROVE r[j] = f[j]
    <3>1. j \in 1..(Len(l) + 1) /\ j <= i BY <1>1
    <3> QED BY <2>6, <3>1
  <2> QED BY <1>1, <2>3, <2>4, <2>5, <2>7, <2>8
<1> HIDE DEF r
\* Where each element of the new list comes from.
<1>7. ASSUME NEW h \in 1..Len(r)
      PROVE  \/ h = i /\ r[h] = t
             \/ h < i /\ h \in 1..Len(l) /\ r[h] = l[h]
             \/ h > i /\ h - 1 \in 1..Len(l) /\ r[h] = l[h - 1]
  <2>1. h \in Int /\ 1 <= h /\ h <= Len(l) + 1 BY <1>1, <1>6
  <2>2. CASE h > i
    <3>1. h - 1 \in i..Len(l) /\ (h - 1) + 1 = h /\ h - 1 \in 1..Len(l)
      BY <1>1, <2>1, <2>2
    <3> QED BY <1>6, <2>2, <3>1
  <2>3. CASE h < i BY <1>1, <1>6, <2>1, <2>3
  <2> QED BY <1>1, <1>6, <2>1, <2>2, <2>3
<1>8. \A u : u \in Range(r) <=> u \in Range(l) \/ u = t
  <2>1. ASSUME NEW j \in 1..Len(l) PROVE \E h \in 1..Len(r) : r[h] = l[j]
    <3>1. CASE j < i BY <1>1, <1>6, <3>1
    <3>2. CASE ~ (j < i)
      <4>1. j \in i..Len(l) /\ j + 1 \in 1..Len(r) BY <1>1, <1>6, <3>2
      <4> QED BY <1>6, <4>1
    <3> QED BY <3>1, <3>2
  <2>2. \E h \in 1..Len(r) : r[h] = t BY <1>1, <1>6
  <2>3. ASSUME NEW h \in 1..Len(r) PROVE r[h] = t \/ \E j \in 1..Len(l) : l[j] = r[h]
    BY <1>7
  <2>4. \A u : u \in Range(l) <=> \E j \in 1..Len(l) : l[j] = u BY <1>1, ListFacts
  <2>5. \A u : u \in Range(r) <=> \E j \in 1..Len(r) : r[j] = u BY <1>6, ListFacts
  <2> QED BY <2>1, <2>2, <2>3, <2>4, <2>5
<1>9. \A j, h \in 1..Len(r) : r[j] = r[h] => j = h
  <2> SUFFICES ASSUME NEW j \in 1..Len(r), NEW h \in 1..Len(r), r[j] = r[h]
               PROVE  j = h
    OBVIOUS
  <2>1. j \in Int /\ h \in Int OBVIOUS
  <2>2. j - 1 = h - 1 => j = h BY <2>1
  <2>3. j < i /\ h > i => j # h - 1 BY <1>1, <2>1
  <2>4. h < i /\ j > i => h # j - 1 BY <1>1, <2>1
  <2> QED BY <1>1, <1>7, <2>2, <2>3, <2>4
<1> QED BY <1>6, <1>8, <1>9, ListFacts DEF EventListOf, r

LEMMA InsertInOrder ==
  ASSUME NEW l, EventListOf(l), NEW t \in Task, t \notin Range(l)
  PROVE  /\ EventListOf(vListInsert(l, t))
         /\ Range(vListInsert(l, t)) = Range(l) \cup {t}
<1> DEFINE later == {i \in 1..Len(l) : xItemValue[l[i]] > xItemValue[t]}
           place == IF later = {} THEN Len(l) + 1 ELSE Min(later)
<1>1. place \in 1..(Len(l) + 1)
  <2>1. Len(l) \in Nat /\ later \subseteq 1..Len(l) /\ later \in SUBSET Nat
    BY ListFacts DEF EventListOf
  <2>2. later # {} => Min(later) \in later BY <2>1, LeastMember
  <2> HIDE DEF later
  <2>3. CASE later = {}
    <3>1. place = Len(l) + 1 BY <2>3
    <3> QED BY <2>1, <3>1
  <2>4. CASE later # {}
    <3>1. place = Min(later) /\ Min(later) \in 1..Len(l) BY <2>1, <2>2, <2>4
    <3> QED BY <2>1, <3>1
  <2> QED BY <2>3, <2>4
<1>2. vListInsert(l, t) = InsertAt(l, place, t) BY DEF vListInsert
<1> HIDE DEF place
<1> QED BY <1>1, <1>2, InsertAnywhere

LEMMA RemoveFromList ==
  ASSUME NEW l, EventListOf(l), NEW t \in Task
  PROVE  /\ EventListOf(uxListRemove(l, t))
         /\ Range(uxListRemove(l, t)) = Range(l) \ {t}
<1>1. CASE t \in Range(l)
  <2>1. /\ Len(l) \in Nat /\ l \in Seq(Task) /\ DOMAIN l = 1..Len(l)
        /\ \A j \in 1..Len(l) : l[j] \in Task
        /\ \A j, h \in 1..Len(l) : l[j] = l[h] => j = h
    BY ListFacts DEF EventListOf
  <2>2. PICK i \in 1..Len(l) : l[i] = t /\ uxListRemove(l, t) = RemoveAt(l, i)
    BY <1>1, <2>1, ListFacts DEF uxListRemove
  <2> DEFINE r == RemoveAt(l, i)
             front == SubSeq(l, 1, i - 1)
             back == SubSeq(l, i + 1, Len(l))
  <2>3. /\ front \in Seq(Task) /\ Len(front) = i - 1
        /\ \A j \in 1..(i - 1) : front[j] = l[j]
    BY <2>1, SubSeqProperties
  <2>4. /\ back \in Seq(Task) /\ Len(back) = Len(l) - i
        /\ \A j \in 1..(Len(l) - i) : back[j] = l[i + j]
    <3>1. i + 1 \in Int /\ \A j \in (i + 1)..Len(l) : l[j] \in Task BY <2>1
    <3>2. /\ back \in Seq(Task)
          /\ Len(back) = IF i + 1 <= Len(l) THEN Len(l) - (i + 1) + 1 ELSE 0
          /\ \A j \in 1..(Len(l) - (i + 1) + 1) : back[j] = l[(i + 1) + j - 1]
      BY <2>1, <3>1, SubSeqProperties
    <3> HIDE DEF back
    <3>3. ASSUME NEW j \in 1..(Len(l) - i) PROVE back[j] = l[i + j]
      <4>1. j \in 1..(Len(l) - (i + 1) + 1) /\ (i + 1) + j - 1 = i + j BY <2>1
      <4> QED BY <3>2, <4>1
    <3>4. Len(back) = Len(l) - i
      <4>1. Len(back) = IF i + 1 <= Len(l) THEN Len(l) - (i + 1) + 1 ELSE 0 BY <3>2
      <4>2. i \in Nat /\ Len(l) \in Nat /\ i <= Len(l) BY <2>1
      <4> QED BY <4>1, <4>2
    <3>5. back \in Seq(Task) BY <3>2
    <3> QED BY <3>3, <3>4, <3>5, Zenon
  <2>5. /\ r \in Seq(Task) /\ Len(r) = Len(l) - 1
        /\ \A j \in 1..(i - 1) : r[j] = l[j]
        /\ \A j \in (i + 1)..Len(l) : r[j - 1] = l[j]
    <3>1. r = front \o back BY DEF RemoveAt
    <3> HIDE DEF front, back, r
    <3>2. /\ r \in Seq(Task) /\ Len(r) = Len(front) + Len(back)
          /\ \A j \in 1..(Len(front) + Len(back)) :
               r[j] = IF j <= Len(front) THEN front[j] ELSE back[j - Len(front)]
      BY <2>3, <2>4, <3>1, ConcatProperties
    <3>3. Len(front) + Len(back) = Len(l) - 1 BY <2>1, <2>3, <2>4
    <3>4. \A j \in 1..(Len(l) - 1) : r[j] = IF j <= i - 1 THEN front[j]
                                            ELSE back[j - (i - 1)]
      BY <2>3, <3>2, <3>3
    <3>5. ASSUME NEW j \in (i + 1)..Len(l) PROVE r[j - 1] = l[j]
      <4>1. /\ j - 1 \in 1..(Len(l) - 1) /\ ~ (j - 1 <= i - 1)
            /\ (j - 1) - (i - 1) = j - i /\ j - i \in 1..(Len(l) - i) /\ i + (j - i) = j
        BY <2>1
      <4>2. r[j - 1] = back[j - i] BY <3>4, <4>1
      <4> QED BY <2>4, <4>1, <4>2
    <3>6. ASSUME NEW j \in 1..(i - 1) PROVE r[j] = l[j]
      <4>1. j \in 1..(Len(l) - 1) /\ j <= i - 1 BY <2>1
      <4> QED BY <2>3, <3>4, <4>1
    <3> QED BY <3>2, <3>3, <3>5, <3>6
  <2> HIDE DEF r
  \* Where each element of the new list comes from.
  <2>6. ASSUME NEW h \in 1..Len(r)
        PROVE  \/ h < i /\ h \in 1..Len(l) /\ r[h] = l[h]
               \/ h >= i /\ h + 1 \in 1..Len(l) /\ r[h] = l[h + 1]
    <3>1. h \in Int /\ 1 <= h /\ h <= Len(l) - 1 BY <2>1, <2>5
    <3>2. CASE h >= i
      <4>1. h + 1 \in (i + 1)..Len(l) /\ (h + 1) - 1 = h /\ h + 1 \in 1..Len(l)
        BY <2>1, <3>1, <3>2
      <4> QED BY <2>5, <3>2, <4>1
    <3>3. CASE h < i BY <2>1, <2>5, <3>1, <3>3
    <3> QED BY <2>1, <3>1, <3>2, <3>3
  <2>7. \A u : u \in Range(r) <=> u \in Range(l) /\ u # t
    <3>1. ASSUME NEW j \in 1..Len(l), l[j] # t PROVE \E h \in 1..Len(r) : r[h] = l[j]
      <4>1. CASE j < i BY <2>1, <2>5, <4>1
      <4>2. CASE ~ (j < i)
        <5>1. j \in (i + 1)..Len(l) /\ j - 1 \in 1..Len(r) BY <2>1, <2>2, <2>5, <3>1, <4>2
        <5> QED BY <2>5, <5>1
      <4> QED BY <4>1, <4>2
    <3>2. ASSUME NEW h \in 1..Len(r)
          PROVE  \E j \in 1..Len(l) : l[j] = r[h] /\ l[j] # t
      <4>1. h \in Int /\ (h >= i => h + 1 # i) /\ (h < i => h # i) BY <2>1
      <4>2. \A j \in 1..Len(l) : j # i => l[j] # t BY <2>1, <2>2
      <4> QED BY <2>6, <4>1, <4>2
    <3>3. \A u : u \in Range(l) <=> \E j \in 1..Len(l) : l[j] = u BY <2>1, ListFacts
    <3>4. \A u : u \in Range(r) <=> \E j \in 1..Len(r) : r[j] = u BY <2>5, ListFacts
    <3> QED BY <3>1, <3>2, <3>3, <3>4
  <2>8. \A j, h \in 1..Len(r) : r[j] = r[h] => j = h
    <3> SUFFICES ASSUME NEW j \in 1..Len(r), NEW h \in 1..Len(r), r[j] = r[h]
                 PROVE  j = h
      OBVIOUS
    <3>1. j \in Int /\ h \in Int OBVIOUS
    <3>2. j + 1 = h + 1 => j = h BY <3>1
    <3>3. j < i /\ h >= i => j # h + 1 BY <2>1, <3>1
    <3>4. h < i /\ j >= i => h # j + 1 BY <2>1, <3>1
    <3> QED BY <2>1, <2>6, <3>2, <3>3, <3>4
  <2> QED BY <2>2, <2>5, <2>7, <2>8, ListFacts DEF EventListOf, r
<1>2. CASE t \notin Range(l) BY <1>2 DEF uxListRemove
<1> QED BY <1>1, <1>2

LEMMA RemoveHead ==
  ASSUME NEW l, EventListOf(l), l # <<>>
  PROVE  /\ EventListOf(Tail(l))
         /\ Head(l) \in Range(l)
         /\ Head(l) \in Task
         /\ Range(Tail(l)) = Range(l) \ {Head(l)}
<1> DEFINE r == Tail(l)
<1>1. /\ Len(l) \in Nat \ {0} /\ l \in Seq(Task)
      /\ \A j \in 1..Len(l) : l[j] \in Task
      /\ \A j, h \in 1..Len(l) : l[j] = l[h] => j = h
  BY ListFacts, EmptySeq DEF EventListOf
<1>2. /\ r \in Seq(Task) /\ Len(r) = Len(l) - 1
      /\ \A j \in 1..(Len(l) - 1) : r[j] = l[j + 1]
  BY <1>1, HeadTailProperties
<1>3. Head(l) = l[1] BY <1>1
<1> HIDE DEF r
<1>4. \A u : u \in Range(r) <=> u \in Range(l) /\ u # Head(l)
  <2>1. ASSUME NEW j \in 1..Len(l), l[j] # l[1] PROVE \E h \in 1..Len(r) : r[h] = l[j]
    <3>1. j - 1 \in 1..Len(r) /\ (j - 1) + 1 = j BY <1>1, <1>2, <2>1
    <3> QED BY <1>2, <3>1
  <2>2. ASSUME NEW h \in 1..Len(r) PROVE \E j \in 1..Len(l) : l[j] = r[h] /\ l[j] # l[1]
    <3>1. h + 1 \in 1..Len(l) /\ 1 \in 1..Len(l) /\ h + 1 # 1 BY <1>1, <1>2
    <3> QED BY <1>1, <1>2, <3>1
  <2>4. \A u : u \in Range(l) <=> \E j \in 1..Len(l) : l[j] = u BY <1>1, ListFacts
  <2>5. \A u : u \in Range(r) <=> \E j \in 1..Len(r) : r[j] = u BY <1>2, ListFacts
  <2>6. ASSUME NEW u, u \in Range(r) PROVE u \in Range(l) /\ u # l[1]
    BY <2>2, <2>4, <2>5, <2>6
  <2>7. ASSUME NEW u, u \in Range(l), u # l[1] PROVE u \in Range(r)
    BY <2>1, <2>4, <2>5, <2>7
  <2> QED BY <1>3, <2>6, <2>7
<1>5. \A j, h \in 1..Len(r) : r[j] = r[h] => j = h
  <2> SUFFICES ASSUME NEW j \in 1..Len(r), NEW h \in 1..Len(r), r[j] = r[h]
               PROVE  j = h
    OBVIOUS
  <2>1. j + 1 \in 1..Len(l) /\ h + 1 \in 1..Len(l) /\ j + 1 = h + 1 => j = h BY <1>1, <1>2
  <2> QED BY <1>1, <1>2, <2>1
<1>6. Head(l) \in Range(l) /\ Head(l) \in Task BY <1>1, <1>3, ListFacts
<1> QED BY <1>2, <1>4, <1>5, <1>6, ListFacts DEF EventListOf, r

--------------------
\* The inductive invariant.

\* The call t is in is about m.
InCallOn(t, m) ==
  call[t].at \notin {"idle", "asleep", "asserted"} /\ call[t].mutex = m

\* Who takes a recursive mutex again has room to count it, and never waits.
RecursionRoom ==
  \A t \in Task, m \in Recursive : InCallOn(t, m) /\ xMutexHolder[m] = t =>
    call[t].at = "try" /\ uxRecursiveCallCount[m] < RecursionBound

\* Who is on an event list is blocked on that mutex: on one list only.
WaitersBlocked ==
  \A m \in Mutexes, t \in Task : t \in Waiting(m) =>
    call[t].at = "blocked" /\ call[t].mutex = m

IInv ==
  /\ TypeOK
  /\ BooksBalance
  /\ RecursionRoom
  /\ WaitersBlocked
  /\ NoWaiterLeftBehind

LEMMA NoCallType == NoCall \in Call /\ NoCall.at = "idle"
<1>1. (CHOOSE m \in Mutexes : TRUE) \in Mutexes BY MutexAssumption
<1> QED BY <1>1 DEF NoCall, Call, Where

\* A call goes from one step to the next, and other tasks stay where they are.
LEMMA GoToCall ==
  ASSUME TypeOK, NEW t \in Task, NEW where \in Where, GoTo(t, where)
  PROVE  /\ call' \in [Task -> Call]
         /\ \A u \in Task \ {t} : call'[u] = call[u]
         /\ call'[t].at = where
         /\ where # "idle" => call'[t].mutex = call[t].mutex
<1>1. CASE where = "idle" BY <1>1, NoCallType DEF GoTo, TypeOK
<1>2. CASE where # "idle" BY <1>2 DEF GoTo, TypeOK, Call
<1> QED BY <1>1, <1>2

\* Where a task will still look at the mutex its call is about.
Awake == {"try", "block", "recheck"}

\* Steps that change nothing but the place of a call.
LEMMA OnlyCallMoves ==
  ASSUME IInv, NEW t \in Task, UNCHANGED <<taskVars, mutexVars>>,
         call' \in [Task -> Call], \A u \in Task \ {t} : call'[u] = call[u],
         call[t].at # "blocked",
         \A m \in Recursive :
           /\ call'[t].at \notin {"idle", "asleep", "asserted"} /\ call'[t].mutex = m
           /\ xMutexHolder[m] = t
           => call'[t].at = "try" /\ uxRecursiveCallCount[m] < RecursionBound,
         \A m \in Mutexes : xMutexHolder[m] = "NULL" /\ call[t].mutex = m
                              /\ call[t].at \in Awake
                              => call'[t].mutex = m /\ call'[t].at \in Awake
  PROVE  IInv'
<1>1. TypeOK' BY DEF IInv, TypeOK, taskVars, mutexVars
<1>2. BooksBalance'
  BY DEF IInv, BooksBalance, HeldCount, NothingLeftInherited, Held, Available,
         taskVars, mutexVars
<1>3. RecursionRoom' BY DEF IInv, RecursionRoom, InCallOn, mutexVars
<1>4. WaitersBlocked' BY DEF IInv, WaitersBlocked, Waiting, mutexVars
<1>5. NoWaiterLeftBehind' BY DEF IInv, NoWaiterLeftBehind, Available, Awake, mutexVars
<1> QED BY <1>1, <1>2, <1>3, <1>4, <1>5 DEF IInv

LEMMA InvokeStep ==
  ASSUME IInv, NEW t \in Task, NEW m \in Mutexes, NEW wait \in Waits, Invoke(t, m, wait)
  PROVE  IInv'
<1> DEFINE c == [at |-> "try", mutex |-> m, wait |-> wait, expired |-> FALSE,
                 xInheritanceOccurred |-> FALSE]
<1>1. c \in Call BY MutexAssumption DEF Call, Where
<1>2. /\ call' \in [Task -> Call] /\ call'[t] = c
      /\ \A u \in Task \ {t} : call'[u] = call[u]
  BY <1>1 DEF Invoke, IInv, TypeOK
<1>3. /\ UNCHANGED <<taskVars, mutexVars>> /\ call[t].at = "idle"
      /\ m \in Recursive /\ xMutexHolder[m] = t => uxRecursiveCallCount[m] < RecursionBound
  BY DEF Invoke, At, Held
<1> QED BY <1>2, <1>3, OnlyCallMoves DEF Awake

LEMMA TryToWaitStep ==
  ASSUME IInv, NEW t \in Task, TryToWait(t)
  PROVE  IInv'
<1>1. PICK where \in {"idle", "block", "asserted"} : GoTo(t, where) BY DEF TryToWait
<1>2. /\ call' \in [Task -> Call]
      /\ \A u \in Task \ {t} : call'[u] = call[u]
      /\ call'[t].at = where
      /\ where # "idle" => call'[t].mutex = call[t].mutex
  BY <1>1, GoToCall DEF IInv, Where
<1>3. /\ UNCHANGED <<taskVars, mutexVars>> /\ call[t].at = "try"
      /\ xMutexHolder[call[t].mutex] # "NULL"
      /\ ~ (call[t].mutex \in Recursive /\ xMutexHolder[call[t].mutex] = t)
  BY DEF TryToWait, At, Available
<1> QED BY <1>2, <1>3, OnlyCallMoves

LEMMA DoNotBlockStep ==
  ASSUME IInv, NEW t \in Task, DoNotBlock(t)
  PROVE  IInv'
<1>1. /\ call' \in [Task -> Call]
      /\ \A u \in Task \ {t} : call'[u] = call[u]
      /\ call'[t].at \in {"recheck", "try"} /\ call'[t].mutex = call[t].mutex
  <2>1. CASE call' = [call EXCEPT ![t].at = "recheck", ![t].wait = "none"]
    BY <2>1 DEF IInv, TypeOK, Call, Where
  <2>2. CASE GoTo(t, "try") BY <2>2, GoToCall DEF IInv, Where
  <2> QED BY <2>1, <2>2 DEF DoNotBlock
<1>2. UNCHANGED <<taskVars, mutexVars>> /\ call[t].at = "block" BY DEF DoNotBlock, At
<1>3. \A m \in Recursive : ~ (call[t].mutex = m /\ xMutexHolder[m] = t)
  BY <1>2 DEF IInv, RecursionRoom, InCallOn
<1> QED BY <1>1, <1>2, <1>3, OnlyCallMoves DEF Awake

LEMMA RecheckAfterTimeOutStep ==
  ASSUME IInv, NEW t \in Task, RecheckAfterTimeOut(t)
  PROVE  IInv'
<1>1. PICK where \in {"try", "disinherit", "idle"} :
        GoTo(t, where) /\ (xMutexHolder[call[t].mutex] = "NULL" => where = "try")
  BY DEF RecheckAfterTimeOut, Available
<1>2. /\ call' \in [Task -> Call]
      /\ \A u \in Task \ {t} : call'[u] = call[u]
      /\ call'[t].at = where
      /\ where # "idle" => call'[t].mutex = call[t].mutex
  BY <1>1, GoToCall DEF IInv, Where
<1>3. UNCHANGED <<taskVars, mutexVars>> /\ call[t].at = "recheck"
  BY DEF RecheckAfterTimeOut, At
<1>4. \A m \in Recursive : ~ (call[t].mutex = m /\ xMutexHolder[m] = t)
  BY <1>3 DEF IInv, RecursionRoom, InCallOn
<1> QED BY <1>1, <1>2, <1>3, <1>4, OnlyCallMoves DEF Awake

LEMMA SwitchContextStep ==
  ASSUME IInv, SwitchContext
  PROVE  IInv'
<1>1. /\ UNCHANGED <<uxPriority, uxBasePriority, uxMutexesHeld, xItemValue, mutexVars, call>>
      /\ overdue' = "NULL"
  BY DEF SwitchContext
<1>2. TypeOK' BY <1>1 DEF IInv, TypeOK, mutexVars
<1> QED
  BY <1>1, <1>2 DEF IInv, BooksBalance, HeldCount, NothingLeftInherited, Held, Available,
     RecursionRoom, InCallOn, WaitersBlocked, Waiting, NoWaiterLeftBehind, mutexVars

LEMMA SleepStep ==
  ASSUME IInv, NEW t \in Task, Sleep(t) \/ WakeUp(t)
  PROVE  IInv'
<1>1. PICK where \in {"asleep", "idle"} : GoTo(t, where) BY DEF Sleep, WakeUp
<1>2. /\ call' \in [Task -> Call]
      /\ \A u \in Task \ {t} : call'[u] = call[u]
      /\ call'[t].at = where
  BY <1>1, GoToCall DEF IInv, Where
<1>3. UNCHANGED <<taskVars, mutexVars>> /\ call[t].at \in {"idle", "asleep"}
  BY DEF Sleep, WakeUp, At
<1> QED BY <1>2, <1>3, OnlyCallMoves DEF Awake

\* A task holds some of the mutexes, and losing or gaining one counts.
LEMMA HeldBound ==
  ASSUME NEW t
  PROVE  /\ IsFiniteSet(Held(t))
         /\ Cardinality(Held(t)) \in 0..Cardinality(Mutexes)
         /\ Cardinality(Mutexes) \in Nat
<1>1. Held(t) \subseteq Mutexes /\ IsFiniteSet(Mutexes) BY MutexAssumption DEF Held
<1> QED BY <1>1, FS_Subset, FS_CardinalityType

LEMMA TakeAgainStep ==
  ASSUME IInv, NEW t \in Task, TakeAgain(t)
  PROVE  IInv'
<1> DEFINE m == call[t].mutex
<1>1. /\ call[t].at = "try" /\ m \in Recursive /\ m \in Mutexes /\ xMutexHolder[m] = t
      /\ uxRecursiveCallCount' = [uxRecursiveCallCount EXCEPT ![m] = @ + 1]
      /\ UNCHANGED <<taskVars, xMutexHolder, waiting>>
  BY MutexAssumption DEF TakeAgain, At
<1>2. /\ call' \in [Task -> Call] /\ call'[t].at = "idle"
      /\ \A u \in Task \ {t} : call'[u] = call[u]
  BY GoToCall DEF TakeAgain, IInv, Where
<1>3. uxRecursiveCallCount[m] < RecursionBound BY <1>1 DEF IInv, RecursionRoom, InCallOn
<1>4. t # "NULL" BY MutexAssumption
<1>10. /\ uxRecursiveCallCount' \in [Mutexes -> 0..RecursionBound]
       /\ \A x \in Mutexes \ {m} : uxRecursiveCallCount'[x] = uxRecursiveCallCount[x]
  <2>1. uxRecursiveCallCount[m] + 1 \in 0..RecursionBound
    BY <1>1, <1>3, MutexAssumption DEF IInv, TypeOK
  <2> HIDE DEF m
  <2> QED BY <1>1, <2>1 DEF IInv, TypeOK
<1>5. TypeOK' BY <1>1, <1>2, <1>10 DEF IInv, TypeOK, taskVars
<1>6. BooksBalance'
  BY <1>1, <1>4, MutexAssumption DEF IInv, TypeOK, BooksBalance, HeldCount,
     NothingLeftInherited, Held, Available, taskVars
<1>7. RecursionRoom'
  <2> SUFFICES ASSUME NEW u \in Task, NEW x \in Recursive, InCallOn(u, x)',
                      xMutexHolder'[x] = u
               PROVE  call'[u].at = "try" /\ uxRecursiveCallCount'[x] < RecursionBound
    BY DEF RecursionRoom
  <2>1. u # t /\ x # m /\ x \in Mutexes BY <1>1, <1>2, MutexAssumption DEF InCallOn
  <2>2. call'[u] = call[u] /\ uxRecursiveCallCount'[x] = uxRecursiveCallCount[x]
    BY <1>2, <1>10, <2>1
  <2> QED BY <1>1, <2>2 DEF IInv, RecursionRoom, InCallOn
<1>8. WaitersBlocked' BY <1>1, <1>2 DEF IInv, WaitersBlocked, Waiting
<1>9. NoWaiterLeftBehind' BY <1>1, <1>2, <1>4 DEF IInv, NoWaiterLeftBehind, Available
<1> QED BY <1>5, <1>6, <1>7, <1>8, <1>9 DEF IInv

LEMMA TakeStep ==
  ASSUME IInv, NEW t \in Task, Take(t)
  PROVE  IInv'
<1> DEFINE m == call[t].mutex
<1>1. /\ call[t].at = "try" /\ m \in Mutexes /\ xMutexHolder[m] = "NULL"
      /\ xMutexHolder' = [xMutexHolder EXCEPT ![m] = t]
      /\ uxMutexesHeld' = [uxMutexesHeld EXCEPT ![t] = @ + 1]
      /\ uxRecursiveCallCount' = [uxRecursiveCallCount EXCEPT ![m] =
                                    IF m \in Recursive THEN @ + 1 ELSE @]
      /\ UNCHANGED <<uxPriority, uxBasePriority, xItemValue, overdue, waiting>>
  BY DEF Take, At, Available, IInv, TypeOK, Call
<1>2. /\ call' \in [Task -> Call] /\ call'[t].at = "idle"
      /\ \A u \in Task \ {t} : call'[u] = call[u]
  BY GoToCall DEF Take, IInv, Where
<1>3. t # "NULL" /\ xMutexHolder' \in [Mutexes -> Task \cup {"NULL"}]
  BY <1>1, MutexAssumption DEF IInv, TypeOK
<1>12. xMutexHolder'[m] = t /\ \A x \in Mutexes \ {m} : xMutexHolder'[x] = xMutexHolder[x]
  BY <1>1 DEF IInv, TypeOK
<1>4. /\ Held(t)' = Held(t) \cup {m} /\ m \notin Held(t)
      /\ \A u \in Task \ {t} : Held(u)' = Held(u)
  <2>1. \A u \in Task : m \notin Held(u) BY <1>1, MutexAssumption DEF Held
  <2>2. \A u \in Task : Held(u)' = IF u = t THEN Held(u) \cup {m} ELSE Held(u)
    BY <1>1, <1>12, <2>1 DEF Held
  <2> QED BY <2>1, <2>2
<1>5. \A u \in Task : uxMutexesHeld'[u] = Cardinality(Held(u)')
  <2>1. Cardinality(Held(t)') = Cardinality(Held(t)) + 1 BY <1>4, HeldBound, FS_AddElement
  <2> QED BY <1>1, <1>4, <2>1 DEF IInv, TypeOK, BooksBalance, HeldCount
<1>6. \A x \in Recursive : uxRecursiveCallCount'[x] > 0 <=> xMutexHolder'[x] # "NULL"
  BY <1>1, <1>3, MutexAssumption DEF IInv, TypeOK, BooksBalance, HeldCount,
                                     Available
<1>7. TypeOK'
  <2>1. uxMutexesHeld' \in [Task -> 0..Cardinality(Mutexes)]
    <3>1. \A u \in Task : uxMutexesHeld'[u] \in 0..Cardinality(Mutexes)
      <4>1. ASSUME NEW u \in Task PROVE Cardinality(Held(u)') \in 0..Cardinality(Mutexes)
        <5>1. Held(u)' \subseteq Mutexes BY DEF Held
        <5> QED BY <5>1, MutexAssumption, FS_Subset, FS_CardinalityType
      <4> QED BY <1>5, <4>1
    <3> QED BY <1>1, <3>1 DEF IInv, TypeOK
  <2>2. uxRecursiveCallCount' \in [Mutexes -> 0..RecursionBound]
    <3>1. m \in Recursive => uxRecursiveCallCount[m] = 0
      BY <1>1, MutexAssumption DEF IInv, TypeOK, BooksBalance, HeldCount, Available
    <3> QED BY <1>1, <3>1, MutexAssumption DEF IInv, TypeOK
  <2> QED BY <1>1, <1>2, <1>3, <2>1, <2>2 DEF IInv, TypeOK
<1>8. BooksBalance'
  BY <1>1, <1>4, <1>5, <1>6 DEF IInv, BooksBalance, HeldCount, NothingLeftInherited,
     Available
<1>9. RecursionRoom'
  <2> SUFFICES ASSUME NEW u \in Task, NEW x \in Recursive, InCallOn(u, x)',
                      xMutexHolder'[x] = u
               PROVE  call'[u].at = "try" /\ uxRecursiveCallCount'[x] < RecursionBound
    BY DEF RecursionRoom
  <2>1. u # t /\ x # m /\ x \in Mutexes BY <1>2, <1>12, MutexAssumption DEF InCallOn
  <2>2. /\ call'[u] = call[u] /\ xMutexHolder[x] = u
        /\ uxRecursiveCallCount'[x] = uxRecursiveCallCount[x]
    BY <1>1, <1>2, <1>12, <2>1 DEF IInv, TypeOK
  <2> QED BY <2>2 DEF IInv, RecursionRoom, InCallOn
<1>10. WaitersBlocked' BY <1>1, <1>2 DEF IInv, WaitersBlocked, Waiting
<1>11. NoWaiterLeftBehind'
  <2> SUFFICES ASSUME NEW x \in Mutexes, xMutexHolder'[x] = "NULL", waiting'[x] # <<>>
               PROVE  \E u \in Task : call'[u].mutex = x /\ call'[u].at \in Awake
    BY DEF NoWaiterLeftBehind, Available, Awake
  <2>1. x # m /\ xMutexHolder[x] = "NULL" /\ waiting[x] # <<>> BY <1>1, <1>3, <1>12
  <2>2. PICK u \in Task : call[u].mutex = x /\ call[u].at \in Awake
    BY <2>1 DEF IInv, NoWaiterLeftBehind, Available, Awake
  <2> QED BY <1>2, <2>1, <2>2
<1> QED BY <1>7, <1>8, <1>9, <1>10, <1>11 DEF IInv

LEMMA GiveInnerStep ==
  ASSUME IInv, NEW t \in Task, NEW m \in Mutexes, GiveInner(t, m)
  PROVE  IInv'
<1>1. /\ m \in Recursive /\ uxRecursiveCallCount[m] > 1 /\ xMutexHolder[m] = t
      /\ uxRecursiveCallCount' = [uxRecursiveCallCount EXCEPT ![m] = @ - 1]
      /\ UNCHANGED <<taskVars, xMutexHolder, waiting, call>>
  BY DEF GiveInner, Held
<1>2. TypeOK' BY <1>1, MutexAssumption DEF IInv, TypeOK, taskVars
<1>3. BooksBalance' BY <1>1, MutexAssumption DEF IInv, TypeOK, BooksBalance, HeldCount,
     NothingLeftInherited, Held, Available, taskVars
<1>4. RecursionRoom'
  <2> SUFFICES ASSUME NEW u \in Task, NEW x \in Recursive, InCallOn(u, x)',
                      xMutexHolder'[x] = u
               PROVE  call'[u].at = "try" /\ uxRecursiveCallCount'[x] < RecursionBound
    BY DEF RecursionRoom
  <2>1. call[u].at = "try" /\ uxRecursiveCallCount[x] < RecursionBound
    BY <1>1 DEF IInv, RecursionRoom, InCallOn
  <2>2. /\ x \in Mutexes /\ uxRecursiveCallCount[x] \in Nat /\ RecursionBound \in Nat
        /\ uxRecursiveCallCount'[x] = IF x = m THEN uxRecursiveCallCount[x] - 1
                                               ELSE uxRecursiveCallCount[x]
    BY <1>1, MutexAssumption DEF IInv, TypeOK
  <2> QED BY <1>1, <2>1, <2>2
<1>5. WaitersBlocked' /\ NoWaiterLeftBehind'
  BY <1>1 DEF IInv, WaitersBlocked, Waiting, NoWaiterLeftBehind, Available
<1> QED BY <1>2, <1>3, <1>4, <1>5 DEF IInv

\* A priority is inherited by the holder, and stays one of the priorities.
LEMMA InheritEffect ==
  ASSUME TypeOK, NEW h \in Task, NEW p \in Priority, xTaskPriorityInherit(h, p)
  PROVE  /\ uxPriority' \in [Task -> Priority]
         /\ xItemValue' \in [Task -> 1..MaxPriority]
         /\ \A u \in Task \ {h} : uxPriority'[u] = uxPriority[u]
<1>1. ValueOf(p) \in 1..MaxPriority BY MutexAssumption DEF ValueOf, Priority
<1> QED BY <1>1 DEF xTaskPriorityInherit, TypeOK

LEMMA BlockStep ==
  ASSUME IInv, NEW t \in Task, Block(t)
  PROVE  IInv'
<1> DEFINE m == call[t].mutex
           h == xMutexHolder[m]
<1>1. /\ m \in Mutexes /\ call[t].at = "block" /\ h # "NULL" /\ h \in Task
      /\ uxPriority[t] \in Priority
  BY DEF Block, At, Available, IInv, TypeOK, Call
<1>2. /\ uxPriority' \in [Task -> Priority]
      /\ xItemValue' \in [Task -> 1..MaxPriority]
      /\ \A u \in Task \ {h} : uxPriority'[u] = uxPriority[u]
  BY <1>1, InheritEffect DEF Block, IInv
<1>3. /\ waiting' = [waiting EXCEPT ![m] = vListInsert(@, t)]
      /\ UNCHANGED <<uxBasePriority, uxMutexesHeld, overdue, xMutexHolder,
                     uxRecursiveCallCount>>
  BY DEF Block
<1>4. /\ call' \in [Task -> Call]
      /\ call'[t].at = "blocked" /\ call'[t].mutex = m
      /\ \A u \in Task \ {t} : call'[u] = call[u]
  <2>1. InheritanceOccurred(h, uxPriority[t]) \in BOOLEAN BY DEF InheritanceOccurred
  <2> QED BY <2>1 DEF Block, IInv, TypeOK, Call, Where
<1>5. EventListOf(waiting[m]) /\ t \notin Range(waiting[m])
  BY <1>1 DEF IInv, TypeOK, EventListOf, WaitersBlocked, Waiting
<1>6. /\ EventListOf(waiting'[m]) /\ Range(waiting'[m]) = Range(waiting[m]) \cup {t}
      /\ waiting' \in [Mutexes -> Seq(Task)]
      /\ \A x \in Mutexes \ {m} : waiting'[x] = waiting[x]
  <2>1. /\ EventListOf(vListInsert(waiting[m], t))
        /\ Range(vListInsert(waiting[m], t)) = Range(waiting[m]) \cup {t}
    BY <1>5, InsertInOrder
  <2> HIDE DEF m
  <2> QED BY <1>1, <1>3, <2>1 DEF IInv, TypeOK, EventListOf
<1>7. TypeOK' BY <1>2, <1>3, <1>4, <1>6 DEF IInv, TypeOK, EventListOf
<1>8. BooksBalance'
  <2>1. Held(h) # {} BY <1>1 DEF Held
  <2> QED BY <1>2, <1>3, <2>1 DEF IInv, BooksBalance, HeldCount, NothingLeftInherited,
                            Held,
       Available
<1>9. RecursionRoom'
  <2>1. ~ (m \in Recursive /\ xMutexHolder[m] = t)
    BY <1>1 DEF IInv, RecursionRoom, InCallOn
  <2> HIDE DEF m
  <2> QED BY <1>3, <1>4, <2>1 DEF IInv, RecursionRoom, InCallOn
<1>10. WaitersBlocked' BY <1>1, <1>4, <1>6 DEF IInv, WaitersBlocked, Waiting
<1>11. NoWaiterLeftBehind'
  <2> SUFFICES ASSUME NEW x \in Mutexes, xMutexHolder'[x] = "NULL", waiting'[x] # <<>>
               PROVE  \E u \in Task : call'[u].mutex = x /\ call'[u].at \in Awake
    BY DEF NoWaiterLeftBehind, Available, Awake
  <2>1. x # m /\ xMutexHolder[x] = "NULL" /\ waiting[x] # <<>> BY <1>1, <1>3, <1>6
  <2>2. PICK u \in Task : call[u].mutex = x /\ call[u].at \in Awake
    BY <2>1 DEF IInv, NoWaiterLeftBehind, Available, Awake
  <2> QED BY <1>4, <2>1, <2>2
<1> QED BY <1>7, <1>8, <1>9, <1>10, <1>11 DEF IInv

LEMMA PrioritySetStep ==
  ASSUME IInv, NEW t \in Task, NEW u \in Task, NEW p \in NewPriority,
         vTaskPrioritySet(t, u, p)
  PROVE  IInv'
<1>1. p \in Priority /\ ValueOf(p) \in 1..MaxPriority
  BY MutexAssumption DEF ValueOf, Priority
<1>2. /\ uxBasePriority' = [uxBasePriority EXCEPT ![u] = p]
      /\ uxPriority' = [uxPriority EXCEPT ![u] =
                          IF uxBasePriority[u] = uxPriority[u] THEN p ELSE @]
      /\ xItemValue' = [xItemValue EXCEPT ![u] = ValueOf(p)]
      /\ UNCHANGED <<uxMutexesHeld, overdue, mutexVars, call>>
  BY DEF vTaskPrioritySet
<1>3. TypeOK' BY <1>1, <1>2 DEF IInv, TypeOK, mutexVars
<1>4. BooksBalance'
  BY <1>1, <1>2 DEF IInv, TypeOK, BooksBalance, HeldCount, NothingLeftInherited,
                    Held,
     Available, mutexVars
<1>5. RecursionRoom' /\ WaitersBlocked' /\ NoWaiterLeftBehind'
  BY <1>2 DEF IInv, RecursionRoom, InCallOn, WaitersBlocked, Waiting,
     NoWaiterLeftBehind, Available, mutexVars
<1> QED BY <1>3, <1>4, <1>5 DEF IInv

LEMMA ExpireStep ==
  ASSUME IInv, NEW t \in Task, Expire(t)
  PROVE  IInv'
<1>1. /\ call[t].at \in {"try", "block", "blocked"}
      /\ UNCHANGED <<taskVars, xMutexHolder, uxRecursiveCallCount>>
      /\ waiting' = [m \in Mutexes |-> uxListRemove(waiting[m], t)]
  BY DEF Expire
<1>2. /\ call' \in [Task -> Call] /\ call'[t].mutex = call[t].mutex
      /\ call'[t].at = IF call[t].at = "blocked" THEN "try" ELSE call[t].at
      /\ \A u \in Task \ {t} : call'[u] = call[u]
  <2> DEFINE at == IF call[t].at = "blocked" THEN "try" ELSE call[t].at
  <2>1. call \in [Task -> Call] /\ at \in Where BY DEF IInv, TypeOK, Call, Where
  <2>2. call' = [call EXCEPT ![t] = [@ EXCEPT !.expired = TRUE, !.at = at]] BY DEF Expire
  <2> HIDE DEF at
  <2>3. [call[t] EXCEPT !.expired = TRUE, !.at = at] \in Call BY <2>1 DEF Call
  <2>4. call'[t] = [call[t] EXCEPT !.expired = TRUE, !.at = at] BY <2>1, <2>2
  <2>5. call'[t].mutex = call[t].mutex /\ call'[t].at = at BY <2>1, <2>4 DEF Call
  <2> QED BY <2>1, <2>2, <2>3, <2>5 DEF at
<1>3. \A m \in Mutexes : /\ EventListOf(waiting'[m])
                         /\ Range(waiting'[m]) = Range(waiting[m]) \ {t}
  BY <1>1, RemoveFromList DEF IInv, TypeOK, EventListOf
<1>4. waiting' \in [Mutexes -> Seq(Task)] /\ \A m \in Mutexes : IsInjective(waiting'[m])
  BY <1>1, <1>3 DEF EventListOf
<1>5. TypeOK' BY <1>1, <1>2, <1>4 DEF IInv, TypeOK, taskVars
<1>6. BooksBalance'
  BY <1>1 DEF IInv, BooksBalance, HeldCount, NothingLeftInherited, Held, Available,
     taskVars
<1>7. RecursionRoom' BY <1>1, <1>2 DEF IInv, RecursionRoom, InCallOn
<1>8. WaitersBlocked' BY <1>2, <1>3 DEF IInv, WaitersBlocked, Waiting
<1>9. NoWaiterLeftBehind'
  <2> SUFFICES ASSUME NEW x \in Mutexes, xMutexHolder'[x] = "NULL", waiting'[x] # <<>>
               PROVE  \E u \in Task : call'[u].mutex = x /\ call'[u].at \in Awake
    BY DEF NoWaiterLeftBehind, Available, Awake
  <2>1. xMutexHolder[x] = "NULL" /\ waiting[x] # <<>>
    <3>1. waiting[x] = <<>> => Range(waiting[x]) = {} BY DEF Range
    <3>2. Range(waiting'[x]) # {}
      <4>1. waiting'[x] \in Seq(Task) BY <1>4
      <4>2. 1 \in 1..Len(waiting'[x]) BY <4>1, EmptySeq
      <4> QED
        <5>1. waiting'[x][1] \in Range(waiting'[x]) BY <4>1, <4>2, ListFacts
        <5> QED BY <5>1
    <3> QED BY <1>1, <1>3, <3>1, <3>2
  <2>2. PICK u \in Task : call[u].mutex = x /\ call[u].at \in Awake
    BY <2>1 DEF IInv, NoWaiterLeftBehind, Available, Awake
  <2> QED BY <1>1, <1>2, <2>2 DEF Awake
<1> QED BY <1>5, <1>6, <1>7, <1>8, <1>9 DEF IInv

\* After a time-out the priority falls, if at all, to one of the priorities.
LEMMA PriorityToUseType ==
  ASSUME TypeOK, NEW m \in Mutexes, ~Available(m)
  PROVE  PriorityToUse(m) \in Priority
<1> DEFINE own == uxBasePriority[xMutexHolder[m]]
           others == prvGetDisinheritPriorityAfterTimeout(m)
<1>1. own \in Priority BY DEF TypeOK, Available
<1>2. others \in Priority
  <2>1. CASE waiting[m] = <<>>
    BY <2>1, MutexAssumption DEF prvGetDisinheritPriorityAfterTimeout, Priority
  <2>2. CASE waiting[m] # <<>>
    <3>1. Head(waiting[m]) \in Task BY <2>2, RemoveHead DEF TypeOK, EventListOf
    <3>2. xItemValue[Head(waiting[m])] \in 1..MaxPriority BY <3>1 DEF TypeOK
    <3> QED BY <2>2, <3>2, MutexAssumption DEF prvGetDisinheritPriorityAfterTimeout,
                                         Priority
  <2> QED BY <2>1, <2>2
<1>3. PriorityToUse(m) \in {own, others}
  <2>1. own \in Nat /\ others \in Nat BY <1>1, <1>2, MutexAssumption DEF Priority
  <2>2. PriorityToUse(m) = CHOOSE x \in {own, others} : \A y \in {own, others} : x >= y
    BY DEF PriorityToUse, Max
  <2> HIDE DEF own, others
  <2>3. \E x \in {own, others} : \A y \in {own, others} : x >= y BY <2>1
  <2> QED BY <2>2, <2>3
<1> QED BY <1>1, <1>2, <1>3

LEMMA DisinheritAfterTimeOutStep ==
  ASSUME IInv, NEW t \in Task, DisinheritAfterTimeOut(t)
  PROVE  IInv'
<1> DEFINE m == call[t].mutex
           own == xMutexHolder[m] = t /\ LowersHolder(m)
<1>1. m \in Mutexes /\ call[t].at = "disinherit" /\ UNCHANGED mutexVars
  BY DEF DisinheritAfterTimeOut, At, IInv, TypeOK, Call
<1>2. CASE own /\ configASSERT_DEFINED
  <2>1. GoTo(t, "asserted") /\ UNCHANGED <<taskVars, mutexVars>>
    BY <1>1, <1>2 DEF DisinheritAfterTimeOut
  <2>2. /\ call' \in [Task -> Call] /\ call'[t].at = "asserted"
        /\ \A u \in Task \ {t} : call'[u] = call[u]
    BY <2>1, GoToCall DEF IInv, Where
  <2> QED BY <1>1, <2>1, <2>2, OnlyCallMoves DEF Awake
<1>3. CASE ~ (own /\ configASSERT_DEFINED)
  <2>1. /\ vTaskPriorityDisinheritAfterTimeout(m)
        /\ GoTo(t, "idle")
        /\ UNCHANGED <<uxBasePriority, uxMutexesHeld>>
        /\ overdue' \in {t, overdue}
    BY <1>3 DEF DisinheritAfterTimeOut
  <2>2. /\ call' \in [Task -> Call] /\ call'[t].at = "idle"
        /\ \A u \in Task \ {t} : call'[u] = call[u]
    BY <2>1, GoToCall DEF IInv, Where
  <2>3. /\ uxPriority' \in [Task -> Priority]
        /\ xItemValue' \in [Task -> 1..MaxPriority]
        /\ \A u \in Task : xMutexHolder[m] # u => uxPriority'[u] = uxPriority[u]
    <3> HIDE DEF m
    <3>2. CASE UNCHANGED <<uxPriority, xItemValue>> BY <3>2 DEF IInv, TypeOK
    <3>3. CASE /\ ~Available(m)
               /\ uxPriority' = [uxPriority EXCEPT ![xMutexHolder[m]] = PriorityToUse(m)]
               /\ xItemValue' = [xItemValue EXCEPT ![xMutexHolder[m]] =
                                   ValueOf(PriorityToUse(m))]
      <4>1. PriorityToUse(m) \in Priority BY <1>1, <3>3, PriorityToUseType DEF IInv
      <4>2. ValueOf(PriorityToUse(m)) \in 1..MaxPriority
        BY <4>1, MutexAssumption DEF ValueOf, Priority
      <4> QED BY <3>3, <4>1, <4>2 DEF IInv, TypeOK
    <3> QED
      BY <2>1, <3>2, <3>3, Zenon DEF vTaskPriorityDisinheritAfterTimeout, LowersHolder
  <2>4. TypeOK' BY <1>1, <2>1, <2>2, <2>3 DEF IInv, TypeOK, mutexVars
  <2>5. BooksBalance'
    BY <1>1, <2>1, <2>3 DEF IInv, BooksBalance, HeldCount, NothingLeftInherited, Held,
                            Available, mutexVars
  <2>6. RecursionRoom' BY <1>1, <2>2 DEF IInv, RecursionRoom, InCallOn, mutexVars
  <2>7. WaitersBlocked' BY <1>1, <2>2 DEF IInv, WaitersBlocked, Waiting, mutexVars
  <2>8. NoWaiterLeftBehind'
    BY <1>1, <2>2 DEF IInv, NoWaiterLeftBehind, Available, mutexVars
  <2> QED BY <2>4, <2>5, <2>6, <2>7, <2>8 DEF IInv
<1> QED BY <1>2, <1>3

\* Giving the last mutex back ends the inheritance.
LEMMA DisinheritEffect ==
  ASSUME TypeOK, NEW t \in Task, uxMutexesHeld[t] > 0, xTaskPriorityDisinherit(t)
  PROVE  /\ uxPriority' \in [Task -> Priority]
         /\ xItemValue' \in [Task -> 1..MaxPriority]
         /\ \A u \in Task \ {t} : uxPriority'[u] = uxPriority[u]
         /\ uxMutexesHeld[t] = 1 => uxPriority'[t] = uxBasePriority[t]
         /\ uxMutexesHeld' = [uxMutexesHeld EXCEPT ![t] = @ - 1]
<1>1. uxBasePriority[t] \in Priority /\ ValueOf(uxBasePriority[t]) \in 1..MaxPriority
  BY MutexAssumption DEF ValueOf, Priority, TypeOK
<1>2. uxMutexesHeld' = [uxMutexesHeld EXCEPT ![t] = @ - 1] BY DEF xTaskPriorityDisinherit
<1>3. CASE /\ uxPriority' = [uxPriority EXCEPT ![t] = uxBasePriority[t]]
           /\ xItemValue' = [xItemValue EXCEPT ![t] = ValueOf(uxBasePriority[t])]
  BY <1>1, <1>2, <1>3 DEF TypeOK
<1>4. CASE /\ UNCHANGED <<uxPriority, xItemValue>>
           /\ ~ (uxPriority[t] # uxBasePriority[t] /\ uxMutexesHeld[t] = 1)
  BY <1>2, <1>4 DEF TypeOK
<1> QED BY <1>3, <1>4 DEF xTaskPriorityDisinherit

LEMMA GiveStep ==
  ASSUME IInv, NEW t \in Task, NEW m \in Mutexes, Give(t, m)
  PROVE  IInv'
<1>1. /\ call[t].at = "idle" /\ xMutexHolder[m] = t /\ t # "NULL"
      /\ xMutexHolder' = [xMutexHolder EXCEPT ![m] = "NULL"]
      /\ uxRecursiveCallCount' = [uxRecursiveCallCount EXCEPT ![m] = 0]
      /\ UNCHANGED <<uxBasePriority, overdue>>
  BY MutexAssumption DEF Give, At, Held
<1>2. /\ xMutexHolder' \in [Mutexes -> Task \cup {"NULL"}]
      /\ uxRecursiveCallCount' \in [Mutexes -> 0..RecursionBound]
      /\ \A x \in Mutexes \ {m} : /\ xMutexHolder'[x] = xMutexHolder[x]
                                  /\ uxRecursiveCallCount'[x] = uxRecursiveCallCount[x]
      /\ xMutexHolder'[m] = "NULL" /\ uxRecursiveCallCount'[m] = 0
  BY <1>1, MutexAssumption DEF IInv, TypeOK
<1>3. /\ Held(t)' = Held(t) \ {m} /\ m \in Held(t)
      /\ \A u \in Task \ {t} : Held(u)' = Held(u)
  <2>1. m \in Held(t) /\ \A u \in Task \ {t} : m \notin Held(u) BY <1>1 DEF Held
  <2>2. \A u \in Task : Held(u)' = Held(u) \ {m} BY <1>1, <1>2, MutexAssumption DEF Held
  <2> QED BY <2>1, <2>2
<1>4. /\ Cardinality(Held(t)') = uxMutexesHeld[t] - 1
      /\ uxMutexesHeld[t] \in 1..Cardinality(Mutexes)
      /\ Cardinality(Held(t)') = 0 => Held(t)' = {}
  <2>1. /\ uxMutexesHeld[t] = Cardinality(Held(t)) /\ IsFiniteSet(Held(t))
        /\ Cardinality(Held(t)) \in 0..Cardinality(Mutexes)
    BY HeldBound DEF IInv, BooksBalance, HeldCount
  <2>2. /\ Cardinality(Held(t)') = Cardinality(Held(t)) - 1
        /\ IsFiniteSet(Held(t)')
    BY <1>3, <2>1, FS_RemoveElement
  <2>3. Cardinality(Held(t)) # 0 BY <1>3, <2>1, FS_EmptySet
  <2> QED BY <2>1, <2>2, <2>3, FS_EmptySet, HeldBound
<1>5. /\ uxPriority' \in [Task -> Priority]
      /\ xItemValue' \in [Task -> 1..MaxPriority]
      /\ \A u \in Task \ {t} : uxPriority'[u] = uxPriority[u]
      /\ uxMutexesHeld[t] = 1 => uxPriority'[t] = uxBasePriority[t]
      /\ uxMutexesHeld' = [uxMutexesHeld EXCEPT ![t] = @ - 1]
  <2>1. uxMutexesHeld[t] > 0 BY <1>4
  <2> QED BY <2>1, DisinheritEffect DEF Give, IInv
\* The head of the event list is told, if there is one.
<1>6. /\ call' \in [Task -> Call]
      /\ waiting' \in [Mutexes -> Seq(Task)]
      /\ \A x \in Mutexes : IsInjective(waiting'[x])
      /\ \A x \in Mutexes \ {m} : waiting'[x] = waiting[x]
      /\ \/ waiting'[m] = <<>> /\ waiting' = waiting /\ call' = call
         \/ \E head \in Task :
              /\ head \in Range(waiting[m])
              /\ Range(waiting'[m]) = Range(waiting[m]) \ {head}
              /\ call'[head].at = "try" /\ call'[head].mutex = m
              /\ \A u \in Task \ {head} : call'[u] = call[u]
  <2>1. CASE waiting[m] = <<>> BY <2>1 DEF Give, IInv, TypeOK
  <2>2. CASE waiting[m] # <<>>
    <3> DEFINE head == Head(waiting[m])
    <3>1. /\ EventListOf(Tail(waiting[m])) /\ head \in Range(waiting[m]) /\ head \in Task
          /\ Range(Tail(waiting[m])) = Range(waiting[m]) \ {head}
      BY <2>2, RemoveHead DEF EventListOf, IInv, TypeOK
    <3>2. waiting' = [waiting EXCEPT ![m] = Tail(@)] /\ GoTo(head, "try") BY <2>2 DEF Give
    <3>3. call[head].mutex = m BY <3>1 DEF IInv, WaitersBlocked, Waiting
    <3> HIDE DEF head
    <3>4. /\ call' \in [Task -> Call] /\ call'[head].at = "try"
          /\ call'[head].mutex = m
          /\ \A u \in Task \ {head} : call'[u] = call[u]
      BY <3>1, <3>2, <3>3, GoToCall DEF IInv, Where
    <3>5. /\ waiting' \in [Mutexes -> Seq(Task)] /\ waiting'[m] = Tail(waiting[m])
          /\ \A x \in Mutexes \ {m} : waiting'[x] = waiting[x]
      BY <3>1, <3>2 DEF IInv, TypeOK, EventListOf
    <3>6. \A x \in Mutexes : IsInjective(waiting'[x])
      BY <3>1, <3>5 DEF IInv, TypeOK, EventListOf
    <3> QED BY <3>1, <3>4, <3>5, <3>6
  <2> QED BY <2>1, <2>2
<1>7. TypeOK'
  <2>1. uxMutexesHeld' \in [Task -> 0..Cardinality(Mutexes)]
    <3>1. uxMutexesHeld[t] - 1 \in 0..Cardinality(Mutexes) BY <1>4, HeldBound
    <3> QED BY <1>5, <3>1 DEF IInv, TypeOK
  <2> QED BY <1>1, <1>2, <1>5, <1>6, <2>1 DEF IInv, TypeOK
<1>8. BooksBalance'
  <2>1. \A u \in Task : uxMutexesHeld'[u] = Cardinality(Held(u)')
    BY <1>3, <1>4, <1>5 DEF IInv, TypeOK, BooksBalance, HeldCount
  <2>2. \A x \in Recursive : uxRecursiveCallCount'[x] > 0 <=> xMutexHolder'[x] # "NULL"
    BY <1>1, <1>2, MutexAssumption DEF IInv, TypeOK, BooksBalance, HeldCount,
                                       Available
  <2>3. \A u \in Task : Held(u)' = {} => uxPriority'[u] = uxBasePriority'[u]
    <3>1. Held(t)' = {} => uxMutexesHeld[t] = 1 BY <1>4, FS_EmptySet
    <3> QED BY <1>1, <1>3, <1>5, <3>1 DEF IInv, BooksBalance, NothingLeftInherited
  <2> QED BY <2>1, <2>2, <2>3 DEF BooksBalance, HeldCount, NothingLeftInherited, Available
<1>9. RecursionRoom'
  <2> SUFFICES ASSUME NEW u \in Task, NEW x \in Recursive, InCallOn(u, x)',
                      xMutexHolder'[x] = u
               PROVE  call'[u].at = "try" /\ uxRecursiveCallCount'[x] < RecursionBound
    BY DEF RecursionRoom
  <2>1. /\ x # m /\ x \in Mutexes /\ xMutexHolder[x] = u
        /\ uxRecursiveCallCount'[x] = uxRecursiveCallCount[x]
    BY <1>2, MutexAssumption
  <2>2. call'[u] = call[u] BY <1>6, <2>1 DEF InCallOn
  <2> QED BY <2>1, <2>2 DEF IInv, RecursionRoom, InCallOn
<1>10. WaitersBlocked'
  <2> SUFFICES ASSUME NEW x \in Mutexes, NEW u \in Task, u \in Range(waiting'[x])
               PROVE  call'[u].at = "blocked" /\ call'[u].mutex = x
    BY DEF WaitersBlocked, Waiting
  <2>1. u \in Range(waiting[x]) /\ call[u].at = "blocked" /\ call[u].mutex = x
    BY <1>6 DEF IInv, WaitersBlocked, Waiting
  <2>2. call'[u] = call[u]
    <3>1. CASE x = m BY <1>6, <3>1
    <3>2. CASE x # m BY <1>6, <2>1, <3>2 DEF IInv, WaitersBlocked, Waiting
    <3> QED BY <3>1, <3>2
  <2> QED BY <2>1, <2>2
<1>11. NoWaiterLeftBehind'
  <2> SUFFICES ASSUME NEW x \in Mutexes, xMutexHolder'[x] = "NULL", waiting'[x] # <<>>
               PROVE  \E u \in Task : call'[u].mutex = x /\ call'[u].at \in Awake
    BY DEF NoWaiterLeftBehind, Available, Awake
  <2>1. CASE x = m BY <1>6, <2>1 DEF Awake
  <2>2. CASE x # m
    <3>1. PICK u \in Task : call[u].mutex = x /\ call[u].at \in Awake
      <4>1. xMutexHolder[x] = "NULL" /\ waiting[x] # <<>> BY <1>2, <1>6, <2>2
      <4> QED BY <4>1 DEF IInv, NoWaiterLeftBehind, Available, Awake
    <3>2. call'[u] = call[u] BY <1>6, <3>1 DEF IInv, WaitersBlocked, Waiting, Awake
    <3> QED BY <3>1, <3>2
  <2> QED BY <2>1, <2>2
<1> QED BY <1>7, <1>8, <1>9, <1>10, <1>11 DEF IInv

--------------------

LEMMA InitIInv == Init => IInv
<1> SUFFICES ASSUME Init PROVE IInv OBVIOUS
<1>1. \A t \in Task : call[t] = NoCall /\ call[t].at = "idle" BY NoCallType DEF Init
<1>2. \A t \in Task : Held(t) = {} BY MutexAssumption DEF Init, Held
<1>3. TypeOK
  <2>1. \A p \in Priority : ValueOf(p) \in 1..MaxPriority
    BY MutexAssumption DEF ValueOf, Priority
  <2>2. TaskPriority \in [Task -> Priority] BY MutexAssumption DEF Priority
  <2>3. 0 \in 0..Cardinality(Mutexes) /\ 0 \in 0..RecursionBound
    BY HeldBound, MutexAssumption
  <2>4. \A m \in Mutexes : waiting[m] \in Seq(Task) /\ IsInjective(waiting[m])
    BY DEF Init, IsInjective
  <2>5. waiting \in [Mutexes -> Seq(Task)] /\ \A m \in Mutexes : IsInjective(waiting[m])
    BY <2>4 DEF Init
  <2>6. call \in [Task -> Call] BY NoCallType DEF Init
  <2> QED BY <2>1, <2>2, <2>3, <2>5, <2>6 DEF Init, TypeOK
<1>4. BooksBalance
  <2>1. \A t \in Task : uxMutexesHeld[t] = Cardinality(Held(t))
    BY <1>2, FS_EmptySet DEF Init
  <2> QED BY <2>1, MutexAssumption DEF Init, BooksBalance, HeldCount,
                                 NothingLeftInherited,
       Available
<1>5. RecursionRoom BY <1>1 DEF RecursionRoom, InCallOn
<1>6. WaitersBlocked BY DEF Init, WaitersBlocked, Waiting, Range
<1>7. NoWaiterLeftBehind BY DEF Init, NoWaiterLeftBehind
<1> QED BY <1>3, <1>4, <1>5, <1>6, <1>7 DEF IInv

LEMMA NextIInv == IInv /\ [Next]_vars => IInv'
<1> SUFFICES ASSUME IInv, [Next]_vars PROVE IInv' OBVIOUS
<1>1. CASE Next
  <2>1. CASE SwitchContext BY <2>1, SwitchContextStep
  <2> SUFFICES ASSUME ~ SwitchContext PROVE IInv' BY <2>1
  <2>2. PICK t \in Task :
          \/ \E m \in Mutexes, wait \in Waits : Invoke(t, m, wait)
          \/ \E u \in Task, p \in NewPriority : vTaskPrioritySet(t, u, p)
          \/ InCall(t) \/ Giving(t) \/ Sleep(t) \/ WakeUp(t) \/ Expire(t)
    BY <1>1 DEF Next
  <2>3. CASE InCall(t)
    BY <2>3, TakeStep, TakeAgainStep, TryToWaitStep, BlockStep, DoNotBlockStep,
       RecheckAfterTimeOutStep, DisinheritAfterTimeOutStep DEF InCall
  <2>4. CASE Giving(t) BY <2>4, GiveInnerStep, GiveStep DEF Giving
  <2> QED BY <2>2, <2>3, <2>4, InvokeStep, PrioritySetStep, SleepStep, ExpireStep
<1>2. CASE UNCHANGED vars
  BY <1>2 DEF vars, taskVars, mutexVars, IInv, TypeOK, BooksBalance, HeldCount,
     NothingLeftInherited, Held, Available, RecursionRoom, InCallOn, WaitersBlocked,
     Waiting, NoWaiterLeftBehind
<1> QED BY <1>1, <1>2

LEMMA Invariance == Spec => []IInv
  BY InitIInv, NextIInv, PTL DEF Spec

\* Whatever is taken, given, waited for and reprioritised, every field keeps its
\* type: event lists without duplicates, counts within their bounds.
THEOREM TypeCorrect == Spec => []TypeOK
  BY Invariance, PTL DEF IInv

\* uxMutexesHeld counts the mutexes held, a recursive mutex is counted while it is
\* held, and a task without mutexes has its own priority (queue.c:1623,
\* tasks.c:4040-4270).
THEOREM BooksStayBalanced == Spec => []BooksBalance
  BY Invariance, PTL DEF IInv

\* A mutex that was given back is never left available to sleeping waiters
\* (queue.c:1455-1637).
THEOREM WaitersAreTold == Spec => []NoWaiterLeftBehind
  BY Invariance, PTL DEF IInv
=============================================================================
