------------------------------ MODULE MailQueue ------------------------------
(* The mail queue of cmsis_os1.c: a memory pool whose blocks are passed on      *)
(* through a message queue with as many places.  A call of cmsis_os2.c is one   *)
(* step, as MemoryPool and CmsisObjects show it to be.                          *)
EXTENDS Naturals, FiniteSets, Sequences

CONSTANTS Task, Block

VARIABLES mp_id, mq_id,   \* whether there is a pool, and for how many mails a queue
          creating,       \* how far osMailCreate is
          free, mails,    \* the blocks in the pool, and in the queue
          holder,         \* of a block that is allocated or received
          wait            \* per task, the call it is blocked in

vars == <<mp_id, mq_id, creating, free, mails, holder, wait>>

Handler == "handler"
Context == Task \cup {Handler}
Nobody == "nobody"
queue_sz == Cardinality(Block)
Made == creating = "done"

\* What the proof needs of the constants.
MailFits == IsFiniteSet(Block) /\ Nobody \notin Task

TypeOK ==
  /\ mp_id \in BOOLEAN /\ mq_id \in 0..queue_sz
  /\ creating \in {"no", "pool", "queue", "done"}
  /\ free \subseteq Block /\ mails \in Seq(Block)
  /\ holder \in [Block -> Context \cup {Nobody}]
  /\ wait \in [Task -> {"none", "alloc", "get"} \X BOOLEAN]

Awake == <<"none", FALSE>>

Init ==
  /\ mp_id = FALSE /\ mq_id = 0 /\ creating = "no"
  /\ free = {} /\ mails = <<>>
  /\ holder = [b \in Block |-> Nobody] /\ wait = [t \in Task |-> Awake]

--------------------
(* osMailCreate, in which either allocation may fail.                         *)

blocks == <<free, mails, holder, wait>>

NewPool ==
  /\ creating = "no" /\ creating' = "pool"
  /\ \/ mp_id' = TRUE /\ free' = Block
     \/ UNCHANGED <<mp_id, free>>
  /\ UNCHANGED <<mq_id, mails, holder, wait>>

\* Mutant: a place less than there are blocks.
NewShortQueue ==
  /\ creating = "pool" /\ creating' = "queue"
  /\ mq_id' \in {0, queue_sz - 1}
  /\ UNCHANGED <<mp_id, blocks>>

NewQueue ==
  /\ creating = "pool" /\ creating' = "queue"
  /\ mq_id' \in {0, queue_sz}
  /\ UNCHANGED <<mp_id, blocks>>

\* Mutant: the pool stays when there is no queue.
KeepPool ==
  /\ creating = "queue"
  /\ IF mp_id /\ mq_id > 0 THEN creating' = "done" /\ UNCHANGED <<mp_id, mq_id, free>>
     ELSE creating' = "no" /\ mq_id' = 0 /\ UNCHANGED <<mp_id, free>>
  /\ UNCHANGED <<mails, holder, wait>>

\* What there is of it is deleted when the other is not.
CreateReturns ==
  /\ creating = "queue"
  /\ IF mp_id /\ mq_id > 0 THEN creating' = "done" /\ UNCHANGED <<mp_id, mq_id, free>>
     ELSE creating' = "no" /\ mp_id' = FALSE /\ mq_id' = 0 /\ free' = {}
  /\ UNCHANGED <<mails, holder, wait>>

--------------------

Calls(c) == Made /\ c \notin {t \in Task : wait[t] # Awake}
Blocks(t, in) ==
  /\ \E timeout \in BOOLEAN : wait' = [wait EXCEPT ![t] = <<in, timeout>>]
  /\ UNCHANGED <<free, mails, holder>>

Allocated(c) ==
  \E b \in free : free' = free \ {b} /\ holder' = [holder EXCEPT ![b] = c]

\* osMailAlloc and osMailCAlloc, also from a handler, which does not wait:
\* with no block NULL is returned.
osMailAlloc(c) ==
  /\ Calls(c)
  /\ \/ Allocated(c) /\ UNCHANGED <<mails, wait>>
     \/ free = {} /\ c # Handler /\ Blocks(c, "alloc")
     \/ free = {} /\ UNCHANGED blocks
  /\ UNCHANGED <<mp_id, mq_id, creating>>

\* Only a block that was allocated or received is passed on.
osMailPut(c, b) ==
  /\ Calls(c) /\ holder[b] = c
  /\ IF Len(mails) < mq_id
       THEN mails' = Append(mails, b) /\ holder' = [holder EXCEPT ![b] = Nobody]
       ELSE UNCHANGED <<mails, holder>>
  /\ UNCHANGED <<mp_id, mq_id, creating, free, wait>>

Received(c) ==
  mails # <<>> /\ mails' = Tail(mails) /\ holder' = [holder EXCEPT ![Head(mails)] = c]

osMailGet(c) ==
  /\ Calls(c)
  /\ \/ Received(c) /\ UNCHANGED <<free, wait>>
     \/ mails = <<>> /\ c # Handler /\ Blocks(c, "get")
     \/ mails = <<>> /\ UNCHANGED blocks
  /\ UNCHANGED <<mp_id, mq_id, creating>>

osMailFree(c, b) ==
  /\ Calls(c) /\ holder[b] = c
  /\ free' = free \cup {b} /\ holder' = [holder EXCEPT ![b] = Nobody]
  /\ UNCHANGED <<mp_id, mq_id, creating, mails, wait>>

\* A block or a mail that came is taken also when the time is over.
WaitServed(t) ==
  /\ \/ wait[t][1] = "alloc" /\ Allocated(t) /\ UNCHANGED mails
     \/ wait[t][1] = "get" /\ Received(t) /\ UNCHANGED free
  /\ wait' = [wait EXCEPT ![t] = Awake]
  /\ UNCHANGED <<mp_id, mq_id, creating>>

WaitTimesOut(t) ==
  /\ wait[t][2]
  /\ (wait[t][1] = "alloc" /\ free = {}) \/ (wait[t][1] = "get" /\ mails = <<>>)
  /\ wait' = [wait EXCEPT ![t] = Awake]
  /\ UNCHANGED <<mp_id, mq_id, creating, free, mails, holder>>

Next ==
  \/ NewPool \/ NewQueue \/ CreateReturns
  \/ \E c \in Context : \/ osMailAlloc(c) \/ osMailGet(c)
                        \/ \E b \in Block : osMailPut(c, b) \/ osMailFree(c, b)
  \/ \E t \in Task : WaitServed(t) \/ WaitTimesOut(t)

Spec == Init /\ [][Next]_vars

--------------------

\* Every block is in one place, in the pool, in the queue or with whom it was
\* given to, whoever waited or gave up; who has one can always put it, so that
\* osMailPut, which does not wait, is not refused: cmsis_os1.c:269-270, 314-324.
\* A creation that fails leaves nothing: cmsis_os1.c:271-279.
MailsAccounted ==
  /\ creating = "no" => ~mp_id /\ mq_id = 0
  /\ Made => \A b \in Block :
       Cardinality({i \in DOMAIN mails : mails[i] = b})
         = IF b \in free \/ holder[b] # Nobody THEN 0 ELSE 1
  /\ \A b \in free : holder[b] = Nobody
  /\ Made /\ (\E b \in Block : holder[b] # Nobody) => Len(mails) < mq_id
=============================================================================
