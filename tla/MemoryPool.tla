----------------------------- MODULE MemoryPool -----------------------------
(* osMemoryPool of cmsis_os2.c: a counting semaphore tells how many blocks    *)
(* may be had, a list of free blocks and an index of those never yet given    *)
(* out tell which.  The semaphore is what Queue is shown to be: a token is    *)
(* given to the pool and one waiting task woken in one step.                  *)
EXTENDS Naturals, FiniteSets, Sequences

CONSTANTS Task,
          BlockCount,  \* block_count of osMemoryPoolNew
          Waits        \* timeouts: subset of {"none", "finite", "forever"}

\* The timeouts are those of cmsis_os2.h; tasks are finitely many.
PoolFits == /\ IsFiniteSet(Task) /\ BlockCount \in Nat
            /\ Waits \subseteq {"none", "finite", "forever"}

Block == 1..BlockCount
NoBlock == 0

VARIABLES status,    \* MPOOL_STATUS is set: "valid"; before: "none", after: "deleted"
          onHeap,    \* bits 0 and 1 of status: what osMemoryPoolNew allocated
          head,      \* the free blocks, the one freed last first
          n,         \* blocks given out at least once
          bl_cnt,
          sem,       \* tokens
          used,      \* the blocks the application has
          call       \* per task, the call it is in

vars == <<status, onHeap, head, n, bl_cnt, sem, used, call>>

Memory == {"cb", "mem"}
NoCall == [at |-> "idle", wait |-> "none", block |-> NoBlock]

TypeOK ==
  /\ status \in {"none", "valid", "deleted"}
  /\ onHeap \subseteq Memory
  /\ head \in Seq(Block) /\ n \in 0..BlockCount /\ bl_cnt \in 0..BlockCount
  /\ sem \in 0..BlockCount
  /\ used \subseteq Block
  /\ call \in [Task -> [at : {"idle", "take", "asleep", "woken", "taken",
                               "checked", "count", "push", "give"},
                         wait : {"none", "finite", "forever"},
                         block : Block \cup {NoBlock}]]

Init ==
  /\ status = "none" /\ onHeap = {}
  /\ head = <<>> /\ n = 0 /\ bl_cnt = 0 /\ sem = 0
  /\ used = {} /\ call = [t \in Task |-> NoCall]

At(t, place) == call[t].at = place
Goes(t, place) == call' = [call EXCEPT ![t].at = place]
Returns(t) == call' = [call EXCEPT ![t] = NoCall]

pool == <<status, onHeap, head, n, bl_cnt>>

\* Without cb_mem or mp_mem the heap gives the memory, or has none left; what
\* it gave is returned when the pool cannot be created.
osMemoryPoolNew(heap) ==
  /\ status = "none"
  /\ \/ /\ status' = "valid" /\ onHeap' = heap
        /\ head' = <<>> /\ n' = 0 /\ bl_cnt' = BlockCount /\ sem' = BlockCount
     \/ heap # {} /\ UNCHANGED <<pool, sem>>
  /\ UNCHANGED <<used, call>>

(* osMemoryPoolAlloc of a task. *)

\* Without a pool, or of a deleted one, the result is NULL.
osMemoryPoolAlloc(t, wait) ==
  /\ At(t, "idle")
  /\ IF status = "valid"
       THEN call' = [call EXCEPT ![t] = [NoCall EXCEPT !.at = "take", !.wait = wait]]
       ELSE Returns(t)
  /\ UNCHANGED <<pool, sem, used>>

\* xSemaphoreTake: a task that was woken looks again.
xSemaphoreTake(t) ==
  /\ At(t, "take") \/ At(t, "woken")
  /\ IF sem > 0
       THEN sem' = sem - 1 /\ Goes(t, "taken")
       ELSE /\ UNCHANGED sem
            /\ IF call[t].wait = "none" THEN Returns(t) ELSE Goes(t, "asleep")
  /\ UNCHANGED <<pool, used>>

\* The time is over: one more look, without waiting.
TimeOut(t) ==
  /\ \E place \in {"asleep", "woken"} : At(t, place)
  /\ call[t].wait = "finite"
  /\ call' = [call EXCEPT ![t].at = "woken", ![t].wait = "none"]
  /\ UNCHANGED <<pool, sem, used>>

\* The pool may be gone by now.
CheckStatus(t) ==
  /\ At(t, "taken")
  /\ IF status = "valid" THEN Goes(t, "checked") ELSE Returns(t)
  /\ UNCHANGED <<pool, sem, used>>

\* AllocBlock, and if that finds none CreateBlock.  The result is the block, or
\* NoBlock for NULL.
TakeBlock(b) ==
  \/ /\ head # <<>> /\ b = Head(head)
     /\ head' = Tail(head) /\ UNCHANGED n
  \/ /\ head = <<>> /\ n < bl_cnt /\ b = n + 1
     /\ n' = n + 1 /\ UNCHANGED head
  \/ /\ head = <<>> /\ n >= bl_cnt /\ b = NoBlock
     /\ UNCHANGED <<head, n>>

AllocBlock(t) ==
  /\ At(t, "checked")
  /\ \E b \in Block \cup {NoBlock} : TakeBlock(b) /\ used' = used \cup ({b} \ {NoBlock})
  /\ Returns(t)
  /\ UNCHANGED <<status, onHeap, bl_cnt, sem>>

(* osMemoryPoolFree of a task: of a block that the application has. *)

osMemoryPoolFree(t, b) ==
  /\ At(t, "idle") /\ status = "valid" /\ b \in used
  /\ call' = [call EXCEPT ![t] = [NoCall EXCEPT !.at = "count", !.block = b]]
  /\ used' = used \ {b}
  /\ UNCHANGED <<pool, sem>>

\* Nothing is free to be given back: osErrorResource.
CheckCount(t) ==
  /\ At(t, "count")
  /\ IF sem = bl_cnt THEN Returns(t) ELSE Goes(t, "push")
  /\ UNCHANGED <<pool, sem, used>>

\* Mutant: the block does not keep where the list goes on.
FreeBlockUnlinked(t) ==
  /\ At(t, "push")
  /\ head' = <<call[t].block>>
  /\ call' = [call EXCEPT ![t].at = "give", ![t].block = NoBlock]
  /\ UNCHANGED <<status, onHeap, n, bl_cnt, sem, used>>

FreeBlock(t) ==
  /\ At(t, "push")
  /\ head' = <<call[t].block>> \o head
  /\ call' = [call EXCEPT ![t].at = "give", ![t].block = NoBlock]
  /\ UNCHANGED <<status, onHeap, n, bl_cnt, sem, used>>

\* A token more, unless there are BlockCount, and one of those that wait wakes.
Gives(newCall) ==
  IF sem = BlockCount
    THEN UNCHANGED sem /\ call' = newCall
    ELSE /\ sem' = sem + 1
         /\ \/ \E w \in Task : /\ newCall[w].at = "asleep"
                               /\ call' = [newCall EXCEPT ![w].at = "woken"]
            \/ /\ \A w \in Task : newCall[w].at # "asleep"
               /\ call' = newCall

xSemaphoreGive(t) ==
  /\ At(t, "give")
  /\ Gives([call EXCEPT ![t] = NoCall])
  /\ UNCHANGED <<pool, used>>

(* The same from an interrupt, which runs to its end. *)

AllocFromISR ==
  /\ status = "valid" /\ sem > 0 /\ sem' = sem - 1
  /\ \E b \in Block \cup {NoBlock} : TakeBlock(b) /\ used' = used \cup ({b} \ {NoBlock})
  /\ UNCHANGED <<status, onHeap, bl_cnt, call>>

FreeFromISR(b) ==
  /\ status = "valid" /\ b \in used
  /\ used' = used \ {b}
  /\ IF sem = bl_cnt
       THEN UNCHANGED <<head, sem, call>>
       ELSE head' = <<b>> \o head /\ Gives(call)
  /\ UNCHANGED <<status, onHeap, n, bl_cnt>>

\* All tokens are given back, and with each of them a waiting task wakes.  The
\* application deletes a pool on the heap when nobody is in a call.
osMemoryPoolDelete ==
  /\ status = "valid"
  /\ onHeap # {} => \A t \in Task : At(t, "idle")
  /\ status' = "deleted" /\ sem' = BlockCount
  /\ \E W \in SUBSET {t \in Task : At(t, "asleep")} :
       /\ \/ W = {t \in Task : At(t, "asleep")} /\ Cardinality(W) <= BlockCount - sem
          \/ Cardinality(W) = BlockCount - sem
       /\ call' = [t \in Task |-> IF t \in W THEN [call[t] EXCEPT !.at = "woken"]
                                             ELSE call[t]]
  /\ head' = <<>> /\ bl_cnt' = 0
  /\ UNCHANGED <<onHeap, n, used>>

Next ==
  \/ \E heap \in SUBSET Memory : osMemoryPoolNew(heap)
  \/ \E t \in Task :
       \/ \E w \in Waits : osMemoryPoolAlloc(t, w)
       \/ xSemaphoreTake(t) \/ TimeOut(t) \/ CheckStatus(t) \/ AllocBlock(t)
       \/ \E b \in used : osMemoryPoolFree(t, b)
       \/ CheckCount(t) \/ FreeBlock(t) \/ xSemaphoreGive(t)
  \/ AllocFromISR \/ \E b \in used : FreeFromISR(b)
  \/ osMemoryPoolDelete

Spec == Init /\ [][Next]_vars

--------------------

In(places) == {t \in Task : call[t].at \in places}
Free == {head[i] : i \in DOMAIN head}
Pending == {call[t].block : t \in Task} \ {NoBlock}

\* A block has one place: with the application, on its way back, on the list of
\* free blocks (once), or not yet created.
BlocksApart ==
  /\ \A i, j \in DOMAIN head : head[i] = head[j] => i = j
  /\ \A s, t \in Task : call[s].block = call[t].block /\ s # t => call[s].block = NoBlock
  /\ used \cap Free = {} /\ used \cap Pending = {} /\ Free \cap Pending = {}
  /\ \A b \in used \cup Free \cup Pending : b <= n

\* No block is lost.
NoneLost ==
  status = "valid" => used \cup Free \cup Pending = 1..n

\* Every token, in the semaphore or taken from it, has its block: who gets a token
\* gets a block, and no block is refused when it is given back.
TokenForBlock ==
  status = "valid" =>
    sem + Cardinality(In({"taken", "checked", "give"}))
      = Cardinality(Free) + (BlockCount - n)

\* Who sleeps while there are tokens is not alone: others were woken for them.
NoWaiterLeftBehind ==
  status = "valid" /\ In({"asleep"}) # {} => sem <= Cardinality(In({"woken"}))

\* osMemoryPoolAlloc and osMemoryPoolFree, from tasks and interrupts, whatever the
\* order of their steps (cmsis_os2.c:2097, 2162).
PoolAccounted ==
  BlocksApart /\ NoneLost /\ TokenForBlock /\ NoWaiterLeftBehind
=============================================================================
