---------------------------- MODULE CmsisObjects ----------------------------
(* The objects of cmsis_os2.c: semaphores, mutexes, message queues, event     *)
(* flags and timers, one at a time.  A kernel call is one step, as Queue and  *)
(* EventGroup show it to be; here is what the functions around it decide: who *)
(* may call them, what memory an object has, and what they return.            *)
EXTENDS Naturals, FiniteSets, Sequences

CONSTANTS Thread,
          MaxCounts,    \* max_count of osSemaphoreNew
          Message,
          Length,       \* msg_count of osMessageQueueNew
          Flag,
          CommandBound  \* room in the queue of the timer daemon

VARIABLES obj,     \* the object there is; the rest of the memory of a handle
          heap,    \* what the kernel's heap gave and did not get back
          wait,    \* per thread, the call it is blocked in
          pended,  \* commands for the timer daemon
          answer   \* what the last call returned

vars == <<obj, heap, wait, pended, answer>>

\* A handler, and a thread while it masks interrupts, once the kernel runs: IS_IRQ.
Interrupt == "interrupt"
Caller == Thread \cup {Interrupt}

ObjectsFit == Interrupt \notin Thread
Timeout == {"none", "finite", "forever"}
Nobody == "nobody"

NoObject == [kind |-> "none", onHeap |-> FALSE]
NoWait == [call |-> "none"]
NoAnswer == NoWait
Called == {"osSemaphoreAcquire", "osMutexAcquire", "osMessageQueuePut",
           "osMessageQueueGet", "osEventFlagsWait"}
Status == {"osOK", "osErrorISR", "osErrorParameter", "osErrorResource",
           "osErrorTimeout", "osError"}

Kind == {"semaphore", "mutex", "queue", "flags", "timer"}

TypeOK ==
  /\ obj.kind \in Kind \cup {"none"} /\ obj.onHeap \in BOOLEAN
  /\ heap \subseteq {"object", "callb"}
  /\ DOMAIN wait = Thread /\ \A t \in Thread : wait[t].call \in Called \cup {"none"}
  /\ pended \in Seq([do : {"set", "clear", "start", "stop", "delete"},
                     flags : SUBSET Flag])
  /\ answer \in [isr : BOOLEAN, timeout : Timeout, status : Status]
                \cup {NoAnswer}

Init ==
  /\ obj = NoObject /\ heap = {} /\ pended = <<>>
  /\ wait = [t \in Thread |-> NoWait] /\ answer = NoAnswer

Free(c) == c \notin {t \in Thread : wait[t] # NoWait}
Returns(c, timeout, status) ==
  answer' = [isr |-> c = Interrupt, timeout |-> timeout, status |-> status]

--------------------
(* What the functions check.  A handle is NULL or that of the object.         *)

\* ISR: not for interrupts at all.  Then the handle.
Refusal(c, valid) ==
  CASE c = Interrupt -> "osErrorISR" [] c # Interrupt /\ ~valid -> "osErrorParameter"
    [] OTHER -> "osOK"

\* For interrupts too, as long as they do not want to wait.
RefusalOfWait(c, valid, timeout) ==
  IF ~valid \/ (c = Interrupt /\ timeout # "none") THEN "osErrorParameter" ELSE "osOK"

Refused(c, timeout, status) ==
  /\ Free(c) /\ status # "osOK"
  /\ Returns(c, timeout, status)
  /\ UNCHANGED <<obj, heap, wait, pended>>

\* What pdFAIL of a kernel call becomes.
Failure(timeout) == IF timeout # "none" THEN "osErrorTimeout" ELSE "osErrorResource"

\* With cb_mem large enough, without, or with memory that does not do: mem is
\* 1, 0 or -1.  The heap may be exhausted.
Memory == {"static", "dynamic", "unusable"}

New(memory, new) ==
  /\ obj = NoObject
  /\ \/ /\ memory # "unusable"
        /\ obj' = [new EXCEPT !.onHeap = memory = "dynamic"]
        /\ heap' = IF memory = "dynamic" THEN heap \cup {"object"} ELSE heap
     \/ /\ memory # "static"
        /\ UNCHANGED <<obj, heap>>
  /\ \E t \in Thread : /\ Free(t)
                       /\ Returns(t, "none",
                                  IF obj' = NoObject THEN "osError" ELSE "osOK")
  /\ UNCHANGED <<wait, pended>>

\* A queue is deleted when no task waits for it, which is up to the application;
\* its memory goes back to where it came from.
vQueueDelete ==
  /\ \A t \in Thread : wait[t] = NoWait
  /\ obj' = NoObject /\ heap' = heap \ {"object"}
  /\ UNCHANGED wait

\* Event flags wake all who wait for them, with no flags.
vEventGroupDelete ==
  /\ obj' = NoObject /\ heap' = heap \ {"object"}
  /\ wait' = [t \in Thread |-> IF wait[t] = NoWait THEN NoWait
                               ELSE [wait[t] EXCEPT !.served = TRUE, !.bits = {}]]

Delete(c, kind, valid) ==
  /\ obj.kind = kind
  /\ \/ Refused(c, "none", Refusal(c, valid))
     \/ /\ Free(c) /\ Refusal(c, valid) = "osOK"
        /\ pended = <<>>
        /\ IF kind = "flags" THEN vEventGroupDelete ELSE vQueueDelete
        /\ Returns(c, "none", "osOK") /\ UNCHANGED pended

--------------------
(* Semaphores, mutexes and message queues.                                    *)

Ready(c, call) ==
  CASE call = "osSemaphoreAcquire" -> obj.count > 0
    [] call = "osMutexAcquire" -> obj.holder = Nobody \/ (obj.recursive /\ obj.holder = c)
    [] call = "osMessageQueuePut" -> Len(obj.messages) < Length
    [] call = "osMessageQueueGet" -> obj.messages # <<>>

Done(c, call, message) ==
  CASE call = "osSemaphoreAcquire" -> [obj EXCEPT !.count = @ - 1]
    [] call = "osMutexAcquire" -> [obj EXCEPT !.holder = c, !.depth = @ + 1]
    [] call = "osMessageQueuePut" -> [obj EXCEPT !.messages = Append(@, message)]
    [] call = "osMessageQueueGet" -> [obj EXCEPT !.messages = Tail(@)]

\* The kernel call in it: it is done, it fails at once, or the thread blocks.
Tries(c, call, timeout, message) ==
  /\ Free(c)
  /\ \/ /\ Ready(c, call) /\ obj' = Done(c, call, message)
        /\ Returns(c, timeout, "osOK") /\ UNCHANGED wait
     \/ /\ ~Ready(c, call) /\ timeout = "none" /\ UNCHANGED <<obj, wait>>
        /\ Returns(c, timeout, Failure(timeout))
     \/ /\ ~Ready(c, call) /\ timeout # "none"
        /\ wait' = [wait EXCEPT ![c] = [call |-> call, timeout |-> timeout,
                                        message |-> message]]
        /\ UNCHANGED <<obj, answer>>
  /\ UNCHANGED <<heap, pended>>

\* Also when it was woken by the time-out: the object is looked at once more.
WaitServed(t) ==
  /\ wait[t].call \notin {"none", "osEventFlagsWait"} /\ Ready(t, wait[t].call)
  /\ obj' = Done(t, wait[t].call, wait[t].message)
  /\ Returns(t, wait[t].timeout, "osOK")
  /\ wait' = [wait EXCEPT ![t] = NoWait]
  /\ UNCHANGED <<heap, pended>>

WaitTimesOut(t) ==
  /\ wait[t].call \notin {"none", "osEventFlagsWait"} /\ wait[t].timeout = "finite"
  /\ ~Ready(t, wait[t].call)
  /\ Returns(t, wait[t].timeout, Failure(wait[t].timeout))
  /\ wait' = [wait EXCEPT ![t] = NoWait]
  /\ UNCHANGED <<obj, heap, pended>>

\* A binary semaphore is created empty and then given; a counting one has its count.
InitialCount(max, initial) == IF max = 1 THEN IF initial # 0 THEN 1 ELSE 0 ELSE initial

osSemaphoreNew(max, initial, memory) ==
  /\ max > 0 /\ initial <= max
  /\ New(memory,
         [kind |-> "semaphore", onHeap |-> FALSE, max |-> max,
          count |-> InitialCount(max, initial)])

osSemaphoreAcquire(c, valid, timeout) ==
  /\ obj.kind = "semaphore"
  /\ LET refusal == RefusalOfWait(c, valid, timeout) IN
       \/ Refused(c, timeout, refusal)
       \/ /\ refusal = "osOK"
          /\ Tries(c, "osSemaphoreAcquire", timeout, "none")

\* What is given back or cannot be, without waiting.
Gives(c, possible, new) ==
  /\ Free(c)
  /\ obj' = IF possible THEN new ELSE obj
  /\ Returns(c, "none", IF possible THEN "osOK" ELSE "osErrorResource")
  /\ UNCHANGED <<heap, wait, pended>>

\* From an interrupt: it never waits, nor touches a priority.
xQueueGiveFromISR ==
  Gives(Interrupt, obj.count < obj.max, [obj EXCEPT !.count = @ + 1])

osSemaphoreRelease(c, valid) ==
  /\ obj.kind = "semaphore"
  /\ \/ Refused(c, "none", RefusalOfWait(c, valid, "none"))
     \/ valid /\ c = Interrupt /\ xQueueGiveFromISR
     \/ valid /\ c # Interrupt /\ Gives(c, obj.count < obj.max,
                                        [obj EXCEPT !.count = @ + 1])

osSemaphoreDelete(c, valid) == Delete(c, "semaphore", valid)

\* A robust mutex is not supported.  That it is recursive is a bit of the handle.
osMutexNew(recursive, robust, memory) ==
  New(IF robust THEN "unusable" ELSE memory,
      [kind |-> "mutex", onHeap |-> FALSE, recursive |-> recursive,
       holder |-> Nobody, depth |-> 0])

osMutexAcquire(c, valid, timeout) ==
  /\ obj.kind = "mutex" /\ (obj.holder = c => obj.depth < 2)
  /\ \/ Refused(c, timeout, Refusal(c, valid))
     \/ /\ Refusal(c, valid) = "osOK"
        /\ Tries(c, "osMutexAcquire", timeout, "none")

\* To give back a plain mutex another thread holds fails an assertion of tasks.c.
osMutexRelease(c, valid) ==
  /\ obj.kind = "mutex"
  /\ \/ Refused(c, "none", Refusal(c, valid))
     \/ /\ Refusal(c, valid) = "osOK"
        /\ obj.recursive \/ obj.holder \in {c, Nobody}
        /\ Gives(c, obj.holder = c,
                 [obj EXCEPT !.depth = @ - 1,
                             !.holder = IF obj.depth = 1 THEN Nobody ELSE @])

osMutexDelete(c, valid) == Delete(c, "mutex", valid)

osMessageQueueNew(memory) ==
  New(memory,
      [kind |-> "queue", onHeap |-> FALSE, messages |-> <<>>])

\* In a thread a message or its place must not be NULL either: valid says both.
osMessageQueuePut(c, valid, timeout, message) ==
  /\ obj.kind = "queue"
  /\ LET refusal == RefusalOfWait(c, valid, timeout) IN
       \/ Refused(c, timeout, refusal)
       \/ refusal = "osOK" /\ Tries(c, "osMessageQueuePut", timeout, message)

osMessageQueueGet(c, valid, timeout) ==
  /\ obj.kind = "queue"
  /\ LET refusal == RefusalOfWait(c, valid, timeout) IN
       \/ Refused(c, timeout, refusal)
       \/ refusal = "osOK" /\ Tries(c, "osMessageQueueGet", timeout, "none")

osMessageQueueReset(c, valid) ==
  /\ obj.kind = "queue"
  /\ \/ Refused(c, "none", Refusal(c, valid))
     \/ /\ Refusal(c, valid) = "osOK"
        /\ Gives(c, TRUE, [obj EXCEPT !.messages = <<>>])

osMessageQueueDelete(c, valid) == Delete(c, "queue", valid)

--------------------
(* Event flags.                                                               *)

Meets(bits, flags, all) == IF all THEN flags \subseteq bits ELSE flags \cap bits # {}

\* xEventGroupSetBits: waits that are met end with the bits as they are now,
\* and then the bits they clear are cleared.
SetBits(flags) ==
  LET now == obj.bits \cup flags
      due == {t \in Thread : /\ wait[t].call = "osEventFlagsWait" /\ ~wait[t].served
                             /\ Meets(now, wait[t].flags, wait[t].all)}
  IN  /\ obj' = [obj EXCEPT !.bits =
                   now \ UNION {wait[t].flags : t \in {d \in due : wait[d].clear}}]
      /\ wait' = [t \in Thread |-> IF t \notin due THEN wait[t]
                                  ELSE [wait[t] EXCEPT !.served = TRUE, !.bits = now]]

\* Interrupts leave it to the timer daemon, when its queue has room and
\* functions may be pended in this configuration.
LeftToDaemon(do, flags) ==
  \/ /\ Len(pended) < CommandBound
     /\ pended' = Append(pended, [do |-> do, flags |-> flags])
     /\ Returns(Interrupt, "none", "osOK")
  \/ /\ UNCHANGED pended
     /\ Returns(Interrupt, "none", "osErrorResource")

osEventFlagsNew(memory) ==
  New(memory, [kind |-> "flags", onHeap |-> FALSE, bits |-> {}])

\* A flag out of range counts as a wrong parameter.
osEventFlagsSet(c, valid, flags) ==
  /\ obj.kind = "flags" /\ Free(c)
  /\ \/ Refused(c, "none", RefusalOfWait(c, valid, "none"))
     \/ /\ valid /\ c = Interrupt /\ LeftToDaemon("set", flags)
        /\ UNCHANGED <<obj, heap, wait>>
     \/ /\ valid /\ c # Interrupt /\ SetBits(flags)
        /\ Returns(c, "none", "osOK")
        /\ UNCHANGED <<heap, pended>>

osEventFlagsClear(c, valid, flags) ==
  /\ obj.kind = "flags" /\ Free(c)
  /\ \/ Refused(c, "none", RefusalOfWait(c, valid, "none"))
     \/ /\ valid /\ c = Interrupt /\ LeftToDaemon("clear", flags)
        /\ UNCHANGED <<obj, heap, wait>>
     \/ /\ valid /\ c # Interrupt /\ obj' = [obj EXCEPT !.bits = @ \ flags]
        /\ Returns(c, "none", "osOK")
        /\ UNCHANGED <<heap, wait, pended>>

\* The bits tell whether xEventGroupWaitBits succeeded; it does not.
Reported(bits, flags, all, timeout) ==
  IF Meets(bits, flags, all) THEN "osOK" ELSE Failure(timeout)

osEventFlagsWait(c, valid, flags, all, noClear, timeout) ==
  /\ obj.kind = "flags" /\ Free(c) /\ flags # {}
  /\ \/ Refused(c, timeout,
                IF valid THEN Refusal(c, valid) ELSE "osErrorParameter")
     \/ /\ Refusal(c, valid) = "osOK"
        /\ Meets(obj.bits, flags, all) \/ timeout = "none"
        /\ obj' = IF Meets(obj.bits, flags, all) /\ ~noClear
                    THEN [obj EXCEPT !.bits = @ \ flags] ELSE obj
        /\ Returns(c, timeout,
                   Reported(obj.bits, flags, all, timeout))
        /\ UNCHANGED <<heap, wait, pended>>
     \/ /\ Refusal(c, valid) = "osOK" /\ ~Meets(obj.bits, flags, all) /\ timeout # "none"
        /\ wait' = [wait EXCEPT ![c] =
             [call |-> "osEventFlagsWait", timeout |-> timeout, flags |-> flags,
              all |-> all, clear |-> ~noClear, served |-> FALSE, bits |-> {}]]
        /\ UNCHANGED <<obj, heap, pended, answer>>

\* Met, or the group was deleted, which ends a wait with no bits.
FlagsWaitEnds(t) ==
  /\ wait[t].call = "osEventFlagsWait"
  /\ wait[t].served \/ wait[t].timeout = "finite"
  /\ LET bits == IF wait[t].served THEN wait[t].bits ELSE obj.bits
     IN  Returns(t, wait[t].timeout,
                 Reported(bits, wait[t].flags, wait[t].all, wait[t].timeout))
  /\ wait' = [wait EXCEPT ![t] = NoWait]
  /\ UNCHANGED <<obj, heap, pended>>

osEventFlagsDelete(c, valid) == Delete(c, "flags", valid)

--------------------
(* Timers: what the callback needs is in memory of its own.                   *)

\* Mutant: it is kept when no timer could be created.
KeepCallb(memory) == memory

FreeCallb(memory) == memory \ {"callb"}

\* Without the memory for the callback nothing is tried.
osTimerNew(reload, memory) ==
  /\ obj = NoObject
  /\ \/ /\ memory # "unusable"
        /\ obj' = [kind |-> "timer", onHeap |-> memory = "dynamic", reload |-> reload,
                   active |-> FALSE, deleted |-> FALSE]
        /\ heap' = heap \cup {"callb"}
                        \cup (IF memory = "dynamic" THEN {"object"} ELSE {})
     \/ obj' = obj /\ heap' = heap
     \/ memory # "static" /\ obj' = obj /\ heap' = FreeCallb(heap \cup {"callb"})
  /\ \E t \in Thread : /\ Free(t)
                       /\ Returns(t, "none",
                                  IF obj' = NoObject THEN "osError" ELSE "osOK")
  /\ UNCHANGED <<wait, pended>>

Usable == obj.kind = "timer" /\ ~obj.deleted

\* A command for the daemon, which full what there is no room for becomes.
Posts(c, do, full) ==
  \/ /\ Len(pended) < CommandBound
     /\ pended' = Append(pended, [do |-> do, flags |-> {}])
     /\ Returns(c, "none", "osOK")
  \/ /\ Len(pended) = CommandBound
     /\ Returns(c, "none", full) /\ UNCHANGED pended

\* xTimerChangePeriod, which starts the timer.
osTimerStart(c, valid) ==
  /\ Usable /\ Free(c)
  /\ \/ Refused(c, "none", Refusal(c, valid))
     \/ /\ Refusal(c, valid) = "osOK" /\ Posts(c, "start", "osErrorResource")
        /\ UNCHANGED <<obj, heap, wait>>

osTimerStop(c, valid) ==
  /\ Usable /\ Free(c)
  /\ \/ Refused(c, "none", Refusal(c, valid))
     \/ /\ Refusal(c, valid) = "osOK" /\ ~obj.active
        /\ Returns(c, "none", "osErrorResource")
        /\ UNCHANGED <<obj, heap, wait, pended>>
     \/ /\ Refusal(c, valid) = "osOK" /\ obj.active
        /\ Posts(c, "stop", "osError") /\ UNCHANGED <<obj, heap, wait>>

\* The callback's memory is freed as soon as the command is queued.
osTimerDelete(c, valid) ==
  /\ Usable /\ Free(c)
  /\ \/ Refused(c, "none", Refusal(c, valid))
     \/ /\ Refusal(c, valid) = "osOK"
        /\ Posts(c, "delete", "osErrorResource")
        /\ IF pended' = pended THEN UNCHANGED <<obj, heap>>
             ELSE obj' = [obj EXCEPT !.deleted = TRUE] /\ heap' = FreeCallb(heap)
        /\ UNCHANGED wait

\* A one-shot timer can stay active when it expired as it was started.
TimerCallback ==
  /\ obj.kind = "timer" /\ obj.active
  /\ \E active \in BOOLEAN : /\ obj.reload => active
                            /\ obj' = [obj EXCEPT !.active = active]
  /\ UNCHANGED <<heap, wait, pended, answer>>

\* The timer daemon takes a command.
Daemon ==
  /\ pended # <<>> /\ pended' = Tail(pended)
  /\ LET command == Head(pended) IN
       CASE command.do = "set" -> SetBits(command.flags) /\ UNCHANGED heap
         [] command.do = "clear" -> /\ obj' = [obj EXCEPT !.bits = @ \ command.flags]
                                    /\ UNCHANGED <<heap, wait>>
         [] command.do = "delete" -> /\ obj' = NoObject /\ heap' = heap \ {"object"}
                                     /\ UNCHANGED wait
         [] OTHER -> /\ obj' = [obj EXCEPT !.active = command.do = "start"]
                     /\ UNCHANGED <<heap, wait>>
  /\ UNCHANGED answer

--------------------

Creation ==
  \E memory \in Memory, b1, b2 \in BOOLEAN :
    \/ \E max \in MaxCounts, n \in 0..2 : osSemaphoreNew(max, n, memory)
    \/ osMutexNew(b1, b2, memory) \/ osMessageQueueNew(memory)
    \/ osEventFlagsNew(memory) \/ osTimerNew(b1, memory)

Deletion(c, valid) ==
  \/ osSemaphoreDelete(c, valid) \/ osMutexDelete(c, valid)
  \/ osMessageQueueDelete(c, valid) \/ osEventFlagsDelete(c, valid)
  \/ osTimerDelete(c, valid)

\* Of one flag, all and any are the same.
Modes == {TRUE, Cardinality(Flag) = 1}

Use(c, valid) ==
  \/ osSemaphoreRelease(c, valid) \/ osMutexRelease(c, valid)
  \/ osMessageQueueReset(c, valid) \/ osTimerStart(c, valid) \/ osTimerStop(c, valid)
  \/ \E f \in Flag : osEventFlagsSet(c, valid, {f}) \/ osEventFlagsClear(c, valid, {f})
  \/ \E w \in Timeout :
       \/ osSemaphoreAcquire(c, valid, w) \/ osMutexAcquire(c, valid, w)
       \/ osMessageQueueGet(c, valid, w)
       \/ \E x \in Message : osMessageQueuePut(c, valid, w, x)
       \/ \E flags \in SUBSET Flag, all \in Modes, noClear \in BOOLEAN :
            osEventFlagsWait(c, valid, flags, all, noClear, w)

Next ==
  \/ Creation \/ TimerCallback \/ Daemon
  \/ \E c \in Caller, valid \in BOOLEAN : Deletion(c, valid) \/ Use(c, valid)
  \/ \E t \in Thread : WaitServed(t) \/ WaitTimesOut(t) \/ FlagsWaitEnds(t)

Spec == Init /\ [][Next]_vars

--------------------

\* A time-out is reported only to a thread that was ready to wait, and then
\* nothing else: Failure, however many translations the result went through.
TimeOutsReported ==
  answer # NoAnswer =>
    /\ answer.status = "osErrorTimeout" => ~answer.isr /\ answer.timeout # "none"
    /\ answer.timeout # "none" => answer.status # "osErrorResource"

\* Whatever failed on the way, the heap has got back what no object needs, and
\* nothing an object needs: cmsis_os2.c:971-973 and the New functions.
HeapBalanced ==
  /\ "object" \in heap <=> obj.onHeap
  /\ "callb" \in heap <=> obj.kind = "timer" /\ ~obj.deleted
=============================================================================
