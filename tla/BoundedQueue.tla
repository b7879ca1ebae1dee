---------------------------- MODULE BoundedQueue ----------------------------
(***************************************************************************)
(* What queue.c promises its callers: every call takes effect at most once, *)
(* at one instant between its invocation and its return, and reports       *)
(* failure only if it took no effect.  A receive or a peek fails only at   *)
(* an instant the queue is empty, and a send that does not wait only at    *)
(* one it is full; a send that waited may fail at any instant, because     *)
(* xQueueGenericSend does not look at the queue again after the time-out.  *)
(***************************************************************************)
EXTENDS Naturals

CONSTANTS Client, Capacity

VARIABLES count,   \* items in the queue
          status   \* what each client is doing

vars == <<count, status>>

Operation == {"send", "receive", "peek"}
NoOperation == [op |-> "none", waits |-> FALSE]
Pending == [op : Operation, waits : BOOLEAN]

Init == count = 0 /\ status = [c \in Client |-> NoOperation]

Call(c) ==
  /\ status[c] = NoOperation
  /\ \E p \in Pending : status' = [status EXCEPT ![c] = p]
  /\ UNCHANGED count

Done(c) == status' = [status EXCEPT ![c] = NoOperation]

Send(c) == /\ status[c].op = "send" /\ count < Capacity
           /\ count' = count + 1 /\ Done(c)
Receive(c) == /\ status[c].op = "receive" /\ count > 0
              /\ count' = count - 1 /\ Done(c)
Peek(c) == /\ status[c].op = "peek" /\ count > 0
           /\ UNCHANGED count /\ Done(c)

Fail(c) ==
  /\ \/ status[c].op = "send" /\ (count = Capacity \/ status[c].waits)
     \/ status[c].op \in {"receive", "peek"} /\ count = 0
  /\ Done(c)
  /\ UNCHANGED count

\* Interrupt service routines use the queue too, and a client may reset it.
Interrupt == /\ \/ count < Capacity /\ count' = count + 1
                \/ count > 0 /\ count' = count - 1
             /\ UNCHANGED status
Reset == count' = 0 /\ UNCHANGED status

Next == \/ \E c \in Client : Call(c) \/ Send(c) \/ Receive(c) \/ Peek(c) \/ Fail(c)
        \/ Interrupt
        \/ Reset

Spec == Init /\ [][Next]_vars
=============================================================================
