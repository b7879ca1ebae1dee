------------------------------- MODULE Atomic -------------------------------
(* The operations of include/atomic.h on one word: a load and a store, between *)
(* which interrupts are masked.  Tasks are switched by an interrupt too, so    *)
(* that masking keeps out the other tasks as well as the handler.              *)
EXTENDS Naturals, Bitwise

CONSTANTS Task,
          Width,    \* of the word, in bits
          Operand

VARIABLES word,
          masked,   \* whether the processor takes interrupts
          running, interrupted, \* who runs, and the task a handler interrupted
          call,     \* per context, the operation it is in, and what it has read
          critical  \* tasks in a critical section of their own

vars == <<word, masked, running, interrupted, call, critical>>

Handler == "handler"
Context == Task \cup {Handler}
Word == 0..(2^Width - 1)

Arithmetic == {"Atomic_Add_u32", "Atomic_Subtract_u32", "Atomic_Increment_u32",
               "Atomic_Decrement_u32"}
Logical == {"Atomic_OR_u32", "Atomic_AND_u32", "Atomic_NAND_u32", "Atomic_XOR_u32"}
Swap == {"Atomic_CompareAndSwap_u32", "Atomic_SwapPointers_p32",
         "Atomic_CompareAndSwapPointers_p32"}

NoCall == [fn |-> "none", at |-> "none", operand |-> 0, comparand |-> 0,
           current |-> 0, saved |-> FALSE]

TypeOK ==
  /\ word \in Word /\ masked \in BOOLEAN
  /\ running \in Context /\ interrupted \in Task /\ critical \subseteq Task
  /\ call \in [Context -> [fn : Arithmetic \cup Logical \cup Swap \cup {"none"},
                           at : {"none", "load", "store", "exit"},
                           operand : Operand \cup {0, 1}, comparand : Operand \cup {0},
                           current : Word, saved : BOOLEAN]]

Init ==
  /\ word = 0 /\ masked = FALSE /\ critical = {}
  /\ running \in Task /\ interrupted = running
  /\ call = [c \in Context |-> NoCall]

--------------------

At(c, where) == running = c /\ call[c].at = where

\* A compare and swap has its comparand, an increment no operand.
Begun(fn, operand, comparand) ==
  [NoCall EXCEPT !.fn = fn, !.at = "load", !.comparand = comparand, !.saved = masked,
     !.operand = IF fn \in {"Atomic_Increment_u32", "Atomic_Decrement_u32"} THEN 0
                 ELSE operand]

\* Mutant: interrupts go on.
EnterOnly(c, fn, operand, comparand) ==
  /\ At(c, "none")
  /\ fn \in Swap \/ comparand = 0
  /\ call' = [call EXCEPT ![c] = Begun(fn, operand, comparand)]
  /\ UNCHANGED <<word, masked, running, interrupted, critical>>

\* What was masked before is kept in a variable of the function.
ATOMIC_ENTER_CRITICAL(c, fn, operand, comparand) ==
  /\ At(c, "none")
  /\ fn \in Swap \/ comparand = 0
  /\ masked' = TRUE
  /\ call' = [call EXCEPT ![c] = Begun(fn, operand, comparand)]
  /\ UNCHANGED <<word, running, interrupted, critical>>

Load(c) ==
  /\ At(c, "load")
  /\ call' = [call EXCEPT ![c].at = "store", ![c].current = word]
  /\ UNCHANGED <<word, masked, running, interrupted, critical>>

Stores(c, fn, new) ==
  /\ At(c, "store") /\ call[c].fn = fn
  /\ word' = new
  /\ call' = [call EXCEPT ![c].at = "exit"]
  /\ UNCHANGED <<masked, running, interrupted, critical>>

\* The arithmetic operations, OR, AND and XOR read the volatile word once more.
Plus(n) == (word + n) % 2^Width
Minus(n) == (word + 2^Width - n) % 2^Width
Atomic_Add_u32(c) == Stores(c, "Atomic_Add_u32", Plus(call[c].operand))
Atomic_Increment_u32(c) == Stores(c, "Atomic_Increment_u32", Plus(1))
Atomic_Subtract_u32(c) == Stores(c, "Atomic_Subtract_u32", Minus(call[c].operand))
Atomic_Decrement_u32(c) == Stores(c, "Atomic_Decrement_u32", Minus(1))
Atomic_OR_u32(c) == Stores(c, "Atomic_OR_u32", word | call[c].operand)
Atomic_AND_u32(c) == Stores(c, "Atomic_AND_u32", word & call[c].operand)
Atomic_XOR_u32(c) == Stores(c, "Atomic_XOR_u32", word ^^ call[c].operand)

\* NAND writes the complement of what was read.
Atomic_NAND_u32(c) ==
  Stores(c, "Atomic_NAND_u32", 2^Width - 1 - (call[c].current & call[c].operand))

\* Pointers are words here.
Swapped(c) == IF call[c].current = call[c].comparand THEN call[c].operand ELSE word
Atomic_CompareAndSwap_u32(c) == Stores(c, "Atomic_CompareAndSwap_u32", Swapped(c))
Atomic_CompareAndSwapPointers_p32(c) ==
  Stores(c, "Atomic_CompareAndSwapPointers_p32", Swapped(c))
Atomic_SwapPointers_p32(c) == Stores(c, "Atomic_SwapPointers_p32", call[c].operand)

Store(c) ==
  \/ Atomic_Add_u32(c) \/ Atomic_Increment_u32(c)
  \/ Atomic_Subtract_u32(c) \/ Atomic_Decrement_u32(c)
  \/ Atomic_OR_u32(c) \/ Atomic_AND_u32(c) \/ Atomic_XOR_u32(c) \/ Atomic_NAND_u32(c)
  \/ Atomic_CompareAndSwap_u32(c) \/ Atomic_CompareAndSwapPointers_p32(c)
  \/ Atomic_SwapPointers_p32(c)

\* Mutant: interrupts are let in, whatever was before.
ExitUnmasks(c) ==
  /\ At(c, "exit")
  /\ masked' = FALSE
  /\ call' = [call EXCEPT ![c] = NoCall]
  /\ UNCHANGED <<word, running, interrupted, critical>>

ATOMIC_EXIT_CRITICAL(c) ==
  /\ At(c, "exit")
  /\ masked' = call[c].saved
  /\ call' = [call EXCEPT ![c] = NoCall]
  /\ UNCHANGED <<word, running, interrupted, critical>>

\* A task may call them in a critical section of its own.
TaskMasks(t) ==
  /\ running = t /\ call[t] = NoCall /\ t \notin critical
  /\ masked' = TRUE /\ critical' = critical \cup {t}
  /\ UNCHANGED <<word, running, interrupted, call>>

TaskUnmasks(t) ==
  /\ running = t /\ call[t] = NoCall /\ t \in critical
  /\ masked' = FALSE /\ critical' = critical \ {t}
  /\ UNCHANGED <<word, running, interrupted, call>>

Interrupt ==
  /\ ~masked /\ running # Handler
  /\ running' = Handler /\ interrupted' = running
  /\ UNCHANGED <<word, masked, call, critical>>

\* To the task it interrupted, or, through PendSV, to another.
InterruptReturns ==
  /\ running = Handler /\ call[Handler] = NoCall
  /\ running' \in Task /\ interrupted' = running'
  /\ UNCHANGED <<word, masked, call, critical>>

Next ==
  \/ \E c \in Context :
       \/ \E fn \in Arithmetic \cup Logical \cup Swap, n \in Operand, m \in Operand \cup {0} :
            ATOMIC_ENTER_CRITICAL(c, fn, n, m)
       \/ Load(c) \/ Store(c) \/ ATOMIC_EXIT_CRITICAL(c)
  \/ \E t \in Task : TaskMasks(t) \/ TaskUnmasks(t)
  \/ Interrupt \/ InterruptReturns

Spec == Init /\ [][Next]_vars

--------------------

\* Nobody changes the word between the load and the store of an operation, so
\* that what is returned is what the word was before it: atomic.h:255-270.
NobodyBetween == \A c \in Context : call[c].at = "store" => call[c].current = word

\* Interrupts are masked while someone is in a critical section, the operation's
\* or its caller's, and in no other place: atomic.h:57-58.
MaskedInSections ==
  masked <=> \/ critical # {}
             \/ \E c \in Context : call[c].at \in {"load", "store", "exit"}
=============================================================================
