------------------------------ MODULE IotUart ------------------------------
(* Reading from a port in hal_iot_uart.c: a mutex for the readers, a binary   *)
(* semaphore the driver's callback posts, and the number of bytes in a global *)
(* variable.  The driver is external: it answers a request with data or an    *)
(* error, and reports errors of the line at any time.                         *)
EXTENDS Naturals

CONSTANTS Task,
          MaxBytes  \* dataLen

VARIABLES uart_rx_mutex,  \* who holds it
          uart_rx_sem,    \* 0 or 1
          g_rx_num,
          request,        \* whose receive the driver works on
          call,           \* per task, how far it is
          received,       \* per task, what its own request brought
          returned,       \* per task, what IoTUartRead returned
          overtaken,      \* tasks that had yet to read g_rx_num as another reader began
          disturbed       \* tasks whose read an error of the line ended

vars == <<uart_rx_mutex, uart_rx_sem, g_rx_num, request, call, received, returned,
          overtaken, disturbed>>

Nobody == "nobody"
UartFits == Nobody \notin Task /\ MaxBytes \in Nat
Where == {"idle", "pend", "reset", "drain", "receive", "wait", "post", "return", "done"}

TypeOK ==
  /\ uart_rx_mutex \in Task \cup {Nobody} /\ uart_rx_sem \in {0, 1}
  /\ g_rx_num \in 0..MaxBytes /\ request \in Task \cup {Nobody}
  /\ call \in [Task -> Where]
  /\ received \in [Task -> 0..MaxBytes] /\ returned \in [Task -> 0..MaxBytes]
  /\ overtaken \subseteq Task /\ disturbed \subseteq Task

Init ==
  /\ uart_rx_mutex = Nobody /\ uart_rx_sem = 0 /\ g_rx_num = 0 /\ request = Nobody
  /\ call = [t \in Task |-> "idle"]
  /\ received = [t \in Task |-> 0] /\ returned = [t \in Task |-> 0]
  /\ overtaken = {} /\ disturbed = {}

Step(t, from, to) == call[t] = from /\ call' = [call EXCEPT ![t] = to]
notes == <<received, returned, overtaken, disturbed>>

IoTUartRead(t) ==
  /\ Step(t, "idle", "pend") \/ Step(t, "done", "pend")
  /\ received' = [received EXCEPT ![t] = 0] /\ returned' = [returned EXCEPT ![t] = 0]
  /\ overtaken' = overtaken \ {t} /\ disturbed' = disturbed \ {t}
  /\ UNCHANGED <<uart_rx_mutex, uart_rx_sem, g_rx_num, request>>

PendMutex(t) ==
  /\ Step(t, "pend", "reset")
  /\ uart_rx_mutex = Nobody /\ uart_rx_mutex' = t
  /\ overtaken' = overtaken \cup {u \in Task : call[u] = "return"}
  /\ UNCHANGED <<uart_rx_sem, g_rx_num, request, received, returned, disturbed>>

\* Mutant: the number of the read before stays.
KeepNumber(t) ==
  /\ Step(t, "reset", "drain")
  /\ UNCHANGED <<uart_rx_mutex, uart_rx_sem, g_rx_num, request, notes>>

ResetNumber(t) ==
  /\ Step(t, "reset", "drain") /\ g_rx_num' = 0
  /\ UNCHANGED <<uart_rx_mutex, uart_rx_sem, request, notes>>

\* LOS_SemPend without waiting, whatever it returns.
Drain(t) ==
  /\ Step(t, "drain", "receive") /\ uart_rx_sem' = 0
  /\ UNCHANGED <<uart_rx_mutex, g_rx_num, request, notes>>

\* app_uart_receive_async, which fails while another receive goes on, or else.
ReceiveAsync(t) ==
  /\ \/ Step(t, "receive", "wait") /\ request = Nobody /\ request' = t
        /\ UNCHANGED <<uart_rx_mutex, returned>>
     \/ /\ Step(t, "receive", "idle") /\ uart_rx_mutex' = Nobody
        /\ UNCHANGED <<request, returned>>
  /\ UNCHANGED <<uart_rx_sem, g_rx_num, received, overtaken, disturbed>>

WaitForEvent(t) ==
  /\ Step(t, "wait", "post")
  /\ uart_rx_sem = 1 /\ uart_rx_sem' = 0
  /\ disturbed' = IF request = t THEN disturbed \cup {t} ELSE disturbed
  /\ UNCHANGED <<uart_rx_mutex, g_rx_num, request, received, returned, overtaken>>

PostMutex(t) ==
  /\ Step(t, "post", "return") /\ uart_rx_mutex' = Nobody
  /\ UNCHANGED <<uart_rx_sem, g_rx_num, request, notes>>

\* The number is read when the mutex has been given back.
ReturnNumber(t) ==
  /\ Step(t, "return", "done")
  /\ returned' = [returned EXCEPT ![t] = g_rx_num]
  /\ UNCHANGED <<uart_rx_mutex, uart_rx_sem, g_rx_num, request, received, overtaken,
                 disturbed>>

(* app_uart0_callback and app_uart1_callback, from an interrupt. *)

ReceiveEvent ==
  /\ request # Nobody /\ request' = Nobody /\ uart_rx_sem' = 1
  /\ \/ \E n \in 1..MaxBytes :
          /\ g_rx_num' = n
          /\ received' = IF call[request] = "wait" THEN [received EXCEPT ![request] = n]
                         ELSE received
     \/ UNCHANGED <<g_rx_num, received>>
  /\ disturbed' = IF call[request] = "wait" THEN disturbed
                  ELSE disturbed \cup {t \in Task : call[t] \notin {"idle", "pend", "done"}}
  /\ UNCHANGED <<uart_rx_mutex, call, returned, overtaken>>

LineError ==
  /\ uart_rx_sem' = 1
  /\ UNCHANGED <<uart_rx_mutex, g_rx_num, request, call, notes>>

Next ==
  \/ \E t \in Task :
       \/ IoTUartRead(t) \/ PendMutex(t) \/ ResetNumber(t) \/ Drain(t)
       \/ ReceiveAsync(t) \/ WaitForEvent(t) \/ PostMutex(t) \/ ReturnNumber(t)
  \/ ReceiveEvent \/ LineError

Spec == Init /\ [][Next]_vars

--------------------

\* A read returns the number of bytes its own request brought, and none when the
\* request failed, except where an error of the line ended a read before its
\* request, or another reader began before the number was read
\* (hal_iot_uart.c:197-213).
ReadsExact ==
  \A t \in Task : call[t] = "done" /\ t \notin overtaken \cup disturbed
                    => returned[t] = received[t]
=============================================================================
