---------------------------- MODULE ThreadFlags -----------------------------
(* The thread flags of cmsis_os2.c, which are the notification value of the   *)
(* thread: one thread waits for its flags, clears and reads them; other       *)
(* threads and interrupts set them.                                           *)
EXTENDS Naturals, FiniteSets

CONSTANTS Flag,
          Setter,      \* threads that set flags
          Timeouts,    \* of osThreadFlagsWait
          TickMod,     \* the tick count wraps here
          AwakeBound   \* ticks that pass during one wait while the thread is ready

osWaitForever == TickMod - 1

\* The tick count wraps, but not while a thread that waits with a timeout is ready.
FlagsFit ==
  /\ TickMod \in Nat /\ TickMod > 1 /\ AwakeBound \in Nat
  /\ Timeouts \subseteq 0..osWaitForever
  /\ \A d \in Timeouts : d # osWaitForever => d + AwakeBound < TickMod

VARIABLES ulNotifiedValue, \* the flags that are set
          ucNotifyState,
          xTickCount,
          wait,            \* the call the thread is in
          setter,          \* per setter, TRUE: it has set and not yet read back
          fresh            \* flags set since they were last waited for or cleared

vars == <<ulNotifiedValue, ucNotifyState, xTickCount, wait, setter, fresh>>

Idle == [at |-> "idle", flags |-> {}, all |-> FALSE, clear |-> {}, timeout |-> 0,
         t0 |-> 0, tout |-> 0, left |-> 0, nval |-> {}, rflags |-> {},
         slept |-> 0, awake |-> 0]  \* the ticks of this wait

TypeOK ==
  /\ ulNotifiedValue \subseteq Flag
  /\ ucNotifyState \in {"NOT_WAITING", "WAITING", "RECEIVED"}
  /\ xTickCount \in 0..(TickMod - 1)
  /\ wait \in [at : {"idle", "notifyWait", "asleep", "ready", "passed", "cleared"},
               flags : SUBSET Flag, all : BOOLEAN, clear : SUBSET Flag,
               timeout : 0..osWaitForever, t0 : 0..(TickMod - 1),
               tout : 0..osWaitForever, left : 0..osWaitForever,
               nval : SUBSET Flag, rflags : SUBSET Flag,
               slept : 0..TickMod, awake : 0..AwakeBound]
  /\ setter \in [Setter -> BOOLEAN]
  /\ fresh \subseteq Flag

Init ==
  /\ ulNotifiedValue = {} /\ ucNotifyState = "NOT_WAITING"
  /\ xTickCount \in 0..(TickMod - 1)
  /\ wait = Idle /\ setter = [s \in Setter |-> FALSE]
  /\ fresh = {}

At(place) == wait.at = place

--------------------
(* osThreadFlagsSet: xTaskNotify with eSetBits, then xTaskNotifyAndQuery with *)
(* eNoAction, which notifies too.                                             *)

\* xTaskGenericNotify: whoever waits for a notification becomes ready.
Notified ==
  /\ ucNotifyState' = "RECEIVED"
  /\ wait' = IF ucNotifyState = "WAITING" THEN [wait EXCEPT !.at = "ready"] ELSE wait

SetBits(f) == /\ ulNotifiedValue' = ulNotifiedValue \cup {f}
              /\ fresh' = fresh \cup {f}

osThreadFlagsSet(s, f) ==
  /\ ~setter[s] /\ setter' = [setter EXCEPT ![s] = TRUE]
  /\ SetBits(f) /\ Notified
  /\ UNCHANGED <<xTickCount>>

ReadBack(s) ==
  /\ setter[s] /\ setter' = [setter EXCEPT ![s] = FALSE]
  /\ Notified
  /\ UNCHANGED <<ulNotifiedValue, xTickCount, fresh>>

\* An interrupt runs to its end.
SetFromISR(f) ==
  /\ SetBits(f) /\ Notified
  /\ UNCHANGED <<xTickCount, setter>>

--------------------
(* The thread.                                                                *)

\* osThreadFlagsGet queries its own notification, and by that notifies itself.
osThreadFlagsGet ==
  /\ At("idle")
  /\ ucNotifyState' = "RECEIVED"
  /\ UNCHANGED <<ulNotifiedValue, xTickCount, wait, setter, fresh>>

\* osThreadFlagsClear: the value is read here and written in OverwriteValue.
osThreadFlagsClear(flags) ==
  /\ At("idle")
  /\ wait' = [Idle EXCEPT !.at = "cleared", !.flags = flags,
                          !.nval = ulNotifiedValue \ flags]
  /\ ucNotifyState' = "RECEIVED"
  /\ UNCHANGED <<ulNotifiedValue, xTickCount, setter, fresh>>

OverwriteValue ==
  /\ At("cleared")
  /\ ulNotifiedValue' = wait.nval /\ ucNotifyState' = "RECEIVED"
  /\ fresh' = fresh \ wait.flags
  /\ wait' = Idle
  /\ UNCHANGED <<xTickCount, setter>>

osThreadFlagsWait(flags, all, noClear, timeout) ==
  /\ At("idle")
  /\ wait' = [Idle EXCEPT !.at = "notifyWait", !.flags = flags, !.all = all,
                          !.clear = IF noClear THEN {} ELSE flags,
                          !.timeout = timeout, !.tout = timeout, !.t0 = xTickCount]
  /\ UNCHANGED <<ulNotifiedValue, ucNotifyState, xTickCount, setter, fresh>>

\* The first critical section of xTaskNotifyWait.
xTaskNotifyWait ==
  /\ At("notifyWait")
  /\ IF ucNotifyState = "RECEIVED"
       THEN wait' = [wait EXCEPT !.at = "ready"] /\ UNCHANGED ucNotifyState
       ELSE /\ ucNotifyState' = "WAITING"
            /\ wait' = [wait EXCEPT !.at = IF wait.tout > 0 THEN "asleep" ELSE "ready",
                                    !.left = wait.tout]
  /\ UNCHANGED <<ulNotifiedValue, xTickCount, setter, fresh>>

\* The second one, after which osThreadFlagsWait goes on or ends with osErrorTimeout.
NotifyWaitReturns ==
  /\ At("ready")
  /\ ucNotifyState' = "NOT_WAITING"
  /\ IF ucNotifyState = "RECEIVED"
       THEN /\ wait' = [wait EXCEPT !.at = "passed", !.nval = ulNotifiedValue]
            /\ ulNotifiedValue' = ulNotifiedValue \ wait.clear
            /\ fresh' = fresh \ wait.clear
       ELSE /\ wait' = Idle
            /\ UNCHANGED <<ulNotifiedValue, fresh>>
  /\ UNCHANGED <<xTickCount, setter>>

\* What was collected so far, and the time that is left: since t0, each time.
Satisfied(r) == IF wait.all THEN wait.flags \subseteq r ELSE wait.flags \cap r # {}

\* Mutant: the time begins anew with every notification.
CollectAndStartAnew ==
  /\ At("passed")
  /\ LET r == (wait.rflags \cap wait.flags) \cup wait.nval
     IN  wait' = IF Satisfied(r) \/ wait.timeout = 0
                   THEN Idle
                   ELSE [wait EXCEPT !.at = "notifyWait", !.rflags = r, !.nval = {}]
  /\ UNCHANGED <<ulNotifiedValue, ucNotifyState, xTickCount, setter, fresh>>

Collect ==
  /\ At("passed")
  /\ LET r == (wait.rflags \cap wait.flags) \cup wait.nval
         td == (TickMod + xTickCount - wait.t0) % TickMod
     IN  wait' = IF Satisfied(r) \/ wait.timeout = 0
                   THEN Idle
                   ELSE [wait EXCEPT !.at = "notifyWait", !.rflags = r, !.nval = {},
                                     !.tout = IF td > @ THEN 0 ELSE @ - td]
  /\ UNCHANGED <<ulNotifiedValue, ucNotifyState, xTickCount, setter, fresh>>

--------------------

\* Without a time-out the thread sleeps on; else its last tick makes it ready.
Tick ==
  /\ xTickCount' = (xTickCount + 1) % TickMod
  /\ \/ /\ At("idle") \/ (At("asleep") /\ wait.left = osWaitForever)
        /\ UNCHANGED wait
     \/ /\ At("asleep") /\ wait.left < osWaitForever
        /\ wait' = [wait EXCEPT !.left = @ - 1,
                                !.at = IF wait.left = 1 THEN "ready" ELSE @,
                                !.slept = IF wait.timeout = osWaitForever THEN @ ELSE @ + 1]
     \/ /\ ~At("idle") /\ ~At("asleep") /\ wait.awake < AwakeBound
        /\ wait' = [wait EXCEPT !.awake = @ + 1]
  /\ UNCHANGED <<ulNotifiedValue, ucNotifyState, setter, fresh>>

Next ==
  \/ \E s \in Setter : ReadBack(s) \/ \E f \in Flag : osThreadFlagsSet(s, f)
  \/ \E f \in Flag : SetFromISR(f)
  \/ osThreadFlagsGet \/ \E f \in Flag : osThreadFlagsClear({f})
  \/ OverwriteValue
  \/ \E flags \in SUBSET Flag \ {{}}, all, noClear \in BOOLEAN, n \in Timeouts :
       osThreadFlagsWait(flags, all, noClear, n)
  \/ xTaskNotifyWait \/ NotifyWaitReturns \/ Collect \/ Tick

Spec == Init /\ [][Next]_vars

--------------------

\* A flag that is set was set since it was last waited for or cleared: no set
\* answers two waits, also when the thread clears flags while others set them.
NeverAnsweredTwice == ulNotifiedValue \subseteq fresh

\* However many notifications come that are not waited for, a wait sleeps no longer
\* than its timeout in all.
WaitNotProlonged == wait.timeout # osWaitForever => wait.slept <= wait.timeout

\* osThreadFlagsWait (cmsis_os2.c:804, 832) against osThreadFlagsSet.
FlagsServed == NeverAnsweredTwice /\ WaitNotProlonged
=============================================================================
