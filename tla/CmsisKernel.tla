---------------------------- MODULE CmsisKernel ----------------------------
(* The state and the lock of the kernel in cmsis_os2.c.  Threads lock the     *)
(* kernel for a region of their code, open it again within one, and end a     *)
(* region with osKernelRestoreLock and what the call at its start returned.   *)
(* Who runs changes only while the scheduler is not suspended.                *)
EXTENDS Integers, Sequences

CONSTANTS Thread,
          NestBound, \* regions within each other
          SuspendBound  \* on uxSchedulerSuspended where a region is locked

VARIABLES KernelState,
          uxSchedulerSuspended,  \* of tasks.c
          running,               \* pxCurrentTCB
          regions,   \* per thread, those it is in: what for, and what was returned
          redundant, \* a region asked for the state the kernel was in already
          halted     \* an assertion of tasks.c failed

vars == <<KernelState, uxSchedulerSuspended, running, regions, redundant, halted>>

osError == -1
Region == [kind : {"locked", "open"}, lock : {0, 1, osError}]

TypeOK ==
  /\ KernelState \in {"Inactive", "Ready", "Running"}
  /\ uxSchedulerSuspended \in 0..(SuspendBound + NestBound)
  /\ running \in Thread /\ regions \in [Thread -> Seq(Region)]
  /\ redundant \in BOOLEAN /\ halted \in BOOLEAN

Init ==
  /\ KernelState = "Inactive" /\ uxSchedulerSuspended = 0
  /\ running \in Thread /\ regions = [t \in Thread |-> <<>>]
  /\ redundant = FALSE /\ halted = FALSE

\* Each of the two does nothing but return osError in another state.
osKernelInitialize ==
  /\ KernelState = "Inactive" /\ KernelState' = "Ready"
  /\ UNCHANGED <<uxSchedulerSuspended, running, regions, redundant, halted>>

osKernelStart ==
  /\ KernelState = "Ready" /\ KernelState' = "Running"
  /\ UNCHANGED <<uxSchedulerSuspended, running, regions, redundant, halted>>

Runs(t) == KernelState = "Running" /\ ~halted /\ running = t

Switch ==
  /\ KernelState = "Running" /\ ~halted /\ uxSchedulerSuspended = 0
  /\ running' \in Thread
  /\ UNCHANGED <<KernelState, uxSchedulerSuspended, regions, redundant, halted>>

Enters(t, kind, lock) ==
  /\ Len(regions[t]) < NestBound
  /\ regions' = [regions EXCEPT ![t] = Append(@, [kind |-> kind, lock |-> lock])]
  /\ redundant' = (redundant \/ (kind = "locked" <=> lock = 1))

Leaves(t) ==
  /\ regions[t] # <<>>
  /\ regions' = [regions EXCEPT ![t] = SubSeq(@, 1, Len(@) - 1)]

\* A kernel that is locked is not locked once more.
osKernelLock(t) ==
  /\ Runs(t) /\ uxSchedulerSuspended < SuspendBound
  /\ IF uxSchedulerSuspended > 0
       THEN Enters(t, "locked", 1) /\ UNCHANGED uxSchedulerSuspended
       ELSE Enters(t, "locked", 0) /\ uxSchedulerSuspended' = 1
  /\ UNCHANGED <<KernelState, running, halted>>

\* xTaskResumeAll takes back one suspension only; when that was not the last
\* one, osKernelUnlock failed.
osKernelUnlock(t) ==
  /\ Runs(t)
  /\ IF uxSchedulerSuspended > 0
       THEN /\ Enters(t, "open", IF uxSchedulerSuspended = 1 THEN 1 ELSE osError)
            /\ uxSchedulerSuspended' = uxSchedulerSuspended - 1
       ELSE Enters(t, "open", 0) /\ UNCHANGED uxSchedulerSuspended
  /\ UNCHANGED <<KernelState, running, halted>>

\* Mutant: what is restored is the state the region had.
RestoreTheOther(lock) == IF lock = osError THEN lock ELSE 1 - lock

Wanted(lock) == lock

\* To restore a lock suspends the scheduler, whether it is or not, and to
\* restore none resumes it: xTaskResumeAll asserts that it was suspended.
osKernelRestoreLock(t) ==
  /\ Runs(t) /\ Leaves(t)
  /\ LET lock == Wanted(regions[t][Len(regions[t])].lock) IN
       \/ lock = osError /\ UNCHANGED <<uxSchedulerSuspended, halted>>
       \/ /\ lock = 1 /\ uxSchedulerSuspended' = uxSchedulerSuspended + 1
          /\ UNCHANGED halted
       \/ /\ lock = 0 /\ uxSchedulerSuspended > 0
          /\ uxSchedulerSuspended' = uxSchedulerSuspended - 1 /\ UNCHANGED halted
       \/ /\ lock = 0 /\ uxSchedulerSuspended = 0
          /\ halted' = TRUE /\ UNCHANGED uxSchedulerSuspended
  /\ UNCHANGED <<KernelState, running, redundant>>

\* configASSERT does not return.
Halt == halted /\ UNCHANGED vars

Next ==
  \/ Halt \/ osKernelInitialize \/ osKernelStart \/ Switch
  \/ \E t \in Thread : osKernelLock(t) \/ osKernelUnlock(t) \/ osKernelRestoreLock(t)

Spec == Init /\ [][Next]_vars

--------------------

\* As long as no region asked for the state the kernel was in, the kernel is
\* locked exactly while the innermost region of the thread that runs is a locked
\* one, and only once, whatever other threads did while it was open.  (A region
\* that did leaves the kernel locked at its end, or fails an assertion:
\* cmsis_os2.c:348-358.)
LockFollowsRegions ==
  ~redundant =>
    /\ ~halted
    /\ uxSchedulerSuspended =
         IF regions[running] # <<>> /\ regions[running][Len(regions[running])].kind = "locked"
           THEN 1 ELSE 0
=============================================================================
