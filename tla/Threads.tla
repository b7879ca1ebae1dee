------------------------------ MODULE Threads ------------------------------
(* Threads of cmsis_os2.c over the tasks of tasks.c, seen by one thread, Self,  *)
(* that creates, terminates and watches the others while they, and interrupts,  *)
(* go on: a call is cut where the code lets them in.  Priorities, and the       *)
(* order of a list, are left out: any other thread may run before Self does.    *)
EXTENDS Naturals, FiniteSets, Sequences

CONSTANTS Thread,      \* the others
          Exiting,     \* those of them that end with osThreadExit; the rest is terminated
          ArrayItems   \* array_items of osThreadEnumerate

Self == "self"
Task == Thread \cup {Self}

ThreadsFit == IsFiniteSet(Thread) /\ Self \notin Thread

VARIABLES container,   \* per task, the list its xStateListItem is in
          event,       \* and that of its xEventListItem
          notify,      \* its ucNotifyState is taskWAITING_NOTIFICATION
          suspended,   \* vTaskSuspend was called for it, and it was not resumed
          dynamic,     \* not ucStaticallyAllocated
          heap,        \* what the kernel's heap gave and did not get back
          uxCurrentNumberOfTasks, uxDeletedTasksWaitingCleanUp,
          call, answer \* the call Self is in, and what the last step returned from one

kernel == <<container, event, notify, suspended>>
memory == <<dynamic, heap>>
counts == <<uxCurrentNumberOfTasks, uxDeletedTasksWaitingCleanUp>>
vars == <<kernel, memory, counts, call, answer>>

\* "delayed" stands for both lists of delayed tasks, "unknown" for no task.
StateList == {"ready", "delayed", "suspended", "termination", "none"}
State == {"eRunning", "eReady", "eBlocked", "eSuspended", "eDeleted"}

NoCall == [fn |-> "none"]
NoAnswer == NoCall

TypeOK ==
  /\ container \in [Task -> StateList \cup {"unknown"}]
  /\ event \in [Task -> {"none", "object", "pending"}]
  /\ notify \in [Task -> BOOLEAN] /\ suspended \in [Task -> BOOLEAN]
  /\ dynamic \in [Task -> BOOLEAN] /\ heap \subseteq Task \X {"stack", "tcb"}
  /\ uxCurrentNumberOfTasks \in 1..Cardinality(Task)
  /\ uxDeletedTasksWaitingCleanUp \in 0..Cardinality(Task)

Init ==
  /\ container = [t \in Task |-> IF t = Self THEN "ready" ELSE "unknown"]
  /\ event = [t \in Task |-> "none"]
  /\ notify = [t \in Task |-> FALSE] /\ suspended = [t \in Task |-> FALSE]
  /\ dynamic = [t \in Task |-> FALSE] /\ heap = {}
  /\ uxCurrentNumberOfTasks = 1 /\ uxDeletedTasksWaitingCleanUp = 0
  /\ call = NoCall /\ answer = NoAnswer

--------------------

\* The calls that hold the scheduler.
SchedulerSuspended == call.fn \in {"uxTaskGetSystemState", "xTaskGetHandle"}

Listed(t) == container[t] \notin {"unknown", "none"}
Known(t) == Listed(t) /\ container[t] # "termination"

\* The state a task is in; while it is pended it is blocked for some, ready
\* for others.
StatesOf(t) ==
  CASE t = Self -> {"eRunning"}
    [] t # Self /\ container[t] = "ready" -> {"eReady"}
    [] t # Self /\ container[t] \in {"delayed", "suspended"} ->
         {IF suspended[t] THEN "eSuspended" ELSE "eBlocked"}
           \cup (IF event[t] = "pending" THEN {"eReady"} ELSE {})
    [] OTHER -> {"eDeleted"}

\* What Self's question is about may change while it is answered.
Witness ==
  IF call.fn # "eTaskGetState" THEN UNCHANGED call
  ELSE \E t \in {call.task} : call' = [call EXCEPT !.seen = @ \cup StatesOf(t)']

Others == ~SchedulerSuspended
KernelStep == UNCHANGED <<memory, counts>> /\ answer' = NoAnswer /\ Witness

\* To wait with a timeout, or without: in the list of suspended tasks.
Blocks(t, list, on) ==
  /\ Others /\ container[t] = "ready" /\ t # Self
  /\ on = "nothing" => list = "delayed"
  /\ container' = [container EXCEPT ![t] = list]
  /\ event' = [event EXCEPT ![t] = IF on = "object" THEN "object" ELSE "none"]
  /\ notify' = [notify EXCEPT ![t] = on = "notification"]
  /\ UNCHANGED suspended /\ KernelStep

Readied(t) ==
  /\ container' = [container EXCEPT ![t] = "ready"]
  /\ event' = [event EXCEPT ![t] = "none"]

\* xTaskRemoveFromEventList, of a task or an interrupt.
EventOccurs(t) ==
  /\ event[t] = "object"
  /\ IF SchedulerSuspended
       THEN event' = [event EXCEPT ![t] = "pending"] /\ UNCHANGED container
       ELSE Readied(t)
  /\ UNCHANGED <<notify, suspended>> /\ KernelStep

\* That it was also resumed, or suspended meanwhile, the state tells.
NotificationArrives(t) ==
  /\ notify[t] /\ Known(t)
  /\ notify' = [notify EXCEPT ![t] = FALSE]
  /\ IF SchedulerSuspended
       THEN event' = [event EXCEPT ![t] = "pending"] /\ UNCHANGED container
       ELSE Readied(t)
  /\ UNCHANGED suspended /\ KernelStep

TimeOut(t) ==
  /\ Others /\ container[t] = "delayed"
  /\ Readied(t) /\ UNCHANGED <<notify, suspended>> /\ KernelStep

\* By itself, or by any task.
osThreadSuspend(t) ==
  /\ Others /\ Known(t) /\ t # Self
  /\ container' = [container EXCEPT ![t] = "suspended"]
  /\ event' = [event EXCEPT ![t] = "none"]
  /\ notify' = [notify EXCEPT ![t] = FALSE]
  /\ suspended' = [suspended EXCEPT ![t] = TRUE]
  /\ KernelStep

\* vTaskResume and xTaskResumeFromISR, which take a task that waits for a
\* notification for a suspended one too.
osThreadResume(t) ==
  /\ container[t] = "suspended" /\ event[t] = "none"
  /\ suspended' = [suspended EXCEPT ![t] = FALSE]
  /\ IF SchedulerSuspended
       THEN event' = [event EXCEPT ![t] = "pending"] /\ UNCHANGED container
       ELSE Readied(t)
  /\ UNCHANGED notify /\ KernelStep

\* xTaskResumeAll: what is pended is readied.
ResumeAll ==
  /\ container' = [t \in Task |-> IF event[t] = "pending" THEN "ready" ELSE container[t]]
  /\ event' = [t \in Task |-> IF event[t] = "pending" THEN "none" ELSE event[t]]
  /\ UNCHANGED <<notify, suspended>>

--------------------
(* The end of a thread.                                                       *)

OffItsLists(t, to) ==
  /\ container' = [container EXCEPT ![t] = to]
  /\ event' = [event EXCEPT ![t] = "none"]
  /\ notify' = [notify EXCEPT ![t] = FALSE]
  /\ suspended' = [suspended EXCEPT ![t] = FALSE]

\* Mutant: the stack of a task that was deleted stays.
KeepStack(t) == IF dynamic[t] THEN heap \ {<<t, "tcb">>} ELSE heap

\* What is left of the heap.
prvDeleteTCB(t) ==
  IF dynamic[t] THEN heap \ {<<t, "stack">>, <<t, "tcb">>} ELSE heap

\* vTaskDelete(NULL): the task runs on its stack until the switch.
osThreadExit(t) ==
  /\ Others /\ t \in Exiting /\ container[t] = "ready"
  /\ OffItsLists(t, "termination")
  /\ uxDeletedTasksWaitingCleanUp' = uxDeletedTasksWaitingCleanUp + 1
  /\ UNCHANGED <<memory, uxCurrentNumberOfTasks>> /\ answer' = NoAnswer /\ Witness

\* The idle task.  A handle is not used once its TCB may be gone.
prvCheckTasksWaitingTermination(t) ==
  /\ Others /\ uxDeletedTasksWaitingCleanUp > 0
  /\ container[t] = "termination"
  /\ (dynamic[t] /\ call # NoCall) => call.task # t
  /\ OffItsLists(t, IF dynamic[t] THEN "unknown" ELSE "none")
  /\ uxCurrentNumberOfTasks' = uxCurrentNumberOfTasks - 1
  /\ uxDeletedTasksWaitingCleanUp' = uxDeletedTasksWaitingCleanUp - 1
  /\ heap' = prvDeleteTCB(t)
  /\ answer' = NoAnswer /\ UNCHANGED dynamic /\ Witness

\* The memory of a static thread is used again.
StorageTakenBack(t) ==
  /\ call.fn = "none" /\ container[t] = "none"
  /\ container' = [container EXCEPT ![t] = "unknown"]
  /\ answer' = NoAnswer
  /\ UNCHANGED <<event, notify, suspended, memory, counts, call>>

--------------------
(* osThreadNew.                                                               *)

Begin(fn, t, at) ==
  call = NoCall /\ call' = [fn |-> fn, task |-> t, at |-> at]

Return(result) == call' = NoCall /\ answer' = result

\* prvInitialiseNewTask and prvAddNewTaskToReadyList.
NewTask(t) ==
  /\ container' = [container EXCEPT ![t] = "ready"]
  /\ uxCurrentNumberOfTasks' = uxCurrentNumberOfTasks + 1
  /\ UNCHANGED <<event, notify, suspended, uxDeletedTasksWaitingCleanUp>>

\* Memory of the caller's, mem = 1: xTaskCreateStatic.
osThreadNewStatic(t) ==
  /\ call = NoCall /\ container[t] = "unknown" /\ t # Self
  /\ dynamic' = [dynamic EXCEPT ![t] = FALSE]
  /\ NewTask(t) /\ Return([fn |-> "osThreadNew", task |-> t])
  /\ UNCHANGED heap

\* mem = -1, a priority that is none, osThreadJoinable: nothing is tried.
osThreadNewRefused ==
  /\ call = NoCall
  /\ Return([fn |-> "osThreadNew", task |-> "NULL"])
  /\ UNCHANGED <<kernel, memory, counts>>

\* mem = 0, xTaskCreate: first the stack.
osThreadNewDynamic(t) ==
  /\ container[t] = "unknown" /\ t # Self
  /\ \/ /\ Begin("xTaskCreate", t, "tcb")
        /\ heap' = heap \cup {<<t, "stack">>} /\ answer' = NoAnswer
     \/ /\ call = NoCall
        /\ Return([fn |-> "osThreadNew", task |-> "NULL"]) /\ UNCHANGED heap
  /\ UNCHANGED <<kernel, dynamic, counts>>

\* Then the TCB; without it the stack goes back.
xTaskCreate ==
  /\ call.fn = "xTaskCreate"
  /\ LET t == call.task IN
       \/ /\ heap' = heap \cup {<<t, "tcb">>}
          /\ dynamic' = [dynamic EXCEPT ![t] = TRUE]
          /\ NewTask(t) /\ Return([fn |-> "osThreadNew", task |-> t])
       \/ /\ heap' = heap \ {<<t, "stack">>}
          /\ Return([fn |-> "osThreadNew", task |-> "NULL"])
          /\ UNCHANGED <<kernel, dynamic, counts>>

--------------------
(* eTaskGetState, and the two functions that ask it.                          *)

\* In a critical section, the list the task is in.
eTaskGetState(t, by) ==
  /\ call = NoCall /\ container[t] # "unknown"
  /\ by = "osThreadTerminate" => t \notin Exiting /\ t # Self
  /\ call' = [fn |-> "eTaskGetState", task |-> t, at |-> "list", by |-> by,
              list |-> container[t], seen |-> StatesOf(t)]
  /\ answer' = NoAnswer /\ UNCHANGED <<kernel, memory, counts>>

\* Without one, whether the task is on the event list of an object.
ReadEventList ==
  /\ call.fn = "eTaskGetState" /\ call.at = "list"
  /\ call' = [call EXCEPT !.at = IF call.list = "suspended" /\ event[call.task] = "none"
                                   THEN "notify" ELSE "done"]
  /\ answer' = NoAnswer /\ UNCHANGED <<kernel, memory, counts>>

\* Mutant: a task that waits for a notification is not told from a suspended one.
DeafReturn(list, at, waiting) ==
  CASE list = "suspended" /\ at = "notify" -> "eSuspended"
    [] list = "delayed" \/ (list = "suspended" /\ at = "done") -> "eBlocked"
    [] list \in {"termination", "none"} -> "eDeleted"
    [] list = "ready" -> "eReady"

\* What the answer is, of the list and of whether the task waits for a notification.
eReturn(list, at, waiting) ==
  CASE list = "suspended" /\ at = "notify" -> IF waiting THEN "eBlocked" ELSE "eSuspended"
    [] list = "delayed" \/ (list = "suspended" /\ at = "done") -> "eBlocked"
    [] list \in {"termination", "none"} -> "eDeleted"
    [] list = "ready" -> "eReady"

Answered == IF call.task = Self THEN "eRunning"
            ELSE eReturn(call.list, call.at, notify[call.task])

osThreadGetState ==
  /\ call.fn = "eTaskGetState" /\ call.at # "list" /\ call.by = "osThreadGetState"
  /\ Return([fn |-> "osThreadGetState", state |-> Answered, seen |-> call.seen])
  /\ UNCHANGED <<kernel, memory, counts>>

\* The task may have gone on since it was asked for its state.
osThreadTerminate ==
  /\ call.fn = "eTaskGetState" /\ call.at # "list" /\ call.by = "osThreadTerminate"
  /\ LET t == call.task IN
       IF Answered = "eDeleted"
         THEN /\ Return([fn |-> "osThreadTerminate", status |-> "osErrorResource"])
              /\ UNCHANGED <<kernel, memory, counts>>
         ELSE /\ OffItsLists(t, IF dynamic[t] THEN "unknown" ELSE "none")
              /\ heap' = prvDeleteTCB(t)
              /\ uxCurrentNumberOfTasks' = uxCurrentNumberOfTasks - 1
              /\ Return([fn |-> "osThreadTerminate", status |-> "osOK"])
              /\ UNCHANGED <<dynamic, uxDeletedTasksWaitingCleanUp>>

--------------------
(* The lists of all tasks, with the scheduler suspended.                      *)

SystemStateOrder == <<"ready", "delayed", "termination", "suspended">>
SearchOrder == <<"ready", "delayed", "suspended", "termination">>

\* The array has space for as many as there were when the caller asked.
uxTaskGetSystemState(size) ==
  /\ call = NoCall
  /\ call' = [fn |-> "uxTaskGetSystemState", task |-> Self,
              full |-> size >= uxCurrentNumberOfTasks,
              lists |-> IF size >= uxCurrentNumberOfTasks THEN SystemStateOrder ELSE <<>>,
              array |-> {}, items |-> 0]
  /\ answer' = NoAnswer /\ UNCHANGED <<kernel, memory, counts>>

\* The scheduler is suspended before it asks; with no memory for the array it
\* returns the number of all threads, whatever the caller has space for.
osThreadEnumerate ==
  /\ call = NoCall
  /\ \/ /\ Return([fn |-> "osThreadEnumerate", count |-> uxCurrentNumberOfTasks])
        /\ UNCHANGED kernel
     \/ /\ call' = [fn |-> "uxTaskGetSystemState", task |-> Self, full |-> TRUE,
                    lists |-> SystemStateOrder, array |-> {}, items |-> ArrayItems]
        /\ answer' = NoAnswer /\ UNCHANGED kernel
  /\ UNCHANGED <<memory, counts>>

Reports(list) ==
  CASE list = "ready" -> "eReady" [] list = "delayed" -> "eBlocked"
    [] list = "termination" -> "eDeleted" [] list = "suspended" -> "eSuspended"

\* Mutant: what is in the suspended list is suspended.
InfoOfList(t, eState) == IF t = Self THEN "eRunning" ELSE eState

\* eCurrentState of vTaskGetInfo.
vTaskGetInfo(t, eState) ==
  IF t = Self THEN "eRunning"
  ELSE IF eState = "eSuspended" /\ event[t] # "none" THEN "eBlocked" ELSE eState

prvListTasksWithinSingleList ==
  /\ call.fn = "uxTaskGetSystemState" /\ call.lists # <<>>
  /\ LET list == Head(call.lists) IN
       call' = [call EXCEPT !.lists = Tail(@),
                  !.array = @ \cup {<<t, vTaskGetInfo(t, Reports(list))>> :
                                      t \in {u \in Task : container[u] = list}}]
  /\ answer' = NoAnswer /\ UNCHANGED <<kernel, memory, counts>>

\* osThreadEnumerate keeps what the caller has space for.
SystemStateReturns ==
  /\ call.fn = "uxTaskGetSystemState" /\ call.lists = <<>>
  /\ ResumeAll
  /\ LET count == Cardinality(call.array) IN
       Return([fn |-> "osThreadEnumerate",
               count |-> IF call.items \in 1..count THEN call.items ELSE count])
  /\ UNCHANGED <<memory, counts>>

\* One thread has the name.  The lists are searched one by one.
xTaskGetHandle(t) ==
  /\ call = NoCall
  /\ call' = [fn |-> "xTaskGetHandle", task |-> t, lists |-> SearchOrder]
  /\ answer' = NoAnswer /\ UNCHANGED <<kernel, memory, counts>>

\* Until the name is found: then the handle is returned, or NULL.
prvSearchForNameWithinSingleList ==
  /\ call.fn = "xTaskGetHandle"
  /\ \/ /\ call.lists = <<>>
        /\ Return([fn |-> call.fn, found |-> FALSE, exists |-> Listed(call.task)])
        /\ ResumeAll
     \/ /\ call.lists # <<>> /\ container[call.task] = Head(call.lists)
        /\ Return([fn |-> call.fn, found |-> TRUE, exists |-> Listed(call.task)])
        /\ ResumeAll
     \/ /\ call.lists # <<>> /\ container[call.task] # Head(call.lists)
        /\ call' = [call EXCEPT !.lists = Tail(@)]
        /\ answer' = NoAnswer /\ UNCHANGED kernel
  /\ UNCHANGED <<memory, counts>>

--------------------

CallOfSelf ==
  \/ \E t \in Task : \/ osThreadNewStatic(t) \/ osThreadNewDynamic(t)
                     \/ eTaskGetState(t, "osThreadGetState")
                     \/ eTaskGetState(t, "osThreadTerminate") \/ xTaskGetHandle(t)
  \/ osThreadNewRefused \/ xTaskCreate
  \/ ReadEventList \/ osThreadGetState \/ osThreadTerminate
  \/ \E size \in 1..Cardinality(Task) : uxTaskGetSystemState(size)
  \/ osThreadEnumerate
  \/ prvListTasksWithinSingleList \/ SystemStateReturns
  \/ prvSearchForNameWithinSingleList

OtherThreads(t) ==
  \/ \E list \in {"delayed", "suspended"}, on \in {"nothing", "object", "notification"} :
       Blocks(t, list, on)
  \/ EventOccurs(t) \/ NotificationArrives(t) \/ TimeOut(t)
  \/ osThreadSuspend(t) \/ osThreadResume(t)
  \/ osThreadExit(t) \/ prvCheckTasksWaitingTermination(t) \/ StorageTakenBack(t)

Next == CallOfSelf \/ \E t \in Thread : OtherThreads(t)

Spec == Init /\ [][Next]_vars

--------------------

\* Whatever failed and whoever ended a thread, its stack and its TCB are on the
\* heap from the first malloc to its end and no longer, and the two counts are
\* those of the lists: tasks.c:733-823, 3900-3951.
ThreadsAccounted ==
  /\ heap = {m \in Task \X {"stack", "tcb"} :
               \/ dynamic[m[1]] /\ container[m[1]] # "unknown"
               \/ m[2] = "stack" /\ call.fn = "xTaskCreate" /\ call.task = m[1]}
  /\ uxCurrentNumberOfTasks = Cardinality({t \in Task : Listed(t)})
  /\ uxDeletedTasksWaitingCleanUp =
       Cardinality({t \in Task : container[t] = "termination"})

\* A thread whose state does not change while it is asked for has the state that
\* is answered; of one that goes on meanwhile it is a state it was in, or
\* eSuspended when it was blocked: tasks.c:1405-1450, read in three steps.
StateIsOneItHad ==
  answer.fn = "osThreadGetState" =>
    \/ answer.state \in answer.seen
    \/ answer.state = "eSuspended" /\ {"eBlocked", "eReady"} \subseteq answer.seen

\* The system state lists every thread there is, once, as it is, although
\* interrupts ready threads while it is collected, and xTaskGetHandle finds what
\* is there.  A wait for a notification is not told from a suspension.
AllReported ==
  /\ call.fn = "uxTaskGetSystemState" /\ call.lists = <<>> /\ call.full =>
       /\ Cardinality(call.array) = uxCurrentNumberOfTasks
       /\ {e[1] : e \in call.array} = {t \in Task : Listed(t)}
       /\ \A e \in call.array :
            \/ e[2] \in StatesOf(e[1])
            \/ e[2] = "eSuspended" /\ container[e[1]] = "suspended"
                 /\ event[e[1]] # "object"
  /\ answer.fn = "xTaskGetHandle" => answer.found = answer.exists
=============================================================================
