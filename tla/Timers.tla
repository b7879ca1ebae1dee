------------------------------- MODULE Timers -------------------------------
(***************************************************************************)
(* The software timers of timers.c: the daemon task, its two lists of      *)
(* timers, its command queue, the tasks and callbacks that send commands.  *)
(*                                                                         *)
(* Times are modular.  Beside them the model keeps what they stand for:    *)
(* due, the ticks left to a timer's expiry, and the age of a command, both *)
(* counted without wrapping.  They are only read by the properties and by  *)
(* the bounds on the tick: the scheme of two lists assumes that no command *)
(* and no expired timer waits for a good part of the tick count's range.   *)
(*                                                                         *)
(* The lists are the daemon's own: what it does to one timer is one step.  *)
(* Ticks and other tasks come between its steps, and between the moment a  *)
(* sender reads the tick count and the moment its command is queued.       *)
(***************************************************************************)
EXTENDS Integers, Sequences

CONSTANTS Timer, Sender,
          Interrupt,        \* the senders that are interrupts
          TickMod,          \* values of TickType_t
          configTIMER_QUEUE_LENGTH,
          configASSERT_DEFINED, \* whether a failed configASSERT halts
          AutoReload,       \* the timers created with uxAutoReload
          Static,           \* the timers created by xTimerCreateStatic
          Period,           \* the period each timer is created with
          SenderCommands,   \* what tasks and interrupts send: [cmd, timer, arg]
          CallbackCommands, \* what timer callbacks send
          MayChangeMode,    \* whether vTimerSetReloadMode is called
          InitialTick,
          LateBound,        \* bound: the most an expired timer is left waiting
          AgeBound          \* bound: the oldest a command gets

VARIABLES xTickCount,
          xLastTime,        \* prvSampleTimeNow's previous sample
          timer,            \* Timer_t, per timer
          xTimerQueue,
          daemon,           \* where the daemon is, and its locals
          sender            \* per sender, the command it is sending

vars == <<xTickCount, xLastTime, timer, xTimerQueue, daemon, sender>>

Tick == 0..(TickMod - 1)
Forever == TickMod   \* a sleep that only a command ends

Command == {"start", "reset", "stop", "changePeriod", "delete", "execute",
            "startDontTrace", "none"}
NoTimer == "no timer"
Message == [cmd : Command, timer : Timer \cup {NoTimer}, value : Tick,
            age : 0..AgeBound]
NoMessage == [cmd |-> "none", timer |-> NoTimer, value |-> 0, age |-> 0]

\* The longest period whose expiry, found at the latest, is within the tick
\* count's range.
Longest == TickMod - 1 - LateBound

\* What tasks and callbacks may ask for (timers.h): a timer, except to pend a
\* function, and a period that is not too long to be told from one passed.
Requests(C) ==
  /\ C \subseteq [cmd : {"start", "reset", "stop", "changePeriod", "delete",
                         "execute"},
                  timer : Timer \cup {NoTimer}, arg : Tick]
  /\ \A c \in C : /\ c.cmd # "execute" => c.timer \in Timer
                  /\ c.cmd = "changePeriod" => c.arg \in 1..Longest

\* What the scheme of two lists takes for granted; the ages of commands are as
\* bounded as the expired timers' waits.
TimersFit ==
  /\ TickMod \in Nat /\ LateBound \in Nat /\ AgeBound \in Nat
  /\ LateBound <= AgeBound /\ AgeBound <= LateBound + 1 /\ AgeBound < TickMod
  /\ configTIMER_QUEUE_LENGTH \in Nat /\ InitialTick \in Tick
  /\ NoTimer \notin Timer
  /\ Period \in [Timer -> 1..Longest]
  /\ Requests(SenderCommands) /\ Requests(CallbackCommands)

\* list is the list that holds xTimerListItem, value its item value while it is
\* listed.
TimerRecord == [list : {"none", "current", "overflow"}, value : Tick,
                xTimerPeriodInTicks : Tick, active : BOOLEAN, auto : BOOLEAN,
                allocated : BOOLEAN, due : -LateBound..TickMod]

\* A failed configASSERT halts the system at "asserted"; after a freed timer is
\* used, at "undefined", anything may happen.
\* "switch" is the loop of prvSwitchTimerLists, "switched" its second half, for
\* one timer, "apply" a command's switch statement, "repost" what a start does
\* after its callback.  then and after say what follows callback and switch.
Daemon == [at : {"next", "sample", "blocked", "expired", "commands", "received",
                 "switch", "callback", "switched", "apply", "repost",
                 "asserted", "undefined"},
           xNextExpireTime : Tick, xListWasEmpty : BOOLEAN, xTimeNow : Tick,
           sleep : 0..Forever, msg : Message, timer : Timer \cup {NoTimer},
           then : {"commands", "switched", "repost"},
           after : {"commands", "apply"}]

\* The daemon at a place where its locals do not matter.
DaemonAt(at) ==
  [at |-> at, xNextExpireTime |-> 0, xListWasEmpty |-> FALSE, xTimeNow |-> 0,
   sleep |-> 0, msg |-> NoMessage, timer |-> NoTimer, then |-> "commands",
   after |-> "commands"]

TypeOK ==
  /\ xTickCount \in Tick
  /\ xLastTime \in Tick
  /\ timer \in [Timer -> TimerRecord]
  /\ xTimerQueue \in Seq(Message)
  /\ Len(xTimerQueue) <= configTIMER_QUEUE_LENGTH
  /\ daemon \in Daemon
  /\ sender \in [Sender -> Message]

\* prvInitialiseNewTimer.
NewTimer(tm) ==
  [list |-> "none", value |-> 0, xTimerPeriodInTicks |-> Period[tm],
   active |-> FALSE, auto |-> tm \in AutoReload, allocated |-> TRUE, due |-> 0]

Init ==
  /\ xTickCount = InitialTick
  /\ xLastTime = 0
  /\ timer = [tm \in Timer |-> NewTimer(tm)]
  /\ xTimerQueue = <<>>
  /\ daemon = DaemonAt("next")
  /\ sender = [s \in Sender |-> NoMessage]

--------------------
(* The lists.                                                              *)

On(list) == {tm \in Timer : timer[tm].list = list}

HeadsOf(list) == {tm \in On(list) :
                    \A u \in On(list) : timer[tm].value <= timer[u].value}

\* Mutant: a time beyond the wrap goes on the current list too.
PlaceOnCurrent(next, now, cmdTime, period) ==
  IF \/ next <= now /\ (now - cmdTime + TickMod) % TickMod >= period
     \/ next > now /\ now < cmdTime /\ next >= cmdTime
    THEN "now"
    ELSE "current"

\* prvInsertTimerInActiveList: the list, or that the timer has expired already.
Place(next, now, cmdTime, period) ==
  IF next <= now
    THEN IF (now - cmdTime + TickMod) % TickMod >= period THEN "now"
         ELSE "overflow"
    ELSE IF now < cmdTime /\ next >= cmdTime THEN "now"
         ELSE "current"

\* uxListRemove.
Removed(tm) == [tm EXCEPT !.list = "none", !.value = 0, !.due = 0]

\* tm after prvInsertTimerInActiveList.
Inserted(tm, next, place, due) ==
  [tm EXCEPT !.value = IF place = "now" THEN 0 ELSE next % TickMod,
             !.list = IF place = "now" THEN "none" ELSE place,
             !.due = IF place = "now" THEN 0 ELSE due]

--------------------
(* Senders: xTimerGenericCommand.                                          *)

\* What the macros pass as xOptionalValue.
MessageFor(c) ==
  [cmd |-> c.cmd, timer |-> c.timer, age |-> 0,
   value |-> CASE c.cmd \in {"start", "reset"} -> xTickCount
               [] c.cmd = "changePeriod" -> c.arg
               [] OTHER -> 0]

\* Commands on their way to the daemon.
InFlight == {xTimerQueue[i] : i \in DOMAIN xTimerQueue} \cup {daemon.msg}
              \cup {sender[s] : s \in Sender}

\* A caller owns the timer: it does not use one that it, or another, deletes.
MayCommand(c) ==
  c.timer # NoTimer =>
    /\ timer[c.timer].allocated
    /\ \A m \in InFlight : m.timer = c.timer =>
         m.cmd = "startDontTrace"
           \/ (m.cmd # "delete" /\ c.cmd # "delete")

\* The message is made, with the tick count of this moment.
xTimerGenericCommand(s, c) ==
  /\ sender[s] = NoMessage
  /\ MayCommand(c)
  /\ sender' = [sender EXCEPT ![s] = MessageFor(c)]
  /\ UNCHANGED <<xTickCount, xLastTime, timer, xTimerQueue, daemon>>

Wake == IF daemon.at = "blocked" THEN DaemonAt("commands") ELSE daemon

\* No other task runs while the scheduler is suspended: the callbacks of
\* prvSwitchTimerLists run so when it is called from prvProcessTimerOrBlockTask.
Suspended == \/ daemon.at \in {"switch", "switched"} /\ daemon.after = "commands"
             \/ /\ daemon.at = "callback" /\ daemon.then = "switched"
                /\ daemon.after = "commands"

\* It is queued, now or when there is room, or the wait for room is given up.
xQueueSendToBack(s) ==
  /\ sender[s] # NoMessage
  /\ Suspended => s \in Interrupt
  /\ Len(xTimerQueue) < configTIMER_QUEUE_LENGTH
  /\ xTimerQueue' = Append(xTimerQueue, sender[s])
  /\ daemon' = Wake
  /\ sender' = [sender EXCEPT ![s] = NoMessage]
  /\ UNCHANGED <<xTickCount, xLastTime, timer>>

GiveUp(s) ==
  /\ sender[s] # NoMessage
  /\ ~Suspended
  /\ Len(xTimerQueue) = configTIMER_QUEUE_LENGTH
  /\ sender' = [sender EXCEPT ![s] = NoMessage]
  /\ UNCHANGED <<xTickCount, xLastTime, timer, xTimerQueue, daemon>>

\* ucStatus is rewritten by the daemon, which is not in a critical section
\* then: it may have loaded the byte before this change and store it after.
DaemonRewrites(tm) ==
  \/ daemon.at = "apply" /\ daemon.msg.timer = tm
  \/ daemon.at = "expired" /\ tm \in HeadsOf("current")

vTimerSetReloadMode(tm, uxAutoReload) ==
  /\ MayChangeMode /\ timer[tm].allocated /\ ~Suspended
  /\ \/ timer' = [timer EXCEPT ![tm].auto = uxAutoReload]
     \/ DaemonRewrites(tm) /\ UNCHANGED timer
  /\ UNCHANGED <<xTickCount, xLastTime, xTimerQueue, daemon, sender>>

\* The timer may be created again once nothing refers to the old one.
xTimerCreate(tm) ==
  /\ ~timer[tm].allocated
  /\ \A m \in InFlight : m.timer # tm
  /\ timer' = [timer EXCEPT ![tm] = NewTimer(tm)]
  /\ UNCHANGED <<xTickCount, xLastTime, xTimerQueue, daemon, sender>>

--------------------
(* The daemon.                                                             *)

prvGetNextExpireTime ==
  /\ daemon.at = "next"
  /\ daemon' =
       [DaemonAt("sample") EXCEPT
          !.xListWasEmpty = On("current") = {},
          !.xNextExpireTime = IF On("current") = {} THEN 0
                              ELSE timer[CHOOSE tm \in HeadsOf("current") :
                                           TRUE].value]
  /\ UNCHANGED <<xTickCount, xLastTime, timer, xTimerQueue, sender>>

\* prvProcessTimerOrBlockTask finds that the tick count has wrapped.
SampleSeesWrap ==
  /\ daemon.at = "sample"
  /\ xTickCount < xLastTime
  /\ xLastTime' = xTickCount
  /\ daemon' = [DaemonAt("switch") EXCEPT !.xTimeNow = xTickCount]
  /\ UNCHANGED <<xTickCount, timer, xTimerQueue, sender>>

SampleSeesExpiry ==
  /\ daemon.at = "sample"
  /\ xTickCount >= xLastTime
  /\ ~daemon.xListWasEmpty
  /\ daemon.xNextExpireTime <= xTickCount
  /\ xLastTime' = xTickCount
  /\ daemon' = [daemon EXCEPT !.at = "expired", !.xTimeNow = xTickCount]
  /\ UNCHANGED <<xTickCount, timer, xTimerQueue, sender>>

\* How long vQueueWaitForMessageRestricted blocks: to the next expiry, with
\* timers on the overflow list only to the wrap, without timers until a command
\* comes.  A delay of no ticks ends with the next tick.
Sleep ==
  LET delay == (daemon.xNextExpireTime - xTickCount + TickMod) % TickMod
  IN  IF daemon.xListWasEmpty /\ On("overflow") = {} THEN Forever
      ELSE IF delay = 0 THEN 1 ELSE delay

BlockOrGoOn ==
  /\ daemon.at = "sample"
  /\ xTickCount >= xLastTime
  /\ daemon.xListWasEmpty \/ daemon.xNextExpireTime > xTickCount
  /\ xLastTime' = xTickCount
  /\ daemon' = IF xTimerQueue = <<>>
                 THEN [DaemonAt("blocked") EXCEPT !.sleep = Sleep]
                 ELSE DaemonAt("commands")
  /\ UNCHANGED <<xTickCount, timer, xTimerQueue, sender>>

\* Mutant: the command is queued whether there is room or not.
RestartRegardless(timers, tm, value, age, daemonThen) ==
  /\ xTimerQueue' = Append(xTimerQueue,
          [cmd |-> "startDontTrace", timer |-> tm, value |-> value % TickMod,
           age |-> age])
  /\ timer' = timers
  /\ daemon' = daemonThen

\* The daemon starts a timer again through its own queue, without waiting; the
\* timers and the place to go on from are the caller's.
Restart(timers, tm, value, age, daemonThen) ==
  IF Len(xTimerQueue) < configTIMER_QUEUE_LENGTH
    THEN /\ xTimerQueue' = Append(xTimerQueue,
                [cmd |-> "startDontTrace", timer |-> tm,
                 value |-> value % TickMod, age |-> age])
         /\ timer' = timers
         /\ daemon' = daemonThen
    ELSE /\ timer' = timers
         /\ daemon' = IF configASSERT_DEFINED THEN DaemonAt("asserted")
                      ELSE daemonThen
         /\ UNCHANGED xTimerQueue

CallbackOf(tm, then) ==
  [daemon EXCEPT !.at = "callback", !.timer = tm, !.then = then]

\* Mutant: an auto-reload timer is taken off the list as a one-shot is.
ProcessExpiredAsOneShot ==
  /\ daemon.at = "expired"
  /\ \E tm \in HeadsOf("current") :
       /\ timer' = [timer EXCEPT ![tm] = Removed(@)]
       /\ daemon' = [DaemonAt("callback") EXCEPT !.timer = tm]
  /\ UNCHANGED <<xTickCount, xLastTime, xTimerQueue, sender>>

prvProcessExpiredTimer ==
  /\ daemon.at = "expired"
  /\ \E tm \in HeadsOf("current") :
       LET rec == Removed(timer[tm])
           period == rec.xTimerPeriodInTicks
           next == (daemon.xNextExpireTime + period) % TickMod
           place == Place(next, daemon.xTimeNow, daemon.xNextExpireTime, period)
           due == timer[tm].due + period
           calls == [DaemonAt("callback") EXCEPT !.timer = tm]
       IN  IF ~rec.auto
             THEN /\ timer' = [timer EXCEPT ![tm] =
                                  [rec EXCEPT !.active = FALSE]]
                  /\ daemon' = calls
                  /\ UNCHANGED xTimerQueue
           ELSE IF place = "now"
             THEN Restart([timer EXCEPT ![tm] = Inserted(rec, next, place, due)],
                          tm, daemon.xNextExpireTime, -timer[tm].due, calls)
           ELSE /\ timer' = [timer EXCEPT ![tm] = Inserted(rec, next, place, due)]
                /\ daemon' = calls
                /\ UNCHANGED xTimerQueue
  /\ UNCHANGED <<xTickCount, xLastTime, sender>>

\* Where a callback returns to.
AfterCallback == IF daemon.then = "commands" THEN DaemonAt("commands")
                 ELSE [daemon EXCEPT !.at = daemon.then, !.then = "commands"]

pxCallbackFunction ==
  /\ daemon.at = "callback"
  /\ daemon' = AfterCallback
  /\ \/ UNCHANGED xTimerQueue
     \/ \E c \in CallbackCommands :
          /\ MayCommand(c)
          /\ Len(xTimerQueue) < configTIMER_QUEUE_LENGTH
          /\ xTimerQueue' = Append(xTimerQueue, MessageFor(c))
  /\ UNCHANGED <<xTickCount, xLastTime, timer, sender>>

--------------------
(* prvSwitchTimerLists: what is left on the current list expired before the *)
(* wrap.                                                                   *)

SwitchTakesHead ==
  /\ daemon.at = "switch"
  /\ \E tm \in HeadsOf("current") :
       /\ timer' = [timer EXCEPT ![tm].list = "none", ![tm].value = 0]
       /\ daemon' = [CallbackOf(tm, "switched") EXCEPT
                       !.xNextExpireTime = timer[tm].value]
  /\ UNCHANGED <<xTickCount, xLastTime, xTimerQueue, sender>>

\* A reload time before the wrap has passed too: the timer goes back.
SwitchReloads ==
  LET tm == daemon.timer
      rec == timer[tm]
      reload == (daemon.xNextExpireTime + rec.xTimerPeriodInTicks) % TickMod
      goesOn == [daemon EXCEPT !.at = "switch", !.timer = NoTimer,
                               !.xNextExpireTime = 0]
  IN  /\ daemon.at = "switched"
      /\ IF ~rec.auto
           THEN /\ timer' = [timer EXCEPT ![tm].due = 0]
                /\ daemon' = goesOn
                /\ UNCHANGED xTimerQueue
         ELSE IF reload > daemon.xNextExpireTime
           THEN /\ timer' = [timer EXCEPT ![tm] = Inserted(rec, reload,
                               "current", rec.due + rec.xTimerPeriodInTicks)]
                /\ daemon' = goesOn
                /\ UNCHANGED xTimerQueue
         ELSE Restart([timer EXCEPT ![tm].due = 0], tm, daemon.xNextExpireTime,
                      -rec.due, goesOn)
      /\ UNCHANGED <<xTickCount, xLastTime, sender>>

\* Mutant: the two lists are not exchanged.
SwitchKeepsLists ==
  /\ daemon.at = "switch"
  /\ On("current") = {}
  /\ daemon' = IF daemon.after = "commands" THEN DaemonAt("commands")
               ELSE [daemon EXCEPT !.at = "apply", !.after = "commands"]
  /\ UNCHANGED <<xTickCount, xLastTime, timer, xTimerQueue, sender>>

\* The lists change places.
SwitchLists ==
  /\ daemon.at = "switch"
  /\ On("current") = {}
  /\ timer' = [tm \in Timer |-> IF timer[tm].list = "overflow"
                                 THEN [timer[tm] EXCEPT !.list = "current"]
                                 ELSE timer[tm]]
  /\ daemon' = IF daemon.after = "commands" THEN DaemonAt("commands")
               ELSE [daemon EXCEPT !.at = "apply", !.after = "commands"]
  /\ UNCHANGED <<xTickCount, xLastTime, xTimerQueue, sender>>

--------------------
(* prvProcessReceivedCommands.                                             *)

NoMoreCommands ==
  /\ daemon.at = "commands"
  /\ xTimerQueue = <<>>
  /\ daemon' = DaemonAt("next")
  /\ UNCHANGED <<xTickCount, xLastTime, timer, xTimerQueue, sender>>

\* A function pended by xTimerPendFunctionCall.
ExecutePended ==
  /\ daemon.at = "commands"
  /\ xTimerQueue # <<>>
  /\ Head(xTimerQueue).cmd = "execute"
  /\ xTimerQueue' = Tail(xTimerQueue)
  /\ UNCHANGED <<xTickCount, xLastTime, timer, daemon, sender>>

\* The timer is taken off its list, whatever the command.  A timer that was
\* freed meanwhile is undefined from here.
ReceiveCommand ==
  /\ daemon.at = "commands"
  /\ xTimerQueue # <<>>
  /\ Head(xTimerQueue).cmd # "execute"
  /\ xTimerQueue' = Tail(xTimerQueue)
  /\ LET m == Head(xTimerQueue)
     IN  IF timer[m.timer].allocated
           THEN /\ timer' = [timer EXCEPT ![m.timer] = Removed(@)]
                /\ daemon' = [DaemonAt("received") EXCEPT !.msg = m]
           ELSE daemon' = DaemonAt("undefined") /\ UNCHANGED timer
  /\ UNCHANGED <<xTickCount, xLastTime, sender>>

\* Mutant: the time is sampled without a look at the wrap.
SampleWithoutWrap ==
  /\ daemon.at = "received"
  /\ xLastTime' = xTickCount
  /\ daemon' = [daemon EXCEPT !.xTimeNow = xTickCount, !.at = "apply"]
  /\ UNCHANGED <<xTickCount, timer, xTimerQueue, sender>>

SampleAfterReceive ==
  /\ daemon.at = "received"
  /\ xLastTime' = xTickCount
  /\ daemon' = IF xTickCount < xLastTime
                 THEN [daemon EXCEPT !.xTimeNow = xTickCount, !.at = "switch",
                                     !.after = "apply"]
                 ELSE [daemon EXCEPT !.xTimeNow = xTickCount, !.at = "apply"]
  /\ UNCHANGED <<xTickCount, timer, xTimerQueue, sender>>

\* Start and reset: the period counts from the time of the command.
Start ==
  LET m == daemon.msg
      rec == [timer[m.timer] EXCEPT !.active = TRUE]
      next == (m.value + rec.xTimerPeriodInTicks) % TickMod
      place == Place(next, daemon.xTimeNow, m.value, rec.xTimerPeriodInTicks)
  IN  /\ daemon.at = "apply"
      /\ m.cmd \in {"start", "reset", "startDontTrace"}
      /\ timer' = [timer EXCEPT ![m.timer] =
           Inserted(rec, next, place, rec.xTimerPeriodInTicks - m.age)]
      /\ daemon' = IF place = "now" THEN CallbackOf(m.timer, "repost")
                   ELSE DaemonAt("commands")
      /\ UNCHANGED <<xTickCount, xLastTime, xTimerQueue, sender>>

\* It had expired already: after its callback it is started again.
RestartAfterLateStart ==
  LET m == daemon.msg
      period == timer[m.timer].xTimerPeriodInTicks
  IN  /\ daemon.at = "repost"
      /\ IF timer[m.timer].auto
           THEN Restart(timer, m.timer, m.value + period, m.age - period,
                        DaemonAt("commands"))
           ELSE /\ daemon' = DaemonAt("commands")
                /\ UNCHANGED <<timer, xTimerQueue>>
      /\ UNCHANGED <<xTickCount, xLastTime, sender>>

Stop ==
  /\ daemon.at = "apply"
  /\ \/ daemon.msg.cmd = "stop"
     \/ daemon.msg.cmd = "delete" /\ daemon.msg.timer \in Static
  /\ timer' = [timer EXCEPT ![daemon.msg.timer].active = FALSE]
  /\ daemon' = DaemonAt("commands")
  /\ UNCHANGED <<xTickCount, xLastTime, xTimerQueue, sender>>

\* The new period counts from now.
ChangePeriod ==
  LET m == daemon.msg
      next == (daemon.xTimeNow + m.value) % TickMod
      rec == [timer[m.timer] EXCEPT !.active = TRUE,
                                    !.xTimerPeriodInTicks = m.value]
  IN  /\ daemon.at = "apply"
      /\ m.cmd = "changePeriod"
      /\ timer' = [timer EXCEPT ![m.timer] =
           Inserted(rec, next,
                    Place(next, daemon.xTimeNow, daemon.xTimeNow, m.value),
                    m.value - m.age)]
      /\ daemon' = DaemonAt("commands")
      /\ UNCHANGED <<xTickCount, xLastTime, xTimerQueue, sender>>

\* vPortFree.
Delete ==
  /\ daemon.at = "apply"
  /\ daemon.msg.cmd = "delete"
  /\ daemon.msg.timer \notin Static
  /\ timer' = [timer EXCEPT ![daemon.msg.timer] =
                 [NewTimer(daemon.msg.timer) EXCEPT !.allocated = FALSE]]
  /\ daemon' = DaemonAt("commands")
  /\ UNCHANGED <<xTickCount, xLastTime, xTimerQueue, sender>>

--------------------
(* The tick.                                                               *)

\* The timers time counts for: listed, or in the hands of the list switch.
Counted(tm) == \/ timer[tm].list # "none"
               \/ /\ daemon.timer = tm
                  /\ daemon.at = "switched" \/ daemon.then = "switched"

\* The age of a command that carries a time.
Older(m) == IF m.cmd \in {"start", "reset", "startDontTrace"}
              THEN [m EXCEPT !.age = @ + 1] ELSE m

\* The age of the command in the daemon's hands: the others carry the time the
\* daemon has sampled.
OlderReceived ==
  IF daemon.msg = NoMessage THEN NoMessage
  ELSE IF daemon.at = "received" THEN Older(daemon.msg)
  ELSE [daemon.msg EXCEPT !.age = @ + 1]

xTaskIncrementTick ==
  /\ ~Suspended
  /\ \A tm \in Timer : Counted(tm) => timer[tm].due > -LateBound
  /\ \A m \in InFlight : m.age < AgeBound
  /\ xTickCount' = (xTickCount + 1) % TickMod
  /\ timer' = [tm \in Timer |-> IF Counted(tm)
                                 THEN [timer[tm] EXCEPT !.due = @ - 1]
                                 ELSE timer[tm]]
  /\ xTimerQueue' = [i \in DOMAIN xTimerQueue |-> Older(xTimerQueue[i])]
  /\ sender' = [s \in Sender |-> Older(sender[s])]
  /\ daemon' = IF daemon.at # "blocked" \/ daemon.sleep = Forever
                 THEN [daemon EXCEPT !.msg = OlderReceived]
               ELSE IF daemon.sleep = 1 THEN DaemonAt("commands")
               ELSE [daemon EXCEPT !.sleep = @ - 1]
  /\ UNCHANGED xLastTime

--------------------

TimerTask ==
  \/ prvGetNextExpireTime \/ SampleSeesWrap \/ SampleSeesExpiry \/ BlockOrGoOn
  \/ prvProcessExpiredTimer \/ pxCallbackFunction
  \/ SwitchTakesHead \/ SwitchReloads \/ SwitchLists
  \/ NoMoreCommands \/ ExecutePended \/ ReceiveCommand \/ SampleAfterReceive
  \/ Start \/ RestartAfterLateStart \/ Stop \/ ChangePeriod \/ Delete

SenderStep(s) == \/ \E c \in SenderCommands : xTimerGenericCommand(s, c)
                 \/ xQueueSendToBack(s)
                 \/ GiveUp(s)

Next ==
  /\ daemon.at \notin {"asserted", "undefined"}
  /\ \/ TimerTask
     \/ xTaskIncrementTick
     \/ \E s \in Sender : SenderStep(s)
     \/ \E tm \in Timer : \/ \E mode \in BOOLEAN : vTimerSetReloadMode(tm, mode)
                          \/ xTimerCreate(tm)

Spec == Init /\ [][Next]_vars

\* The daemon's priority keeps it from starving, time goes on, and no sender is
\* kept from the queue for ever.
Fairness == /\ WF_vars(TimerTask) /\ WF_vars(xTaskIncrementTick)
            /\ \A s \in Sender : WF_vars(xQueueSendToBack(s) \/ GiveUp(s))

--------------------

\* A callback is called when its timer is due, not before, whatever wrapped
\* between the command, the expiry and the daemon's look at the time
\* (timers.c:602, 702, 719, 895).
NeverEarly ==
  [][daemon.at # "callback" /\ daemon'.at = "callback"
     => IF daemon.at = "apply"
          THEN timer[daemon.msg.timer].xTimerPeriodInTicks <= daemon.msg.age
          ELSE timer[daemon'.timer].due <= 0]_vars

\* The item value and the list together tell when a timer is due: the current
\* list up to the wrap that follows the daemon's last sample of the time, the
\* overflow list beyond (timers.c:702, 719, 917, 937).
RightList ==
  LET wrapsPassed == IF xTickCount < xLastTime
                        \/ daemon.at \in {"switch", "switched"}
                        \/ daemon.then = "switched"
                       THEN 1 ELSE 0
  IN  daemon.at \notin {"asserted", "undefined"} => \A tm \in Timer :
        LET fromNow == timer[tm].value - xTickCount
        IN  /\ timer[tm].list = "current" =>
                 timer[tm].due = fromNow - wrapsPassed * TickMod
            /\ timer[tm].list = "overflow" =>
                 timer[tm].due = fromNow + (1 - wrapsPassed) * TickMod

\* The daemon does not sleep past the expiry of a timer (timers.c:619, 622).
SleepsTillDue ==
  daemon.at = "blocked" =>
    \A tm \in Timer : timer[tm].list # "none" => daemon.sleep <= timer[tm].due

\* Every listed timer is found when it is due, across overflows
\* (timers.c:602, 622, 702).
TimersOnTime == RightList /\ SleepsTillDue

\* A timer on a list is one that xTimerIsTimerActive reports active, and one
\* that is freed is on no list.
ListedIsActive ==
  \A tm \in Timer : timer[tm].list # "none" =>
                       timer[tm].active /\ timer[tm].allocated

\* An active auto-reload timer goes on: it is listed, or a command that lists
\* it is on its way, or the daemon is at it (timers.c:530, 813, 926).
ActiveReloads ==
  \A tm \in Timer :
    \/ ~timer[tm].active \/ ~timer[tm].auto
    \/ timer[tm].list # "none"
    \/ \E i \in DOMAIN xTimerQueue : /\ xTimerQueue[i].timer = tm
                                      /\ xTimerQueue[i].cmd # "execute"
    \/ tm \in {daemon.timer, daemon.msg.timer}
    \/ daemon.at \in {"asserted", "undefined"}

\* A stop takes effect (timers.h on xTimerStop): a timer that is not active is
\* not about to be started again by the daemon itself.
StopTakesEffect ==
  \A i \in DOMAIN xTimerQueue :
    LET m == xTimerQueue[i]
    IN  m.cmd = "startDontTrace" =>
          \/ timer[m.timer].active
          \/ \E j \in 1..(i - 1) :
               /\ xTimerQueue[j].timer = m.timer
               /\ xTimerQueue[j].cmd \in {"start", "reset", "changePeriod"}

\* A listed timer's callback runs, or a command takes it off its list.
ListedExpires ==
  \A tm \in Timer : timer[tm].list # "none" ~>
    \/ daemon.at = "callback" /\ daemon.timer = tm
    \/ timer[tm].list = "none"
    \/ daemon.at \in {"asserted", "undefined"}
=============================================================================
