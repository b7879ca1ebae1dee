---------------------------- MODULE TimersProofs ----------------------------
(***************************************************************************)
\* Theorems about Timers: whatever the tick count's range, the timers,
\* their periods and the commands, the daemon finds every listed timer
\* when it is due, and calls no callback early.
\*
\* The argument is about one number, the ticks since the daemon sampled
\* the time: the item value of a timer counts from that sample, on the
\* overflow list one range of the tick count further, and what a timer is
\* due and what a command is old differ from it by as much.
(***************************************************************************)
EXTENDS Timers, SequenceTheorems, WellFoundedInduction, TLAPS

Halted == daemon.at \in {"asserted", "undefined"}

Starts == {"start", "reset", "startDontTrace"}

--------------------
\* The invariant.

\* The ticks from one sample of the tick count to another, which is less than
\* its range away.
Elapsed(from, to) == IF to < from THEN to - from + TickMod ELSE to - from

\* A command that starts a timer carries the time it was given.
Stamped(m, now) == m.value + m.age \in {now, now + TickMod}

Fit(m, now) ==
  /\ m \in Message /\ m.cmd # "none"
  /\ m.cmd # "execute" => m.timer \in Timer
  /\ m.cmd = "changePeriod" => m.value \in 1..Longest
  /\ m.cmd \in Starts => Stamped(m, now)
  /\ m.cmd \notin Starts => m.age = 0

CommandsFit ==
  /\ \A i \in DOMAIN xTimerQueue : Fit(xTimerQueue[i], xTickCount)
  /\ \A s \in Sender : sender[s] = NoMessage \/ Fit(sender[s], xTickCount)

\* From the sample that sees the wrap until the lists have changed places.
InSwitch == daemon.at \in {"switch", "switched"} \/ daemon.then = "switched"

\* The timer the list switch has taken off the current list.
InHand(tm) ==
  daemon.timer = tm /\ (daemon.at = "switched" \/ daemon.then = "switched")

\* The daemon has a command in its hands.
Holding == \/ daemon.at \in {"received", "apply", "repost"}
           \/ daemon.then = "repost" \/ daemon.after = "apply"

DaemonPath ==
  /\ daemon.then # "commands" => daemon.at = "callback"
  /\ daemon.after = "apply" => InSwitch
  /\ daemon.at = "switched" \/ daemon.then = "switched" => daemon.timer \in Timer
  /\ daemon.at = "blocked" => daemon.sleep >= 1

\* The command's timer is off the lists, and the time the daemon has sampled is
\* not older than the command.
Held(m) ==
  LET lag == Elapsed(xLastTime, xTickCount)
  IN  /\ m.cmd \notin {"none", "execute"} /\ m.timer \in Timer
      /\ timer[m.timer].allocated /\ timer[m.timer].list = "none"
      /\ ~InHand(m.timer)
      /\ m.cmd = "changePeriod" => m.value \in 1..Longest
      /\ m.cmd \in Starts => Stamped(m, xTickCount)
      /\ IF daemon.at = "received" THEN m.cmd \notin Starts => m.age = 0
         ELSE /\ daemon.xTimeNow = xLastTime
              /\ m.cmd \in Starts => lag <= m.age
              /\ m.cmd = "changePeriod" => lag = m.age
      /\ daemon.at = "repost" \/ daemon.then = "repost" =>
           m.cmd \in Starts /\ timer[m.timer].xTimerPeriodInTicks <= m.age

MessageHeld == IF Holding THEN Held(daemon.msg) ELSE daemon.msg = NoMessage

\* A listed timer's item value, counted from the last sample of the time, tells
\* what it is due; while the lists are being switched, from the wrap before it.
ListTimed(rec, last, now, switching) ==
  rec.list # "none" =>
    IF switching
      THEN /\ last <= now
           /\ rec.list = "current" => rec.due = rec.value - now - TickMod
           /\ rec.list = "overflow" => rec.due = rec.value - now
                                       /\ rec.value < Longest
      ELSE /\ rec.due + Elapsed(last, now) <= Longest
           /\ rec.list = "current" =>
                rec.due + Elapsed(last, now) = rec.value - last
           /\ rec.list = "overflow" =>
                rec.due + Elapsed(last, now) = rec.value + TickMod - last

HandTimed(rec, last, now, expiry) ==
  last <= now /\ rec.due = expiry - now - TickMod

TimerKept(tm) ==
  /\ timer[tm].xTimerPeriodInTicks \in 1..Longest
  /\ InHand(tm) => /\ timer[tm].list = "none"
                   /\ timer[tm].active /\ timer[tm].allocated
                   /\ HandTimed(timer[tm], xLastTime, xTickCount,
                                daemon.xNextExpireTime)
  /\ ListTimed(timer[tm], xLastTime, xTickCount, InSwitch)

\* What the daemon knows of the current list when it has read its head.
HeadKnown ==
  /\ daemon.at = "sample" =>
       IF daemon.xListWasEmpty
         THEN On("current") = {} /\ daemon.xNextExpireTime = 0
         ELSE \A tm \in On("current") : daemon.xNextExpireTime <= timer[tm].value
  /\ (daemon.at = "sample" /\ ~daemon.xListWasEmpty) \/ daemon.at = "expired" =>
       \A tm \in HeadsOf("current") : timer[tm].value = daemon.xNextExpireTime
  /\ daemon.at = "expired" => /\ daemon.xNextExpireTime <= daemon.xTimeNow
                              /\ daemon.xTimeNow = xLastTime

TimersKept == \A tm \in Timer : TimerKept(tm)

Working == /\ CommandsFit /\ DaemonPath /\ MessageHeld /\ HeadKnown
           /\ SleepsTillDue /\ TimersKept

IInv == TypeOK /\ ListedIsActive /\ (~Halted => Working)

--------------------
\* The tick count.

LEMMA OnceAround ==
  ASSUME NEW m \in Nat, m > 0, NEW x \in Nat, x < 2 * m
  PROVE  x % m = IF x < m THEN x ELSE x - m
OBVIOUS

LEMMA TickFacts ==
  ASSUME TimersFit
  PROVE  /\ TickMod \in Nat \ {0} /\ LateBound \in Nat /\ AgeBound \in Nat
         /\ LateBound <= AgeBound /\ AgeBound <= LateBound + 1
         /\ AgeBound < TickMod
         /\ Longest \in Int /\ Longest < TickMod
         /\ Longest + LateBound = TickMod - 1
BY DEF TimersFit, Longest, Tick

\* The sum and the difference of two tick counts are reduced once at most.
LEMMA TickSums ==
  ASSUME TimersFit, NEW a \in Tick, NEW b \in Nat, b <= TickMod
  PROVE  /\ (a + b) % TickMod =
              IF a + b < TickMod THEN a + b ELSE a + b - TickMod
         /\ (a + b) % TickMod \in Tick
         /\ (a - b + TickMod) % TickMod =
              IF a < b THEN a - b + TickMod ELSE a - b
         /\ (a - b + TickMod) % TickMod \in Tick
<1>1. /\ a \in Nat /\ TickMod \in Nat /\ TickMod > 0 /\ a < TickMod BY TickFacts DEF Tick
<1>2. a + b \in Nat /\ a + b < 2 * TickMod BY <1>1
<1>3. a - b + TickMod \in Nat /\ a - b + TickMod < 2 * TickMod BY <1>1
<1>4. (a + b) % TickMod = IF a + b < TickMod THEN a + b ELSE a + b - TickMod
  BY <1>1, <1>2, OnceAround
<1>5. (a - b + TickMod) % TickMod =
        IF a - b + TickMod < TickMod THEN a - b + TickMod
        ELSE a - b + TickMod - TickMod
  BY <1>1, <1>3, OnceAround
<1> QED BY <1>1, <1>4, <1>5 DEF Tick

\* The ticks between two samples are less than the range.
LEMMA ElapsedIs ==
  ASSUME TimersFit, NEW last \in Tick, NEW now \in Tick
  PROVE  /\ Elapsed(last, now) \in 0..(TickMod - 1)
         /\ last + Elapsed(last, now) \in {now, now + TickMod}
         /\ Elapsed(now, now) = 0
BY TickFacts DEF Elapsed, Tick

\* One more tick has passed, unless the range is used up.
LEMMA ElapsedGrows ==
  ASSUME TimersFit, NEW last \in Tick, NEW now \in Tick,
         Elapsed(last, now) < TickMod - 1
  PROVE  Elapsed(last, (now + 1) % TickMod) = Elapsed(last, now) + 1
<1>1. (now + 1) % TickMod = IF now + 1 < TickMod THEN now + 1
                            ELSE now + 1 - TickMod
  BY TickFacts, TickSums
<1> QED BY <1>1, TickFacts DEF Elapsed, Tick

\* The place of a timer, of its command's time, period and age (timers.c:702,
\* 719): whether it has expired is told right although all times have wrapped.
LEMMA PlaceIs ==
  ASSUME TimersFit, NEW now \in Tick, NEW cmd \in Tick, NEW period \in 1..Longest,
         NEW age \in 0..(TickMod - 1), cmd + age \in {now, now + TickMod},
         NEW next, next = (cmd + period) % TickMod
  PROVE  /\ next \in Tick
         /\ Place(next, now, cmd, period) \in {"now", "current", "overflow"}
         /\ Place(next, now, cmd, period) = "now" <=> period <= age
         /\ Place(next, now, cmd, period) = "current" =>
              next = now + period - age
         /\ Place(next, now, cmd, period) = "overflow" =>
              next = now + period - age - TickMod
<1>1. /\ TickMod \in Nat /\ period \in Nat /\ 1 <= period /\ period < TickMod
      /\ cmd \in Nat /\ cmd <= TickMod
  BY TickFacts DEF Tick
<1>2. next = IF cmd + period < TickMod THEN cmd + period
             ELSE cmd + period - TickMod
  BY <1>1, TickSums
<1>3. (now - cmd + TickMod) % TickMod =
        IF now < cmd THEN now - cmd + TickMod ELSE now - cmd
  BY <1>1, TickSums
<1>4. (now - cmd + TickMod) % TickMod = age BY <1>3, <1>1 DEF Tick
<1>5. age \in Nat /\ age < TickMod BY <1>1
<1>6. next \in Tick BY <1>1, <1>2, TickFacts DEF Tick
<1>7. CASE next <= now
  <2>1. Place(next, now, cmd, period) = IF age >= period THEN "now" ELSE "overflow"
    BY <1>7, <1>4 DEF Place
  <2> QED BY <2>1, <1>1, <1>2, <1>5, <1>6, <1>7 DEF Tick
<1>8. CASE ~(next <= now)
  <2>1. Place(next, now, cmd, period) =
          IF now < cmd /\ next >= cmd THEN "now" ELSE "current"
    BY <1>8 DEF Place
  <2> QED BY <2>1, <1>1, <1>2, <1>5, <1>6, <1>8 DEF Tick
<1> QED BY <1>7, <1>8

--------------------
\* Daemon records and messages.

LEMMA DaemonAtIs ==
  ASSUME TimersFit,
         NEW at \in {"next", "sample", "blocked", "expired", "commands",
                     "received", "switch", "callback", "switched", "apply",
                     "repost", "asserted", "undefined"}
  PROVE  /\ DaemonAt(at) \in Daemon
         /\ DaemonAt(at).at = at /\ DaemonAt(at).msg = NoMessage
         /\ DaemonAt(at).then = "commands" /\ DaemonAt(at).after = "commands"
<1>1. 0 \in Tick /\ 0 \in 0..Forever /\ NoMessage \in Message
  BY TickFacts DEF Tick, Forever, NoMessage, Message, Command
<1> QED BY <1>1 DEF DaemonAt, Daemon

LEMMA NoMessageIs ==
  ASSUME TimersFit
  PROVE  NoMessage \in Message /\ NoMessage.cmd = "none" /\ NoMessage.age = 0
BY TickFacts DEF Tick, NoMessage, Message, Command

\* The messages the macros of timers.h make carry the tick count of their
\* moment, and a period that is not too long.
LEMMA MessageForFits ==
  ASSUME TimersFit, xTickCount \in Tick, NEW C, Requests(C), NEW c \in C
  PROVE  Fit(MessageFor(c), xTickCount)
<1> DEFINE m == MessageFor(c)
<1>1. /\ c.cmd \in {"start", "reset", "stop", "changePeriod", "delete", "execute"}
      /\ c.timer \in Timer \cup {NoTimer} /\ c.arg \in Tick
      /\ c.cmd # "execute" => c.timer \in Timer
      /\ c.cmd = "changePeriod" => c.arg \in 1..Longest
  BY DEF Requests
<1>2. /\ m.cmd = c.cmd /\ m.timer = c.timer /\ m.age = 0
      /\ m.value = CASE c.cmd \in {"start", "reset"} -> xTickCount
                     [] c.cmd = "changePeriod" -> c.arg
                     [] OTHER -> 0
      /\ m = [cmd |-> m.cmd, timer |-> m.timer, age |-> m.age, value |-> m.value]
  BY DEF MessageFor
<1> HIDE DEF m
<1>3. m.value \in Tick /\ m.age \in 0..AgeBound /\ m.cmd \in Command
  BY <1>1, <1>2, TickFacts DEF Tick, Command
<1>4. m \in Message BY <1>1, <1>2, <1>3 DEF Message
<1>5. m.cmd \in Starts => Stamped(m, xTickCount)
  <2>1. m.cmd \in Starts => m.cmd \in {"start", "reset"} BY <1>1, <1>2 DEF Starts
  <2>2. m.cmd \in Starts => m.value = xTickCount BY <1>2, <2>1
  <2> QED BY <2>2, <1>2, TickFacts DEF Stamped, Tick
<1>6. m.cmd = "changePeriod" => m.value \in 1..Longest BY <1>1, <1>2
<1> QED BY <1>1, <1>2, <1>4, <1>5, <1>6 DEF Fit, m

\* A fitting message at the end of the queue, and the queue without its first.
LEMMA AppendFits ==
  ASSUME TimersFit, NEW q \in Seq(Message), NEW now, NEW m, Fit(m, now),
         \A i \in DOMAIN q : Fit(q[i], now), Len(q) < configTIMER_QUEUE_LENGTH
  PROVE  /\ Append(q, m) \in Seq(Message)
         /\ Len(Append(q, m)) <= configTIMER_QUEUE_LENGTH
         /\ \A i \in DOMAIN Append(q, m) : Fit(Append(q, m)[i], now)
<1>1. m \in Message BY DEF Fit
<1>2. configTIMER_QUEUE_LENGTH \in Nat /\ Len(q) \in Nat BY DEF TimersFit
<1>3. /\ Append(q, m) \in Seq(Message) /\ Len(Append(q, m)) = Len(q) + 1
      /\ DOMAIN Append(q, m) = 1..(Len(q) + 1) /\ DOMAIN q = 1..Len(q)
      /\ \A i \in 1..(Len(q) + 1) :
           Append(q, m)[i] = IF i = Len(q) + 1 THEN m ELSE q[i]
  BY <1>1
<1>4. ASSUME NEW i \in 1..(Len(q) + 1) PROVE Fit(Append(q, m)[i], now)
  <2>1. CASE i = Len(q) + 1 BY <2>1, <1>3
  <2>2. CASE i # Len(q) + 1
    <3>1. i \in DOMAIN q /\ Append(q, m)[i] = q[i] BY <2>2, <1>2, <1>3
    <3> QED BY <3>1
  <2> QED BY <2>1, <2>2
<1> QED BY <1>2, <1>3, <1>4

LEMMA TailFits ==
  ASSUME NEW q \in Seq(Message), NEW now, q # <<>>,
         \A i \in DOMAIN q : Fit(q[i], now)
  PROVE  /\ Tail(q) \in Seq(Message) /\ Len(Tail(q)) <= Len(q)
         /\ \A i \in DOMAIN Tail(q) : Fit(Tail(q)[i], now)
         /\ Fit(Head(q), now)
<1>1. /\ Len(q) \in Nat /\ Len(q) # 0 /\ Tail(q) \in Seq(Message)
      /\ Len(Tail(q)) = Len(q) - 1 /\ DOMAIN Tail(q) = 1..(Len(q) - 1)
      /\ DOMAIN q = 1..Len(q) /\ Head(q) = q[1]
      /\ \A i \in 1..(Len(q) - 1) : Tail(q)[i] = q[i + 1]
  OBVIOUS
<1>2. ASSUME NEW i \in 1..(Len(q) - 1) PROVE Fit(Tail(q)[i], now)
  <2>1. i + 1 \in DOMAIN q /\ Tail(q)[i] = q[i + 1] BY <1>1
  <2> QED BY <2>1
<1>3. 1 \in DOMAIN q /\ Len(Tail(q)) <= Len(q) BY <1>1
<1> QED BY <1>1, <1>2, <1>3

\* A command gets older by the tick that comes.
LEMMA OlderFits ==
  ASSUME TimersFit, NEW now \in Tick, NEW m, Fit(m, now), m.age < AgeBound
  PROVE  Fit(Older(m), (now + 1) % TickMod)
<1> DEFINE next == (now + 1) % TickMod
<1>1. next = IF now + 1 < TickMod THEN now + 1 ELSE now + 1 - TickMod
  BY TickFacts, TickSums
<1>2. /\ m \in Message /\ m.age \in Nat /\ m.value \in Tick
      /\ m.cmd \in Command /\ m.timer \in Timer \cup {NoTimer}
  BY TickFacts DEF Fit, Message
<1> HIDE DEF next
<1>3. CASE m.cmd \in Starts
  <2>1. Older(m) = [m EXCEPT !.age = @ + 1] BY <1>3 DEF Older, Starts
  <2>2. /\ Older(m).cmd = m.cmd /\ Older(m).timer = m.timer
        /\ Older(m).value = m.value /\ Older(m).age = m.age + 1
    BY <2>1, <1>2 DEF Message
  <2>3. m.age + 1 \in 0..AgeBound BY <1>2, TickFacts
  <2>4. Older(m) \in Message BY <2>1, <2>3, <1>2 DEF Message
  <2>5. m.value + m.age \in {now, now + TickMod} BY <1>3 DEF Fit, Stamped
  <2>6. m.value + (m.age + 1) \in {next, next + TickMod}
    BY <2>5, <1>1, <1>2, TickFacts DEF Tick
  <2> QED BY <2>2, <2>4, <2>6, <1>3 DEF Fit, Stamped, next, Starts
<1>4. CASE m.cmd \notin Starts
  <2>1. Older(m) = m BY <1>4 DEF Older, Starts
  <2> QED BY <2>1, <1>4 DEF Fit
<1> QED BY <1>3, <1>4

--------------------
\* The invariant, part by part.

LEMMA InitKeeps == ASSUME TimersFit, Init PROVE IInv
<1>1. /\ daemon \in Daemon /\ daemon.at = "next" /\ daemon.msg = NoMessage
      /\ daemon.then = "commands" /\ daemon.after = "commands"
  BY DaemonAtIs DEF Init
<1>2. \A tm \in Timer : /\ timer[tm] = NewTimer(tm) /\ Period[tm] \in 1..Longest
                        /\ timer[tm].list = "none"
                        /\ timer[tm].xTimerPeriodInTicks = Period[tm]
  BY DEF Init, NewTimer, TimersFit
<1>3. ASSUME NEW tm \in Timer PROVE NewTimer(tm) \in TimerRecord
  <2>1. Period[tm] \in Tick /\ 0 \in Tick /\ 0 \in -LateBound..TickMod
    BY <1>2, TickFacts DEF Tick
  <2> QED BY <2>1 DEF NewTimer, TimerRecord
<1>4. TypeOK
  <2>1. xTickCount \in Tick /\ xLastTime \in Tick BY TickFacts DEF Init, TimersFit, Tick
  <2>2. timer \in [Timer -> TimerRecord] BY <1>3 DEF Init
  <2>3. /\ xTimerQueue \in Seq(Message)
        /\ Len(xTimerQueue) <= configTIMER_QUEUE_LENGTH
    BY DEF Init, TimersFit
  <2>4. sender \in [Sender -> Message] BY NoMessageIs DEF Init
  <2> QED BY <1>1, <2>1, <2>2, <2>3, <2>4 DEF TypeOK
<1>5. ListedIsActive BY <1>2 DEF ListedIsActive
<1>6. CommandsFit BY DEF Init, CommandsFit
<1>7. DaemonPath BY <1>1 DEF DaemonPath
<1>8. MessageHeld BY <1>1 DEF MessageHeld, Holding
<1>9. HeadKnown /\ SleepsTillDue BY <1>1 DEF HeadKnown, SleepsTillDue
<1>10. TimersKept BY <1>1, <1>2 DEF TimersKept, TimerKept, ListTimed, InHand
<1> QED BY <1>4, <1>5, <1>6, <1>7, <1>8, <1>9, <1>10 DEF IInv, Working

\* A step leaves the daemon without a command in its hands.
LEMMA FreeDaemon ==
  ASSUME daemon'.at \in {"next", "commands", "callback"},
         daemon'.then = "commands", daemon'.after = "commands",
         daemon'.msg = NoMessage
  PROVE  /\ DaemonPath' /\ MessageHeld' /\ HeadKnown' /\ SleepsTillDue'
         /\ ~InSwitch' /\ \A tm : ~InHand(tm)'
<1>1. DaemonPath' BY DEF DaemonPath
<1>2. MessageHeld' BY DEF MessageHeld, Holding
<1>3. HeadKnown' /\ SleepsTillDue' BY DEF HeadKnown, SleepsTillDue
<1> QED BY <1>1, <1>2, <1>3 DEF InSwitch, InHand

\* What another task does without touching a timer or the daemon.
LEMMA SameDaemon ==
  ASSUME IInv, ~Halted,
         UNCHANGED <<xTickCount, xLastTime, timer, daemon>>
  PROVE  /\ DaemonPath' /\ MessageHeld' /\ HeadKnown' /\ SleepsTillDue'
         /\ TimersKept' /\ ListedIsActive'
         /\ xTickCount' \in Tick /\ xLastTime' \in Tick
         /\ timer' \in [Timer -> TimerRecord] /\ daemon' \in Daemon
<1>1. /\ DaemonPath /\ MessageHeld /\ HeadKnown /\ SleepsTillDue
      /\ TimersKept /\ ListedIsActive /\ TypeOK
  BY DEF IInv, Working
<1>2. DaemonPath' /\ SleepsTillDue' /\ ListedIsActive'
  BY <1>1 DEF DaemonPath, InSwitch, SleepsTillDue, ListedIsActive
<1>3. MessageHeld' BY <1>1 DEF MessageHeld, Holding, Held, InHand
<1>4. HeadKnown' BY <1>1 DEF HeadKnown, HeadsOf, On
<1>5. TimersKept' BY <1>1 DEF TimersKept, TimerKept, InHand, InSwitch
<1> QED BY <1>1, <1>2, <1>3, <1>4, <1>5 DEF TypeOK

\* A timer that a step does not touch, while the lists stay as they are.
LEMMA TimerStays ==
  ASSUME NEW tm, TimerKept(tm), UNCHANGED <<xTickCount, xLastTime>>,
         timer'[tm].list = timer[tm].list, timer'[tm].value = timer[tm].value,
         timer'[tm].due = timer[tm].due,
         timer'[tm].xTimerPeriodInTicks = timer[tm].xTimerPeriodInTicks,
         timer'[tm].active = timer[tm].active,
         timer'[tm].allocated = timer[tm].allocated,
         InSwitch' <=> InSwitch,
         InHand(tm)' => /\ InHand(tm)
                        /\ daemon'.xNextExpireTime = daemon.xNextExpireTime
  PROVE  TimerKept(tm)'
<1>1. (timer[tm].xTimerPeriodInTicks \in 1..Longest)' BY DEF TimerKept
<1>2. InHand(tm)' =>
        /\ timer'[tm].list = "none" /\ timer'[tm].active /\ timer'[tm].allocated
        /\ HandTimed(timer'[tm], xLastTime', xTickCount', daemon'.xNextExpireTime)
  BY DEF TimerKept, HandTimed
<1>3. ListTimed(timer[tm], xLastTime, xTickCount, InSwitch) BY DEF TimerKept
<1>4. ListTimed(timer'[tm], xLastTime', xTickCount', InSwitch')
  <2> DEFINE S == InSwitch
             T == InSwitch'
  <2>1. S <=> T OBVIOUS
  <2>2. ListTimed(timer[tm], xLastTime, xTickCount, S) BY <1>3
  <2> HIDE DEF S, T
  <2>3. ListTimed(timer'[tm], xLastTime', xTickCount', T) BY <2>1, <2>2 DEF ListTimed
  <2> QED BY <2>3 DEF T
<1> QED BY <1>1, <1>2, <1>4 DEF TimerKept

LEMMA GenericCommandKeeps ==
  ASSUME TimersFit, IInv, ~Halted, NEW s \in Sender, NEW c \in SenderCommands,
         xTimerGenericCommand(s, c)
  PROVE  IInv'
<1>1. /\ UNCHANGED <<xTickCount, xLastTime, timer, xTimerQueue, daemon>>
      /\ sender' = [sender EXCEPT ![s] = MessageFor(c)]
  BY DEF xTimerGenericCommand
<1>2. TypeOK /\ CommandsFit BY DEF IInv, Working
<1>3. Fit(MessageFor(c), xTickCount) BY <1>2, MessageForFits DEF TypeOK, TimersFit
<1>4. MessageFor(c) \in Message BY <1>3 DEF Fit
<1>5. sender' \in [Sender -> Message] BY <1>1, <1>2, <1>4 DEF TypeOK
<1>6. TypeOK' BY <1>1, <1>2, <1>5 DEF TypeOK
<1>7. CommandsFit'
  <2>1. \A i \in DOMAIN xTimerQueue' : Fit(xTimerQueue'[i], xTickCount')
    BY <1>1, <1>2 DEF CommandsFit
  <2>2. ASSUME NEW u \in Sender
        PROVE  sender'[u] = NoMessage \/ Fit(sender'[u], xTickCount')
    BY <1>1, <1>2, <1>3 DEF CommandsFit, TypeOK
  <2> QED BY <2>1, <2>2 DEF CommandsFit
<1> QED BY <1>1, <1>6, <1>7, SameDaemon DEF IInv, Working

LEMMA GiveUpKeeps ==
  ASSUME TimersFit, IInv, ~Halted, NEW s \in Sender, GiveUp(s)
  PROVE  IInv'
<1>1. /\ UNCHANGED <<xTickCount, xLastTime, timer, xTimerQueue, daemon>>
      /\ sender' = [sender EXCEPT ![s] = NoMessage]
  BY DEF GiveUp
<1>2. TypeOK /\ CommandsFit BY DEF IInv, Working
<1>3. sender' \in [Sender -> Message] BY <1>1, <1>2, NoMessageIs DEF TypeOK
<1>4. TypeOK' BY <1>1, <1>2, <1>3 DEF TypeOK
<1>5. CommandsFit'
  <2>1. \A i \in DOMAIN xTimerQueue' : Fit(xTimerQueue'[i], xTickCount')
    BY <1>1, <1>2 DEF CommandsFit
  <2>2. ASSUME NEW u \in Sender
        PROVE  sender'[u] = NoMessage \/ Fit(sender'[u], xTickCount')
    BY <1>1, <1>2 DEF CommandsFit, TypeOK
  <2> QED BY <2>1, <2>2 DEF CommandsFit
<1> QED BY <1>1, <1>4, <1>5, SameDaemon DEF IInv, Working

\* A timer that neither the lists nor a command refers to stays out of what the
\* other tasks do with the rest.
LEMMA QueueSendKeeps ==
  ASSUME TimersFit, IInv, ~Halted, NEW s \in Sender, xQueueSendToBack(s)
  PROVE  IInv'
<1>1. /\ UNCHANGED <<xTickCount, xLastTime, timer>>
      /\ sender' = [sender EXCEPT ![s] = NoMessage] /\ sender[s] # NoMessage
      /\ xTimerQueue' = Append(xTimerQueue, sender[s]) /\ daemon' = Wake
      /\ Len(xTimerQueue) < configTIMER_QUEUE_LENGTH
  BY DEF xQueueSendToBack
<1>2. TypeOK /\ CommandsFit /\ ListedIsActive /\ TimersKept BY DEF IInv, Working
<1>3. Fit(sender[s], xTickCount) BY <1>1, <1>2 DEF CommandsFit
<1>4. sender' \in [Sender -> Message] BY <1>1, <1>2, NoMessageIs DEF TypeOK
<1>5. /\ xTimerQueue' \in Seq(Message)
      /\ Len(xTimerQueue') <= configTIMER_QUEUE_LENGTH
      /\ \A i \in DOMAIN xTimerQueue' : Fit(xTimerQueue'[i], xTickCount)
  BY <1>1, <1>2, <1>3, AppendFits DEF TypeOK, CommandsFit
<1>6. CommandsFit'
  <2>1. ASSUME NEW u \in Sender
        PROVE  sender'[u] = NoMessage \/ Fit(sender'[u], xTickCount')
    BY <1>1, <1>2 DEF CommandsFit, TypeOK
  <2> QED BY <1>1, <1>5, <2>1 DEF CommandsFit
<1>7. CASE daemon.at = "blocked"
  <2>1. /\ daemon' \in Daemon /\ daemon'.at = "commands"
        /\ daemon'.msg = NoMessage
        /\ daemon'.then = "commands" /\ daemon'.after = "commands"
    BY <1>1, <1>7, DaemonAtIs DEF Wake
  <2>2. /\ DaemonPath' /\ MessageHeld' /\ HeadKnown' /\ SleepsTillDue'
        /\ ~InSwitch' /\ \A tm : ~InHand(tm)'
    BY <2>1, FreeDaemon
  <2>3. ~InSwitch /\ \A tm : ~InHand(tm)
    BY <1>7 DEF IInv, Working, DaemonPath, InSwitch, InHand
  <2>4. TimersKept' BY <1>1, <1>2, <2>2, <2>3, TimerStays DEF TimersKept
  <2>5. ListedIsActive' BY <1>1, <1>2 DEF ListedIsActive
  <2>6. TypeOK' BY <1>1, <1>2, <1>4, <1>5, <2>1 DEF TypeOK
  <2> QED BY <1>6, <2>2, <2>4, <2>5, <2>6 DEF IInv, Working
<1>8. CASE daemon.at # "blocked"
  <2>1. daemon' = daemon BY <1>1, <1>8 DEF Wake
  <2>2. /\ DaemonPath' /\ MessageHeld' /\ HeadKnown' /\ SleepsTillDue'
        /\ TimersKept' /\ ListedIsActive'
    BY <1>1, <2>1, SameDaemon
  <2>3. TypeOK' BY <1>1, <1>2, <1>4, <1>5, <2>1 DEF TypeOK
  <2> QED BY <1>6, <2>2, <2>3 DEF IInv, Working
<1> QED BY <1>7, <1>8

\* What the lists hold depends on no more than the timers' list items.
LEMMA SameLists ==
  ASSUME \A tm \in Timer : /\ timer'[tm].list = timer[tm].list
                           /\ timer'[tm].list # "none" =>
                                timer'[tm].value = timer[tm].value,
         NEW list \in {"current", "overflow"}
  PROVE  On(list)' = On(list) /\ HeadsOf(list)' = HeadsOf(list)
<1>1. On(list)' = On(list) BY DEF On
<1>2. \A tm \in On(list) : timer'[tm].value = timer[tm].value BY DEF On
<1>3. HeadsOf(list)' = {tm \in On(list)' :
                 \A u \in On(list)' : timer'[tm].value <= timer'[u].value}
  BY DEF HeadsOf
<1>4. HeadsOf(list)' = HeadsOf(list) BY <1>1, <1>2, <1>3 DEF HeadsOf
<1> QED BY <1>1, <1>4

\* A step that changes neither the daemon nor a list keeps what it knows.
LEMMA DaemonKnows ==
  ASSUME IInv, ~Halted, UNCHANGED <<xTickCount, xLastTime, daemon>>,
         \A tm \in Timer : /\ timer'[tm].list = timer[tm].list
                           /\ timer'[tm].list # "none" =>
                                timer'[tm].value = timer[tm].value
                                /\ timer'[tm].due = timer[tm].due
  PROVE  HeadKnown' /\ SleepsTillDue' /\ DaemonPath'
<1>1. HeadKnown /\ SleepsTillDue /\ DaemonPath BY DEF IInv, Working
<1>2. On("current")' = On("current") /\ HeadsOf("current")' = HeadsOf("current")
  BY SameLists
<1>3. \A tm \in On("current") : timer'[tm].value = timer[tm].value BY DEF On
<1>4. HeadsOf("current") \subseteq On("current") BY DEF HeadsOf
<1>5. HeadKnown'
  <2>1. daemon' = daemon /\ xLastTime' = xLastTime OBVIOUS
  <2>2. daemon.at = "sample" =>
          IF daemon.xListWasEmpty
            THEN On("current")' = {} /\ daemon.xNextExpireTime = 0
            ELSE \A tm \in On("current")' :
                   daemon.xNextExpireTime <= timer'[tm].value
    BY <1>1, <1>2, <1>3 DEF HeadKnown
  <2>3. (daemon.at = "sample" /\ ~daemon.xListWasEmpty) \/ daemon.at = "expired" =>
          \A tm \in HeadsOf("current")' : timer'[tm].value = daemon.xNextExpireTime
    BY <1>1, <1>2, <1>3, <1>4 DEF HeadKnown
  <2> QED BY <2>1, <2>2, <2>3, <1>1 DEF HeadKnown
<1>6. SleepsTillDue' BY <1>1 DEF SleepsTillDue
<1>7. DaemonPath' BY <1>1 DEF DaemonPath, InSwitch
<1> QED BY <1>5, <1>6, <1>7

LEMMA SetReloadModeKeeps ==
  ASSUME TimersFit, IInv, ~Halted, NEW tm \in Timer, NEW mode \in BOOLEAN,
         vTimerSetReloadMode(tm, mode)
  PROVE  IInv'
<1>1. /\ UNCHANGED <<xTickCount, xLastTime, xTimerQueue, daemon, sender>>
      /\ \/ timer' = [timer EXCEPT ![tm].auto = mode]
         \/ timer' = timer
  BY DEF vTimerSetReloadMode
<1>2. /\ TypeOK /\ CommandsFit /\ DaemonPath /\ MessageHeld /\ ListedIsActive
      /\ TimersKept /\ timer \in [Timer -> TimerRecord]
  BY DEF IInv, Working, TypeOK
<1>3. timer' \in [Timer -> TimerRecord]
  <2>1. [timer[tm] EXCEPT !.auto = mode] \in TimerRecord BY <1>2 DEF TimerRecord
  <2> QED BY <1>1, <1>2, <2>1
<1>4. ASSUME NEW u \in Timer
      PROVE  /\ timer'[u].list = timer[u].list /\ timer'[u].value = timer[u].value
             /\ timer'[u].due = timer[u].due
             /\ timer'[u].xTimerPeriodInTicks = timer[u].xTimerPeriodInTicks
             /\ timer'[u].active = timer[u].active
             /\ timer'[u].allocated = timer[u].allocated
  BY <1>1, <1>2 DEF TimerRecord
<1>5. TypeOK' BY <1>1, <1>2, <1>3 DEF TypeOK
<1>6. ListedIsActive' BY <1>2, <1>4 DEF ListedIsActive
<1>7. CommandsFit' BY <1>1, <1>2 DEF CommandsFit
<1>8. MessageHeld'
  <2>1. Holding' <=> Holding BY <1>1 DEF Holding
  <2>2. CASE ~Holding BY <1>1, <1>2, <2>1, <2>2 DEF MessageHeld
  <2>3. CASE Holding
    <3>1. Held(daemon.msg) BY <1>2, <2>3 DEF MessageHeld
    <3>2. daemon.msg.timer \in Timer BY <3>1 DEF Held
    <3>3. Held(daemon.msg)' BY <1>1, <1>4, <3>1, <3>2 DEF Held, InHand
    <3> QED BY <2>1, <2>3, <3>3 DEF MessageHeld
  <2> QED BY <2>2, <2>3
<1>9. TimersKept'
  <2>1. ASSUME NEW u \in Timer PROVE TimerKept(u)'
    <3>1. TimerKept(u) /\ (InSwitch' <=> InSwitch) /\ (InHand(u)' => InHand(u))
          /\ daemon' = daemon
      BY <1>1, <1>2 DEF TimersKept, InSwitch, InHand
    <3> QED BY <1>1, <1>4, <3>1, TimerStays
  <2> QED BY <2>1 DEF TimersKept
<1> QED BY <1>1, <1>4, <1>5, <1>6, <1>7, <1>8, <1>9, DaemonKnows DEF IInv, Working

\* A timer that nothing refers to is created again: it is on no list.
LEMMA CreateKeeps ==
  ASSUME TimersFit, IInv, ~Halted, NEW tm \in Timer, xTimerCreate(tm)
  PROVE  IInv'
<1>1. /\ UNCHANGED <<xTickCount, xLastTime, xTimerQueue, daemon, sender>>
      /\ timer' = [timer EXCEPT ![tm] = NewTimer(tm)]
      /\ ~timer[tm].allocated /\ daemon.msg.timer # tm
  BY DEF xTimerCreate, InFlight
<1>2. /\ TypeOK /\ CommandsFit /\ DaemonPath /\ MessageHeld /\ ListedIsActive
      /\ TimersKept /\ timer \in [Timer -> TimerRecord]
  BY DEF IInv, Working, TypeOK
<1>3. timer[tm].list = "none" /\ ~InHand(tm)
  BY <1>1, <1>2 DEF ListedIsActive, TimersKept, TimerKept
<1>4. /\ NewTimer(tm) \in TimerRecord
      /\ NewTimer(tm).list = "none"
      /\ NewTimer(tm).xTimerPeriodInTicks \in 1..Longest
  <2>1. Period[tm] \in 1..Longest BY DEF TimersFit
  <2>2. Period[tm] \in Tick /\ 0 \in Tick /\ 0 \in -LateBound..TickMod
    BY <2>1, TickFacts DEF Tick
  <2> QED BY <2>1, <2>2 DEF NewTimer, TimerRecord
<1>5. timer' \in [Timer -> TimerRecord] /\ timer'[tm] = NewTimer(tm) BY <1>1, <1>2, <1>4
<1>6. \A u \in Timer : u # tm => timer'[u] = timer[u] BY <1>1, <1>2
<1>7. \A u \in Timer : /\ timer'[u].list = timer[u].list
                       /\ timer'[u].list # "none" => timer'[u] = timer[u]
  BY <1>3, <1>4, <1>5, <1>6
<1>8. TypeOK' BY <1>1, <1>2, <1>5 DEF TypeOK
<1>9. ListedIsActive' BY <1>2, <1>7 DEF ListedIsActive
<1>10. CommandsFit' BY <1>1, <1>2 DEF CommandsFit
<1>11. MessageHeld'
  <2>1. Holding' <=> Holding BY <1>1 DEF Holding
  <2>2. CASE ~Holding BY <1>1, <1>2, <2>1, <2>2 DEF MessageHeld
  <2>3. CASE Holding
    <3>1. Held(daemon.msg) BY <1>2, <2>3 DEF MessageHeld
    <3>2. daemon.msg.timer \in Timer /\ timer'[daemon.msg.timer] = timer[daemon.msg.timer]
      BY <1>1, <1>6, <3>1 DEF Held
    <3>3. Held(daemon.msg)' BY <1>1, <3>1, <3>2 DEF Held, InHand
    <3> QED BY <2>1, <2>3, <3>3 DEF MessageHeld
  <2> QED BY <2>2, <2>3
<1>12. TimersKept'
  <2>1. ASSUME NEW u \in Timer PROVE TimerKept(u)'
    <3>1. TimerKept(u) /\ (InSwitch' <=> InSwitch) /\ (InHand(u)' <=> InHand(u))
          /\ daemon' = daemon
      BY <1>1, <1>2 DEF TimersKept, InSwitch, InHand
    <3>2. CASE u = tm BY <1>3, <1>4, <1>5, <3>1, <3>2 DEF TimerKept, ListTimed
    <3>3. CASE u # tm BY <1>1, <1>6, <3>1, <3>3, TimerStays
    <3> QED BY <3>2, <3>3
  <2> QED BY <2>1 DEF TimersKept
<1>13. HeadKnown' /\ SleepsTillDue' /\ DaemonPath' BY <1>1, <1>7, DaemonKnows
<1> QED BY <1>8, <1>9, <1>10, <1>11, <1>12, <1>13 DEF IInv, Working

--------------------
\* The daemon's steps.

\* A step of the daemon that touches no timer.
LEMMA DaemonMoves ==
  ASSUME IInv, ~Halted, UNCHANGED <<xTickCount, xLastTime, timer, sender>>,
         InSwitch' <=> InSwitch,
         \A tm \in Timer : InHand(tm)' =>
            InHand(tm) /\ daemon'.xNextExpireTime = daemon.xNextExpireTime
  PROVE  /\ TimersKept' /\ ListedIsActive'
         /\ xTickCount' \in Tick /\ xLastTime' \in Tick
         /\ timer' \in [Timer -> TimerRecord] /\ sender' \in [Sender -> Message]
         /\ \A s \in Sender : sender'[s] = NoMessage
                                \/ Fit(sender'[s], xTickCount')
<1>1. TypeOK /\ TimersKept /\ ListedIsActive /\ CommandsFit BY DEF IInv, Working
<1>2. TimersKept' BY <1>1, TimerStays DEF TimersKept
<1>3. ListedIsActive' BY <1>1 DEF ListedIsActive
<1>4. \A s \in Sender : sender'[s] = NoMessage \/ Fit(sender'[s], xTickCount')
  BY <1>1 DEF CommandsFit
<1> QED BY <1>1, <1>2, <1>3, <1>4 DEF TypeOK

\* Outside the list switch the daemon holds a command at these places only.
LEMMA EmptyHands ==
  ASSUME IInv, ~Halted,
         daemon.at \in {"next", "sample", "blocked", "expired", "commands"}
  PROVE  /\ daemon.msg = NoMessage /\ daemon.then = "commands"
         /\ daemon.after = "commands" /\ ~InSwitch /\ \A tm : ~InHand(tm)
<1>1. DaemonPath /\ MessageHeld /\ daemon \in Daemon BY DEF IInv, Working, TypeOK
<1>2. daemon.then = "commands" BY <1>1 DEF DaemonPath
<1>3. ~InSwitch /\ \A tm : ~InHand(tm) BY <1>2 DEF InSwitch, InHand
<1>4. daemon.after = "commands" BY <1>1, <1>3 DEF DaemonPath, Daemon
<1>5. ~Holding BY <1>2, <1>4 DEF Holding
<1> QED BY <1>1, <1>2, <1>3, <1>4, <1>5 DEF MessageHeld

LEMMA NoMoreCommandsKeeps ==
  ASSUME TimersFit, IInv, ~Halted, NoMoreCommands
  PROVE  IInv'
<1>1. /\ UNCHANGED <<xTickCount, xLastTime, timer, xTimerQueue, sender>>
      /\ daemon.at = "commands" /\ daemon' = DaemonAt("next")
  BY DEF NoMoreCommands
<1>2. /\ daemon' \in Daemon /\ daemon'.at = "next" /\ daemon'.msg = NoMessage
      /\ daemon'.then = "commands" /\ daemon'.after = "commands"
  BY <1>1, DaemonAtIs
<1>3. /\ DaemonPath' /\ MessageHeld' /\ HeadKnown' /\ SleepsTillDue'
      /\ ~InSwitch' /\ \A tm : ~InHand(tm)'
  BY <1>2, FreeDaemon
<1>4. ~InSwitch BY <1>1, EmptyHands
<1>5. /\ TimersKept' /\ ListedIsActive'
      /\ xTickCount' \in Tick /\ xLastTime' \in Tick
      /\ timer' \in [Timer -> TimerRecord] /\ sender' \in [Sender -> Message]
  BY <1>1, <1>3, <1>4, DaemonMoves
<1>6. TypeOK' BY <1>1, <1>2, <1>5 DEF IInv, TypeOK
<1>7. CommandsFit' BY <1>1 DEF IInv, Working, CommandsFit
<1> QED BY <1>3, <1>5, <1>6, <1>7 DEF IInv, Working

LEMMA ExecutePendedKeeps ==
  ASSUME TimersFit, IInv, ~Halted, ExecutePended
  PROVE  IInv'
<1>1. /\ UNCHANGED <<xTickCount, xLastTime, timer, daemon, sender>>
      /\ xTimerQueue # <<>> /\ xTimerQueue' = Tail(xTimerQueue)
  BY DEF ExecutePended
<1>2. TypeOK /\ CommandsFit BY DEF IInv, Working
<1>3. /\ xTimerQueue' \in Seq(Message) /\ Len(xTimerQueue') <= Len(xTimerQueue)
      /\ \A i \in DOMAIN xTimerQueue' : Fit(xTimerQueue'[i], xTickCount)
  BY <1>1, <1>2, TailFits DEF TypeOK, CommandsFit
<1>4. Len(xTimerQueue') <= configTIMER_QUEUE_LENGTH BY <1>2, <1>3 DEF TypeOK, TimersFit
<1>5. TypeOK' BY <1>1, <1>2, <1>3, <1>4 DEF TypeOK
<1>6. CommandsFit' BY <1>1, <1>2, <1>3 DEF CommandsFit
<1> QED BY <1>1, <1>5, <1>6, SameDaemon DEF IInv, Working

\* A list that holds a timer has a head.
LEMMA HeadExists ==
  ASSUME TimersFit, timer \in [Timer -> TimerRecord], On("current") # {}
  PROVE  HeadsOf("current") # {}
<1> DEFINE W == {timer[tm].value : tm \in On("current")}
           R == {ss \in Nat \X Nat : ss[1] < ss[2]}
<1>1. W \subseteq Nat /\ W # {}
  <2>1. \A tm \in On("current") : timer[tm].value \in Tick BY DEF On, TimerRecord
  <2>2. Tick \subseteq Nat BY TickFacts DEF Tick
  <2> QED BY <2>1, <2>2
<1>2. PICK x \in W : \A y \in W : ~ (<<y, x>> \in R)
  <2>1. IsWellFoundedOn(R, Nat) BY NatLessThanWellFounded, Zenon DEF OpToRel
  <2> HIDE DEF R, W
  <2> QED BY <1>1, <2>1, WFMin
<1>3. PICK h \in On("current") : timer[h].value = x BY <1>2
<1>4. ASSUME NEW u \in On("current") PROVE timer[h].value <= timer[u].value
  <2>1. timer[u].value \in W /\ timer[u].value \in Nat /\ x \in Nat BY <1>1
  <2>2. ~ (timer[u].value < x) BY <1>2, <2>1
  <2> QED BY <1>3, <2>1, <2>2
<1> QED BY <1>3, <1>4 DEF HeadsOf

LEMMA GetNextExpireTimeKeeps ==
  ASSUME TimersFit, IInv, ~Halted, prvGetNextExpireTime
  PROVE  IInv'
<1> DEFINE next == IF On("current") = {} THEN 0
                   ELSE timer[CHOOSE tm \in HeadsOf("current") : TRUE].value
           empty == On("current") = {}
<1>1. /\ UNCHANGED <<xTickCount, xLastTime, timer, xTimerQueue, sender>>
      /\ daemon.at = "next"
      /\ daemon' = [DaemonAt("sample") EXCEPT !.xListWasEmpty = empty,
                                              !.xNextExpireTime = next]
  BY DEF prvGetNextExpireTime
<1>2. TypeOK /\ timer \in [Timer -> TimerRecord] BY DEF IInv, TypeOK
<1>3. ASSUME ~empty
      PROVE  /\ \A tm \in On("current") : next <= timer[tm].value
             /\ \A tm \in HeadsOf("current") : timer[tm].value = next
             /\ next \in Tick
  <2> DEFINE head == CHOOSE tm \in HeadsOf("current") : TRUE
  <2>1. HeadsOf("current") # {} BY <1>2, <1>3, HeadExists
  <2>2. head \in HeadsOf("current") /\ next = timer[head].value BY <1>3, <2>1
  <2> HIDE DEF head, next
  <2>3. /\ head \in On("current") /\ On("current") \subseteq Timer
        /\ \A tm \in On("current") : timer[head].value <= timer[tm].value
    BY <2>2 DEF HeadsOf, On
  <2>4. \A tm \in Timer : timer[tm].value \in Tick BY <1>2 DEF TimerRecord
  <2>5. \A tm \in HeadsOf("current") :
          tm \in On("current") /\ timer[tm].value <= timer[head].value
    BY <2>3 DEF HeadsOf
  <2>6. ASSUME NEW tm \in HeadsOf("current") PROVE timer[tm].value = next
    <3> DEFINE a == timer[tm].value
               b == timer[head].value
    <3>1. a \in Tick /\ b \in Tick /\ a <= b /\ b <= a BY <2>3, <2>4, <2>5
    <3> HIDE DEF a, b
    <3>2. a = b BY <3>1, TickFacts DEF Tick
    <3> QED BY <2>2, <3>2 DEF a, b
  <2> QED BY <2>2, <2>3, <2>4, <2>6
<1>4. next \in Tick /\ empty \in BOOLEAN BY <1>3, TickFacts DEF Tick
<1>5. ASSUME empty PROVE On("current") = {} /\ next = 0 BY <1>5
<1>6. /\ DaemonAt("sample") \in Daemon /\ DaemonAt("sample").at = "sample"
      /\ DaemonAt("sample").msg = NoMessage
      /\ DaemonAt("sample").then = "commands"
      /\ DaemonAt("sample").after = "commands"
  BY DaemonAtIs
<1> HIDE DEF next
<1>7. daemon' \in Daemon BY <1>1, <1>4, <1>6 DEF Daemon
<1>8. /\ daemon'.at = "sample" /\ daemon'.msg = NoMessage
      /\ daemon'.then = "commands" /\ daemon'.after = "commands"
      /\ daemon'.xListWasEmpty = empty /\ daemon'.xNextExpireTime = next
  BY <1>1, <1>6 DEF Daemon
<1>9. DaemonPath' /\ MessageHeld' /\ SleepsTillDue'
  BY <1>8 DEF DaemonPath, MessageHeld, Holding, SleepsTillDue
<1>10. HeadKnown'
  <2>1. On("current")' = On("current") /\ HeadsOf("current")' = HeadsOf("current")
    BY <1>1 DEF On, HeadsOf
  <2>2. CASE empty BY <1>1, <1>5, <1>8, <2>1, <2>2 DEF HeadKnown
  <2>3. CASE ~empty BY <1>1, <1>3, <1>8, <2>1, <2>3 DEF HeadKnown
  <2> QED BY <2>2, <2>3
<1>11. ~InSwitch' /\ ~InSwitch /\ \A tm : ~InHand(tm)'
  BY <1>1, <1>8, EmptyHands DEF InSwitch, InHand
<1>12. /\ TimersKept' /\ ListedIsActive'
       /\ xTickCount' \in Tick /\ xLastTime' \in Tick
       /\ timer' \in [Timer -> TimerRecord] /\ sender' \in [Sender -> Message]
  BY <1>1, <1>11, DaemonMoves
<1>13. TypeOK' BY <1>1, <1>2, <1>7, <1>12 DEF TypeOK
<1>14. CommandsFit' BY <1>1 DEF IInv, Working, CommandsFit
<1> QED BY <1>9, <1>10, <1>12, <1>13, <1>14 DEF IInv, Working

\* A new sample of the time, without a wrap since the last one and with one.
LEMMA Resampled ==
  ASSUME TimersFit, NEW rec \in TimerRecord, NEW last \in Tick, NEW now \in Tick,
         ListTimed(rec, last, now, FALSE), last <= now
  PROVE  ListTimed(rec, now, now, FALSE)
<1>1. Elapsed(last, now) = now - last /\ Elapsed(now, now) = 0
  BY TickFacts DEF Elapsed, Tick
<1>2. rec.due \in Int /\ rec.value \in Int /\ Longest \in Int
      /\ last \in Int /\ now \in Int /\ TickMod \in Int
  BY TickFacts DEF TimerRecord, Tick
<1> QED BY <1>1, <1>2 DEF ListTimed

LEMMA WrapSampled ==
  ASSUME TimersFit, NEW rec \in TimerRecord, NEW last \in Tick, NEW now \in Tick,
         ListTimed(rec, last, now, FALSE), now < last
  PROVE  ListTimed(rec, now, now, TRUE)
<1>1. Elapsed(last, now) = now - last + TickMod BY TickFacts DEF Elapsed, Tick
<1>2. /\ rec.due \in Int /\ rec.value \in Int /\ Longest \in Int
      /\ last \in Int /\ now \in Int /\ TickMod \in Int /\ last < TickMod
  BY TickFacts DEF TimerRecord, Tick
<1>3. rec.list = "current" => rec.due = rec.value - now - TickMod
  BY <1>1, <1>2 DEF ListTimed
<1>4. rec.list = "overflow" => rec.due = rec.value - now /\ rec.value < Longest
  <2>1. rec.list = "overflow" =>
          /\ rec.due + (now - last + TickMod) = rec.value + TickMod - last
          /\ rec.due + (now - last + TickMod) <= Longest
    BY <1>1 DEF ListTimed
  <2> QED BY <1>2, <2>1
<1> QED BY <1>2, <1>3, <1>4 DEF ListTimed

\* The invariant on a timer, outside the list switch and within it.
LEMMA TimedNow ==
  ASSUME NEW tm, TimerKept(tm)
  PROVE  /\ ~InSwitch => ListTimed(timer[tm], xLastTime, xTickCount, FALSE)
         /\ InSwitch => ListTimed(timer[tm], xLastTime, xTickCount, TRUE)
<1> DEFINE S == InSwitch
<1>1. ListTimed(timer[tm], xLastTime, xTickCount, S) BY DEF TimerKept
<1> HIDE DEF S
<1>2. /\ ~S => ListTimed(timer[tm], xLastTime, xTickCount, FALSE)
      /\ S => ListTimed(timer[tm], xLastTime, xTickCount, TRUE)
  BY <1>1 DEF ListTimed
<1> QED BY <1>2 DEF S

LEMMA TimedNext ==
  ASSUME NEW tm, timer'[tm].xTimerPeriodInTicks \in 1..Longest,
         InHand(tm)' =>
           /\ timer'[tm].list = "none" /\ timer'[tm].active
           /\ timer'[tm].allocated
           /\ HandTimed(timer'[tm], xLastTime', xTickCount', daemon'.xNextExpireTime),
         ~InSwitch' => ListTimed(timer'[tm], xLastTime', xTickCount', FALSE),
         InSwitch' => ListTimed(timer'[tm], xLastTime', xTickCount', TRUE)
  PROVE  TimerKept(tm)'
<1> DEFINE S == InSwitch'
<1>1. /\ ~S => ListTimed(timer'[tm], xLastTime', xTickCount', FALSE)
      /\ S => ListTimed(timer'[tm], xLastTime', xTickCount', TRUE)
  OBVIOUS
<1> HIDE DEF S
<1>2. ListTimed(timer'[tm], xLastTime', xTickCount', S) BY <1>1 DEF ListTimed
<1>3. ListTimed(timer'[tm], xLastTime', xTickCount', InSwitch') BY <1>2 DEF S
<1> QED BY <1>3 DEF TimerKept

\* All timers at a new sample of the time.
LEMMA TimersResampled ==
  ASSUME TimersFit, IInv, ~Halted, UNCHANGED <<xTickCount, timer>>,
         xLastTime' = xTickCount, ~InSwitch, xLastTime <= xTickCount,
         ~InSwitch', \A tm : ~InHand(tm)'
  PROVE  TimersKept'
<1> SUFFICES ASSUME NEW tm \in Timer PROVE TimerKept(tm)' BY DEF TimersKept
<1>1. /\ TimerKept(tm) /\ timer[tm] \in TimerRecord
      /\ xTickCount \in Tick /\ xLastTime \in Tick
  BY DEF IInv, Working, TimersKept, TypeOK
<1>2. ListTimed(timer[tm], xTickCount, xTickCount, FALSE) BY <1>1, TimedNow, Resampled
<1>3. timer'[tm].xTimerPeriodInTicks \in 1..Longest BY <1>1 DEF TimerKept
<1> QED BY <1>2, <1>3, TimedNext

LEMMA TimersWrapped ==
  ASSUME TimersFit, IInv, ~Halted, UNCHANGED <<xTickCount, timer>>,
         xLastTime' = xTickCount, ~InSwitch, xTickCount < xLastTime,
         InSwitch', \A tm : ~InHand(tm)'
  PROVE  TimersKept'
<1> SUFFICES ASSUME NEW tm \in Timer PROVE TimerKept(tm)' BY DEF TimersKept
<1>1. /\ TimerKept(tm) /\ timer[tm] \in TimerRecord
      /\ xTickCount \in Tick /\ xLastTime \in Tick
  BY DEF IInv, Working, TimersKept, TypeOK
<1>2. ListTimed(timer[tm], xTickCount, xTickCount, TRUE) BY <1>1, TimedNow, WrapSampled
<1>3. timer'[tm].xTimerPeriodInTicks \in 1..Longest BY <1>1 DEF TimerKept
<1> QED BY <1>2, <1>3, TimedNext

LEMMA SampleSeesWrapKeeps ==
  ASSUME TimersFit, IInv, ~Halted, SampleSeesWrap
  PROVE  IInv'
<1>1. /\ UNCHANGED <<xTickCount, timer, xTimerQueue, sender>>
      /\ daemon.at = "sample" /\ xTickCount < xLastTime /\ xLastTime' = xTickCount
      /\ daemon' = [DaemonAt("switch") EXCEPT !.xTimeNow = xTickCount]
  BY DEF SampleSeesWrap
<1>2. TypeOK BY DEF IInv
<1>3. /\ DaemonAt("switch") \in Daemon /\ DaemonAt("switch").at = "switch"
      /\ DaemonAt("switch").msg = NoMessage
      /\ DaemonAt("switch").then = "commands"
      /\ DaemonAt("switch").after = "commands"
  BY DaemonAtIs
<1>4. /\ daemon' \in Daemon /\ daemon'.at = "switch" /\ daemon'.msg = NoMessage
      /\ daemon'.then = "commands" /\ daemon'.after = "commands"
  BY <1>1, <1>2, <1>3 DEF Daemon, TypeOK
<1>5. DaemonPath' /\ MessageHeld' /\ HeadKnown' /\ SleepsTillDue'
  BY <1>4 DEF DaemonPath, MessageHeld, Holding, HeadKnown, SleepsTillDue
<1>6. InSwitch' /\ ~InSwitch /\ \A tm : ~InHand(tm)'
  BY <1>1, <1>4, EmptyHands DEF InSwitch, InHand
<1>7. TimersKept' BY <1>1, <1>6, TimersWrapped
<1>8. TypeOK' BY <1>1, <1>2, <1>4 DEF TypeOK
<1>9. CommandsFit' /\ ListedIsActive'
  BY <1>1 DEF IInv, Working, CommandsFit, ListedIsActive
<1> QED BY <1>5, <1>7, <1>8, <1>9 DEF IInv, Working

LEMMA SampleSeesExpiryKeeps ==
  ASSUME TimersFit, IInv, ~Halted, SampleSeesExpiry
  PROVE  IInv'
<1>1. /\ UNCHANGED <<xTickCount, timer, xTimerQueue, sender>>
      /\ daemon.at = "sample" /\ xTickCount >= xLastTime /\ xLastTime' = xTickCount
      /\ ~daemon.xListWasEmpty /\ daemon.xNextExpireTime <= xTickCount
      /\ daemon' = [daemon EXCEPT !.at = "expired", !.xTimeNow = xTickCount]
  BY DEF SampleSeesExpiry
<1>2. /\ TypeOK /\ HeadKnown /\ daemon \in Daemon
      /\ xTickCount \in Tick /\ xLastTime \in Tick
  BY DEF IInv, Working, TypeOK
<1>3. /\ daemon.msg = NoMessage /\ daemon.then = "commands"
      /\ daemon.after = "commands" /\ ~InSwitch
  BY <1>1, EmptyHands
<1>4. /\ daemon' \in Daemon /\ daemon'.at = "expired" /\ daemon'.msg = NoMessage
      /\ daemon'.then = "commands" /\ daemon'.after = "commands"
      /\ daemon'.xNextExpireTime = daemon.xNextExpireTime
      /\ daemon'.xTimeNow = xTickCount
  BY <1>1, <1>2, <1>3 DEF Daemon
<1>5. DaemonPath' /\ MessageHeld' /\ SleepsTillDue'
  BY <1>4 DEF DaemonPath, MessageHeld, Holding, SleepsTillDue
<1>6. ~InSwitch' /\ \A tm : ~InHand(tm)' BY <1>4 DEF InSwitch, InHand
<1>7. HeadKnown'
  <2>1. HeadsOf("current")' = HeadsOf("current") BY <1>1 DEF HeadsOf, On
  <2>2. \A tm \in HeadsOf("current") : timer[tm].value = daemon.xNextExpireTime
    BY <1>1, <1>2 DEF HeadKnown
  <2> QED BY <1>1, <1>4, <2>1, <2>2 DEF HeadKnown
<1>8. TimersKept'
  <2>1. xLastTime <= xTickCount BY <1>1, <1>2, TickFacts DEF Tick
  <2> QED BY <1>1, <1>3, <1>6, <2>1, TimersResampled
<1>9. TypeOK' BY <1>1, <1>2, <1>4 DEF TypeOK
<1>10. CommandsFit' /\ ListedIsActive'
  BY <1>1 DEF IInv, Working, CommandsFit, ListedIsActive
<1> QED BY <1>5, <1>7, <1>8, <1>9, <1>10 DEF IInv, Working

\* How long the daemon sleeps: to the next expiry, or to the wrap when the
\* timers that are left are due beyond it (timers.c:619).
LEMMA SleepIs ==
  ASSUME TimersFit, TypeOK, HeadKnown, daemon.at = "sample",
         daemon.xListWasEmpty \/ daemon.xNextExpireTime > xTickCount
  PROVE  /\ Sleep \in 1..Forever
         /\ daemon.xListWasEmpty /\ On("overflow") # {} =>
              Sleep <= TickMod - xTickCount
         /\ ~daemon.xListWasEmpty => Sleep = daemon.xNextExpireTime - xTickCount
<1> DEFINE delay == (daemon.xNextExpireTime - xTickCount + TickMod) % TickMod
<1>1. /\ xTickCount \in Tick /\ daemon.xNextExpireTime \in Tick
      /\ daemon.xListWasEmpty \in BOOLEAN
  BY DEF TypeOK, Daemon
<1>2. delay = IF daemon.xNextExpireTime < xTickCount
                THEN daemon.xNextExpireTime - xTickCount + TickMod
                ELSE daemon.xNextExpireTime - xTickCount
  <2> DEFINE next == daemon.xNextExpireTime
  <2>1. next \in Tick /\ xTickCount \in Nat /\ xTickCount <= TickMod
    BY <1>1, TickFacts DEF Tick
  <2> HIDE DEF next
  <2>2. (next - xTickCount + TickMod) % TickMod =
          IF next < xTickCount THEN next - xTickCount + TickMod
          ELSE next - xTickCount
    BY <2>1, TickSums
  <2> QED BY <2>2 DEF next
<1>3. Sleep = IF daemon.xListWasEmpty /\ On("overflow") = {} THEN Forever
              ELSE IF delay = 0 THEN 1 ELSE delay
  BY DEF Sleep
<1> HIDE DEF delay
<1>4. CASE ~daemon.xListWasEmpty
  <2>1. daemon.xNextExpireTime > xTickCount BY <1>4
  <2>2. delay = daemon.xNextExpireTime - xTickCount /\ delay \in 1..TickMod
    BY <1>1, <1>2, <2>1, TickFacts DEF Tick
  <2>3. Sleep = delay BY <1>3, <1>4, <2>2, TickFacts
  <2> QED BY <1>4, <2>2, <2>3 DEF Forever
<1>5. CASE daemon.xListWasEmpty
  <2>1. daemon.xNextExpireTime = 0 BY <1>5 DEF HeadKnown
  <2>2. delay = IF xTickCount = 0 THEN 0 ELSE TickMod - xTickCount
    BY <1>1, <1>2, <2>1, TickFacts DEF Tick
  <2>3. CASE On("overflow") = {} BY <1>3, <1>5, <2>3, TickFacts DEF Forever
  <2>4. CASE On("overflow") # {}
    <3>1. Sleep = IF delay = 0 THEN 1 ELSE delay BY <1>3, <1>5, <2>4
    <3> QED BY <1>1, <1>5, <2>2, <3>1, TickFacts DEF Tick, Forever
  <2> QED BY <2>3, <2>4
<1> QED BY <1>1, <1>4, <1>5

LEMMA BlockOrGoOnKeeps ==
  ASSUME TimersFit, IInv, ~Halted, BlockOrGoOn
  PROVE  IInv'
<1>1. /\ UNCHANGED <<xTickCount, timer, xTimerQueue, sender>>
      /\ daemon.at = "sample" /\ xTickCount >= xLastTime /\ xLastTime' = xTickCount
      /\ daemon.xListWasEmpty \/ daemon.xNextExpireTime > xTickCount
      /\ daemon' = IF xTimerQueue = <<>>
                     THEN [DaemonAt("blocked") EXCEPT !.sleep = Sleep]
                     ELSE DaemonAt("commands")
  BY DEF BlockOrGoOn
<1>2. /\ TypeOK /\ HeadKnown /\ TimersKept /\ daemon \in Daemon
      /\ xTickCount \in Tick /\ xLastTime \in Tick
      /\ timer \in [Timer -> TimerRecord]
  BY DEF IInv, Working, TypeOK
<1>3. ~InSwitch BY <1>1, EmptyHands
<1>4. xLastTime <= xTickCount BY <1>1, <1>2, TickFacts DEF Tick
<1>5. /\ Sleep \in 1..Forever
      /\ daemon.xListWasEmpty /\ On("overflow") # {} =>
           Sleep <= TickMod - xTickCount
      /\ ~daemon.xListWasEmpty => Sleep = daemon.xNextExpireTime - xTickCount
  BY <1>1, <1>2, SleepIs
<1>6. /\ daemon' \in Daemon /\ daemon'.msg = NoMessage
      /\ daemon'.then = "commands" /\ daemon'.after = "commands"
      /\ \/ daemon'.at = "commands"
         \/ daemon'.at = "blocked" /\ daemon'.sleep = Sleep
  <2>1. /\ DaemonAt("blocked") \in Daemon /\ DaemonAt("blocked").at = "blocked"
        /\ DaemonAt("blocked").msg = NoMessage
        /\ DaemonAt("blocked").then = "commands"
        /\ DaemonAt("blocked").after = "commands"
        /\ DaemonAt("commands") \in Daemon
        /\ DaemonAt("commands").at = "commands"
        /\ DaemonAt("commands").msg = NoMessage
        /\ DaemonAt("commands").then = "commands"
        /\ DaemonAt("commands").after = "commands"
    BY DaemonAtIs
  <2>2. CASE xTimerQueue = <<>>
    <3>1. daemon' = [DaemonAt("blocked") EXCEPT !.sleep = Sleep] BY <1>1, <2>2
    <3>2. Sleep \in 0..Forever BY <1>5, TickFacts DEF Forever
    <3> QED BY <2>1, <3>1, <3>2 DEF Daemon
  <2>3. CASE xTimerQueue # <<>> BY <1>1, <2>1, <2>3
  <2> QED BY <2>2, <2>3
<1>7. DaemonPath' /\ MessageHeld' /\ HeadKnown'
  BY <1>5, <1>6, TickFacts DEF DaemonPath, MessageHeld, Holding, HeadKnown, Forever
<1>8. ~InSwitch' /\ \A tm : ~InHand(tm)' BY <1>6 DEF InSwitch, InHand
<1>9. TimersKept' BY <1>1, <1>3, <1>4, <1>8, TimersResampled
<1>10. ASSUME NEW tm \in Timer, timer[tm].list # "none"
       PROVE  Sleep <= timer[tm].due
  <2>1. /\ timer[tm] \in TimerRecord
        /\ timer[tm].value \in Tick /\ timer[tm].due \in Int
        /\ timer[tm].list \in {"current", "overflow"}
    BY <1>2, <1>10, TickFacts DEF TimerRecord
  <2>2. ListTimed(timer[tm], xLastTime, xTickCount, FALSE)
    BY <1>2, <1>3, TimedNow DEF TimersKept
  <2>3. ListTimed(timer[tm], xTickCount, xTickCount, FALSE)
    BY <1>2, <1>4, <2>1, <2>2, Resampled
  <2>4. Elapsed(xTickCount, xTickCount) = 0 BY <1>2, ElapsedIs
  <2>5. CASE timer[tm].list = "current"
    <3>1. timer[tm].due = timer[tm].value - xTickCount
      BY <2>1, <2>3, <2>4, <2>5 DEF ListTimed
    <3>2. ~daemon.xListWasEmpty /\ daemon.xNextExpireTime <= timer[tm].value
      BY <1>1, <1>2, <2>5 DEF HeadKnown, On
    <3>3. daemon.xNextExpireTime \in Tick BY <1>2 DEF Daemon
    <3> QED BY <1>2, <1>5, <2>1, <3>1, <3>2, <3>3, TickFacts DEF Tick
  <2>6. CASE timer[tm].list = "overflow"
    <3>1. timer[tm].due = timer[tm].value + TickMod - xTickCount
      BY <2>1, <2>3, <2>4, <2>6 DEF ListTimed
    <3>2. On("overflow") # {} BY <2>6 DEF On
    <3>3. Sleep <= TickMod - xTickCount
      <4>1. CASE daemon.xListWasEmpty BY <1>5, <3>2, <4>1
      <4>2. CASE ~daemon.xListWasEmpty
        <5>1. daemon.xNextExpireTime \in Tick BY <1>2 DEF Daemon
        <5> QED BY <1>2, <1>5, <4>2, <5>1, TickFacts DEF Tick
      <4> QED BY <4>1, <4>2
    <3>4. Sleep \in Int BY <1>5, TickFacts DEF Forever
    <3> QED BY <1>2, <2>1, <3>1, <3>3, <3>4, TickFacts DEF Tick
  <2> QED BY <2>1, <2>5, <2>6
<1>11. SleepsTillDue' BY <1>1, <1>6, <1>10 DEF SleepsTillDue
<1>12. TypeOK' BY <1>1, <1>2, <1>6 DEF TypeOK
<1>13. CommandsFit' /\ ListedIsActive'
  BY <1>1 DEF IInv, Working, CommandsFit, ListedIsActive
<1> QED BY <1>7, <1>9, <1>11, <1>12, <1>13 DEF IInv, Working

\* The time of the command in the daemon's hands is sampled after the command
\* is received, so that the command is not the younger of the two
\* (timers.c:780).
LEMMA SampleAfterReceiveKeeps ==
  ASSUME TimersFit, IInv, ~Halted, SampleAfterReceive
  PROVE  IInv'
<1>1. /\ UNCHANGED <<xTickCount, timer, xTimerQueue, sender>>
      /\ daemon.at = "received" /\ xLastTime' = xTickCount
      /\ daemon' = IF xTickCount < xLastTime
                     THEN [daemon EXCEPT !.xTimeNow = xTickCount, !.at = "switch",
                                         !.after = "apply"]
                     ELSE [daemon EXCEPT !.xTimeNow = xTickCount, !.at = "apply"]
  BY DEF SampleAfterReceive
<1>2. /\ TypeOK /\ DaemonPath /\ MessageHeld /\ TimersKept /\ daemon \in Daemon
      /\ xTickCount \in Tick /\ xLastTime \in Tick
  BY DEF IInv, Working, TypeOK
<1>3. daemon.then = "commands" /\ ~InSwitch /\ daemon.after = "commands"
  <2>1. daemon.then = "commands" BY <1>1, <1>2 DEF DaemonPath
  <2>2. ~InSwitch BY <1>1, <2>1 DEF InSwitch
  <2> QED BY <1>2, <2>1, <2>2 DEF DaemonPath, Daemon
<1>4. /\ daemon' \in Daemon
      /\ daemon'.msg = daemon.msg /\ daemon'.then = "commands"
      /\ daemon'.xTimeNow = xTickCount
      /\ \/ /\ xTickCount < xLastTime
            /\ daemon'.at = "switch" /\ daemon'.after = "apply"
         \/ /\ ~(xTickCount < xLastTime)
            /\ daemon'.at = "apply" /\ daemon'.after = "commands"
  BY <1>1, <1>2, <1>3 DEF Daemon
<1>5. Held(daemon.msg) BY <1>1, <1>2 DEF MessageHeld, Holding
<1>6. ~InHand(daemon.msg.timer)' /\ \A tm : ~InHand(tm)' BY <1>4 DEF InHand
<1>7. Held(daemon.msg)'
  <2>1. Elapsed(xLastTime', xTickCount') = 0 BY <1>1, <1>2, ElapsedIs
  <2>2. daemon.msg.age \in 0..AgeBound BY <1>2 DEF Daemon, Message
  <2>3. daemon.msg.cmd = "changePeriod" => 0 = daemon.msg.age
    BY <1>1, <1>5 DEF Held, Starts
  <2>4. 0 <= daemon.msg.age BY <2>2, TickFacts
  <2> QED BY <1>1, <1>4, <1>5, <1>6, <2>1, <2>3, <2>4 DEF Held
<1>8. MessageHeld' BY <1>4, <1>7 DEF MessageHeld, Holding
<1>9. DaemonPath' /\ HeadKnown' /\ SleepsTillDue'
  BY <1>4 DEF DaemonPath, InSwitch, HeadKnown, SleepsTillDue
<1>10. TimersKept'
  <2>1. CASE xTickCount < xLastTime
    <3>1. InSwitch' BY <1>4, <2>1 DEF InSwitch
    <3> QED BY <1>1, <1>3, <1>6, <2>1, <3>1, TimersWrapped
  <2>2. CASE ~(xTickCount < xLastTime)
    <3>1. ~InSwitch' /\ xLastTime <= xTickCount
      BY <1>2, <1>4, <2>2, TickFacts DEF InSwitch, Tick
    <3> QED BY <1>1, <1>3, <1>6, <2>2, <3>1, TimersResampled
  <2> QED BY <2>1, <2>2
<1>11. TypeOK' BY <1>1, <1>2, <1>4 DEF TypeOK
<1>12. CommandsFit' /\ ListedIsActive'
  BY <1>1 DEF IInv, Working, CommandsFit, ListedIsActive
<1> QED BY <1>8, <1>9, <1>10, <1>11, <1>12 DEF IInv, Working

--------------------
\* Timers taken off their lists and put back.

LEMMA RemovedIs ==
  ASSUME TimersFit, NEW rec \in TimerRecord
  PROVE  /\ Removed(rec) \in TimerRecord
         /\ Removed(rec).list = "none" /\ Removed(rec).due = 0
         /\ Removed(rec).xTimerPeriodInTicks = rec.xTimerPeriodInTicks
         /\ Removed(rec).active = rec.active /\ Removed(rec).auto = rec.auto
         /\ Removed(rec).allocated = rec.allocated
<1>1. 0 \in Tick /\ 0 \in -LateBound..TickMod BY TickFacts DEF Tick
<1> QED BY <1>1 DEF Removed, TimerRecord

LEMMA InsertedIs ==
  ASSUME TimersFit, NEW rec \in TimerRecord, NEW next \in Tick,
         NEW place \in {"now", "current", "overflow"}, NEW due,
         place # "now" => due \in -LateBound..TickMod
  PROVE  LET new == Inserted(rec, next, place, due)
         IN  /\ new \in TimerRecord
             /\ new.list = (IF place = "now" THEN "none" ELSE place)
             /\ place # "now" => new.value = next /\ new.due = due
             /\ new.xTimerPeriodInTicks = rec.xTimerPeriodInTicks
             /\ new.active = rec.active /\ new.auto = rec.auto
             /\ new.allocated = rec.allocated
<1> DEFINE v == IF place = "now" THEN 0 ELSE next % TickMod
           l == IF place = "now" THEN "none" ELSE place
           d == IF place = "now" THEN 0 ELSE due
<1>1. next % TickMod = next BY TickFacts DEF Tick
<1>2. v \in Tick /\ (place # "now" => v = next) BY <1>1, TickFacts DEF Tick
<1>3. l \in {"none", "current", "overflow"} OBVIOUS
<1>4. d \in -LateBound..TickMod /\ (place # "now" => d = due) BY TickFacts
<1>5. Inserted(rec, next, place, due) =
        [rec EXCEPT !.value = v, !.list = l, !.due = d]
  BY DEF Inserted
<1> HIDE DEF v, d
<1> QED BY <1>2, <1>3, <1>4, <1>5 DEF TimerRecord

\* A timer inserted in the list its expiry belongs on.
LEMMA InsertedTimed ==
  ASSUME TimersFit, NEW rec \in TimerRecord, NEW next \in Tick,
         NEW place \in {"now", "current", "overflow"}, NEW due \in Int,
         place # "now" => due \in -LateBound..TickMod,
         NEW last \in Tick, NEW now \in Tick,
         place # "now" => due + Elapsed(last, now) <= Longest,
         place = "current" => due + Elapsed(last, now) = next - last,
         place = "overflow" => due + Elapsed(last, now) = next + TickMod - last
  PROVE  ListTimed(Inserted(rec, next, place, due), last, now, FALSE)
BY InsertedIs DEF ListTimed

\* A command that starts a timer again is queued, or the queue is full: then a
\* failed assertion halts the system, or nothing tells (timers.c:534, 897, 926).
LEMMA RestartIs ==
  ASSUME TimersFit, TypeOK, CommandsFit, NEW timers, NEW tm \in Timer, NEW value,
         NEW age \in 0..AgeBound, value % TickMod \in Tick,
         (value % TickMod) + age \in {xTickCount, xTickCount + TickMod},
         NEW then, Restart(timers, tm, value, age, then)
  PROVE  /\ timer' = timers
         /\ xTimerQueue' \in Seq(Message)
         /\ Len(xTimerQueue') <= configTIMER_QUEUE_LENGTH
         /\ \A i \in DOMAIN xTimerQueue' : Fit(xTimerQueue'[i], xTickCount)
         /\ daemon' = then \/ daemon' = DaemonAt("asserted")
<1> DEFINE v == value % TickMod
           m == [cmd |-> "startDontTrace", timer |-> tm, value |-> v, age |-> age]
<1> HIDE DEF v
<1>1. v \in Tick /\ v + age \in {xTickCount, xTickCount + TickMod} BY DEF v
<1>2. Fit(m, xTickCount)
  <2>1. m \in Message BY <1>1 DEF Message, Command
  <2> QED BY <1>1, <2>1 DEF Fit, Starts, Stamped
<1>3. /\ xTimerQueue \in Seq(Message)
      /\ Len(xTimerQueue) <= configTIMER_QUEUE_LENGTH
      /\ \A i \in DOMAIN xTimerQueue : Fit(xTimerQueue[i], xTickCount)
  BY DEF TypeOK, CommandsFit
<1>4. CASE Len(xTimerQueue) < configTIMER_QUEUE_LENGTH
  <2>1. xTimerQueue' = Append(xTimerQueue, m) /\ timer' = timers /\ daemon' = then
    BY <1>4 DEF Restart, v
  <2> HIDE DEF m
  <2> QED BY <1>2, <1>3, <1>4, <2>1, AppendFits
<1>5. CASE ~(Len(xTimerQueue) < configTIMER_QUEUE_LENGTH) BY <1>3, <1>5 DEF Restart
<1> QED BY <1>4, <1>5

\* At the expiry it has found, the daemon's head is due (timers.c:519).
LEMMA ExpiredIsDue ==
  ASSUME TimersFit, IInv, ~Halted, daemon.at = "expired",
         NEW tm \in HeadsOf("current")
  PROVE  /\ tm \in Timer /\ timer[tm].list = "current"
         /\ timer[tm].value = daemon.xNextExpireTime
         /\ daemon.xNextExpireTime \in Tick /\ daemon.xTimeNow = xLastTime
         /\ daemon.xNextExpireTime <= xLastTime
         /\ timer[tm].due \in -LateBound..0
         /\ timer[tm].due + Elapsed(xLastTime, xTickCount) =
              daemon.xNextExpireTime - xLastTime
<1>1. /\ TypeOK /\ HeadKnown /\ TimersKept /\ daemon \in Daemon
      /\ xTickCount \in Tick /\ xLastTime \in Tick
      /\ timer \in [Timer -> TimerRecord]
  BY DEF IInv, Working, TypeOK
<1>2. tm \in Timer /\ timer[tm].list = "current" BY DEF HeadsOf, On
<1>3. /\ timer[tm].value = daemon.xNextExpireTime
      /\ daemon.xNextExpireTime \in Tick /\ daemon.xTimeNow = xLastTime
      /\ daemon.xNextExpireTime <= xLastTime
  BY <1>1 DEF HeadKnown, Daemon
<1>4. ListTimed(timer[tm], xLastTime, xTickCount, FALSE)
  BY <1>1, <1>2, EmptyHands, TimedNow DEF TimersKept
<1>5. timer[tm].due + Elapsed(xLastTime, xTickCount) =
        daemon.xNextExpireTime - xLastTime
  BY <1>2, <1>3, <1>4 DEF ListTimed
<1>6. timer[tm].due \in -LateBound..TickMod BY <1>1, <1>2 DEF TimerRecord
<1>7. timer[tm].due <= 0
  <2> DEFINE e == Elapsed(xLastTime, xTickCount)
             d == timer[tm].due
             n == daemon.xNextExpireTime
  <2>1. e \in 0..(TickMod - 1) BY <1>1, ElapsedIs
  <2>2. d + e = n - xLastTime /\ n \in Tick /\ n <= xLastTime
        /\ d \in -LateBound..TickMod
    BY <1>3, <1>5, <1>6
  <2> HIDE DEF e, d, n
  <2>3. d <= 0 BY <1>1, <2>1, <2>2, TickFacts DEF Tick
  <2> QED BY <2>3 DEF d
<1>8. timer[tm].due \in -LateBound..0 BY <1>6, <1>7, TickFacts
<1> QED BY <1>2, <1>3, <1>5, <1>8

\* What the step that puts a timer aside, or on a list again, keeps when the
\* lists are not being switched.
LEMMA OneTimerMoves ==
  ASSUME TimersFit, IInv, ~Halted, UNCHANGED <<xTickCount, xLastTime>>,
         NEW tm \in Timer, NEW rec, rec \in TimerRecord,
         timer' = [timer EXCEPT ![tm] = rec],
         rec.xTimerPeriodInTicks \in 1..Longest,
         rec.list # "none" => rec.active /\ rec.allocated,
         ListTimed(rec, xLastTime, xTickCount, FALSE),
         ~InSwitch, ~InSwitch', \A u : ~InHand(u)'
  PROVE  /\ timer' \in [Timer -> TimerRecord] /\ TimersKept' /\ ListedIsActive'
<1>1. /\ TypeOK /\ TimersKept /\ ListedIsActive
      /\ timer \in [Timer -> TimerRecord]
  BY DEF IInv, Working, TypeOK
<1>2. timer' \in [Timer -> TimerRecord] /\ timer'[tm] = rec BY <1>1
<1>3. \A u \in Timer : u # tm => timer'[u] = timer[u] BY <1>1
<1>4. TimerKept(tm)' BY <1>2, TimedNext
<1>5. ASSUME NEW u \in Timer, u # tm PROVE TimerKept(u)'
  BY <1>1, <1>3, <1>5, TimerStays DEF TimersKept
<1>6. TimersKept' BY <1>4, <1>5 DEF TimersKept
<1>7. ListedIsActive' BY <1>1, <1>2, <1>3 DEF ListedIsActive
<1> QED BY <1>2, <1>6, <1>7

LEMMA ProcessExpiredTimerKeeps ==
  ASSUME TimersFit, IInv, ~Halted, prvProcessExpiredTimer
  PROVE  /\ IInv'
         /\ daemon'.at = "callback" => timer[daemon'.timer].due <= 0
<1>1. daemon.at = "expired" /\ UNCHANGED <<xTickCount, xLastTime, sender>>
  BY DEF prvProcessExpiredTimer
<1> DEFINE rec(tm) == Removed(timer[tm])
           period(tm) == rec(tm).xTimerPeriodInTicks
           next(tm) == (daemon.xNextExpireTime + period(tm)) % TickMod
           place(tm) == Place(next(tm), daemon.xTimeNow, daemon.xNextExpireTime,
                              period(tm))
           due(tm) == timer[tm].due + period(tm)
           calls(tm) == [DaemonAt("callback") EXCEPT !.timer = tm]
           again(tm) == Inserted(rec(tm), next(tm), place(tm), due(tm))
<1>2. PICK tm \in HeadsOf("current") :
        IF ~rec(tm).auto
          THEN /\ timer' = [timer EXCEPT ![tm] = [rec(tm) EXCEPT !.active = FALSE]]
               /\ daemon' = calls(tm)
               /\ UNCHANGED xTimerQueue
        ELSE IF place(tm) = "now"
          THEN Restart([timer EXCEPT ![tm] = again(tm)],
                       tm, daemon.xNextExpireTime, -timer[tm].due, calls(tm))
        ELSE /\ timer' = [timer EXCEPT ![tm] = again(tm)]
             /\ daemon' = calls(tm)
             /\ UNCHANGED xTimerQueue
  BY DEF prvProcessExpiredTimer
<1>3. /\ TypeOK /\ CommandsFit /\ TimersKept /\ daemon \in Daemon
      /\ xTickCount \in Tick /\ xLastTime \in Tick
      /\ timer \in [Timer -> TimerRecord] /\ ListedIsActive
  BY DEF IInv, Working, TypeOK
<1>4. /\ tm \in Timer /\ timer[tm].list = "current"
      /\ timer[tm].value = daemon.xNextExpireTime
      /\ daemon.xNextExpireTime \in Tick /\ daemon.xTimeNow = xLastTime
      /\ daemon.xNextExpireTime <= xLastTime
      /\ timer[tm].due \in -LateBound..0
      /\ timer[tm].due + Elapsed(xLastTime, xTickCount) =
           daemon.xNextExpireTime - xLastTime
  BY <1>1, ExpiredIsDue
<1>5. /\ rec(tm) \in TimerRecord
      /\ rec(tm).list = "none" /\ period(tm) = timer[tm].xTimerPeriodInTicks
      /\ rec(tm).active = timer[tm].active
      /\ rec(tm).allocated = timer[tm].allocated
      /\ timer[tm].active /\ timer[tm].allocated
      /\ period(tm) \in 1..Longest
  BY <1>3, <1>4, RemovedIs DEF ListedIsActive, TimersKept, TimerKept
<1>6. ~InSwitch BY <1>1, EmptyHands
<1>7. /\ calls(tm) \in Daemon /\ calls(tm).at = "callback"
      /\ calls(tm).timer = tm /\ calls(tm).msg = NoMessage
      /\ calls(tm).then = "commands" /\ calls(tm).after = "commands"
  <2>1. /\ DaemonAt("callback") \in Daemon
        /\ DaemonAt("callback").at = "callback"
        /\ DaemonAt("callback").msg = NoMessage
        /\ DaemonAt("callback").then = "commands"
        /\ DaemonAt("callback").after = "commands"
    BY DaemonAtIs
  <2> QED BY <1>4, <2>1 DEF Daemon
<1> DEFINE age == xLastTime - daemon.xNextExpireTime
<1>8. /\ age \in 0..(TickMod - 1)
      /\ daemon.xNextExpireTime + age \in {xLastTime, xLastTime + TickMod}
  BY <1>3, <1>4, TickFacts DEF Tick
<1> HIDE DEF age, calls, rec
<1>9. /\ next(tm) \in Tick /\ place(tm) \in {"now", "current", "overflow"}
      /\ place(tm) = "now" <=> period(tm) <= age
      /\ place(tm) = "current" => next(tm) = xLastTime + period(tm) - age
      /\ place(tm) = "overflow" =>
           next(tm) = xLastTime + period(tm) - age - TickMod
  BY <1>3, <1>4, <1>5, <1>8, PlaceIs
<1> HIDE DEF period, place, next
<1>10. due(tm) \in -LateBound..TickMod /\ due(tm) \in Int BY <1>4, <1>5, TickFacts
<1>11. /\ due(tm) + Elapsed(xLastTime, xTickCount) = period(tm) - age
       /\ due(tm) + Elapsed(xLastTime, xTickCount) <= Longest
  <2> DEFINE e == Elapsed(xLastTime, xTickCount)
             d == timer[tm].due
             n == daemon.xNextExpireTime
             p == period(tm)
  <2>1. e \in 0..(TickMod - 1) BY <1>3, ElapsedIs
  <2>2. d + e = n - xLastTime /\ d \in -LateBound..0 /\ n \in Tick /\ p \in 1..Longest
        /\ age = xLastTime - n /\ n <= xLastTime
    BY <1>4, <1>5 DEF age
  <2> HIDE DEF e, d, n, p
  <2>3. (d + p) + e = p - age /\ (d + p) + e <= Longest
    BY <1>3, <2>1, <2>2, TickFacts DEF Tick
  <2> QED BY <2>3 DEF e, d, p
<1> HIDE DEF due
<1>12. /\ again(tm) \in TimerRecord
       /\ again(tm).xTimerPeriodInTicks = rec(tm).xTimerPeriodInTicks
       /\ again(tm).active = rec(tm).active
       /\ again(tm).allocated = rec(tm).allocated
  <2>1. /\ rec(tm) \in TimerRecord /\ next(tm) \in Tick
        /\ place(tm) \in {"now", "current", "overflow"}
        /\ due(tm) \in -LateBound..TickMod
    BY <1>5, <1>9, <1>10
  <2> QED BY <2>1, InsertedIs
<1>13. ListTimed(again(tm), xLastTime, xTickCount, FALSE)
  <2>1. place(tm) = "current" =>
          due(tm) + Elapsed(xLastTime, xTickCount) = next(tm) - xLastTime
    <3> DEFINE x == due(tm) + Elapsed(xLastTime, xTickCount)
    <3>1. x = period(tm) - age BY <1>11
    <3> HIDE DEF x
    <3>2. place(tm) = "current" => x = next(tm) - xLastTime
      BY <1>3, <1>5, <1>8, <1>9, <3>1, TickFacts DEF Tick
    <3> QED BY <3>2 DEF x
  <2>2. place(tm) = "overflow" =>
          due(tm) + Elapsed(xLastTime, xTickCount) = next(tm) + TickMod - xLastTime
    <3> DEFINE x == due(tm) + Elapsed(xLastTime, xTickCount)
    <3>1. x = period(tm) - age BY <1>11
    <3> HIDE DEF x
    <3>2. place(tm) = "overflow" => x = next(tm) + TickMod - xLastTime
      BY <1>3, <1>5, <1>8, <1>9, <3>1, TickFacts DEF Tick
    <3> QED BY <3>2 DEF x
  <2> QED BY <1>3, <1>5, <1>9, <1>10, <1>11, <2>1, <2>2, InsertedTimed
<1> HIDE DEF again
<1> DEFINE off == [rec(tm) EXCEPT !.active = FALSE]
<1>14. /\ off \in TimerRecord /\ off.list = "none"
       /\ off.xTimerPeriodInTicks = rec(tm).xTimerPeriodInTicks
       /\ ListTimed(off, xLastTime, xTickCount, FALSE)
  <2>1. /\ off \in TimerRecord /\ off.list = "none"
        /\ off.xTimerPeriodInTicks = rec(tm).xTimerPeriodInTicks
    BY <1>5 DEF TimerRecord
  <2> QED BY <2>1 DEF ListTimed
<1> HIDE DEF off
<1>15. PICK new \in {off, again(tm)} :
         /\ timer' = [timer EXCEPT ![tm] = new]
         /\ xTimerQueue' \in Seq(Message)
         /\ Len(xTimerQueue') <= configTIMER_QUEUE_LENGTH
         /\ \A i \in DOMAIN xTimerQueue' : Fit(xTimerQueue'[i], xTickCount)
         /\ daemon' = calls(tm) \/ daemon' = DaemonAt("asserted")
  <2>1. /\ xTimerQueue \in Seq(Message)
        /\ Len(xTimerQueue) <= configTIMER_QUEUE_LENGTH
        /\ \A i \in DOMAIN xTimerQueue : Fit(xTimerQueue[i], xTickCount)
    BY <1>3 DEF TypeOK, CommandsFit
  <2>2. CASE ~rec(tm).auto BY <1>2, <2>1, <2>2 DEF off
  <2>3. CASE rec(tm).auto /\ place(tm) # "now" BY <1>2, <2>1, <2>3
  <2>4. CASE rec(tm).auto /\ place(tm) = "now"
    <3> DEFINE d == timer[tm].due
               n == daemon.xNextExpireTime
    <3>1. Restart([timer EXCEPT ![tm] = again(tm)], tm, n, -d, calls(tm)) BY <1>2, <2>4
    <3>2. /\ n \in Tick /\ n <= xLastTime /\ d \in -LateBound..0
          /\ d + Elapsed(xLastTime, xTickCount) = n - xLastTime
      BY <1>4
    <3> HIDE DEF d, n
    <3>3. -d \in 0..AgeBound BY <3>2, TickFacts
    <3>4. n % TickMod = n BY <3>2, TickFacts DEF Tick
    <3>5. n + (-d) \in {xTickCount, xTickCount + TickMod}
      <4>1. /\ Elapsed(xLastTime, xTickCount) \in 0..(TickMod - 1)
            /\ xLastTime + Elapsed(xLastTime, xTickCount) \in
                 {xTickCount, xTickCount + TickMod}
        BY <1>3, ElapsedIs
      <4> DEFINE e == Elapsed(xLastTime, xTickCount)
      <4>2. /\ e \in 0..(TickMod - 1) /\ d + e = n - xLastTime
            /\ xLastTime + e \in {xTickCount, xTickCount + TickMod}
        BY <3>2, <4>1
      <4> HIDE DEF e
      <4> QED BY <1>3, <3>2, <4>2, TickFacts DEF Tick
    <3>6. /\ timer' = [timer EXCEPT ![tm] = again(tm)]
          /\ xTimerQueue' \in Seq(Message)
          /\ Len(xTimerQueue') <= configTIMER_QUEUE_LENGTH
          /\ \A i \in DOMAIN xTimerQueue' : Fit(xTimerQueue'[i], xTickCount)
          /\ daemon' = calls(tm) \/ daemon' = DaemonAt("asserted")
      BY <1>3, <1>4, <3>1, <3>2, <3>3, <3>4, <3>5, RestartIs
    <3> QED BY <3>6
  <2> QED BY <2>2, <2>3, <2>4
<1>16. /\ new \in TimerRecord /\ new.xTimerPeriodInTicks \in 1..Longest
       /\ new.list # "none" => new.active /\ new.allocated
       /\ ListTimed(new, xLastTime, xTickCount, FALSE)
  BY <1>5, <1>12, <1>13, <1>14, <1>15 DEF period
<1>17. /\ daemon' \in Daemon /\ daemon'.at \in {"callback", "asserted"}
       /\ daemon'.then = "commands" /\ daemon'.after = "commands"
       /\ daemon'.msg = NoMessage
       /\ daemon'.at = "callback" => daemon'.timer = tm
  BY <1>7, <1>15, DaemonAtIs
<1>18. ~InSwitch' /\ \A u : ~InHand(u)' BY <1>17 DEF InSwitch, InHand
<1>19. timer' \in [Timer -> TimerRecord] /\ TimersKept' /\ ListedIsActive'
  BY <1>1, <1>4, <1>6, <1>15, <1>16, <1>18, OneTimerMoves
<1>20. TypeOK' BY <1>1, <1>3, <1>15, <1>17, <1>19 DEF TypeOK
<1>21. CommandsFit' BY <1>1, <1>3, <1>15 DEF CommandsFit
<1>22. ~Halted' => /\ DaemonPath' /\ MessageHeld' /\ HeadKnown' /\ SleepsTillDue'
  BY <1>17, FreeDaemon DEF Halted
<1> QED BY <1>4, <1>17, <1>19, <1>20, <1>21, <1>22, TickFacts DEF IInv, Working

--------------------
\* Callbacks and the list switch.

\* The command in the daemon's hands stays there while it does something else.
LEMMA HeldStays ==
  ASSUME Held(daemon.msg), UNCHANGED <<xTickCount, xLastTime>>,
         daemon'.msg = daemon.msg,
         timer'[daemon.msg.timer].allocated,
         timer'[daemon.msg.timer].list = "none",
         timer'[daemon.msg.timer].xTimerPeriodInTicks =
           timer[daemon.msg.timer].xTimerPeriodInTicks,
         ~InHand(daemon.msg.timer)',
         daemon.at # "received", daemon'.at # "received",
         daemon'.xTimeNow = daemon.xTimeNow,
         daemon'.at = "repost" \/ daemon'.then = "repost" =>
           daemon.at = "repost" \/ daemon.then = "repost"
  PROVE  Held(daemon.msg)'
BY DEF Held

LEMMA CallbackKeeps ==
  ASSUME TimersFit, IInv, ~Halted, pxCallbackFunction
  PROVE  IInv'
<1>1. /\ UNCHANGED <<xTickCount, xLastTime, timer, sender>>
      /\ daemon.at = "callback" /\ daemon' = AfterCallback
      /\ \/ UNCHANGED xTimerQueue
         \/ \E c \in CallbackCommands :
              /\ Len(xTimerQueue) < configTIMER_QUEUE_LENGTH
              /\ xTimerQueue' = Append(xTimerQueue, MessageFor(c))
  BY DEF pxCallbackFunction
<1>2. /\ TypeOK /\ CommandsFit /\ DaemonPath /\ MessageHeld /\ daemon \in Daemon
      /\ xTickCount \in Tick
  BY DEF IInv, Working, TypeOK
<1>3. /\ xTimerQueue' \in Seq(Message)
      /\ Len(xTimerQueue') <= configTIMER_QUEUE_LENGTH
      /\ \A i \in DOMAIN xTimerQueue' : Fit(xTimerQueue'[i], xTickCount)
  <2>1. /\ xTimerQueue \in Seq(Message)
        /\ Len(xTimerQueue) <= configTIMER_QUEUE_LENGTH
        /\ \A i \in DOMAIN xTimerQueue : Fit(xTimerQueue[i], xTickCount)
    BY <1>2 DEF TypeOK, CommandsFit
  <2>2. ASSUME NEW c \in CallbackCommands,
               Len(xTimerQueue) < configTIMER_QUEUE_LENGTH,
               xTimerQueue' = Append(xTimerQueue, MessageFor(c))
        PROVE  /\ xTimerQueue' \in Seq(Message)
               /\ Len(xTimerQueue') <= configTIMER_QUEUE_LENGTH
               /\ \A i \in DOMAIN xTimerQueue' : Fit(xTimerQueue'[i], xTickCount)
    <3>1. Fit(MessageFor(c), xTickCount) BY <1>2, MessageForFits DEF TimersFit
    <3> QED BY <2>1, <2>2, <3>1, AppendFits
  <2>3. CASE UNCHANGED xTimerQueue BY <2>1, <2>3
  <2> QED BY <1>1, <2>2, <2>3
<1>4. CommandsFit' BY <1>1, <1>2, <1>3 DEF CommandsFit
<1>5. CASE daemon.then = "commands"
  <2>1. /\ daemon' \in Daemon /\ daemon'.at = "commands" /\ daemon'.msg = NoMessage
        /\ daemon'.then = "commands" /\ daemon'.after = "commands"
    BY <1>1, <1>5, DaemonAtIs DEF AfterCallback
  <2>2. ~InSwitch BY <1>1, <1>5 DEF InSwitch
  <2>3. /\ DaemonPath' /\ MessageHeld' /\ HeadKnown' /\ SleepsTillDue'
        /\ ~InSwitch' /\ \A tm : ~InHand(tm)'
    BY <2>1, FreeDaemon
  <2>4. TimersKept' /\ ListedIsActive' BY <1>1, <2>2, <2>3, DaemonMoves
  <2>5. TypeOK' BY <1>1, <1>2, <1>3, <2>1 DEF TypeOK
  <2> QED BY <1>4, <2>3, <2>4, <2>5 DEF IInv, Working
<1>6. CASE daemon.then # "commands"
  <2>1. daemon' = [daemon EXCEPT !.at = daemon.then, !.then = "commands"]
    BY <1>1, <1>6 DEF AfterCallback
  <2>2. daemon.then \in {"switched", "repost"} BY <1>2, <1>6 DEF Daemon
  <2>3. /\ daemon' \in Daemon /\ daemon'.at = daemon.then
        /\ daemon'.then = "commands" /\ daemon'.after = daemon.after
        /\ daemon'.msg = daemon.msg /\ daemon'.timer = daemon.timer
        /\ daemon'.xTimeNow = daemon.xTimeNow
        /\ daemon'.xNextExpireTime = daemon.xNextExpireTime
    BY <1>2, <2>1, <2>2 DEF Daemon
  <2>4. (InSwitch' <=> InSwitch) /\ \A tm : InHand(tm)' <=> InHand(tm)
    BY <1>1, <2>2, <2>3 DEF InSwitch, InHand
  <2>5. DaemonPath' BY <1>1, <1>2, <2>2, <2>3, <2>4 DEF DaemonPath
  <2>6. HeadKnown' /\ SleepsTillDue' BY <2>2, <2>3 DEF HeadKnown, SleepsTillDue
  <2>7. MessageHeld'
    <3>1. Holding' <=> Holding BY <1>1, <2>2, <2>3 DEF Holding
    <3>2. CASE ~Holding BY <1>2, <2>3, <3>1, <3>2 DEF MessageHeld
    <3>3. CASE Holding
      <4>1. Held(daemon.msg) BY <1>2, <3>3 DEF MessageHeld
      <4>2. /\ timer[daemon.msg.timer].allocated
            /\ timer[daemon.msg.timer].list = "none"
            /\ ~InHand(daemon.msg.timer)
        BY <4>1 DEF Held
      <4>3. /\ daemon'.at # "received"
            /\ daemon'.at = "repost" \/ daemon'.then = "repost" =>
                 daemon.then = "repost"
        BY <2>2, <2>3
      <4>4. Held(daemon.msg)' BY <1>1, <2>3, <2>4, <4>1, <4>2, <4>3 DEF Held, InHand
      <4> QED BY <3>1, <3>3, <4>4 DEF MessageHeld
    <3> QED BY <3>2, <3>3
  <2>8. TimersKept' /\ ListedIsActive' BY <1>1, <2>3, <2>4, DaemonMoves
  <2>9. TypeOK' BY <1>1, <1>2, <1>3, <2>3 DEF TypeOK
  <2> QED BY <1>4, <2>5, <2>6, <2>7, <2>8, <2>9 DEF IInv, Working
<1> QED BY <1>5, <1>6

\* While the lists are switched, a command in the daemon's hands is not touched:
\* its timer is on no list, and not the one whose callback is called.
LEMMA HeldThroughSwitch ==
  ASSUME IInv, ~Halted, InSwitch, UNCHANGED <<xTickCount, xLastTime>>,
         daemon'.msg = daemon.msg, daemon'.after = daemon.after,
         daemon'.xTimeNow = daemon.xTimeNow,
         daemon'.at \in {"switch", "switched", "callback"},
         daemon'.then \in {"commands", "switched"},
         \A u \in Timer : u # daemon.msg.timer \/ timer'[u] = timer[u],
         ~InHand(daemon.msg.timer)' \/ daemon'.timer # daemon.msg.timer
  PROVE  MessageHeld'
<1>1. MessageHeld /\ DaemonPath BY DEF IInv, Working
<1>2. /\ daemon.at \in {"switch", "switched", "callback"}
      /\ daemon.then # "repost"
  BY <1>1 DEF InSwitch, DaemonPath
<1>3. (Holding' <=> daemon.after = "apply") /\ (Holding <=> daemon.after = "apply")
  BY <1>2 DEF Holding
<1>4. CASE daemon.after # "apply" BY <1>1, <1>3, <1>4 DEF MessageHeld
<1>5. CASE daemon.after = "apply"
  <2>1. Held(daemon.msg) BY <1>1, <1>3, <1>5 DEF MessageHeld
  <2>2. /\ timer'[daemon.msg.timer] = timer[daemon.msg.timer]
        /\ ~InHand(daemon.msg.timer)'
    BY <2>1 DEF Held, InHand
  <2>3. Held(daemon.msg)' BY <1>2, <2>1, <2>2 DEF Held
  <2> QED BY <1>3, <1>5, <2>3 DEF MessageHeld
<1> QED BY <1>4, <1>5

LEMMA SwitchTakesHeadKeeps ==
  ASSUME TimersFit, IInv, ~Halted, SwitchTakesHead
  PROVE  IInv' /\ timer[daemon'.timer].due <= 0
<1>1. /\ daemon.at = "switch"
      /\ UNCHANGED <<xTickCount, xLastTime, xTimerQueue, sender>>
  BY DEF SwitchTakesHead
<1>2. PICK tm \in HeadsOf("current") :
        /\ timer' = [timer EXCEPT ![tm].list = "none", ![tm].value = 0]
        /\ daemon' = [CallbackOf(tm, "switched") EXCEPT
                        !.xNextExpireTime = timer[tm].value]
  BY DEF SwitchTakesHead
<1>3. /\ TypeOK /\ CommandsFit /\ DaemonPath /\ TimersKept /\ ListedIsActive
      /\ MessageHeld /\ daemon \in Daemon
      /\ xTickCount \in Tick /\ xLastTime \in Tick
      /\ timer \in [Timer -> TimerRecord]
  BY DEF IInv, Working, TypeOK
<1>4. tm \in Timer /\ timer[tm].list = "current" /\ timer[tm].value \in Tick
  BY <1>3 DEF HeadsOf, On, TimerRecord
<1>5. daemon.then = "commands" /\ InSwitch /\ \A u : ~InHand(u)
  BY <1>1, <1>3 DEF DaemonPath, InSwitch, InHand
<1>6. /\ daemon' \in Daemon
      /\ daemon'.at = "callback" /\ daemon'.timer = tm
      /\ daemon'.then = "switched" /\ daemon'.after = daemon.after
      /\ daemon'.msg = daemon.msg /\ daemon'.xTimeNow = daemon.xTimeNow
      /\ daemon'.xNextExpireTime = timer[tm].value
  BY <1>2, <1>3, <1>4 DEF CallbackOf, Daemon
<1>7. /\ timer' \in [Timer -> TimerRecord]
      /\ timer'[tm].list = "none" /\ timer'[tm].due = timer[tm].due
      /\ timer'[tm].active = timer[tm].active
      /\ timer'[tm].allocated = timer[tm].allocated
      /\ timer'[tm].xTimerPeriodInTicks = timer[tm].xTimerPeriodInTicks
      /\ \A u \in Timer : u # tm => timer'[u] = timer[u]
  <2> DEFINE new == [timer[tm] EXCEPT !.list = "none", !.value = 0]
  <2>1. timer' = [timer EXCEPT ![tm] = new] BY <1>2, <1>3, <1>4
  <2>2. timer[tm] \in TimerRecord /\ 0 \in Tick BY <1>3, <1>4, TickFacts DEF Tick
  <2>3. /\ new \in TimerRecord /\ new.list = "none" /\ new.due = timer[tm].due
        /\ new.active = timer[tm].active /\ new.allocated = timer[tm].allocated
        /\ new.xTimerPeriodInTicks = timer[tm].xTimerPeriodInTicks
    BY <2>2 DEF TimerRecord
  <2> HIDE DEF new
  <2> QED BY <1>3, <1>4, <2>1, <2>3
<1>8. InSwitch' /\ InHand(tm)' /\ \A u : u # tm => ~InHand(u)'
  BY <1>6 DEF InSwitch, InHand
<1>9. /\ TimerKept(tm) /\ timer[tm].active /\ timer[tm].allocated
      /\ xLastTime <= xTickCount
      /\ timer[tm].due = timer[tm].value - xTickCount - TickMod
  <2>1. TimerKept(tm) /\ timer[tm].active /\ timer[tm].allocated
    BY <1>3, <1>4 DEF TimersKept, ListedIsActive
  <2>2. ListTimed(timer[tm], xLastTime, xTickCount, TRUE) BY <1>5, <2>1, TimedNow
  <2> QED BY <1>4, <2>1, <2>2 DEF ListTimed
<1>10. timer[daemon'.timer].due <= 0
  <2> DEFINE d == timer[tm].due
             v == timer[tm].value
  <2>1. d = v - xTickCount - TickMod /\ v \in Tick BY <1>4, <1>9
  <2> HIDE DEF d, v
  <2>2. d <= 0 BY <1>3, <2>1, TickFacts DEF Tick
  <2> QED BY <1>6, <2>2 DEF d
<1>11. TimersKept'
  <2>1. TimerKept(tm)'
    <3>1. HandTimed(timer'[tm], xLastTime', xTickCount', daemon'.xNextExpireTime)
      BY <1>1, <1>6, <1>7, <1>9 DEF HandTimed
    <3>2. ListTimed(timer'[tm], xLastTime', xTickCount', TRUE) BY <1>7 DEF ListTimed
    <3>3. timer'[tm].xTimerPeriodInTicks \in 1..Longest BY <1>7, <1>9 DEF TimerKept
    <3> QED BY <1>7, <1>8, <1>9, <3>1, <3>2, <3>3, TimedNext
  <2>2. ASSUME NEW u \in Timer, u # tm PROVE TimerKept(u)'
    BY <1>1, <1>3, <1>5, <1>7, <1>8, <2>2, TimerStays DEF TimersKept
  <2> QED BY <2>1, <2>2 DEF TimersKept
<1>12. MessageHeld'
  <2>1. daemon.after = "apply" => timer[daemon.msg.timer].list = "none"
    BY <1>3 DEF MessageHeld, Holding, Held
  <2>2. CASE daemon.after = "apply"
    <3>1. daemon.msg.timer # tm BY <1>4, <2>1, <2>2
    <3> QED BY <1>1, <1>5, <1>6, <1>7, <3>1, HeldThroughSwitch
  <2>3. CASE daemon.after # "apply"
    BY <1>1, <1>3, <1>5, <1>6, <2>3 DEF MessageHeld, Holding
  <2> QED BY <2>2, <2>3
<1>13. DaemonPath' /\ HeadKnown' /\ SleepsTillDue'
  BY <1>4, <1>6, <1>8 DEF DaemonPath, HeadKnown, SleepsTillDue
<1>14. ListedIsActive' BY <1>3, <1>7 DEF ListedIsActive
<1>15. TypeOK' /\ CommandsFit' BY <1>1, <1>3, <1>6, <1>7 DEF TypeOK, CommandsFit
<1> QED BY <1>10, <1>11, <1>12, <1>13, <1>14, <1>15 DEF IInv, Working

\* The timer whose callback has been called is left off the lists, or goes back
\* on the current list when its next expiry was before the wrap too, or is
\* started again by a command (timers.c:917, 926).
LEMMA SwitchReloadsKeeps ==
  ASSUME TimersFit, IInv, ~Halted, SwitchReloads
  PROVE  IInv'
<1>0. PICK tm \in Timer : tm = daemon.timer
  BY DEF SwitchReloads, IInv, Working, DaemonPath
<1> DEFINE rec == timer[tm]
           n == daemon.xNextExpireTime
           p == rec.xTimerPeriodInTicks
           reload == (n + p) % TickMod
           goesOn == [daemon EXCEPT !.at = "switch", !.timer = NoTimer,
                                    !.xNextExpireTime = 0]
           off == [rec EXCEPT !.due = 0]
           again == Inserted(rec, reload, "current", rec.due + p)
<1>1. /\ daemon.at = "switched" /\ UNCHANGED <<xTickCount, xLastTime, sender>>
      /\ IF ~rec.auto
           THEN /\ timer' = [timer EXCEPT ![tm].due = 0]
                /\ daemon' = goesOn
                /\ UNCHANGED xTimerQueue
         ELSE IF reload > n
           THEN /\ timer' = [timer EXCEPT ![tm] = again]
                /\ daemon' = goesOn
                /\ UNCHANGED xTimerQueue
         ELSE Restart([timer EXCEPT ![tm].due = 0], tm, n, -rec.due, goesOn)
  BY <1>0 DEF SwitchReloads
<1>2. /\ TypeOK /\ CommandsFit /\ DaemonPath /\ TimersKept /\ ListedIsActive
      /\ MessageHeld /\ daemon \in Daemon
      /\ xTickCount \in Tick /\ xLastTime \in Tick
      /\ timer \in [Timer -> TimerRecord]
  BY DEF IInv, Working, TypeOK
<1>3. daemon.then = "commands" /\ InSwitch /\ InHand(tm)
  BY <1>0, <1>1, <1>2 DEF DaemonPath, InSwitch, InHand
<1>4. /\ rec \in TimerRecord /\ rec.list = "none" /\ rec.active /\ rec.allocated
      /\ p \in 1..Longest /\ n \in Tick /\ rec.due \in -LateBound..TickMod
      /\ xLastTime <= xTickCount /\ rec.due = n - xTickCount - TickMod
  <2>1. TimerKept(tm) BY <1>2, <1>3 DEF TimersKept
  <2>2. rec \in TimerRecord /\ n \in Tick BY <1>2, <1>3 DEF Daemon
  <2>3. rec.due \in -LateBound..TickMod BY <2>2 DEF TimerRecord
  <2> QED BY <1>3, <2>1, <2>2, <2>3 DEF TimerKept, HandTimed
<1>5. /\ goesOn \in Daemon /\ goesOn.at = "switch"
      /\ goesOn.then = "commands" /\ goesOn.after = daemon.after
      /\ goesOn.msg = daemon.msg /\ goesOn.xTimeNow = daemon.xTimeNow
      /\ goesOn.timer = NoTimer
  <2>1. 0 \in Tick BY TickFacts DEF Tick
  <2> QED BY <1>2, <1>3, <2>1 DEF Daemon
<1>6. /\ off \in TimerRecord /\ off.list = "none"
      /\ off.xTimerPeriodInTicks = p
      /\ [timer EXCEPT ![tm].due = 0] = [timer EXCEPT ![tm] = off]
  <2>1. 0 \in -LateBound..TickMod BY TickFacts
  <2>2. /\ off \in TimerRecord /\ off.list = "none"
        /\ off.xTimerPeriodInTicks = p
    BY <1>4, <2>1 DEF TimerRecord
  <2>3. [timer EXCEPT ![tm].due = 0] = [timer EXCEPT ![tm] = off] BY <1>2, <1>3
  <2> QED BY <2>2, <2>3
<1> DEFINE d == rec.due
<1>7. d \in -LateBound..TickMod /\ d = n - xTickCount - TickMod BY <1>4
<1> HIDE DEF rec, n, p, d, goesOn, off
<1>a. daemon.at = "switched" /\ UNCHANGED <<xTickCount, xLastTime>> BY <1>1
<1>8. /\ reload = IF n + p < TickMod THEN n + p ELSE n + p - TickMod
      /\ reload \in Tick
  <2>1. p \in Nat /\ p <= TickMod BY <1>4, TickFacts
  <2> QED BY <1>4, <2>1, TickSums
<1> HIDE DEF reload
<1>9. reload > n =>
        /\ again \in TimerRecord
        /\ again.xTimerPeriodInTicks = p /\ again.active /\ again.allocated
        /\ again.list = "current"
        /\ ListTimed(again, xLastTime, xTickCount, TRUE)
  <2> SUFFICES ASSUME reload > n PROVE
        /\ again \in TimerRecord
        /\ again.xTimerPeriodInTicks = p /\ again.active /\ again.allocated
        /\ again.list = "current"
        /\ ListTimed(again, xLastTime, xTickCount, TRUE)
    OBVIOUS
  <2>1. reload = n + p BY <1>4, <1>8, TickFacts DEF Tick
  <2>2. d + p \in -LateBound..TickMod BY <1>2, <1>4, <1>7, TickFacts DEF Tick
  <2>3. d + p = reload - xTickCount - TickMod
    BY <1>2, <1>4, <1>7, <2>1, TickFacts DEF Tick
  <2>4. rec.due + p = d + p BY DEF d
  <2>5. /\ again \in TimerRecord /\ again.list = "current"
        /\ again.value = reload /\ again.due = d + p
        /\ again.xTimerPeriodInTicks = rec.xTimerPeriodInTicks
        /\ again.active = rec.active /\ again.allocated = rec.allocated
    <3>1. /\ rec \in TimerRecord /\ reload \in Tick
          /\ rec.due + p \in -LateBound..TickMod
      BY <1>4, <1>8, <2>2, <2>4
    <3> DEFINE due == rec.due + p
    <3>2. due \in -LateBound..TickMod /\ due = d + p BY <2>4, <3>1
    <3> HIDE DEF due
    <3>3. Inserted(rec, reload, "current", due) \in TimerRecord
          /\ Inserted(rec, reload, "current", due).list = "current"
          /\ Inserted(rec, reload, "current", due).value = reload
          /\ Inserted(rec, reload, "current", due).due = due
          /\ Inserted(rec, reload, "current", due).xTimerPeriodInTicks
               = rec.xTimerPeriodInTicks
          /\ Inserted(rec, reload, "current", due).active = rec.active
          /\ Inserted(rec, reload, "current", due).allocated = rec.allocated
      BY <3>1, <3>2, InsertedIs
    <3> QED BY <3>2, <3>3 DEF due
  <2> HIDE DEF again
  <2>6. ListTimed(again, xLastTime, xTickCount, TRUE) BY <1>4, <2>3, <2>5 DEF ListTimed
  <2> QED BY <1>4, <2>5, <2>6 DEF p
<1> HIDE DEF again
<1>10. PICK new : /\ new = off \/ (new = again /\ reload > n)
                  /\ timer' = [timer EXCEPT ![tm] = new]
                  /\ xTimerQueue' \in Seq(Message)
                  /\ Len(xTimerQueue') <= configTIMER_QUEUE_LENGTH
                  /\ \A i \in DOMAIN xTimerQueue' : Fit(xTimerQueue'[i], xTickCount)
                  /\ daemon' = goesOn \/ daemon' = DaemonAt("asserted")
  <2>1. /\ xTimerQueue \in Seq(Message)
        /\ Len(xTimerQueue) <= configTIMER_QUEUE_LENGTH
        /\ \A i \in DOMAIN xTimerQueue : Fit(xTimerQueue[i], xTickCount)
    BY <1>2 DEF TypeOK, CommandsFit
  <2>2. CASE ~rec.auto BY <1>1, <1>6, <2>1, <2>2
  <2>3. CASE rec.auto /\ reload > n BY <1>1, <2>1, <2>3
  <2>4. CASE rec.auto /\ ~(reload > n)
    <3>1. Restart([timer EXCEPT ![tm] = off], tm, n, -d, goesOn) BY <1>1, <1>6, <2>4 DEF d
    <3>2. n % TickMod = n /\ n + (-d) \in {xTickCount, xTickCount + TickMod}
      BY <1>2, <1>4, <1>7, TickFacts DEF Tick
    <3>3. -d \in 0..AgeBound BY <1>2, <1>4, <1>7, TickFacts DEF Tick
    <3>4. /\ timer' = [timer EXCEPT ![tm] = off]
          /\ xTimerQueue' \in Seq(Message)
          /\ Len(xTimerQueue') <= configTIMER_QUEUE_LENGTH
          /\ \A i \in DOMAIN xTimerQueue' : Fit(xTimerQueue'[i], xTickCount)
          /\ daemon' = goesOn \/ daemon' = DaemonAt("asserted")
      BY <1>2, <1>3, <1>4, <3>1, <3>2, <3>3, RestartIs
    <3> QED BY <3>4
  <2> QED BY <2>2, <2>3, <2>4
<1>11. /\ new \in TimerRecord /\ new.xTimerPeriodInTicks = p
       /\ new.list # "none" => new.active /\ new.allocated
       /\ ListTimed(new, xLastTime, xTickCount, TRUE)
  <2>1. ListTimed(off, xLastTime, xTickCount, TRUE) BY <1>6 DEF ListTimed
  <2> QED BY <1>6, <1>9, <1>10, <2>1
<1>12. /\ timer' \in [Timer -> TimerRecord] /\ timer'[tm] = new
       /\ \A u \in Timer : u # tm => timer'[u] = timer[u]
  BY <1>2, <1>3, <1>10, <1>11
<1>13. daemon' \in Daemon BY <1>5, <1>10, DaemonAtIs
<1>14. TypeOK' /\ CommandsFit' BY <1>1, <1>2, <1>10, <1>12, <1>13 DEF TypeOK, CommandsFit
<1>15. ListedIsActive' BY <1>2, <1>11, <1>12 DEF ListedIsActive
<1>16. CASE daemon' = DaemonAt("asserted")
  <2>1. Halted' BY <1>16, DaemonAtIs DEF Halted
  <2> QED BY <1>14, <1>15, <2>1 DEF IInv
<1>17. CASE daemon' = goesOn
  <2>1. InSwitch' /\ \A u \in Timer : ~InHand(u)' BY <1>5, <1>17 DEF InSwitch, InHand
  <2>3. TimerKept(tm)'
    <3>1. timer'[tm].xTimerPeriodInTicks \in 1..Longest BY <1>4, <1>11, <1>12
    <3>2. ListTimed(timer'[tm], xLastTime', xTickCount', TRUE) BY <1>a, <1>11, <1>12
    <3> QED BY <1>3, <2>1, <3>1, <3>2, TimedNext
  <2>4. ASSUME NEW u \in Timer, u # tm PROVE TimerKept(u)'
    <3>1. TimerKept(u) /\ timer'[u] = timer[u] BY <1>2, <1>12, <2>4 DEF TimersKept
    <3> QED BY <1>a, <1>3, <2>1, <3>1, TimerStays
  <2>5. TimersKept' BY <2>3, <2>4 DEF TimersKept
  <2>6. MessageHeld'
    <3>1. daemon.after = "apply" => ~InHand(daemon.msg.timer)
      BY <1>2 DEF MessageHeld, Holding, Held
    <3>2. CASE daemon.after = "apply"
      <4>1. daemon.msg.timer # tm BY <1>0, <1>3, <3>1, <3>2
      <4>2. ~InHand(daemon.msg.timer)' BY <1>5, <1>17 DEF InHand
      <4> QED BY <1>a, <1>0, <1>3, <1>5, <1>12, <1>17, <4>1, <4>2, HeldThroughSwitch
    <3>3. CASE daemon.after # "apply"
      BY <1>a, <1>2, <1>3, <1>5, <1>17, <3>3 DEF MessageHeld, Holding
    <3> QED BY <3>2, <3>3
  <2>7. DaemonPath' /\ HeadKnown' /\ SleepsTillDue'
    BY <1>5, <1>17, <2>1 DEF DaemonPath, HeadKnown, SleepsTillDue
  <2> QED BY <1>14, <1>15, <2>5, <2>6, <2>7 DEF IInv, Working
<1> QED BY <1>10, <1>16, <1>17

\* The lists change places: what was due after the wrap counts from the sample
\* that has seen it.
LEMMA SwitchListsKeeps ==
  ASSUME TimersFit, IInv, ~Halted, SwitchLists
  PROVE  IInv'
<1>1. /\ daemon.at = "switch" /\ On("current") = {}
      /\ timer' = [tm \in Timer |-> IF timer[tm].list = "overflow"
                                     THEN [timer[tm] EXCEPT !.list = "current"]
                                     ELSE timer[tm]]
      /\ daemon' = IF daemon.after = "commands" THEN DaemonAt("commands")
                   ELSE [daemon EXCEPT !.at = "apply", !.after = "commands"]
      /\ UNCHANGED <<xTickCount, xLastTime, xTimerQueue, sender>>
  BY DEF SwitchLists
<1>2. /\ TypeOK /\ CommandsFit /\ DaemonPath /\ TimersKept /\ ListedIsActive
      /\ MessageHeld /\ daemon \in Daemon
      /\ xTickCount \in Tick /\ xLastTime \in Tick
      /\ timer \in [Timer -> TimerRecord]
  BY DEF IInv, Working, TypeOK
<1>3. daemon.then = "commands" /\ InSwitch /\ \A u : ~InHand(u)
  BY <1>1, <1>2 DEF DaemonPath, InSwitch, InHand
<1>4. \/ /\ daemon.after = "commands" /\ daemon' = DaemonAt("commands")
      \/ /\ daemon.after = "apply"
         /\ daemon' = [daemon EXCEPT !.at = "apply", !.after = "commands"]
  BY <1>1, <1>2 DEF Daemon
<1>5. /\ daemon' \in Daemon /\ daemon'.then = "commands"
      /\ daemon'.after = "commands"
      /\ \/ /\ daemon.after = "commands" /\ daemon'.at = "commands"
            /\ daemon'.msg = NoMessage
         \/ /\ daemon.after = "apply" /\ daemon'.at = "apply"
            /\ daemon'.msg = daemon.msg /\ daemon'.xTimeNow = daemon.xTimeNow
  <2>1. CASE daemon.after = "commands" BY <1>4, <2>1, DaemonAtIs
  <2>2. CASE daemon.after = "apply" BY <1>2, <1>3, <1>4, <2>2 DEF Daemon
  <2> QED BY <1>4, <2>1, <2>2
<1>6. ~InSwitch' /\ \A u : ~InHand(u)' BY <1>5 DEF InSwitch, InHand
<1>7. ASSUME NEW tm \in Timer
      PROVE  /\ timer'[tm] \in TimerRecord
             /\ timer'[tm].xTimerPeriodInTicks = timer[tm].xTimerPeriodInTicks
             /\ timer'[tm].active = timer[tm].active
             /\ timer'[tm].allocated = timer[tm].allocated
             /\ timer'[tm].due = timer[tm].due /\ timer'[tm].value = timer[tm].value
             /\ timer[tm].list = "none" => timer'[tm].list = "none"
             /\ timer[tm].list # "none" =>
                  timer[tm].list = "overflow" /\ timer'[tm].list = "current"
  <2>1. timer[tm] \in TimerRecord /\ timer[tm].list # "current" BY <1>1, <1>2 DEF On
  <2>2. CASE timer[tm].list = "overflow"
    <3>1. timer'[tm] = [timer[tm] EXCEPT !.list = "current"] BY <1>1, <2>2
    <3> QED BY <2>1, <2>2, <3>1 DEF TimerRecord
  <2>3. CASE timer[tm].list # "overflow"
    <3>1. timer'[tm] = timer[tm] /\ timer[tm].list = "none"
      BY <1>1, <2>1, <2>3 DEF TimerRecord
    <3> QED BY <2>1, <3>1
  <2> QED BY <2>2, <2>3
<1>8. TypeOK' /\ CommandsFit'
  <2>1. timer' \in [Timer -> TimerRecord] BY <1>1, <1>7
  <2> QED BY <1>1, <1>2, <1>5, <2>1 DEF TypeOK, CommandsFit
<1>9. ListedIsActive' BY <1>2, <1>7 DEF ListedIsActive
<1>10. TimersKept'
  <2> SUFFICES ASSUME NEW tm \in Timer PROVE TimerKept(tm)' BY DEF TimersKept
  <2>1. /\ timer[tm].xTimerPeriodInTicks \in 1..Longest
        /\ ListTimed(timer[tm], xLastTime, xTickCount, TRUE)
    BY <1>2, <1>3, TimedNow DEF TimersKept, TimerKept
  <2>2. CASE timer[tm].list = "none"
    <3>1. ListTimed(timer'[tm], xLastTime', xTickCount', FALSE)
      BY <1>7, <2>2 DEF ListTimed
    <3> QED BY <1>6, <1>7, <2>1, <3>1, TimedNext
  <2>3. CASE timer[tm].list # "none"
    <3> DEFINE d == timer[tm].due
               v == timer[tm].value
               e == Elapsed(xLastTime, xTickCount)
    <3>1. /\ timer[tm].list = "overflow" /\ timer'[tm].list = "current"
          /\ timer'[tm].due = d /\ timer'[tm].value = v
      BY <1>7, <2>3
    <3>2. xLastTime <= xTickCount /\ d = v - xTickCount /\ v < Longest
      BY <2>1, <2>3, <3>1 DEF ListTimed
    <3>3. v \in Tick /\ d \in Int BY <1>2, TickFacts DEF TimerRecord
    <3>4. e = xTickCount - xLastTime BY <1>2, <3>2, TickFacts DEF Elapsed, Tick
    <3> HIDE DEF d, v, e
    <3>5. d + e = v - xLastTime /\ d + e <= Longest
      BY <1>2, <3>2, <3>3, <3>4, TickFacts DEF Tick
    <3>6. ListTimed(timer'[tm], xLastTime, xTickCount, FALSE)
      BY <3>1, <3>5 DEF ListTimed, e
    <3> QED BY <1>1, <1>6, <1>7, <2>1, <3>6, TimedNext
  <2> QED BY <2>2, <2>3
<1>11. MessageHeld'
  <2>1. CASE daemon.after = "commands" BY <1>5, <2>1 DEF MessageHeld, Holding
  <2>2. CASE daemon.after = "apply"
    <3>1. Held(daemon.msg) BY <1>2, <2>2 DEF MessageHeld, Holding
    <3>2. /\ daemon.msg.timer \in Timer /\ timer[daemon.msg.timer].allocated
          /\ timer[daemon.msg.timer].list = "none"
      BY <3>1 DEF Held
    <3>3. /\ timer'[daemon.msg.timer].allocated
          /\ timer'[daemon.msg.timer].list = "none"
          /\ timer'[daemon.msg.timer].xTimerPeriodInTicks =
               timer[daemon.msg.timer].xTimerPeriodInTicks
      BY <1>7, <3>2
    <3>4. ~InHand(daemon.msg.timer)' BY <1>5 DEF InHand
    <3>5. /\ daemon'.at = "apply" /\ daemon'.msg = daemon.msg
          /\ daemon'.xTimeNow = daemon.xTimeNow /\ daemon'.then = "commands"
      BY <1>5, <2>2
    <3>6. Held(daemon.msg)' BY <1>1, <3>1, <3>3, <3>4, <3>5, HeldStays
    <3> QED BY <3>5, <3>6 DEF MessageHeld, Holding
  <2> QED BY <1>5, <2>1, <2>2
<1>12. DaemonPath' /\ HeadKnown' /\ SleepsTillDue'
  BY <1>5 DEF DaemonPath, HeadKnown, SleepsTillDue
<1> QED BY <1>8, <1>9, <1>10, <1>11, <1>12 DEF IInv, Working

--------------------
\* Commands.

LEMMA ReceiveCommandKeeps ==
  ASSUME TimersFit, IInv, ~Halted, ReceiveCommand
  PROVE  IInv'
<1>1. /\ daemon.at = "commands" /\ xTimerQueue # <<>>
      /\ Head(xTimerQueue).cmd # "execute" /\ xTimerQueue' = Tail(xTimerQueue)
      /\ UNCHANGED <<xTickCount, xLastTime, sender>>
  BY DEF ReceiveCommand
<1>2. PICK m : m = Head(xTimerQueue) OBVIOUS
<1>3. IF timer[m.timer].allocated
        THEN /\ timer' = [timer EXCEPT ![m.timer] = Removed(@)]
             /\ daemon' = [DaemonAt("received") EXCEPT !.msg = m]
        ELSE daemon' = DaemonAt("undefined") /\ UNCHANGED timer
  BY <1>2 DEF ReceiveCommand
<1>4. /\ TypeOK /\ CommandsFit /\ TimersKept /\ ListedIsActive
      /\ xTickCount \in Tick /\ xLastTime \in Tick
      /\ timer \in [Timer -> TimerRecord]
  BY DEF IInv, Working, TypeOK
<1>5. /\ xTimerQueue' \in Seq(Message) /\ Len(xTimerQueue') <= Len(xTimerQueue)
      /\ \A i \in DOMAIN xTimerQueue' : Fit(xTimerQueue'[i], xTickCount)
      /\ Fit(m, xTickCount)
  BY <1>1, <1>2, <1>4, TailFits DEF TypeOK, CommandsFit
<1>6. Len(xTimerQueue') <= configTIMER_QUEUE_LENGTH BY <1>4, <1>5 DEF TypeOK, TimersFit
<1>7. CommandsFit' BY <1>1, <1>4, <1>5 DEF CommandsFit
<1>8. m \in Message /\ m.timer \in Timer /\ m.cmd \notin {"none", "execute"}
  BY <1>1, <1>2, <1>5 DEF Fit
<1>9. CASE ~timer[m.timer].allocated
  <2>1. daemon' = DaemonAt("undefined") /\ UNCHANGED timer BY <1>3, <1>9
  <2>2. daemon' \in Daemon /\ Halted' BY <2>1, DaemonAtIs DEF Halted
  <2>3. TypeOK' /\ ListedIsActive'
    BY <1>1, <1>4, <1>5, <1>6, <2>1, <2>2 DEF TypeOK, ListedIsActive
  <2> QED BY <2>2, <2>3 DEF IInv
<1>10. CASE timer[m.timer].allocated
  <2> DEFINE rec == Removed(timer[m.timer])
  <2>1. /\ timer' = [timer EXCEPT ![m.timer] = rec]
        /\ daemon' = [DaemonAt("received") EXCEPT !.msg = m]
    BY <1>3, <1>4, <1>8, <1>10
  <2>2. /\ rec \in TimerRecord /\ rec.list = "none" /\ rec.allocated
        /\ rec.xTimerPeriodInTicks \in 1..Longest
    BY <1>4, <1>8, <1>10, RemovedIs DEF TimersKept, TimerKept
  <2> HIDE DEF rec
  <2>3. /\ daemon' \in Daemon /\ daemon'.at = "received" /\ daemon'.msg = m
        /\ daemon'.then = "commands" /\ daemon'.after = "commands"
    <3>1. /\ DaemonAt("received") \in Daemon
          /\ DaemonAt("received").at = "received"
          /\ DaemonAt("received").then = "commands"
          /\ DaemonAt("received").after = "commands"
      BY DaemonAtIs
    <3> QED BY <1>8, <2>1, <3>1 DEF Daemon
  <2>4. ~InSwitch' /\ \A u : ~InHand(u)' BY <2>3 DEF InSwitch, InHand
  <2>5. ListTimed(rec, xLastTime, xTickCount, FALSE) /\ ~InSwitch
    BY <1>1, <2>2, EmptyHands DEF ListTimed
  <2>6. timer' \in [Timer -> TimerRecord] /\ TimersKept' /\ ListedIsActive'
    BY <1>1, <1>8, <2>1, <2>2, <2>4, <2>5, OneTimerMoves
  <2>7. DaemonPath' /\ HeadKnown' /\ SleepsTillDue'
    BY <2>3 DEF DaemonPath, HeadKnown, SleepsTillDue
  <2>8. MessageHeld'
    <3>1. timer'[m.timer].allocated /\ timer'[m.timer].list = "none"
      BY <1>4, <1>8, <2>1, <2>2
    <3>2. Holding' BY <2>3 DEF Holding
    <3>3. /\ ~InHand(m.timer)' /\ daemon'.at = "received"
          /\ ~(daemon'.at = "repost" \/ daemon'.then = "repost")
      BY <2>3, <2>4
    <3>4. /\ m.cmd = "changePeriod" => m.value \in 1..Longest
          /\ m.cmd \in Starts => Stamped(m, xTickCount)
          /\ m.cmd \notin Starts => m.age = 0
      BY <1>5 DEF Fit
    <3>5. Held(daemon.msg)' BY <1>1, <1>8, <2>3, <3>1, <3>3, <3>4 DEF Held
    <3> QED BY <3>2, <3>5 DEF MessageHeld
  <2>9. TypeOK' BY <1>1, <1>4, <1>5, <1>6, <2>3, <2>6 DEF TypeOK
  <2> QED BY <1>7, <2>6, <2>7, <2>8, <2>9 DEF IInv, Working
<1> QED BY <1>9, <1>10

\* What the daemon has in its hands when it applies a command.
LEMMA AppliedIs ==
  ASSUME TimersFit, IInv, ~Halted, daemon.at = "apply"
  PROVE  /\ TypeOK /\ CommandsFit /\ TimersKept /\ ListedIsActive
         /\ xTickCount \in Tick /\ xLastTime \in Tick
         /\ timer \in [Timer -> TimerRecord] /\ daemon \in Daemon
         /\ daemon.msg \in Message /\ daemon.msg.timer \in Timer
         /\ daemon.msg.cmd \notin {"none", "execute"}
         /\ timer[daemon.msg.timer].allocated
         /\ timer[daemon.msg.timer].list = "none"
         /\ timer[daemon.msg.timer].xTimerPeriodInTicks \in 1..Longest
         /\ daemon.msg.cmd = "changePeriod" =>
              /\ daemon.msg.value \in 1..Longest
              /\ Elapsed(xLastTime, xTickCount) = daemon.msg.age
         /\ daemon.msg.cmd \in Starts =>
              /\ Stamped(daemon.msg, xTickCount)
              /\ Elapsed(xLastTime, xTickCount) <= daemon.msg.age
         /\ daemon.xTimeNow = xLastTime
         /\ daemon.then = "commands" /\ daemon.after = "commands"
         /\ ~InSwitch /\ \A u : ~InHand(u)
<1>1. /\ TypeOK /\ CommandsFit /\ TimersKept /\ ListedIsActive /\ DaemonPath
      /\ MessageHeld /\ xTickCount \in Tick /\ xLastTime \in Tick
      /\ timer \in [Timer -> TimerRecord] /\ daemon \in Daemon
      /\ daemon.msg \in Message
  BY DEF IInv, Working, TypeOK, Daemon
<1>2. daemon.then = "commands" /\ ~InSwitch /\ \A u : ~InHand(u)
  BY <1>1 DEF DaemonPath, InSwitch, InHand
<1>3. daemon.after = "commands" BY <1>1, <1>2 DEF DaemonPath, Daemon
<1>4. Held(daemon.msg) BY <1>1 DEF MessageHeld, Holding
<1>5. /\ daemon.msg.timer \in Timer
      /\ daemon.msg.cmd \notin {"none", "execute"}
      /\ timer[daemon.msg.timer].allocated
      /\ timer[daemon.msg.timer].list = "none"
      /\ daemon.msg.cmd = "changePeriod" =>
           /\ daemon.msg.value \in 1..Longest
           /\ Elapsed(xLastTime, xTickCount) = daemon.msg.age
      /\ daemon.msg.cmd \in Starts =>
           /\ Stamped(daemon.msg, xTickCount)
           /\ Elapsed(xLastTime, xTickCount) <= daemon.msg.age
      /\ daemon.xTimeNow = xLastTime
  BY <1>4 DEF Held
<1>6. timer[daemon.msg.timer].xTimerPeriodInTicks \in 1..Longest
  BY <1>1, <1>5 DEF TimersKept, TimerKept
<1> QED BY <1>1, <1>2, <1>3, <1>5, <1>6

LEMMA StopKeeps ==
  ASSUME TimersFit, IInv, ~Halted, Stop \/ Delete
  PROVE  IInv'
<1>1. /\ daemon.at = "apply"
      /\ daemon' = DaemonAt("commands")
      /\ UNCHANGED <<xTickCount, xLastTime, xTimerQueue, sender>>
  BY DEF Stop, Delete
<1>2. PICK tm \in Timer : tm = daemon.msg.timer BY <1>1, AppliedIs
<1>3. /\ TypeOK /\ CommandsFit /\ TimersKept /\ ListedIsActive
      /\ timer \in [Timer -> TimerRecord]
      /\ timer[tm].list = "none"
      /\ timer[tm].xTimerPeriodInTicks \in 1..Longest /\ ~InSwitch
  BY <1>1, <1>2, AppliedIs
<1>4. PICK rec : /\ timer' = [timer EXCEPT ![tm] = rec]
                 /\ rec \in TimerRecord /\ rec.list = "none"
                 /\ rec.xTimerPeriodInTicks \in 1..Longest
  <2>1. CASE Stop
    <3> DEFINE rec == [timer[tm] EXCEPT !.active = FALSE]
    <3>1. timer' = [timer EXCEPT ![tm] = rec] BY <1>2, <1>3, <2>1 DEF Stop
    <3>2. /\ rec \in TimerRecord /\ rec.list = "none"
          /\ rec.xTimerPeriodInTicks \in 1..Longest
      BY <1>3 DEF TimerRecord
    <3> QED BY <3>1, <3>2
  <2>2. CASE Delete
    <3> DEFINE rec == [NewTimer(tm) EXCEPT !.allocated = FALSE]
    <3>1. timer' = [timer EXCEPT ![tm] = rec] BY <1>2, <2>2 DEF Delete
    <3>2. Period[tm] \in 1..Longest BY DEF TimersFit
    <3>3. Period[tm] \in Tick /\ 0 \in Tick /\ 0 \in -LateBound..TickMod
      BY <3>2, TickFacts DEF Tick
    <3>4. /\ NewTimer(tm) \in TimerRecord /\ NewTimer(tm).list = "none"
          /\ NewTimer(tm).xTimerPeriodInTicks = Period[tm]
      BY <3>3 DEF NewTimer, TimerRecord
    <3>5. /\ rec \in TimerRecord /\ rec.list = "none"
          /\ rec.xTimerPeriodInTicks \in 1..Longest
      BY <3>2, <3>4 DEF TimerRecord
    <3> QED BY <3>1, <3>5
  <2> QED BY <2>1, <2>2
<1>5. /\ daemon' \in Daemon /\ daemon'.at = "commands" /\ daemon'.msg = NoMessage
      /\ daemon'.then = "commands" /\ daemon'.after = "commands"
  BY <1>1, DaemonAtIs
<1>6. /\ DaemonPath' /\ MessageHeld' /\ HeadKnown' /\ SleepsTillDue'
      /\ ~InSwitch' /\ \A u : ~InHand(u)'
  BY <1>5, FreeDaemon
<1>7. timer' \in [Timer -> TimerRecord] /\ TimersKept' /\ ListedIsActive'
  <2>1. ListTimed(rec, xLastTime, xTickCount, FALSE) BY <1>4 DEF ListTimed
  <2> QED BY <1>1, <1>3, <1>4, <1>6, <2>1, OneTimerMoves
<1>8. TypeOK' /\ CommandsFit' BY <1>1, <1>3, <1>5, <1>7 DEF TypeOK, CommandsFit
<1> QED BY <1>6, <1>7, <1>8 DEF IInv, Working

\* A new period counts from the sample of the time: it has not passed.
LEMMA ChangePeriodKeeps ==
  ASSUME TimersFit, IInv, ~Halted, ChangePeriod
  PROVE  IInv'
<1>1. /\ daemon.at = "apply" /\ daemon.msg.cmd = "changePeriod"
      /\ daemon' = DaemonAt("commands")
      /\ UNCHANGED <<xTickCount, xLastTime, xTimerQueue, sender>>
  BY DEF ChangePeriod
<1>2. PICK tm \in Timer : tm = daemon.msg.timer BY <1>1, AppliedIs
<1> DEFINE p == daemon.msg.value
           now == daemon.xTimeNow
           next == (now + p) % TickMod
           place == Place(next, now, now, p)
           e == Elapsed(xLastTime, xTickCount)
           rec == [timer[tm] EXCEPT !.active = TRUE, !.xTimerPeriodInTicks = p]
           due == p - daemon.msg.age
           new == Inserted(rec, next, place, due)
<1>3. timer' = [timer EXCEPT ![tm] = new] BY <1>2 DEF ChangePeriod
<1>4. /\ TypeOK /\ CommandsFit /\ timer \in [Timer -> TimerRecord]
      /\ xTickCount \in Tick /\ xLastTime \in Tick
      /\ timer[tm].list = "none" /\ timer[tm].allocated /\ ~InSwitch
      /\ p \in 1..Longest /\ e = daemon.msg.age /\ now = xLastTime
      /\ daemon.msg.age \in 0..AgeBound
  BY <1>1, <1>2, AppliedIs DEF Message
<1>5. e \in 0..(TickMod - 1) BY <1>4, ElapsedIs
<1>6. /\ rec \in TimerRecord /\ rec.active /\ rec.allocated
      /\ rec.xTimerPeriodInTicks = p
  <2>1. p \in Tick BY <1>4, TickFacts DEF Tick
  <2> QED BY <1>4, <2>1 DEF TimerRecord
<1> HIDE DEF p, now, rec, e
<1>7. /\ next \in Tick /\ place \in {"now", "current", "overflow"}
      /\ place # "now"
      /\ place = "current" => next = now + p
      /\ place = "overflow" => next = now + p - TickMod
  <2>1. now \in Tick /\ 0 \in 0..(TickMod - 1) /\ now + 0 \in {now, now + TickMod}
    BY <1>4, TickFacts DEF Tick
  <2>2. /\ next \in Tick
        /\ place \in {"now", "current", "overflow"}
        /\ place = "now" <=> p <= 0
        /\ place = "current" => next = now + p - 0
        /\ place = "overflow" => next = now + p - 0 - TickMod
    BY <1>4, <2>1, PlaceIs
  <2> HIDE DEF next, place
  <2> QED BY <1>4, <2>1, <2>2, TickFacts DEF Tick
<1> HIDE DEF next, place
<1>8. /\ due \in -LateBound..TickMod /\ due \in Int /\ due + e = p
      /\ due + e <= Longest
  BY <1>4, <1>5, TickFacts
<1> HIDE DEF due
<1>9. /\ new \in TimerRecord /\ new.active /\ new.allocated
      /\ new.xTimerPeriodInTicks \in 1..Longest
  <2>1. /\ new \in TimerRecord /\ new.active = rec.active
        /\ new.allocated = rec.allocated
        /\ new.xTimerPeriodInTicks = rec.xTimerPeriodInTicks
    <3>1. /\ rec \in TimerRecord /\ next \in Tick
          /\ place \in {"now", "current", "overflow"}
          /\ due \in -LateBound..TickMod
      BY <1>6, <1>7, <1>8
    <3> QED BY <3>1, InsertedIs
  <2> QED BY <1>4, <1>6, <2>1
<1>10. ListTimed(new, xLastTime, xTickCount, FALSE)
  <2>1. place = "current" => due + e = next - xLastTime
    BY <1>4, <1>7, <1>8, TickFacts DEF Tick
  <2>2. place = "overflow" => due + e = next + TickMod - xLastTime
    BY <1>4, <1>7, <1>8, TickFacts DEF Tick
  <2> QED BY <1>4, <1>6, <1>7, <1>8, <2>1, <2>2, InsertedTimed DEF e
<1> HIDE DEF new
<1>11. /\ daemon' \in Daemon /\ daemon'.at = "commands" /\ daemon'.msg = NoMessage
       /\ daemon'.then = "commands" /\ daemon'.after = "commands"
  BY <1>1, DaemonAtIs
<1>12. /\ DaemonPath' /\ MessageHeld' /\ HeadKnown' /\ SleepsTillDue'
       /\ ~InSwitch' /\ \A u : ~InHand(u)'
  BY <1>11, FreeDaemon
<1>13. timer' \in [Timer -> TimerRecord] /\ TimersKept' /\ ListedIsActive'
  BY <1>1, <1>3, <1>4, <1>9, <1>10, <1>12, OneTimerMoves
<1>14. TypeOK' /\ CommandsFit' BY <1>1, <1>4, <1>11, <1>13 DEF TypeOK, CommandsFit
<1> QED BY <1>12, <1>13, <1>14 DEF IInv, Working

\* The period of a start counts from the time of the command; when it has passed
\* the callback is called at once (timers.c:791).
LEMMA StartKeeps ==
  ASSUME TimersFit, IInv, ~Halted, Start
  PROVE  /\ IInv'
         /\ daemon'.at = "callback" =>
              timer[daemon.msg.timer].xTimerPeriodInTicks <= daemon.msg.age
<1>1. /\ daemon.at = "apply" /\ daemon.msg.cmd \in Starts
      /\ UNCHANGED <<xTickCount, xLastTime, xTimerQueue, sender>>
  BY DEF Start, Starts
<1>2. PICK tm \in Timer : tm = daemon.msg.timer BY <1>1, AppliedIs
<1> DEFINE rec == [timer[tm] EXCEPT !.active = TRUE]
           p == rec.xTimerPeriodInTicks
           v == daemon.msg.value
           now == daemon.xTimeNow
           next == (v + p) % TickMod
           place == Place(next, now, v, p)
           e == Elapsed(xLastTime, xTickCount)
           a == daemon.msg.age
           due == p - a
           new == Inserted(rec, next, place, due)
<1>3. /\ timer' = [timer EXCEPT ![tm] = new]
      /\ daemon' = IF place = "now" THEN CallbackOf(tm, "repost")
                   ELSE DaemonAt("commands")
  BY <1>2 DEF Start
<1>4. /\ TypeOK /\ CommandsFit /\ timer \in [Timer -> TimerRecord]
      /\ daemon \in Daemon /\ daemon.after = "commands"
      /\ xTickCount \in Tick /\ xLastTime \in Tick
      /\ timer[tm].list = "none" /\ timer[tm].allocated /\ ~InSwitch
      /\ timer[tm].xTimerPeriodInTicks \in 1..Longest
      /\ v \in Tick /\ a \in 0..AgeBound /\ now = xLastTime
      /\ v + a \in {xTickCount, xTickCount + TickMod} /\ e <= a
  BY <1>1, <1>2, AppliedIs DEF Message, Stamped
<1>5. /\ e \in 0..(TickMod - 1)
      /\ xLastTime + e \in {xTickCount, xTickCount + TickMod}
  BY <1>4, ElapsedIs
<1>6. /\ rec \in TimerRecord /\ rec.active /\ rec.allocated
      /\ p = timer[tm].xTimerPeriodInTicks /\ p \in 1..Longest
      /\ rec.list = "none"
  BY <1>4 DEF TimerRecord
<1> HIDE DEF v, now, rec, e, a, p
<1>7. /\ next \in Tick /\ place \in {"now", "current", "overflow"}
      /\ place = "now" <=> p <= a - e
      /\ place = "current" => next = now + p - (a - e)
      /\ place = "overflow" => next = now + p - (a - e) - TickMod
  <2> DEFINE old == a - e
  <2>1. /\ now \in Tick /\ old \in 0..(TickMod - 1)
        /\ v + old \in {now, now + TickMod}
    BY <1>4, <1>5, TickFacts DEF Tick
  <2> HIDE DEF old
  <2>2. /\ next \in Tick
        /\ place \in {"now", "current", "overflow"}
        /\ place = "now" <=> p <= old
        /\ place = "current" => next = now + p - old
        /\ place = "overflow" => next = now + p - old - TickMod
    BY <1>4, <1>6, <2>1, PlaceIs
  <2> QED BY <2>2 DEF old
<1> HIDE DEF next, place
<1>8. /\ due \in Int /\ due + e = p - (a - e) /\ due + e <= Longest
      /\ place # "now" => due \in -LateBound..TickMod
  BY <1>4, <1>5, <1>6, <1>7, TickFacts
<1> HIDE DEF due
<1>9. /\ new \in TimerRecord /\ new.active /\ new.allocated
      /\ new.xTimerPeriodInTicks = p
      /\ place = "now" => new.list = "none"
  <2>1. /\ rec \in TimerRecord /\ next \in Tick
        /\ place \in {"now", "current", "overflow"}
        /\ place # "now" => due \in -LateBound..TickMod
    BY <1>6, <1>7, <1>8
  <2>2. /\ new \in TimerRecord /\ new.active = rec.active
        /\ new.allocated = rec.allocated
        /\ new.xTimerPeriodInTicks = rec.xTimerPeriodInTicks
        /\ new.list = (IF place = "now" THEN "none" ELSE place)
    BY <2>1, InsertedIs
  <2> QED BY <1>6, <2>2 DEF p
<1>10. ListTimed(new, xLastTime, xTickCount, FALSE)
  <2>1. place = "current" => due + e = next - xLastTime
    BY <1>4, <1>5, <1>6, <1>7, <1>8, TickFacts DEF Tick
  <2>2. place = "overflow" => due + e = next + TickMod - xLastTime
    BY <1>4, <1>5, <1>6, <1>7, <1>8, TickFacts DEF Tick
  <2> QED BY <1>4, <1>6, <1>7, <1>8, <2>1, <2>2, InsertedTimed DEF e
<1> HIDE DEF new
<1>11. CASE place = "now"
  <2>1. p <= a BY <1>4, <1>5, <1>6, <1>7, <1>11, TickFacts
  <2>2. daemon' = CallbackOf(tm, "repost") BY <1>3, <1>11
  <2>3. /\ daemon' \in Daemon /\ daemon'.at = "callback" /\ daemon'.timer = tm
        /\ daemon'.then = "repost" /\ daemon'.after = "commands"
        /\ daemon'.msg = daemon.msg /\ daemon'.xTimeNow = daemon.xTimeNow
    BY <1>4, <2>2 DEF CallbackOf, Daemon
  <2>4. ~InSwitch' /\ \A u : ~InHand(u)' BY <2>3 DEF InSwitch, InHand
  <2>5. timer' \in [Timer -> TimerRecord] /\ TimersKept' /\ ListedIsActive'
    BY <1>1, <1>3, <1>4, <1>6, <1>9, <1>10, <2>4, OneTimerMoves
  <2>6. TypeOK' /\ CommandsFit' BY <1>1, <1>4, <2>3, <2>5 DEF TypeOK, CommandsFit
  <2>7. DaemonPath' /\ HeadKnown' /\ SleepsTillDue'
    BY <2>3 DEF DaemonPath, HeadKnown, SleepsTillDue
  <2>8. MessageHeld'
    <3>1. Held(daemon.msg) BY <1>1 DEF IInv, Working, MessageHeld, Holding
    <3>2. timer'[tm] = new BY <1>3, <1>4
    <3>3. /\ timer'[tm].allocated /\ timer'[tm].list = "none"
          /\ timer'[tm].xTimerPeriodInTicks <= daemon.msg.age
      BY <1>9, <1>11, <2>1, <3>2 DEF a
    <3>4. Held(daemon.msg)' BY <1>1, <1>2, <2>3, <2>4, <3>1, <3>3 DEF Held
    <3> QED BY <2>3, <3>4 DEF MessageHeld, Holding
  <2>9. timer[daemon.msg.timer].xTimerPeriodInTicks <= daemon.msg.age
    BY <1>2, <1>6, <2>1 DEF a
  <2> QED BY <2>5, <2>6, <2>7, <2>8, <2>9 DEF IInv, Working
<1>12. CASE place # "now"
  <2>1. /\ daemon' \in Daemon /\ daemon'.at = "commands"
        /\ daemon'.msg = NoMessage
        /\ daemon'.then = "commands" /\ daemon'.after = "commands"
    BY <1>3, <1>12, DaemonAtIs
  <2>2. /\ DaemonPath' /\ MessageHeld' /\ HeadKnown' /\ SleepsTillDue'
        /\ ~InSwitch' /\ \A u : ~InHand(u)'
    BY <2>1, FreeDaemon
  <2>3. timer' \in [Timer -> TimerRecord] /\ TimersKept' /\ ListedIsActive'
    BY <1>1, <1>3, <1>4, <1>6, <1>9, <1>10, <2>2, OneTimerMoves
  <2>4. TypeOK' /\ CommandsFit' BY <1>1, <1>4, <2>1, <2>3 DEF TypeOK, CommandsFit
  <2> QED BY <2>1, <2>2, <2>3, <2>4 DEF IInv, Working
<1> QED BY <1>11, <1>12

\* After a late start's callback the next period is asked for by a command that
\* carries the time the first one ended (timers.c:802).
LEMMA RestartAfterLateStartKeeps ==
  ASSUME TimersFit, IInv, ~Halted, RestartAfterLateStart
  PROVE  IInv'
<1>1. daemon.at = "repost" /\ UNCHANGED <<xTickCount, xLastTime, sender>>
  BY DEF RestartAfterLateStart
<1>2. /\ TypeOK /\ CommandsFit /\ DaemonPath /\ TimersKept /\ ListedIsActive
      /\ MessageHeld /\ daemon \in Daemon
      /\ xTickCount \in Tick /\ xLastTime \in Tick
      /\ timer \in [Timer -> TimerRecord]
  BY DEF IInv, Working, TypeOK
<1>3. Held(daemon.msg) /\ daemon.msg \in Message
  BY <1>1, <1>2 DEF MessageHeld, Holding, Daemon
<1>4. PICK tm \in Timer : tm = daemon.msg.timer BY <1>3 DEF Held
<1> DEFINE p == timer[tm].xTimerPeriodInTicks
           v == daemon.msg.value
           a == daemon.msg.age
<1>5. IF timer[tm].auto
        THEN Restart(timer, tm, v + p, a - p, DaemonAt("commands"))
        ELSE daemon' = DaemonAt("commands") /\ UNCHANGED <<timer, xTimerQueue>>
  BY <1>4 DEF RestartAfterLateStart
<1>6. /\ p \in 1..Longest /\ v \in Tick /\ a \in 0..AgeBound /\ p <= a
      /\ v + a \in {xTickCount, xTickCount + TickMod}
  <2>1. p \in 1..Longest BY <1>2 DEF TimersKept, TimerKept
  <2>2. p <= a /\ v + a \in {xTickCount, xTickCount + TickMod}
    BY <1>1, <1>3, <1>4 DEF Held, Stamped
  <2> QED BY <1>3, <2>1, <2>2 DEF Message
<1> HIDE DEF p, v, a
<1>7. /\ timer' = timer
      /\ xTimerQueue' \in Seq(Message)
      /\ Len(xTimerQueue') <= configTIMER_QUEUE_LENGTH
      /\ \A i \in DOMAIN xTimerQueue' : Fit(xTimerQueue'[i], xTickCount)
      /\ daemon' = DaemonAt("commands") \/ daemon' = DaemonAt("asserted")
  <2>1. CASE ~timer[tm].auto BY <1>2, <1>5, <2>1 DEF TypeOK, CommandsFit
  <2>2. CASE timer[tm].auto
    <3> DEFINE value == v + p
               age == a - p
               w == value % TickMod
    <3>1. w = (IF v + p < TickMod THEN v + p ELSE v + p - TickMod) /\ w \in Tick
      <4>1. p \in Nat /\ p <= TickMod BY <1>6, TickFacts
      <4> QED BY <1>6, <4>1, TickSums
    <3> HIDE DEF w
    <3>2. age \in 0..AgeBound /\ w + age \in {xTickCount, xTickCount + TickMod}
      BY <1>2, <1>6, <3>1, TickFacts DEF Tick
    <3>3. Restart(timer, tm, value, age, DaemonAt("commands")) BY <1>5, <2>2
    <3>4. /\ value % TickMod \in Tick
          /\ (value % TickMod) + age \in {xTickCount, xTickCount + TickMod}
      BY <3>1, <3>2 DEF w
    <3> HIDE DEF value, age
    <3> QED BY <1>2, <3>2, <3>3, <3>4, RestartIs
  <2> QED BY <2>1, <2>2
<1>8. /\ daemon' \in Daemon /\ daemon'.at \in {"commands", "asserted"}
      /\ daemon'.msg = NoMessage
      /\ daemon'.then = "commands" /\ daemon'.after = "commands"
  BY <1>7, DaemonAtIs
<1>9. ~InSwitch /\ ~InSwitch' /\ \A u : ~InHand(u)'
  BY <1>1, <1>2, <1>8 DEF InSwitch, InHand, DaemonPath
<1>10. TimersKept' /\ ListedIsActive' BY <1>1, <1>7, <1>9, DaemonMoves
<1>11. TypeOK' /\ CommandsFit' BY <1>1, <1>2, <1>7, <1>8 DEF TypeOK, CommandsFit
<1>12. ~Halted' => /\ DaemonPath' /\ MessageHeld' /\ HeadKnown' /\ SleepsTillDue'
  BY <1>8, FreeDaemon DEF Halted
<1> QED BY <1>10, <1>11, <1>12 DEF IInv, Working

--------------------
\* The tick.

\* A listed timer is due a tick earlier, and its list still tells when.
LEMMA ListTicks ==
  ASSUME TimersFit, NEW rec \in TimerRecord, NEW last \in Tick, NEW now \in Tick,
         NEW switching \in BOOLEAN, ListTimed(rec, last, now, switching),
         rec.list # "none", rec.due > -LateBound
  PROVE  /\ [rec EXCEPT !.due = @ - 1] \in TimerRecord
         /\ ListTimed([rec EXCEPT !.due = @ - 1], last, (now + 1) % TickMod,
                      switching)
<1> DEFINE d == rec.due
           v == rec.value
           e == Elapsed(last, now)
           next == (now + 1) % TickMod
           new == [rec EXCEPT !.due = d - 1]
<1>1. d \in -LateBound..TickMod /\ d > -LateBound /\ v \in Tick BY DEF TimerRecord
<1>2. e \in 0..(TickMod - 1) BY ElapsedIs
<1>3. next = (IF now + 1 < TickMod THEN now + 1 ELSE now + 1 - TickMod)
      /\ next \in Tick
  BY TickFacts, TickSums
<1> HIDE DEF d, v, next
<1>4. d - 1 \in -LateBound..TickMod BY <1>1, TickFacts
<1>5. /\ new \in TimerRecord /\ new.list = rec.list /\ new.value = v
      /\ new.due = d - 1
  BY <1>4 DEF TimerRecord, v
<1>6. CASE ~switching
  <2>1. /\ d + e <= Longest
        /\ rec.list = "current" => d + e = v - last
        /\ rec.list = "overflow" => d + e = v + TickMod - last
    BY <1>6 DEF ListTimed, d, v
  <2>2. e < TickMod - 1
    <3> HIDE DEF e
    <3> QED BY <1>1, <1>2, <2>1, TickFacts
  <2>3. Elapsed(last, next) = e + 1 BY <2>2, ElapsedGrows DEF next
  <2> HIDE DEF e, new
  <2>4. (d - 1) + (e + 1) = d + e BY <1>1, <1>2, TickFacts
  <2>5. ListTimed(new, last, next, FALSE) BY <1>5, <2>1, <2>3, <2>4 DEF ListTimed
  <2> QED BY <1>5, <1>6, <2>5 DEF new, next, d, ListTimed
<1>7. CASE switching
  <2>1. /\ last <= now
        /\ rec.list = "current" => d = v - now - TickMod
        /\ rec.list = "overflow" => d = v - now /\ v < Longest
        /\ rec.list \in {"current", "overflow"}
    BY <1>7 DEF ListTimed, TimerRecord, d, v
  <2>2. next = now + 1 BY <1>1, <1>3, <2>1, TickFacts DEF Tick
  <2>3. /\ last <= next
        /\ rec.list = "current" => d - 1 = v - next - TickMod
        /\ rec.list = "overflow" => d - 1 = v - next
    BY <1>1, <2>1, <2>2, TickFacts DEF Tick
  <2> HIDE DEF new
  <2>4. ListTimed(new, last, next, TRUE) BY <1>5, <2>1, <2>3 DEF ListTimed
  <2> QED BY <1>5, <1>7, <2>4 DEF new, next, d, ListTimed
<1> QED BY <1>6, <1>7

\* So is the timer that the list switch has taken off its list.
LEMMA HandTicks ==
  ASSUME TimersFit, NEW rec \in TimerRecord, NEW last \in Tick, NEW now \in Tick,
         NEW expiry \in Tick, HandTimed(rec, last, now, expiry),
         rec.due > -LateBound
  PROVE  /\ [rec EXCEPT !.due = @ - 1] \in TimerRecord
         /\ HandTimed([rec EXCEPT !.due = @ - 1], last, (now + 1) % TickMod, expiry)
<1> DEFINE d == rec.due
           next == (now + 1) % TickMod
           new == [rec EXCEPT !.due = d - 1]
<1>1. d \in -LateBound..TickMod /\ d > -LateBound BY DEF TimerRecord
<1>2. next = (IF now + 1 < TickMod THEN now + 1 ELSE now + 1 - TickMod)
  BY TickFacts, TickSums
<1>3. last <= now /\ d = expiry - now - TickMod BY DEF HandTimed
<1> HIDE DEF d, next
<1>4. d - 1 \in -LateBound..TickMod BY <1>1, TickFacts
<1>5. new \in TimerRecord /\ new.due = d - 1 BY <1>4 DEF TimerRecord
<1>6. last <= next /\ d - 1 = expiry - next - TickMod
  BY <1>1, <1>2, <1>3, TickFacts DEF Tick
<1> HIDE DEF new
<1>7. HandTimed(new, last, next, expiry) BY <1>5, <1>6 DEF HandTimed
<1> QED BY <1>5, <1>7 DEF new, next, d

\* The timers after a tick.
LEMMA TimersTick ==
  ASSUME TimersFit, IInv, ~Halted, xTaskIncrementTick,
         InSwitch' <=> InSwitch,
         \A u : InHand(u)' => /\ InHand(u)
                              /\ daemon'.xNextExpireTime = daemon.xNextExpireTime
  PROVE  /\ timer' \in [Timer -> TimerRecord]
         /\ \A tm \in Timer :
              /\ timer'[tm].list = timer[tm].list
              /\ timer'[tm].value = timer[tm].value
              /\ timer'[tm].active = timer[tm].active
              /\ timer'[tm].allocated = timer[tm].allocated
              /\ timer'[tm].xTimerPeriodInTicks = timer[tm].xTimerPeriodInTicks
              /\ timer[tm].list # "none" => timer'[tm].due = timer[tm].due - 1
         /\ TimersKept' /\ ListedIsActive'
<1>1. /\ \A tm \in Timer : Counted(tm) => timer[tm].due > -LateBound
      /\ xTickCount' = (xTickCount + 1) % TickMod
      /\ timer' = [tm \in Timer |-> IF Counted(tm)
                                     THEN [timer[tm] EXCEPT !.due = @ - 1]
                                     ELSE timer[tm]]
      /\ xLastTime' = xLastTime
  BY DEF xTaskIncrementTick
<1>2. /\ TypeOK /\ TimersKept /\ ListedIsActive /\ daemon \in Daemon
      /\ xTickCount \in Tick /\ xLastTime \in Tick
      /\ timer \in [Timer -> TimerRecord]
  BY DEF IInv, Working, TypeOK
<1>3. ASSUME NEW tm \in Timer
      PROVE  /\ timer'[tm] \in TimerRecord
             /\ timer'[tm].list = timer[tm].list
             /\ timer'[tm].value = timer[tm].value
             /\ timer'[tm].active = timer[tm].active
             /\ timer'[tm].allocated = timer[tm].allocated
             /\ timer'[tm].xTimerPeriodInTicks = timer[tm].xTimerPeriodInTicks
             /\ timer[tm].list # "none" => timer'[tm].due = timer[tm].due - 1
             /\ TimerKept(tm)'
  <2>1. /\ timer[tm] \in TimerRecord /\ TimerKept(tm)
        /\ timer[tm].xTimerPeriodInTicks \in 1..Longest
    BY <1>2 DEF TimersKept, TimerKept
  <2>2. timer[tm].list # "none" \/ InHand(tm) <=> Counted(tm) BY DEF Counted, InHand
  <2>3. CASE ~Counted(tm)
    <3>1. /\ timer'[tm] = timer[tm] /\ timer[tm].list = "none"
          /\ ~InHand(tm)'
      BY <1>1, <2>2, <2>3
    <3>2. /\ ListTimed(timer'[tm], xLastTime', xTickCount', FALSE)
          /\ ListTimed(timer'[tm], xLastTime', xTickCount', TRUE)
      BY <3>1 DEF ListTimed
    <3>3. TimerKept(tm)' BY <2>1, <3>1, <3>2, TimedNext
    <3> QED BY <2>1, <3>1, <3>3
  <2>4. CASE Counted(tm)
    <3> DEFINE new == [timer[tm] EXCEPT !.due = @ - 1]
    <3>1. timer'[tm] = new /\ timer[tm].due > -LateBound BY <1>1, <2>4
    <3>2. new \in TimerRecord
      <4>1. CASE timer[tm].list # "none"
        <5>1. CASE InSwitch
          <6>1. ListTimed(timer[tm], xLastTime, xTickCount, TRUE) BY <2>1, <5>1, TimedNow
          <6> QED BY <1>2, <2>1, <3>1, <4>1, <6>1, ListTicks
        <5>2. CASE ~InSwitch
          <6>1. ListTimed(timer[tm], xLastTime, xTickCount, FALSE) BY <2>1, <5>2, TimedNow
          <6> QED BY <1>2, <2>1, <3>1, <4>1, <6>1, ListTicks
        <5> QED BY <5>1, <5>2
      <4>2. CASE InHand(tm)
        <5>1. HandTimed(timer[tm], xLastTime, xTickCount, daemon.xNextExpireTime)
          BY <2>1, <4>2 DEF TimerKept
        <5>2. daemon.xNextExpireTime \in Tick BY <1>2 DEF Daemon
        <5> QED BY <1>2, <2>1, <3>1, <5>1, <5>2, HandTicks
      <4> QED BY <2>2, <2>4, <4>1, <4>2
    <3>3. /\ new.list = timer[tm].list /\ new.value = timer[tm].value
          /\ new.active = timer[tm].active
          /\ new.allocated = timer[tm].allocated
          /\ new.xTimerPeriodInTicks = timer[tm].xTimerPeriodInTicks
          /\ new.due = timer[tm].due - 1
      BY <2>1 DEF TimerRecord
    <3>4. ASSUME NEW switching \in BOOLEAN,
                 ListTimed(timer[tm], xLastTime, xTickCount, switching)
          PROVE  ListTimed(new, xLastTime', xTickCount', switching)
      <4>1. CASE timer[tm].list # "none" BY <1>1, <1>2, <2>1, <3>1, <3>4, <4>1, ListTicks
      <4>2. CASE timer[tm].list = "none" BY <3>3, <4>2 DEF ListTimed
      <4> QED BY <4>1, <4>2
    <3>5. /\ ~InSwitch' => ListTimed(new, xLastTime', xTickCount', FALSE)
          /\ InSwitch' => ListTimed(new, xLastTime', xTickCount', TRUE)
      <4>1. ~InSwitch => ListTimed(timer[tm], xLastTime, xTickCount, FALSE)
        BY <2>1, TimedNow
      <4>2. InSwitch => ListTimed(timer[tm], xLastTime, xTickCount, TRUE)
        BY <2>1, TimedNow
      <4> HIDE DEF new
      <4> QED BY <3>4, <4>1, <4>2
    <3>6. ASSUME InHand(tm)'
          PROVE  /\ new.list = "none" /\ new.active /\ new.allocated
                 /\ HandTimed(new, xLastTime', xTickCount', daemon'.xNextExpireTime)
      <4>1. /\ InHand(tm) /\ daemon'.xNextExpireTime = daemon.xNextExpireTime BY <3>6
      <4>2. /\ timer[tm].list = "none" /\ timer[tm].active /\ timer[tm].allocated
            /\ HandTimed(timer[tm], xLastTime, xTickCount, daemon.xNextExpireTime)
        BY <2>1, <4>1 DEF TimerKept
      <4>3. daemon.xNextExpireTime \in Tick BY <1>2 DEF Daemon
      <4>4. HandTimed(new, xLastTime, (xTickCount + 1) % TickMod,
                      daemon.xNextExpireTime)
        BY <1>2, <2>1, <3>1, <4>2, <4>3, HandTicks
      <4> QED BY <1>1, <3>3, <4>1, <4>2, <4>4
    <3> HIDE DEF new
    <3>7. TimerKept(tm)' BY <2>1, <3>1, <3>3, <3>5, <3>6, TimedNext
    <3> QED BY <3>1, <3>2, <3>3, <3>7
  <2> QED BY <2>3, <2>4
<1>4. timer' \in [Timer -> TimerRecord] BY <1>1, <1>3
<1>5. TimersKept' BY <1>3 DEF TimersKept
<1>6. ListedIsActive' BY <1>2, <1>3 DEF ListedIsActive
<1> QED BY <1>3, <1>4, <1>5, <1>6

\* The commands on their way after a tick.
LEMMA CommandsTick ==
  ASSUME TimersFit, IInv, ~Halted, xTaskIncrementTick
  PROVE  /\ xTimerQueue' \in Seq(Message)
         /\ Len(xTimerQueue') <= configTIMER_QUEUE_LENGTH
         /\ sender' \in [Sender -> Message] /\ CommandsFit'
<1>1. /\ \A m \in InFlight : m.age < AgeBound
      /\ xTickCount' = (xTickCount + 1) % TickMod
      /\ xTimerQueue' = [i \in DOMAIN xTimerQueue |-> Older(xTimerQueue[i])]
      /\ sender' = [s \in Sender |-> Older(sender[s])]
  BY DEF xTaskIncrementTick
<1>2. /\ TypeOK /\ CommandsFit /\ xTickCount \in Tick BY DEF IInv, Working, TypeOK
<1> DEFINE n == Len(xTimerQueue)
<1>3. /\ n \in Nat /\ DOMAIN xTimerQueue = 1..n
      /\ n <= configTIMER_QUEUE_LENGTH
  BY <1>2 DEF TypeOK
<1>4. ASSUME NEW i \in 1..n PROVE Fit(Older(xTimerQueue[i]), xTickCount')
  <2>1. Fit(xTimerQueue[i], xTickCount) BY <1>2, <1>3 DEF CommandsFit
  <2>2. xTimerQueue[i].age < AgeBound BY <1>1, <1>3 DEF InFlight
  <2> QED BY <1>1, <1>2, <2>1, <2>2, OlderFits
<1>5. \A i \in 1..n : Older(xTimerQueue[i]) \in Message BY <1>4 DEF Fit
<1> HIDE DEF n
<1>6. xTimerQueue' \in [1..n -> Message] BY <1>1, <1>3, <1>5
<1>7. xTimerQueue' \in Seq(Message) /\ Len(xTimerQueue') = n BY <1>3, <1>6, SeqDef
<1>8. \A i \in DOMAIN xTimerQueue' : Fit(xTimerQueue'[i], xTickCount') BY <1>1, <1>3, <1>4
<1>9. ASSUME NEW s \in Sender
      PROVE  /\ sender'[s] \in Message
             /\ sender'[s] = NoMessage \/ Fit(sender'[s], xTickCount')
  <2>1. sender'[s] = Older(sender[s]) BY <1>1
  <2>2. CASE sender[s] = NoMessage
    <3>1. Older(NoMessage) = NoMessage BY NoMessageIs DEF Older
    <3> QED BY <2>1, <2>2, <3>1, NoMessageIs
  <2>3. CASE sender[s] # NoMessage
    <3>1. Fit(sender[s], xTickCount) BY <1>2, <2>3 DEF CommandsFit
    <3>2. sender[s].age < AgeBound BY <1>1 DEF InFlight
    <3>3. Fit(Older(sender[s]), xTickCount') BY <1>1, <1>2, <3>1, <3>2, OlderFits
    <3> QED BY <2>1, <3>3 DEF Fit
  <2> QED BY <2>2, <2>3
<1>10. sender' \in [Sender -> Message] BY <1>1, <1>9
<1> QED BY <1>3, <1>7, <1>8, <1>9, <1>10 DEF CommandsFit

\* The command in the daemon's hands after a tick.
LEMMA HeldTicks ==
  ASSUME TimersFit, IInv, ~Halted, xTaskIncrementTick, Holding,
         daemon' = [daemon EXCEPT !.msg = OlderReceived],
         timer' \in [Timer -> TimerRecord],
         \A tm \in Timer :
              /\ timer'[tm].list = timer[tm].list
              /\ timer'[tm].allocated = timer[tm].allocated
              /\ timer'[tm].xTimerPeriodInTicks = timer[tm].xTimerPeriodInTicks
  PROVE  OlderReceived \in Message /\ Held(daemon.msg)'
<1>a. PICK m : m = daemon.msg OBVIOUS
<1>b. PICK new : new = OlderReceived OBVIOUS
<1> DEFINE now == xTickCount
           next == (xTickCount + 1) % TickMod
           lag == Elapsed(xLastTime, xTickCount)
<1>1. /\ m.age < AgeBound /\ xTickCount' = next /\ xLastTime' = xLastTime
  BY <1>a DEF xTaskIncrementTick, InFlight
<1>2. /\ daemon \in Daemon /\ m \in Message /\ Held(m)
      /\ xTickCount \in Tick /\ xLastTime \in Tick
  BY <1>a DEF IInv, Working, TypeOK, Daemon, MessageHeld
<1>3. /\ m.age \in Nat /\ m.value \in Tick /\ m.age + 1 \in 0..AgeBound
      /\ m.cmd # "none"
  BY <1>1, <1>2, TickFacts DEF Message, Held
<1>4. m # NoMessage BY <1>3, NoMessageIs
<1>5. next = (IF now + 1 < TickMod THEN now + 1 ELSE now + 1 - TickMod)
  <2>1. /\ xTickCount \in Tick /\ 1 \in Nat /\ 1 <= TickMod BY <1>2, TickFacts
  <2>2. (xTickCount + 1) % TickMod =
          IF xTickCount + 1 < TickMod THEN xTickCount + 1
          ELSE xTickCount + 1 - TickMod
    BY <2>1, TickSums
  <2> QED BY <2>2
<1>6. lag \in 0..(TickMod - 1) /\ (lag < TickMod - 1 =>
                                     Elapsed(xLastTime, next) = lag + 1)
  BY <1>2, ElapsedIs, ElapsedGrows
<1> HIDE DEF next, lag
<1>7. \/ /\ daemon.at = "received" /\ m.cmd \notin Starts /\ new = m
      \/ /\ daemon.at # "received" \/ m.cmd \in Starts
         /\ new = [m EXCEPT !.age = @ + 1]
  <2>1. new = IF daemon.at = "received" THEN Older(m)
              ELSE [m EXCEPT !.age = @ + 1]
    BY <1>a, <1>b, <1>4 DEF OlderReceived
  <2>2. Older(m) = IF m.cmd \in Starts THEN [m EXCEPT !.age = @ + 1] ELSE m
    BY DEF Older, Starts
  <2> QED BY <2>1, <2>2
<1>8. /\ new \in Message /\ new.cmd = m.cmd /\ new.timer = m.timer
      /\ new.value = m.value
      /\ \/ /\ daemon.at = "received" /\ m.cmd \notin Starts /\ new.age = m.age
         \/ /\ daemon.at # "received" \/ m.cmd \in Starts
            /\ new.age = m.age + 1
  <2>1. CASE new = m BY <1>2, <1>7, <2>1 DEF Message
  <2>2. CASE new = [m EXCEPT !.age = @ + 1]
    <3>1. /\ new \in Message /\ new.cmd = m.cmd /\ new.timer = m.timer
          /\ new.value = m.value /\ new.age = m.age + 1
      BY <1>2, <1>3, <2>2 DEF Message
    <3>2. m.age + 1 # m.age BY <1>3
    <3> QED BY <1>7, <3>1, <3>2
  <2> QED BY <1>7, <2>1, <2>2
<1>9. /\ daemon'.msg = new /\ daemon'.at = daemon.at /\ daemon'.then = daemon.then
      /\ daemon'.timer = daemon.timer /\ daemon'.xTimeNow = daemon.xTimeNow
  BY <1>b, <1>2, <1>8 DEF Daemon
<1>10. /\ new.cmd \notin {"none", "execute"} /\ new.timer \in Timer
       /\ timer'[new.timer].allocated /\ timer'[new.timer].list = "none"
       /\ ~InHand(new.timer)'
       /\ new.cmd = "changePeriod" => new.value \in 1..Longest
  <2>1. /\ m.cmd \notin {"none", "execute"} /\ m.timer \in Timer
        /\ timer[m.timer].allocated /\ timer[m.timer].list = "none"
        /\ ~InHand(m.timer)
        /\ m.cmd = "changePeriod" => m.value \in 1..Longest
    BY <1>2 DEF Held
  <2>2. new.cmd = m.cmd /\ new.timer = m.timer /\ new.value = m.value BY <1>8
  <2>3. ~InHand(m.timer)' BY <1>9, <2>1 DEF InHand
  <2> QED BY <2>1, <2>2, <2>3
<1>11. new.cmd \in Starts => Stamped(new, next)
  <2> SUFFICES ASSUME new.cmd \in Starts PROVE Stamped(new, next) OBVIOUS
  <2>1. m.value + m.age \in {now, now + TickMod} BY <1>2, <1>8 DEF Held, Stamped
  <2>2. new.value = m.value /\ new.age = m.age + 1 BY <1>8
  <2>3. m.value + (m.age + 1) \in {next, next + TickMod}
    <3> DEFINE x == m.value
               y == m.age
    <3>1. /\ x \in Tick /\ y \in Nat /\ now \in Tick
          /\ x + y \in {now, now + TickMod}
      BY <1>2, <1>3, <2>1
    <3> HIDE DEF x, y
    <3>2. x + (y + 1) \in {next, next + TickMod}
      <4>1. CASE x + y = now BY <1>5, <3>1, <4>1, TickFacts DEF Tick
      <4>2. CASE x + y = now + TickMod
        <5>1. y < TickMod BY <1>3, TickFacts DEF y
        <5>2. now + 1 < TickMod BY <3>1, <4>2, <5>1, TickFacts DEF Tick
        <5> QED BY <1>5, <3>1, <4>2, <5>2, TickFacts DEF Tick
      <4> QED BY <3>1, <4>1, <4>2
    <3> QED BY <3>2 DEF x, y
  <2> QED BY <2>2, <2>3 DEF Stamped
<1>12. IF daemon'.at = "received" THEN new.cmd \notin Starts => new.age = 0
       ELSE /\ daemon'.xTimeNow = xLastTime
            /\ new.cmd \in Starts => Elapsed(xLastTime, next) <= new.age
            /\ new.cmd = "changePeriod" => Elapsed(xLastTime, next) = new.age
  <2>1. CASE daemon.at = "received" BY <1>2, <1>8, <1>9, <2>1 DEF Held
  <2>2. CASE daemon.at # "received"
    <3>1. /\ daemon.xTimeNow = xLastTime
          /\ m.cmd \in Starts => lag <= m.age
          /\ m.cmd = "changePeriod" => lag = m.age
      BY <1>2, <2>2 DEF Held, lag
    <3>2. new.age = m.age + 1 BY <1>8, <2>2
    <3>3. ASSUME lag <= m.age
          PROVE  Elapsed(xLastTime, next) = lag + 1
      BY <1>1, <1>3, <1>6, <3>3, TickFacts
    <3>4. m.cmd \in Starts => Elapsed(xLastTime, next) <= new.age
      BY <1>3, <1>6, <3>1, <3>2, <3>3
    <3>5. m.cmd = "changePeriod" => Elapsed(xLastTime, next) = new.age
      <4>1. lag = m.age => lag <= m.age BY <1>3
      <4> QED BY <3>1, <3>2, <3>3, <4>1
    <3> QED BY <1>8, <1>9, <2>2, <3>1, <3>4, <3>5
  <2> QED BY <2>1, <2>2
<1>13. daemon'.at = "repost" \/ daemon'.then = "repost" =>
         new.cmd \in Starts /\ timer'[new.timer].xTimerPeriodInTicks <= new.age
  <2> SUFFICES ASSUME daemon.at = "repost" \/ daemon.then = "repost"
               PROVE  /\ new.cmd \in Starts
                      /\ timer'[new.timer].xTimerPeriodInTicks <= new.age
    BY <1>9
  <2>1. /\ m.cmd \in Starts /\ m.timer \in Timer
        /\ timer[m.timer].xTimerPeriodInTicks <= m.age
    BY <1>2 DEF Held
  <2>2. new.age = m.age + 1 /\ new.cmd = m.cmd /\ new.timer = m.timer BY <1>8, <2>1
  <2> DEFINE p == timer[m.timer].xTimerPeriodInTicks
  <2>3. p \in 1..Longest /\ timer'[new.timer].xTimerPeriodInTicks = p
    BY <2>1, <2>2 DEF IInv, Working, TimersKept, TimerKept
  <2>4. p <= m.age BY <2>1
  <2> HIDE DEF p
  <2>5. p <= new.age BY <1>3, <2>2, <2>3, <2>4, TickFacts
  <2> QED BY <2>1, <2>2, <2>3, <2>5
<1>14. Held(daemon.msg)' BY <1>1, <1>9, <1>10, <1>11, <1>12, <1>13 DEF Held
<1> QED BY <1>b, <1>8, <1>14

\* What the daemon knows of the lists and of the time is not touched by a tick
\* that leaves it where it is.
LEMMA StillKnown ==
  ASSUME TypeOK, HeadKnown, xLastTime' = xLastTime,
         daemon'.at = daemon.at,
         daemon'.xListWasEmpty = daemon.xListWasEmpty,
         daemon'.xNextExpireTime = daemon.xNextExpireTime,
         daemon'.xTimeNow = daemon.xTimeNow,
         \A tm \in Timer : /\ timer'[tm].list = timer[tm].list
                           /\ timer'[tm].value = timer[tm].value
  PROVE  HeadKnown'
<1>1. On("current")' = On("current") /\ HeadsOf("current")' = HeadsOf("current")
  BY SameLists
<1>2. \A tm \in On("current") : timer'[tm].value = timer[tm].value BY DEF On
<1>3. HeadsOf("current") \subseteq On("current") BY DEF HeadsOf
<1>4. daemon.at = "sample" =>
        IF daemon.xListWasEmpty
          THEN On("current")' = {} /\ daemon.xNextExpireTime = 0
          ELSE \A tm \in On("current")' :
                 daemon.xNextExpireTime <= timer'[tm].value
  BY <1>1, <1>2 DEF HeadKnown
<1>5. (daemon.at = "sample" /\ ~daemon.xListWasEmpty) \/ daemon.at = "expired" =>
        \A tm \in HeadsOf("current")' : timer'[tm].value = daemon.xNextExpireTime
  BY <1>1, <1>2, <1>3 DEF HeadKnown
<1>6. daemon.at = "expired" => /\ daemon.xNextExpireTime <= daemon.xTimeNow
                               /\ daemon.xTimeNow = xLastTime
  BY DEF HeadKnown
<1>7. daemon'.at = "sample" =>
        IF daemon'.xListWasEmpty
          THEN On("current")' = {} /\ daemon'.xNextExpireTime = 0
          ELSE \A tm \in On("current")' :
                 daemon'.xNextExpireTime <= timer'[tm].value
  BY <1>4
<1>8. (daemon'.at = "sample" /\ ~daemon'.xListWasEmpty) \/ daemon'.at = "expired" =>
        \A tm \in HeadsOf("current")' : timer'[tm].value = daemon'.xNextExpireTime
  BY <1>5
<1>9. daemon'.at = "expired" => /\ daemon'.xNextExpireTime <= daemon'.xTimeNow
                                /\ daemon'.xTimeNow = xLastTime'
  BY <1>6
<1> QED BY <1>7, <1>8, <1>9 DEF HeadKnown

\* While the daemon is blocked for ever, no timer is listed.
LEMMA NoneListed ==
  ASSUME TimersFit, IInv, daemon.at = "blocked", daemon.sleep = Forever,
         NEW tm \in Timer
  PROVE  timer[tm].list = "none"
<1> SUFFICES ASSUME timer[tm].list # "none" PROVE FALSE OBVIOUS
<1>1. ~Halted BY DEF Halted
<1>2. /\ TimerKept(tm) /\ ~InSwitch /\ Forever <= timer[tm].due
      /\ xTickCount \in Tick /\ xLastTime \in Tick
      /\ timer \in [Timer -> TimerRecord]
  BY <1>1, EmptyHands DEF IInv, Working, TypeOK, TimersKept, SleepsTillDue
<1>3. ListTimed(timer[tm], xLastTime, xTickCount, FALSE) BY <1>2, TimedNow
<1>4. timer[tm].due + Elapsed(xLastTime, xTickCount) <= Longest BY <1>3 DEF ListTimed
<1>5. timer[tm].due \in -LateBound..TickMod BY <1>2 DEF TimerRecord
<1>6. Elapsed(xLastTime, xTickCount) \in 0..(TickMod - 1) BY <1>2, ElapsedIs
<1> QED BY <1>2, <1>4, <1>5, <1>6, TickFacts DEF Forever

LEMMA TickKeeps ==
  ASSUME TimersFit, IInv, ~Halted, xTaskIncrementTick PROVE IInv'
<1>1. /\ TypeOK /\ DaemonPath /\ MessageHeld /\ HeadKnown /\ SleepsTillDue
      /\ daemon \in Daemon /\ xTickCount \in Tick /\ xLastTime \in Tick
  BY DEF IInv, Working, TypeOK
<1>2. /\ xLastTime' = xLastTime /\ xTickCount' = (xTickCount + 1) % TickMod
      /\ daemon' = IF daemon.at # "blocked" \/ daemon.sleep = Forever
                     THEN [daemon EXCEPT !.msg = OlderReceived]
                   ELSE IF daemon.sleep = 1 THEN DaemonAt("commands")
                   ELSE [daemon EXCEPT !.sleep = @ - 1]
  BY DEF xTaskIncrementTick
<1>3. xTickCount' \in Tick /\ xLastTime' \in Tick
  <2>1. 1 \in Nat /\ 1 <= TickMod BY TickFacts
  <2> QED BY <1>1, <1>2, <2>1, TickSums
<1>4. ASSUME daemon' \in Daemon, DaemonPath', MessageHeld', HeadKnown',
             SleepsTillDue', timer' \in [Timer -> TimerRecord], TimersKept',
             ListedIsActive'
      PROVE  IInv'
  <2>1. TypeOK' /\ CommandsFit' BY <1>3, <1>4, CommandsTick DEF TypeOK
  <2> QED BY <1>4, <2>1 DEF IInv, Working
<1>5. CASE daemon.at # "blocked" \/ daemon.sleep = Forever
  <2>1. daemon' = [daemon EXCEPT !.msg = OlderReceived] BY <1>2, <1>5
  <2>2. /\ daemon'.at = daemon.at /\ daemon'.then = daemon.then
        /\ daemon'.after = daemon.after /\ daemon'.timer = daemon.timer
        /\ daemon'.sleep = daemon.sleep /\ daemon'.xTimeNow = daemon.xTimeNow
        /\ daemon'.xNextExpireTime = daemon.xNextExpireTime
        /\ daemon'.xListWasEmpty = daemon.xListWasEmpty
        /\ daemon'.msg = OlderReceived
    BY <1>1, <2>1 DEF Daemon
  <2>3. InSwitch' <=> InSwitch BY <2>2 DEF InSwitch
  <2>4. \A u : InHand(u)' => /\ InHand(u)
                             /\ daemon'.xNextExpireTime = daemon.xNextExpireTime
    BY <2>2 DEF InHand
  <2>5. /\ timer' \in [Timer -> TimerRecord] /\ TimersKept' /\ ListedIsActive'
        /\ \A tm \in Timer :
             /\ timer'[tm].list = timer[tm].list
             /\ timer'[tm].value = timer[tm].value
             /\ timer'[tm].allocated = timer[tm].allocated
             /\ timer'[tm].xTimerPeriodInTicks = timer[tm].xTimerPeriodInTicks
    BY <2>3, <2>4, TimersTick
  <2>6. Holding' <=> Holding BY <2>2 DEF Holding
  <2>7. OlderReceived \in Message /\ MessageHeld'
    <3>1. CASE Holding
      <4>1. OlderReceived \in Message /\ Held(daemon.msg)' BY <2>1, <2>5, <3>1, HeldTicks
      <4> QED BY <2>6, <3>1, <4>1 DEF MessageHeld
    <3>2. CASE ~Holding
      <4>1. daemon.msg = NoMessage BY <1>1, <3>2 DEF MessageHeld
      <4>2. OlderReceived = NoMessage BY <4>1 DEF OlderReceived
      <4> QED BY <2>2, <2>6, <3>2, <4>2, NoMessageIs DEF MessageHeld
    <3> QED BY <3>1, <3>2
  <2>8. daemon' \in Daemon BY <1>1, <2>1, <2>7 DEF Daemon
  <2>9. DaemonPath' BY <1>1, <2>2, <2>3 DEF DaemonPath
  <2>10. HeadKnown' BY <1>1, <1>2, <2>2, <2>5, StillKnown
  <2>11. SleepsTillDue'
    <3>1. daemon'.at = "blocked" => \A tm \in Timer : timer'[tm].list = "none"
      BY <1>5, <2>2, <2>5, NoneListed
    <3> QED BY <3>1 DEF SleepsTillDue
  <2> QED BY <1>4, <2>5, <2>7, <2>8, <2>9, <2>10, <2>11
<1>6. CASE daemon.at = "blocked" /\ daemon.sleep # Forever
  <2>1. /\ daemon.msg = NoMessage /\ daemon.then = "commands"
        /\ daemon.after = "commands" /\ ~InSwitch
    BY <1>6, EmptyHands
  <2>2. daemon.sleep \in Nat /\ daemon.sleep >= 1 /\ daemon.sleep <= Forever
    BY <1>1, <1>6, TickFacts DEF DaemonPath, Daemon, Forever
  <2>3. ASSUME daemon' \in Daemon, daemon'.at \in {"commands", "blocked"},
               daemon'.then = "commands", daemon'.after = "commands",
               daemon'.msg = NoMessage, DaemonPath', HeadKnown',
               \A tm \in Timer : /\ timer[tm].list # "none"
                                 /\ timer'[tm].due = timer[tm].due - 1
                                 /\ daemon'.at = "blocked"
                                 => daemon'.sleep <= timer'[tm].due
        PROVE  IInv'
    <3>1. /\ InSwitch' <=> InSwitch
          /\ \A u : InHand(u)' =>
                      /\ InHand(u)
                      /\ daemon'.xNextExpireTime = daemon.xNextExpireTime
      BY <2>1, <2>3 DEF InSwitch, InHand
    <3>2. /\ timer' \in [Timer -> TimerRecord] /\ TimersKept' /\ ListedIsActive'
          /\ \A tm \in Timer :
               /\ timer'[tm].list = timer[tm].list
               /\ timer[tm].list # "none" => timer'[tm].due = timer[tm].due - 1
      BY <3>1, TimersTick
    <3>3. MessageHeld' BY <2>3 DEF MessageHeld, Holding
    <3>4. SleepsTillDue' BY <2>3, <3>2 DEF SleepsTillDue
    <3> QED BY <1>4, <2>3, <3>2, <3>3, <3>4
  <2>4. CASE daemon.sleep = 1
    <3>1. daemon' = DaemonAt("commands") BY <1>2, <1>6, <2>4
    <3>2. /\ daemon' \in Daemon /\ daemon'.at = "commands"
          /\ daemon'.then = "commands" /\ daemon'.after = "commands"
          /\ daemon'.msg = NoMessage
      BY <3>1, DaemonAtIs
    <3>3. DaemonPath' /\ HeadKnown' BY <3>2, FreeDaemon
    <3> QED BY <2>3, <3>2, <3>3
  <2>5. CASE daemon.sleep # 1
    <3>1. daemon' = [daemon EXCEPT !.sleep = @ - 1] BY <1>2, <1>6, <2>5
    <3>2. daemon.sleep - 1 \in 0..Forever /\ daemon.sleep - 1 >= 1
      BY <2>2, <2>5, TickFacts DEF Forever
    <3>3. /\ daemon' \in Daemon /\ daemon'.at = "blocked"
          /\ daemon'.then = "commands" /\ daemon'.after = "commands"
          /\ daemon'.msg = NoMessage /\ daemon'.sleep = daemon.sleep - 1
      BY <1>1, <1>6, <2>1, <3>1, <3>2 DEF Daemon
    <3>4. DaemonPath' /\ HeadKnown'
      <4>1. daemon'.sleep >= 1 BY <3>2, <3>3
      <4> QED BY <3>3, <4>1 DEF DaemonPath, HeadKnown
    <3>5. ASSUME NEW tm \in Timer, timer[tm].list # "none",
                 timer'[tm].due = timer[tm].due - 1
          PROVE  daemon'.sleep <= timer'[tm].due
      <4>1. daemon.sleep <= timer[tm].due BY <1>1, <1>6, <3>5 DEF SleepsTillDue
      <4>2. timer[tm].due \in Int BY <1>1, TickFacts DEF TypeOK, TimerRecord
      <4> QED BY <2>2, <3>3, <3>5, <4>1, <4>2
    <3> QED BY <2>3, <3>3, <3>4, <3>5
  <2> QED BY <2>4, <2>5
<1> QED BY <1>5, <1>6

--------------------
\* The specification.

\* What the prover needs of every daemon step at once.
LEMMA TimerTaskKeeps ==
  ASSUME TimersFit, IInv, ~Halted, TimerTask PROVE IInv'
BY GetNextExpireTimeKeeps, SampleSeesWrapKeeps, SampleSeesExpiryKeeps,
   BlockOrGoOnKeeps, ProcessExpiredTimerKeeps, CallbackKeeps,
   SwitchTakesHeadKeeps, SwitchReloadsKeeps, SwitchListsKeeps,
   NoMoreCommandsKeeps, ExecutePendedKeeps, ReceiveCommandKeeps,
   SampleAfterReceiveKeeps, StartKeeps, RestartAfterLateStartKeeps, StopKeeps,
   ChangePeriodKeeps, Zenon DEF TimerTask

LEMMA NothingKeeps ==
  ASSUME IInv, UNCHANGED vars PROVE IInv'
<1>1. /\ xTickCount' = xTickCount /\ xLastTime' = xLastTime /\ timer' = timer
      /\ xTimerQueue' = xTimerQueue /\ daemon' = daemon /\ sender' = sender
  BY DEF vars
<1>2. TypeOK' /\ ListedIsActive' BY <1>1 DEF IInv, TypeOK, ListedIsActive
<1>3. Halted' <=> Halted BY <1>1 DEF Halted
<1>4. ASSUME ~Halted PROVE Working'
  <2>1. CommandsFit' BY <1>1, <1>4 DEF IInv, Working, CommandsFit
  <2> QED BY <1>1, <1>4, <2>1, SameDaemon DEF Working
<1> QED BY <1>2, <1>3, <1>4 DEF IInv

LEMMA NextKeeps ==
  ASSUME TimersFit, IInv, [Next]_vars PROVE IInv'
<1>1. CASE UNCHANGED vars BY <1>1, NothingKeeps
<1>2. CASE Next
  <2>1. ~Halted BY <1>2 DEF Next, Halted
  <2>2. CASE TimerTask BY <2>1, <2>2, TimerTaskKeeps
  <2>3. CASE xTaskIncrementTick BY <2>1, <2>3, TickKeeps
  <2>4. ASSUME NEW s \in Sender, SenderStep(s) PROVE IInv'
    BY <2>1, <2>4, GenericCommandKeeps, QueueSendKeeps, GiveUpKeeps
    DEF SenderStep
  <2>5. ASSUME NEW tm \in Timer, NEW mode \in BOOLEAN,
               vTimerSetReloadMode(tm, mode)
        PROVE  IInv'
    BY <2>1, <2>5, SetReloadModeKeeps
  <2>6. ASSUME NEW tm \in Timer, xTimerCreate(tm) PROVE IInv' BY <2>1, <2>6, CreateKeeps
  <2> QED BY <1>2, <2>2, <2>3, <2>4, <2>5, <2>6 DEF Next
<1> QED BY <1>1, <1>2

\* The invariant holds in every reachable state, for every range of the tick
\* count and every set of timers, periods and commands that fit it (timers.c).
THEOREM TimersInvariant == ASSUME TimersFit PROVE Spec => []IInv
<1>1. Init => IInv BY InitKeeps
<1>2. IInv /\ [Next]_vars => IInv' BY NextKeeps
<1> QED BY <1>1, <1>2, PTL DEF Spec

\* Every variable has its type: no item value leaves the tick count's range, no
\* timer is found more than LateBound late, and the command queue is no longer
\* than configTIMER_QUEUE_LENGTH.
THEOREM TypeCorrect == ASSUME TimersFit PROVE Spec => []TypeOK
<1>1. IInv => TypeOK BY DEF IInv
<1> QED BY <1>1, TimersInvariant, PTL

\* A timer on a list is one that xTimerIsTimerActive reports active, and one
\* that is freed is on no list (timers.c:763, 895).
THEOREM ListedAreActive == ASSUME TimersFit PROVE Spec => []ListedIsActive
<1>1. IInv => ListedIsActive BY DEF IInv
<1> QED BY <1>1, TimersInvariant, PTL

\* What a listed timer is due, from its item value and its list.
LEMMA RightListIs == ASSUME TimersFit, IInv PROVE RightList
<1> SUFFICES ASSUME ~Halted, NEW tm \in Timer
             PROVE  LET wraps == IF xTickCount < xLastTime \/ InSwitch
                                   THEN 1 ELSE 0
                        fromNow == timer[tm].value - xTickCount
                    IN  /\ timer[tm].list = "current" =>
                             timer[tm].due = fromNow - wraps * TickMod
                        /\ timer[tm].list = "overflow" =>
                             timer[tm].due = fromNow + (1 - wraps) * TickMod
  BY DEF RightList, Halted, InSwitch
<1>1. TypeOK /\ TimerKept(tm) BY DEF IInv, Working, TimersKept
<1>2. /\ xTickCount \in Nat /\ xLastTime \in Nat /\ TickMod \in Nat
      /\ timer[tm].value \in Nat /\ timer[tm].due \in Int
  BY <1>1, TickFacts DEF TypeOK, TimerRecord, Tick
<1>3. CASE InSwitch
  <2>1. ListTimed(timer[tm], xLastTime, xTickCount, TRUE) BY <1>1, <1>3, TimedNow
  <2>2. /\ timer[tm].list = "current" =>
             timer[tm].due = timer[tm].value - xTickCount - TickMod
        /\ timer[tm].list = "overflow" =>
             timer[tm].due = timer[tm].value - xTickCount
    BY <2>1 DEF ListTimed
  <2> QED BY <1>2, <1>3, <2>2
<1>4. CASE ~InSwitch
  <2>1. ListTimed(timer[tm], xLastTime, xTickCount, FALSE) BY <1>1, <1>4, TimedNow
  <2>2. /\ timer[tm].list = "current" =>
             timer[tm].due + Elapsed(xLastTime, xTickCount)
               = timer[tm].value - xLastTime
        /\ timer[tm].list = "overflow" =>
             timer[tm].due + Elapsed(xLastTime, xTickCount)
               = timer[tm].value + TickMod - xLastTime
    BY <2>1 DEF ListTimed
  <2>3. CASE xTickCount < xLastTime BY <1>2, <2>2, <2>3 DEF Elapsed
  <2>4. CASE ~(xTickCount < xLastTime) BY <1>2, <1>4, <2>2, <2>4 DEF Elapsed
  <2> QED BY <2>3, <2>4
<1> QED BY <1>3, <1>4

\* Every listed timer is found when it is due, whatever wrapped meanwhile: the
\* list and the item value tell how far its expiry is, and the daemon does not
\* sleep past it (timers.c:602, 619, 702, 917).
THEOREM TimersAreOnTime == ASSUME TimersFit PROVE Spec => []TimersOnTime
<1>1. ASSUME IInv PROVE TimersOnTime
  <2>1. SleepsTillDue BY <1>1 DEF IInv, Working, Halted, SleepsTillDue
  <2> QED BY <1>1, <2>1, RightListIs DEF TimersOnTime
<1> QED BY <1>1, TimersInvariant, PTL

\* The daemon's steps that call no callback.
LEMMA NoCallback ==
  ASSUME TimersFit, IInv, ~Halted, daemon.at # "callback",
         \/ prvGetNextExpireTime \/ SampleSeesWrap \/ SampleSeesExpiry
         \/ BlockOrGoOn \/ SwitchReloads \/ SwitchLists
         \/ NoMoreCommands \/ ExecutePended \/ ReceiveCommand
         \/ SampleAfterReceive \/ RestartAfterLateStart
         \/ Stop \/ ChangePeriod \/ Delete \/ xTaskIncrementTick
  PROVE  daemon'.at # "callback"
<1>1. /\ daemon \in Daemon
      /\ DaemonAt("next").at = "next" /\ DaemonAt("sample").at = "sample"
      /\ DaemonAt("blocked").at = "blocked"
      /\ DaemonAt("commands").at = "commands"
      /\ DaemonAt("received").at = "received"
      /\ DaemonAt("switch").at = "switch"
      /\ DaemonAt("asserted").at = "asserted"
      /\ DaemonAt("undefined").at = "undefined"
  BY DaemonAtIs DEF IInv, TypeOK
<1>2. CASE prvGetNextExpireTime BY <1>1, <1>2 DEF prvGetNextExpireTime, DaemonAt
<1>3. CASE SampleSeesWrap \/ BlockOrGoOn
  BY <1>1, <1>3 DEF SampleSeesWrap, BlockOrGoOn, DaemonAt
<1>4. CASE SampleSeesExpiry \/ SampleAfterReceive
  BY <1>1, <1>4 DEF SampleSeesExpiry, SampleAfterReceive, Daemon
<1>5. CASE SwitchReloads
  <2> DEFINE goesOn == [daemon EXCEPT !.at = "switch", !.timer = NoTimer,
                                      !.xNextExpireTime = 0]
  <2>1. goesOn.at = "switch" BY <1>1 DEF Daemon
  <2>2. daemon' = goesOn \/ daemon' = DaemonAt("asserted")
    BY <1>5 DEF SwitchReloads, Restart
  <2> QED BY <1>1, <2>1, <2>2
<1>6. CASE SwitchLists BY <1>1, <1>6 DEF SwitchLists, Daemon
<1>7. CASE NoMoreCommands \/ ExecutePended \/ ReceiveCommand
  BY <1>1, <1>7 DEF NoMoreCommands, ExecutePended, ReceiveCommand, DaemonAt
<1>8. CASE RestartAfterLateStart BY <1>1, <1>8 DEF RestartAfterLateStart, Restart
<1>9. CASE Stop \/ ChangePeriod \/ Delete BY <1>1, <1>9 DEF Stop, ChangePeriod, Delete
<1>10. CASE xTaskIncrementTick BY <1>1, <1>10 DEF xTaskIncrementTick, Daemon
<1> QED BY <1>2, <1>3, <1>4, <1>5, <1>6, <1>7, <1>8, <1>9, <1>10

\* What the other tasks do.
LEMMA OthersCallNothing ==
  ASSUME TimersFit, IInv, ~Halted, daemon.at # "callback",
         \/ \E s \in Sender : SenderStep(s)
         \/ \E tm \in Timer : \/ \E mode \in BOOLEAN : vTimerSetReloadMode(tm, mode)
                              \/ xTimerCreate(tm)
         \/ UNCHANGED vars
  PROVE  daemon'.at # "callback"
<1>1. DaemonAt("commands").at = "commands" BY DaemonAtIs
<1>2. daemon' = daemon \/ daemon' = DaemonAt("commands")
  <2>1. ASSUME NEW s \in Sender, SenderStep(s)
        PROVE  daemon' = daemon \/ daemon' = DaemonAt("commands")
    BY <2>1 DEF SenderStep, xTimerGenericCommand, xQueueSendToBack, GiveUp, Wake
  <2>2. ASSUME NEW tm \in Timer,
               xTimerCreate(tm)
                 \/ \E mode \in BOOLEAN : vTimerSetReloadMode(tm, mode)
        PROVE  daemon' = daemon
    BY <2>2 DEF xTimerCreate, vTimerSetReloadMode
  <2>3. ASSUME UNCHANGED vars PROVE daemon' = daemon BY <2>3 DEF vars
  <2> QED BY <2>1, <2>2, <2>3
<1> QED BY <1>1, <1>2

\* No callback is called before its timer is due, whatever wrapped between the
\* command, the expiry and the daemon's look at the time; a start that comes
\* late counts from the time of the command (timers.c:602, 702, 719, 895).
THEOREM NeverCalledEarly == ASSUME TimersFit PROVE Spec => NeverEarly
<1> DEFINE Due == IF daemon.at = "apply"
                    THEN timer[daemon.msg.timer].xTimerPeriodInTicks
                           <= daemon.msg.age
                    ELSE timer[daemon'.timer].due <= 0
<1>1. ASSUME IInv, [Next]_vars, daemon.at # "callback", daemon'.at = "callback"
      PROVE  Due
  <2>1. CASE UNCHANGED vars BY <1>1, <2>1 DEF vars
  <2>2. CASE Next
    <3>1. ~Halted BY <2>2 DEF Next, Halted
    <3>2. TimerTask \/ xTaskIncrementTick BY <1>1, <2>2, <3>1, OthersCallNothing DEF Next
    <3>3. prvProcessExpiredTimer \/ SwitchTakesHead \/ Start
      <4>1. ~pxCallbackFunction BY <1>1 DEF pxCallbackFunction
      <4> QED BY <1>1, <3>1, <3>2, <4>1, NoCallback, Zenon DEF TimerTask
    <3>4. CASE prvProcessExpiredTimer
      <4>1. daemon.at = "expired" BY <3>4 DEF prvProcessExpiredTimer
      <4> QED BY <1>1, <3>1, <3>4, <4>1, ProcessExpiredTimerKeeps
    <3>5. CASE SwitchTakesHead
      <4>1. daemon.at = "switch" BY <3>5 DEF SwitchTakesHead
      <4> QED BY <1>1, <3>1, <3>5, <4>1, SwitchTakesHeadKeeps
    <3>6. CASE Start
      <4>1. daemon.at = "apply" BY <3>6 DEF Start
      <4> QED BY <1>1, <3>1, <3>6, <4>1, StartKeeps
    <3> QED BY <3>3, <3>4, <3>5, <3>6
  <2> QED BY <1>1, <2>1, <2>2
<1>2. IInv /\ [Next]_vars =>
        [daemon.at # "callback" /\ daemon'.at = "callback" => Due]_vars
  BY <1>1
<1> QED BY <1>2, TimersInvariant, PTL DEF Spec, NeverEarly

--------------------
\* Auto-reload timers.

Queued(tm) == \E i \in DOMAIN xTimerQueue : /\ xTimerQueue[i].timer = tm
                                            /\ xTimerQueue[i].cmd # "execute"

\* A command for the timer is queued, or the daemon is at the timer.
OnItsWay(tm) == \/ Queued(tm) \/ InHand(tm)
                \/ Holding /\ daemon.msg.timer = tm

Reloading(tm) ==
  timer[tm].active /\ timer[tm].auto => timer[tm].list # "none" \/ OnItsWay(tm)

ReloadsKept == ~Halted => \A tm \in Timer : Reloading(tm)

\* A timer that is not touched while nothing on its way to it is lost.
LEMMA ReloadingStays ==
  ASSUME NEW tm, Reloading(tm), timer'[tm].active = timer[tm].active,
         timer'[tm].auto = timer[tm].auto, timer'[tm].list = timer[tm].list,
         OnItsWay(tm) => OnItsWay(tm)'
  PROVE  Reloading(tm)'
BY DEF Reloading

LEMMA WiderQueue ==
  ASSUME xTimerQueue \in Seq(Message), NEW m
  PROVE  xTimerQueue \in Seq(Message \cup {m})
BY SeqDef

LEMMA QueueGrows ==
  ASSUME xTimerQueue \in Seq(Message), NEW m,
         xTimerQueue' = xTimerQueue \/ xTimerQueue' = Append(xTimerQueue, m)
  PROVE  \A tm : Queued(tm) => Queued(tm)'
<1> SUFFICES ASSUME NEW tm, Queued(tm) PROVE Queued(tm)' OBVIOUS
<1>1. PICK i \in DOMAIN xTimerQueue : /\ xTimerQueue[i].timer = tm
                                      /\ xTimerQueue[i].cmd # "execute"
  BY DEF Queued
<1>2. i \in DOMAIN xTimerQueue' /\ xTimerQueue'[i] = xTimerQueue[i] BY WiderQueue
<1> QED BY <1>1, <1>2 DEF Queued

LEMMA QueuedLast ==
  ASSUME xTimerQueue \in Seq(Message), NEW m, m.cmd # "execute",
         xTimerQueue' = Append(xTimerQueue, m)
  PROVE  Queued(m.timer)'
<1>1. /\ Len(xTimerQueue) + 1 \in DOMAIN xTimerQueue'
      /\ xTimerQueue'[Len(xTimerQueue) + 1] = m
  BY WiderQueue
<1> QED BY <1>1 DEF Queued

LEMMA QueueShrinks ==
  ASSUME xTimerQueue \in Seq(Message), xTimerQueue # <<>>,
         xTimerQueue' = Tail(xTimerQueue),
         NEW tm, Queued(tm),
         Head(xTimerQueue).timer # tm \/ Head(xTimerQueue).cmd = "execute"
  PROVE  Queued(tm)'
<1>1. PICK i \in DOMAIN xTimerQueue : /\ xTimerQueue[i].timer = tm
                                      /\ xTimerQueue[i].cmd # "execute"
  BY DEF Queued
<1>2. i # 1 BY <1>1
<1>3. i - 1 \in DOMAIN xTimerQueue' /\ xTimerQueue'[i - 1] = xTimerQueue[i] BY <1>2
<1> QED BY <1>1, <1>3 DEF Queued

\* What the invariant says of the daemon and the queue, for the steps below.
LEMMA ReloadFacts ==
  ASSUME TimersFit, IInv, ~Halted
  PROVE  /\ daemon \in Daemon /\ xTimerQueue \in Seq(Message)
         /\ timer \in [Timer -> TimerRecord]
         /\ sender \in [Sender -> Message] /\ DaemonPath
         /\ daemon.at \in {"next", "sample", "blocked", "expired", "commands"} =>
              ~Holding /\ \A tm : ~InHand(tm)
BY EmptyHands DEF IInv, Working, TypeOK, InSwitch, Holding

\* The steps that leave the timers, and do not take from the queue.
LEMMA ReloadsWithOthers ==
  ASSUME TimersFit, IInv, ~Halted, ReloadsKept, UNCHANGED timer,
         NEW m,
         xTimerQueue' = xTimerQueue \/ xTimerQueue' = Append(xTimerQueue, m),
         daemon' = daemon \/ (~Holding /\ \A tm : ~InHand(tm))
  PROVE  ReloadsKept'
<1>1. \A tm : Queued(tm) => Queued(tm)' BY ReloadFacts, QueueGrows
<1>2. ASSUME NEW tm \in Timer PROVE Reloading(tm)'
  <2>1. OnItsWay(tm) => OnItsWay(tm)' BY <1>1 DEF OnItsWay, InHand, Holding
  <2>2. Reloading(tm) BY DEF ReloadsKept
  <2> QED BY <2>1, <2>2, ReloadingStays
<1> QED BY <1>2 DEF ReloadsKept

\* The steps that touch one timer.
LEMMA ReloadsWithOne ==
  ASSUME ~Halted, ReloadsKept, NEW tm,
         \A u \in Timer : u # tm => /\ timer'[u].active = timer[u].active
                                    /\ timer'[u].auto = timer[u].auto
                                    /\ timer'[u].list = timer[u].list
                                    /\ OnItsWay(u) => OnItsWay(u)',
         tm \in Timer => Reloading(tm)'
  PROVE  ReloadsKept'
<1>1. ASSUME NEW u \in Timer PROVE Reloading(u)'
  <2>1. Reloading(u) BY DEF ReloadsKept
  <2> QED BY <2>1, ReloadingStays
<1> QED BY <1>1 DEF ReloadsKept

LEMMA SendersReload ==
  ASSUME TimersFit, IInv, ~Halted, ReloadsKept, ~MayChangeMode,
         \/ \E s \in Sender : SenderStep(s)
         \/ \E tm \in Timer : \/ \E mode \in BOOLEAN : vTimerSetReloadMode(tm, mode)
                              \/ xTimerCreate(tm)
  PROVE  ReloadsKept'
<1>1. ASSUME NEW s \in Sender, SenderStep(s) PROVE ReloadsKept'
  <2>1. CASE (\E c \in SenderCommands : xTimerGenericCommand(s, c)) \/ GiveUp(s)
    <3>1. UNCHANGED <<timer, xTimerQueue, daemon>>
      BY <2>1 DEF xTimerGenericCommand, GiveUp
    <3> QED BY <3>1, NoMessageIs, ReloadsWithOthers
  <2>2. CASE xQueueSendToBack(s)
    <3>1. /\ UNCHANGED timer /\ xTimerQueue' = Append(xTimerQueue, sender[s])
          /\ daemon' = daemon \/ daemon.at = "blocked"
      BY <2>2 DEF xQueueSendToBack, Wake
    <3>2. sender[s] \in Message /\ (daemon.at = "blocked" =>
                                      ~Holding /\ \A tm : ~InHand(tm))
      BY ReloadFacts
    <3> QED BY <3>1, <3>2, ReloadsWithOthers
  <2> QED BY <1>1, <2>1, <2>2 DEF SenderStep
<1>2. ASSUME NEW tm \in Timer, xTimerCreate(tm) PROVE ReloadsKept'
  <2>1. /\ timer' = [timer EXCEPT ![tm] = NewTimer(tm)]
        /\ UNCHANGED <<xTimerQueue, daemon>>
    BY <1>2 DEF xTimerCreate
  <2>2. ~timer'[tm].active BY <2>1, ReloadFacts DEF NewTimer
  <2>3. Reloading(tm)' BY <2>2 DEF Reloading
  <2>4. \A u \in Timer : u # tm => timer'[u] = timer[u] BY <2>1, ReloadFacts
  <2>5. \A u : OnItsWay(u) => OnItsWay(u)' BY <2>1 DEF OnItsWay, Queued, InHand, Holding
  <2> QED BY <2>3, <2>4, <2>5, ReloadsWithOne
<1> QED BY <1>1, <1>2 DEF vTimerSetReloadMode

\* The daemon's steps that leave the timers.
LEMMA DaemonReloads ==
  ASSUME TimersFit, IInv, ~Halted, ReloadsKept,
         \/ prvGetNextExpireTime \/ SampleSeesWrap \/ SampleSeesExpiry
         \/ BlockOrGoOn \/ NoMoreCommands \/ SampleAfterReceive
  PROVE  ReloadsKept'
<1>1. UNCHANGED <<timer, xTimerQueue>>
  BY DEF prvGetNextExpireTime, SampleSeesWrap, SampleSeesExpiry, BlockOrGoOn,
         NoMoreCommands, SampleAfterReceive
<1>2. CASE SampleAfterReceive
  <2>1. /\ daemon.at = "received"
        /\ daemon' = IF xTickCount < xLastTime
                       THEN [daemon EXCEPT !.xTimeNow = xTickCount,
                                           !.at = "switch", !.after = "apply"]
                       ELSE [daemon EXCEPT !.xTimeNow = xTickCount, !.at = "apply"]
    BY <1>2 DEF SampleAfterReceive
  <2>2. /\ daemon'.msg = daemon.msg
        /\ daemon'.at = "apply" \/ daemon'.after = "apply"
        /\ daemon'.then = daemon.then /\ daemon.then = "commands"
    BY <2>1, ReloadFacts DEF Daemon, DaemonPath
  <2>3. \A u : OnItsWay(u) => OnItsWay(u)'
    BY <1>1, <2>1, <2>2 DEF OnItsWay, Queued, InHand, Holding
  <2>4. ASSUME NEW u \in Timer PROVE Reloading(u)'
    <3>1. Reloading(u) BY DEF ReloadsKept
    <3> QED BY <1>1, <2>3, <3>1, ReloadingStays
  <2> QED BY <2>4 DEF ReloadsKept
<1>3. CASE ~SampleAfterReceive
  <2>1. daemon.at \in {"next", "sample", "commands"}
    BY <1>3 DEF prvGetNextExpireTime, SampleSeesWrap, SampleSeesExpiry,
                BlockOrGoOn, NoMoreCommands
  <2>2. ~Holding /\ \A tm : ~InHand(tm) BY <2>1, ReloadFacts
  <2> QED BY <1>1, <2>2, NoMessageIs, ReloadsWithOthers
<1> QED BY <1>2, <1>3

\* A restart is queued, or its failure halts the system.
LEMMA RestartQueues ==
  ASSUME xTimerQueue \in Seq(Message), configASSERT_DEFINED,
         DaemonAt("asserted").at = "asserted",
         NEW timers, NEW tm, NEW value, NEW age, NEW then,
         Restart(timers, tm, value, age, then)
  PROVE  /\ timer' = timers
         /\ ~Halted' => /\ daemon' = then /\ Queued(tm)'
                        /\ \A u : Queued(u) => Queued(u)'
<1> DEFINE m == [cmd |-> "startDontTrace", timer |-> tm,
                 value |-> value % TickMod, age |-> age]
<1>1. CASE Len(xTimerQueue) < configTIMER_QUEUE_LENGTH
  <2>1. xTimerQueue' = Append(xTimerQueue, m) /\ timer' = timers /\ daemon' = then
    BY <1>1 DEF Restart
  <2>2. m.timer = tm /\ m.cmd # "execute" OBVIOUS
  <2> HIDE DEF m
  <2> QED BY <2>1, <2>2, QueueGrows, QueuedLast
<1>2. CASE ~(Len(xTimerQueue) < configTIMER_QUEUE_LENGTH) BY <1>2 DEF Restart, Halted
<1> QED BY <1>1, <1>2

LEMMA HaltedReloads == ASSUME Halted' PROVE ReloadsKept'
BY DEF ReloadsKept

LEMMA ExpiredReloads ==
  ASSUME TimersFit, IInv, ~Halted, ReloadsKept, configASSERT_DEFINED,
         prvProcessExpiredTimer
  PROVE  ReloadsKept'
<1> DEFINE rec(tm) == Removed(timer[tm])
           period(tm) == rec(tm).xTimerPeriodInTicks
           next(tm) == (daemon.xNextExpireTime + period(tm)) % TickMod
           place(tm) == Place(next(tm), daemon.xTimeNow, daemon.xNextExpireTime,
                              period(tm))
           due(tm) == timer[tm].due + period(tm)
           calls(tm) == [DaemonAt("callback") EXCEPT !.timer = tm]
           again(tm) == Inserted(rec(tm), next(tm), place(tm), due(tm))
<1>1. daemon.at = "expired" BY DEF prvProcessExpiredTimer
<1>2. PICK tm \in HeadsOf("current") :
        IF ~rec(tm).auto
          THEN /\ timer' = [timer EXCEPT ![tm] = [rec(tm) EXCEPT !.active = FALSE]]
               /\ UNCHANGED xTimerQueue
        ELSE IF place(tm) = "now"
          THEN Restart([timer EXCEPT ![tm] = again(tm)],
                       tm, daemon.xNextExpireTime, -timer[tm].due, calls(tm))
        ELSE /\ timer' = [timer EXCEPT ![tm] = again(tm)]
             /\ UNCHANGED xTimerQueue
  BY DEF prvProcessExpiredTimer
<1>3. /\ timer \in [Timer -> TimerRecord] /\ xTimerQueue \in Seq(Message)
      /\ ~Holding /\ \A u : ~InHand(u)
  BY <1>1, ReloadFacts
<1>4. /\ tm \in Timer /\ rec(tm) \in TimerRecord
      /\ DaemonAt("asserted").at = "asserted"
  BY <1>3, RemovedIs, DaemonAtIs DEF HeadsOf, On
<1>5. ~Halted' => \A u : Queued(u) => Queued(u)'
  BY <1>2, <1>3, <1>4, RestartQueues DEF Queued
<1>6. \A u \in Timer : u # tm => timer'[u] = timer[u]
  <2> HIDE DEF rec, next, place, due, calls, again
  <2>1. ASSUME Restart([timer EXCEPT ![tm] = again(tm)],
                       tm, daemon.xNextExpireTime, -timer[tm].due, calls(tm))
        PROVE  timer' = [timer EXCEPT ![tm] = again(tm)]
    BY <2>1, <1>3, <1>4, RestartQueues
  <2>2. PICK new : timer' = [timer EXCEPT ![tm] = new] BY <1>2, <2>1
  <2> QED BY <1>3, <1>4, <2>2
<1>7. ASSUME ~Halted' PROVE Reloading(tm)'
  <2>1. CASE ~rec(tm).auto
    <3>1. ~timer'[tm].active BY <1>2, <1>3, <1>4, <2>1 DEF TimerRecord
    <3> QED BY <3>1 DEF Reloading
  <2>2. CASE rec(tm).auto /\ place(tm) = "now"
    <3>1. Restart([timer EXCEPT ![tm] = again(tm)],
                  tm, daemon.xNextExpireTime, -timer[tm].due, calls(tm))
      BY <1>2, <2>2
    <3>2. Queued(tm)' BY <1>3, <1>4, <1>7, <3>1, RestartQueues
    <3> QED BY <3>2 DEF Reloading, OnItsWay
  <2>3. CASE rec(tm).auto /\ place(tm) # "now"
    <3>1. timer' = [timer EXCEPT ![tm] = again(tm)] BY <1>2, <2>3
    <3>2. again(tm).list = place(tm) /\ place(tm) # "none"
      <4>1. place(tm) # "none" BY DEF Place
      <4> QED BY <1>4, <2>3, <4>1 DEF Inserted, TimerRecord
    <3>3. timer'[tm].list # "none" BY <1>3, <1>4, <3>1, <3>2
    <3> QED BY <3>3 DEF Reloading
  <2> QED BY <2>1, <2>2, <2>3
<1>8. CASE ~Halted'
  <2>1. \A u : OnItsWay(u) => OnItsWay(u)' BY <1>3, <1>5, <1>8 DEF OnItsWay
  <2> QED BY <1>6, <1>7, <1>8, <2>1, ReloadsWithOne
<1> QED BY <1>8, HaltedReloads

LEMMA CallbackReloads ==
  ASSUME TimersFit, IInv, ~Halted, ReloadsKept, pxCallbackFunction
  PROVE  ReloadsKept'
<1>1. /\ UNCHANGED timer /\ daemon.at = "callback" /\ daemon' = AfterCallback
      /\ \/ UNCHANGED xTimerQueue
         \/ \E c \in CallbackCommands :
              xTimerQueue' = Append(xTimerQueue, MessageFor(c))
  BY DEF pxCallbackFunction
<1>2. daemon \in Daemon /\ xTimerQueue \in Seq(Message) /\ DaemonPath BY ReloadFacts
<1>3. \A u : Queued(u) => Queued(u)'
  <2>1. CASE UNCHANGED xTimerQueue BY <1>2, <2>1 DEF Queued
  <2>2. CASE \E c \in CallbackCommands :
               xTimerQueue' = Append(xTimerQueue, MessageFor(c))
    BY <1>2, <2>2, QueueGrows
  <2> QED BY <1>1, <2>1, <2>2
<1>4. \A u : InHand(u) => InHand(u)'
  <2>1. CASE daemon.then = "switched"
    <3>1. daemon'.at = "switched" /\ daemon'.timer = daemon.timer
      BY <1>1, <1>2, <2>1 DEF AfterCallback, Daemon
    <3> QED BY <3>1 DEF InHand
  <2>2. CASE daemon.then # "switched" BY <1>1, <2>2 DEF InHand
  <2> QED BY <2>1, <2>2
<1>5. Holding => Holding' /\ daemon'.msg = daemon.msg
  <2>1. CASE daemon.then = "commands"
    <3>1. daemon.after # "apply" BY <1>1, <1>2, <2>1 DEF DaemonPath, InSwitch
    <3> QED BY <1>1, <2>1, <3>1 DEF Holding
  <2>2. CASE daemon.then # "commands"
    <3>1. /\ daemon'.at = daemon.then /\ daemon'.msg = daemon.msg
          /\ daemon'.after = daemon.after
      BY <1>1, <1>2, <2>2 DEF AfterCallback, Daemon
    <3> QED BY <1>1, <3>1 DEF Holding
  <2> QED BY <2>1, <2>2
<1>6. ASSUME NEW tm \in Timer PROVE Reloading(tm)'
  <2>1. OnItsWay(tm) => OnItsWay(tm)' BY <1>3, <1>4, <1>5 DEF OnItsWay
  <2>2. Reloading(tm) BY DEF ReloadsKept
  <2> QED BY <1>1, <2>1, <2>2, ReloadingStays
<1> QED BY <1>6 DEF ReloadsKept

LEMMA SwitchTakesHeadReloads ==
  ASSUME TimersFit, IInv, ~Halted, ReloadsKept, SwitchTakesHead
  PROVE  ReloadsKept'
<1>1. /\ daemon.at = "switch" /\ UNCHANGED xTimerQueue BY DEF SwitchTakesHead
<1>2. PICK tm \in HeadsOf("current") :
        /\ timer' = [timer EXCEPT ![tm].list = "none", ![tm].value = 0]
        /\ daemon' = [CallbackOf(tm, "switched") EXCEPT
                        !.xNextExpireTime = timer[tm].value]
  BY DEF SwitchTakesHead
<1>3. /\ daemon \in Daemon /\ timer \in [Timer -> TimerRecord] /\ DaemonPath
      /\ tm \in Timer
  BY ReloadFacts DEF HeadsOf, On
<1>4. /\ daemon'.timer = tm /\ daemon'.then = "switched"
      /\ daemon'.after = daemon.after /\ daemon'.msg = daemon.msg
      /\ daemon.then = "commands"
  BY <1>1, <1>2, <1>3 DEF CallbackOf, Daemon, DaemonPath
<1>5. \A u \in Timer : u # tm => timer'[u] = timer[u] BY <1>2, <1>3
<1>6. Reloading(tm)' BY <1>4 DEF Reloading, OnItsWay, InHand
<1>7. \A u : OnItsWay(u) => OnItsWay(u)'
  BY <1>1, <1>4 DEF OnItsWay, Queued, InHand, Holding
<1> QED BY <1>5, <1>6, <1>7, ReloadsWithOne

LEMMA SwitchReloadsReloads ==
  ASSUME TimersFit, IInv, ~Halted, ReloadsKept, configASSERT_DEFINED,
         SwitchReloads
  PROVE  ReloadsKept'
<1>1. PICK tm : tm = daemon.timer OBVIOUS
<1> DEFINE rec == timer[tm]
           n == daemon.xNextExpireTime
           reload == (n + rec.xTimerPeriodInTicks) % TickMod
           goesOn == [daemon EXCEPT !.at = "switch", !.timer = NoTimer,
                                    !.xNextExpireTime = 0]
           off == [rec EXCEPT !.due = 0]
           again == Inserted(rec, reload, "current",
                             rec.due + rec.xTimerPeriodInTicks)
<1>2. /\ daemon.at = "switched"
      /\ \/ /\ ~rec.auto /\ timer' = [timer EXCEPT ![tm] = off]
            /\ daemon' = goesOn /\ UNCHANGED xTimerQueue
         \/ /\ timer' = [timer EXCEPT ![tm] = again]
            /\ daemon' = goesOn /\ UNCHANGED xTimerQueue
         \/ Restart([timer EXCEPT ![tm] = off], tm, n, -rec.due, goesOn)
  BY <1>1 DEF SwitchReloads
<1>3. /\ daemon \in Daemon /\ timer \in [Timer -> TimerRecord] /\ DaemonPath
      /\ tm \in Timer /\ xTimerQueue \in Seq(Message) /\ rec \in TimerRecord
  BY <1>1, <1>2, ReloadFacts DEF DaemonPath
<1>4. /\ goesOn.after = daemon.after /\ goesOn.msg = daemon.msg
      /\ daemon.then = "commands"
  BY <1>2, <1>3 DEF Daemon, DaemonPath
<1>5. again.list # "none" /\ off.auto = rec.auto BY <1>3 DEF Inserted, TimerRecord
<1>6. DaemonAt("asserted").at = "asserted" BY DaemonAtIs
<1> HIDE DEF goesOn, off, again, reload
<1>7. ASSUME ~Halted'
      PROVE  /\ daemon' = goesOn
             /\ \A u : Queued(u) => Queued(u)'
             /\ \/ ~rec.auto /\ timer' = [timer EXCEPT ![tm] = off]
                \/ timer' = [timer EXCEPT ![tm] = again]
                \/ timer' = [timer EXCEPT ![tm] = off] /\ Queued(tm)'
  <2>1. CASE Restart([timer EXCEPT ![tm] = off], tm, n, -rec.due, goesOn)
    BY <1>3, <1>6, <1>7, <2>1, RestartQueues
  <2>2. ASSUME daemon' = goesOn, UNCHANGED xTimerQueue
        PROVE  \A u : Queued(u) => Queued(u)'
    BY <2>2 DEF Queued
  <2> QED BY <1>2, <2>1, <2>2
<1>8. CASE ~Halted'
  <2>1. \A u \in Timer : u # tm => timer'[u] = timer[u] BY <1>3, <1>7, <1>8
  <2>2. Reloading(tm)'
    <3>1. CASE ~rec.auto /\ timer' = [timer EXCEPT ![tm] = off]
      <4>1. ~timer'[tm].auto BY <1>3, <1>5, <3>1
      <4> QED BY <4>1 DEF Reloading
    <3>2. CASE timer' = [timer EXCEPT ![tm] = again]
      <4>1. timer'[tm].list # "none" BY <1>3, <1>5, <3>2
      <4> QED BY <4>1 DEF Reloading
    <3>3. CASE Queued(tm)' BY <3>3 DEF Reloading, OnItsWay
    <3> QED BY <1>7, <1>8, <3>1, <3>2, <3>3
  <2>3. ASSUME NEW u \in Timer, u # tm, OnItsWay(u) PROVE OnItsWay(u)'
    <3>1. Holding => Holding' /\ daemon'.msg = daemon.msg
      BY <1>2, <1>4, <1>7, <1>8 DEF Holding
    <3>2. ~InHand(u) BY <1>1, <2>3 DEF InHand
    <3> QED BY <1>7, <1>8, <2>3, <3>1, <3>2 DEF OnItsWay
  <2> QED BY <2>1, <2>2, <2>3, ReloadsWithOne
<1> QED BY <1>8, HaltedReloads

LEMMA SwitchListsReloads ==
  ASSUME TimersFit, IInv, ~Halted, ReloadsKept, SwitchLists
  PROVE  ReloadsKept'
<1>1. /\ daemon.at = "switch" /\ UNCHANGED xTimerQueue
      /\ timer' = [tm \in Timer |-> IF timer[tm].list = "overflow"
                                      THEN [timer[tm] EXCEPT !.list = "current"]
                                      ELSE timer[tm]]
      /\ daemon' = IF daemon.after = "commands" THEN DaemonAt("commands")
                   ELSE [daemon EXCEPT !.at = "apply", !.after = "commands"]
  BY DEF SwitchLists
<1>2. /\ daemon \in Daemon /\ timer \in [Timer -> TimerRecord] /\ DaemonPath
  BY ReloadFacts
<1>3. daemon.then = "commands" BY <1>1, <1>2 DEF DaemonPath
<1>4. Holding => daemon'.at = "apply" /\ daemon'.msg = daemon.msg
  <2>1. Holding => daemon.after = "apply" BY <1>1, <1>3 DEF Holding
  <2> QED BY <1>1, <1>2, <2>1 DEF Daemon
<1>5. \A u : OnItsWay(u) => OnItsWay(u)'
  BY <1>1, <1>3, <1>4 DEF OnItsWay, Queued, InHand, Holding
<1>6. ASSUME NEW tm \in Timer PROVE Reloading(tm)'
  <2>1. Reloading(tm) BY DEF ReloadsKept
  <2>2. CASE timer[tm].list = "overflow"
    <3>1. timer'[tm].list # "none" BY <1>1, <1>2, <2>2 DEF TimerRecord
    <3> QED BY <3>1 DEF Reloading
  <2>3. CASE timer[tm].list # "overflow"
    <3>1. timer'[tm] = timer[tm] BY <1>1, <2>3
    <3> QED BY <1>5, <2>1, <3>1, ReloadingStays
  <2> QED BY <2>2, <2>3
<1> QED BY <1>6 DEF ReloadsKept

LEMMA ReceiveReloads ==
  ASSUME TimersFit, IInv, ~Halted, ReloadsKept, ReceiveCommand \/ ExecutePended
  PROVE  ReloadsKept'
<1>0. PICK m : m = Head(xTimerQueue) OBVIOUS
<1>1. /\ daemon.at = "commands" /\ xTimerQueue # <<>>
      /\ xTimerQueue' = Tail(xTimerQueue)
  BY DEF ReceiveCommand, ExecutePended
<1>2. /\ xTimerQueue \in Seq(Message) /\ timer \in [Timer -> TimerRecord]
      /\ ~Holding /\ \A u : ~InHand(u)
  BY <1>1, ReloadFacts
<1>3. CASE ExecutePended
  <2>1. m.cmd = "execute" /\ UNCHANGED <<timer, daemon>> BY <1>0, <1>3 DEF ExecutePended
  <2>2. \A u : OnItsWay(u) => OnItsWay(u)'
    BY <1>0, <1>1, <1>2, <2>1, QueueShrinks DEF OnItsWay
  <2>3. ASSUME NEW tm \in Timer PROVE Reloading(tm)'
    <3>1. Reloading(tm) BY DEF ReloadsKept
    <3> QED BY <2>1, <2>2, <3>1, ReloadingStays
  <2> QED BY <2>3 DEF ReloadsKept
<1>4. CASE ReceiveCommand /\ timer[m.timer].allocated
  <2>1. /\ timer' = [timer EXCEPT ![m.timer] = Removed(@)]
        /\ daemon' = [DaemonAt("received") EXCEPT !.msg = m]
    BY <1>0, <1>4 DEF ReceiveCommand
  <2>2. daemon'.msg = m /\ daemon'.at = "received" BY <2>1 DEF DaemonAt
  <2>3. Reloading(m.timer)'
    <3>1. OnItsWay(m.timer)' BY <2>2 DEF OnItsWay, Holding
    <3> QED BY <3>1 DEF Reloading
  <2>4. \A u : u # m.timer => (OnItsWay(u) => OnItsWay(u)')
    <3>1. \A u : u # m.timer => (Queued(u) => Queued(u)')
      BY <1>0, <1>1, <1>2, QueueShrinks
    <3> QED BY <1>2, <3>1 DEF OnItsWay
  <2>5. \A u \in Timer : u # m.timer => timer'[u] = timer[u] BY <1>2, <2>1
  <2> QED BY <2>3, <2>4, <2>5, ReloadsWithOne
<1>5. CASE ReceiveCommand /\ ~timer[m.timer].allocated
  <2>1. daemon'.at = "undefined" BY <1>0, <1>5 DEF ReceiveCommand, DaemonAt
  <2> QED BY <2>1, HaltedReloads DEF Halted
<1> QED BY <1>3, <1>4, <1>5

LEMMA AppliedReloads ==
  ASSUME TimersFit, IInv, ~Halted, ReloadsKept,
         Start \/ Stop \/ ChangePeriod \/ Delete
  PROVE  ReloadsKept'
<1>1. daemon.at = "apply" /\ UNCHANGED xTimerQueue
  BY DEF Start, Stop, ChangePeriod, Delete
<1>2. PICK tm \in Timer : tm = daemon.msg.timer BY <1>1, AppliedIs
<1>3. /\ daemon \in Daemon /\ timer \in [Timer -> TimerRecord]
      /\ timer[tm] \in TimerRecord
      /\ xTimerQueue \in Seq(Message) /\ xTickCount \in Tick
      /\ daemon.xTimeNow \in Tick /\ \A u : ~InHand(u)
  BY <1>1, <1>2, AppliedIs DEF TypeOK
<1>4. PICK new : timer' = [timer EXCEPT ![tm] = new]
  BY <1>2 DEF Start, Stop, ChangePeriod, Delete
<1>5. \A u \in Timer : u # tm => timer'[u] = timer[u] BY <1>3, <1>4
<1>6. \A u : u # tm => (OnItsWay(u) => OnItsWay(u)')
  BY <1>1, <1>2, <1>3 DEF OnItsWay, Queued
<1>7. CASE Stop \/ Delete
  <2>1. timer'[tm].active = FALSE
    BY <1>2, <1>3, <1>7 DEF Stop, Delete, NewTimer, TimerRecord
  <2> QED BY <1>5, <1>6, <2>1, ReloadsWithOne DEF Reloading
<1>8. CASE Start
  <2> DEFINE m == daemon.msg
             rec == [timer[tm] EXCEPT !.active = TRUE]
             next == (m.value + rec.xTimerPeriodInTicks) % TickMod
             place == Place(next, daemon.xTimeNow, m.value,
                            rec.xTimerPeriodInTicks)
             due == rec.xTimerPeriodInTicks - m.age
  <2>1. /\ timer' = [timer EXCEPT ![tm] = Inserted(rec, next, place, due)]
        /\ daemon' = IF place = "now" THEN CallbackOf(m.timer, "repost")
                     ELSE DaemonAt("commands")
    BY <1>2, <1>8 DEF Start
  <2>2. CASE place = "now"
    <3>1. daemon'.then = "repost" /\ daemon'.msg = daemon.msg
      BY <1>3, <2>1, <2>2 DEF CallbackOf, Daemon
    <3> QED BY <1>2, <1>5, <1>6, <3>1, ReloadsWithOne DEF Reloading, OnItsWay, Holding
  <2>3. CASE place # "now"
    <3>1. place # "none" BY DEF Place
    <3>2. Inserted(rec, next, place, due).list # "none"
      BY <1>3, <2>3, <3>1 DEF Inserted, TimerRecord
    <3> HIDE DEF rec, next, place, due
    <3>3. timer'[tm].list # "none" BY <1>3, <2>1, <3>2
    <3> QED BY <1>5, <1>6, <3>3, ReloadsWithOne DEF Reloading
  <2> QED BY <2>2, <2>3
<1>9. CASE ChangePeriod
  <2> DEFINE m == daemon.msg
             now == daemon.xTimeNow
             next == (now + m.value) % TickMod
             rec == [timer[tm] EXCEPT !.active = TRUE,
                                      !.xTimerPeriodInTicks = m.value]
             place == Place(next, now, now, m.value)
             due == m.value - m.age
  <2>1. timer' = [timer EXCEPT ![tm] = Inserted(rec, next, place, due)]
    BY <1>2, <1>9 DEF ChangePeriod
  <2>2. place \notin {"now", "none"}
    <3>1. m.value \in 1..Longest BY <1>1, <1>9, AppliedIs DEF ChangePeriod
    <3>2. /\ now \in Tick /\ 0 \in 0..(TickMod - 1)
          /\ now + 0 \in {now, now + TickMod}
      BY <1>3, TickFacts DEF Tick
    <3>3. place \in {"now", "current", "overflow"}
          /\ (place = "now" <=> m.value <= 0)
      BY <3>1, <3>2, PlaceIs
    <3> HIDE DEF place
    <3> QED BY <3>1, <3>3, TickFacts
  <2>3. Inserted(rec, next, place, due).list # "none"
    <3> HIDE DEF next, place, due
    <3> QED BY <1>3, <2>2 DEF Inserted, TimerRecord
  <2> HIDE DEF rec, next, place, due
  <2>4. timer'[tm].list # "none" BY <1>3, <2>1, <2>3
  <2> QED BY <1>5, <1>6, <2>4, ReloadsWithOne DEF Reloading
<1> QED BY <1>7, <1>8, <1>9

LEMMA LateStartReloads ==
  ASSUME TimersFit, IInv, ~Halted, ReloadsKept, configASSERT_DEFINED,
         RestartAfterLateStart
  PROVE  ReloadsKept'
<1>1. PICK tm : tm = daemon.msg.timer OBVIOUS
<1> DEFINE m == daemon.msg
           period == timer[tm].xTimerPeriodInTicks
<1>2. /\ daemon.at = "repost"
      /\ IF timer[tm].auto
           THEN Restart(timer, tm, m.value + period, m.age - period,
                        DaemonAt("commands"))
           ELSE UNCHANGED <<timer, xTimerQueue>>
  BY <1>1 DEF RestartAfterLateStart
<1>3. /\ daemon \in Daemon /\ timer \in [Timer -> TimerRecord] /\ DaemonPath
      /\ xTimerQueue \in Seq(Message) /\ DaemonAt("asserted").at = "asserted"
  BY ReloadFacts, DaemonAtIs
<1>4. \A u : ~InHand(u) BY <1>2, <1>3 DEF DaemonPath, InHand
<1>5. ASSUME ~Halted'
      PROVE  /\ timer' = timer /\ \A u : Queued(u) => Queued(u)'
             /\ ~timer[tm].auto \/ Queued(tm)'
  BY <1>2, <1>3, <1>5, RestartQueues DEF Queued
<1>6. CASE ~Halted'
  <2>1. Reloading(tm)' BY <1>5, <1>6 DEF Reloading, OnItsWay
  <2>2. \A u : u # tm => (OnItsWay(u) => OnItsWay(u)')
    BY <1>1, <1>4, <1>5, <1>6 DEF OnItsWay
  <2> QED BY <1>5, <1>6, <2>1, <2>2, ReloadsWithOne
<1> QED BY <1>6, HaltedReloads

LEMMA TickReloads ==
  ASSUME TimersFit, IInv, ~Halted, ReloadsKept, xTaskIncrementTick
  PROVE  ReloadsKept'
<1>1. /\ timer' = [tm \in Timer |-> IF Counted(tm)
                                      THEN [timer[tm] EXCEPT !.due = @ - 1]
                                      ELSE timer[tm]]
      /\ xTimerQueue' = [i \in DOMAIN xTimerQueue |-> Older(xTimerQueue[i])]
      /\ daemon' = IF daemon.at # "blocked" \/ daemon.sleep = Forever
                     THEN [daemon EXCEPT !.msg = OlderReceived]
                   ELSE IF daemon.sleep = 1 THEN DaemonAt("commands")
                   ELSE [daemon EXCEPT !.sleep = @ - 1]
  BY DEF xTaskIncrementTick
<1>2. /\ daemon \in Daemon /\ xTimerQueue \in Seq(Message)
      /\ timer \in [Timer -> TimerRecord]
      /\ daemon.at = "blocked" => ~Holding /\ \A u : ~InHand(u)
  BY ReloadFacts
<1>3. \A x \in Message : Older(x).timer = x.timer /\ Older(x).cmd = x.cmd
  BY DEF Older, Message
<1>4. \A u : Queued(u) => Queued(u)'
  <2> SUFFICES ASSUME NEW u, Queued(u) PROVE Queued(u)' OBVIOUS
  <2>1. PICK i \in DOMAIN xTimerQueue : /\ xTimerQueue[i].timer = u
                                        /\ xTimerQueue[i].cmd # "execute"
    BY DEF Queued
  <2>2. /\ i \in DOMAIN xTimerQueue' /\ xTimerQueue[i] \in Message
        /\ xTimerQueue'[i] = Older(xTimerQueue[i])
    BY <1>1, <1>2
  <2> QED BY <1>3, <2>1, <2>2 DEF Queued
<1>5. OlderReceived.timer = daemon.msg.timer
  BY <1>2, <1>3 DEF OlderReceived, Daemon, Message
<1>6. \A u : OnItsWay(u) => OnItsWay(u)'
  <2>1. CASE daemon.at = "blocked" BY <1>2, <1>4, <2>1 DEF OnItsWay
  <2>2. CASE daemon.at # "blocked"
    <3>1. /\ daemon'.at = daemon.at /\ daemon'.then = daemon.then
          /\ daemon'.after = daemon.after /\ daemon'.timer = daemon.timer
          /\ daemon'.msg = OlderReceived
      BY <1>1, <1>2, <2>2 DEF Daemon
    <3>2. /\ Holding => Holding' /\ daemon'.msg.timer = daemon.msg.timer
          /\ \A u : InHand(u) => InHand(u)'
      BY <1>5, <3>1 DEF Holding, InHand
    <3> QED BY <1>4, <3>2 DEF OnItsWay
  <2> QED BY <2>1, <2>2
<1>7. ASSUME NEW tm \in Timer PROVE Reloading(tm)'
  <2>1. Reloading(tm) BY DEF ReloadsKept
  <2>2. /\ timer'[tm].active = timer[tm].active
        /\ timer'[tm].auto = timer[tm].auto
        /\ timer'[tm].list = timer[tm].list
    BY <1>1, <1>2 DEF TimerRecord
  <2> QED BY <1>6, <2>1, <2>2, ReloadingStays
<1> QED BY <1>7 DEF ReloadsKept

LEMMA NextReloads ==
  ASSUME TimersFit, configASSERT_DEFINED, ~MayChangeMode,
         IInv, ReloadsKept, [Next]_vars
  PROVE  ReloadsKept'
<1>1. CASE UNCHANGED vars
  <2>1. timer' = timer /\ daemon' = daemon /\ xTimerQueue' = xTimerQueue BY <1>1 DEF vars
  <2> QED BY <2>1 DEF ReloadsKept, Reloading, OnItsWay, Queued, InHand, Holding, Halted
<1>2. CASE Next
  <2>1. ~Halted BY <1>2 DEF Next, Halted
  <2>2. CASE TimerTask BY <2>1, <2>2, DaemonReloads, ExpiredReloads, CallbackReloads,
       SwitchTakesHeadReloads, SwitchReloadsReloads, SwitchListsReloads,
       ReceiveReloads, AppliedReloads, LateStartReloads, Zenon DEF TimerTask
  <2> QED BY <1>2, <2>1, <2>2, TickReloads, SendersReload DEF Next
<1> QED BY <1>1, <1>2

\* An active auto-reload timer goes on for ever, as long as its mode is left
\* alone and a failed assertion halts: it is listed, or a command that lists it
\* is on its way, or the daemon is at it (timers.c:530, 813, 926).
THEOREM ActiveTimersReload ==
  ASSUME TimersFit, configASSERT_DEFINED, ~MayChangeMode
  PROVE  Spec => []ActiveReloads
<1>1. Init => IInv /\ ReloadsKept
  <2>1. Init => ReloadsKept BY DEF Init, NewTimer, ReloadsKept, Reloading
  <2> QED BY <2>1, InitKeeps
<1>2. IInv /\ ReloadsKept /\ [Next]_vars => IInv' /\ ReloadsKept'
  BY NextKeeps, NextReloads
<1>3. IInv /\ ReloadsKept => ActiveReloads
  <2> SUFFICES ASSUME ReloadsKept PROVE ActiveReloads OBVIOUS
  <2>1. ASSUME ~Halted, NEW tm \in Timer
        PROVE  \/ ~timer[tm].active \/ ~timer[tm].auto
               \/ timer[tm].list # "none" \/ Queued(tm)
               \/ tm \in {daemon.timer, daemon.msg.timer}
    BY <2>1 DEF ReloadsKept, Reloading, OnItsWay, InHand
  <2> QED BY <2>1 DEF ActiveReloads, Queued, Halted
<1> QED BY <1>1, <1>2, <1>3, PTL DEF Spec
=============================================================================
