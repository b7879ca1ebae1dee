----------------------------- MODULE WifiProofs -----------------------------
(***************************************************************************)
\* Theorems about WifiDevice, for any tasks, networks, listeners, table
\* sizes and failures: the two recursive locks are given back as they were
\* taken, and what the service believes of the link, the station and the
\* file is so.  Then about WifiHotspot, for any tasks and configurations,
\* about IotUart, for any tasks and lengths, about HalFile, for any tasks,
\* descriptors and lengths, and about Gpio, for any tasks and pins.
(***************************************************************************)
EXTENDS WifiDevice, TLAPS, WellFoundedInduction

\* Where a call holds the lock for more than a step.
Writing(c) == call[c].at \in {"open", "write"}
Connecting(c) == call[c].at = "connecting"
Dispatching(c) == c = "wpa" /\ dispatch.event # "none"

Once(condition) == IF condition THEN 1 ELSE 0

\* A lock that somebody has was taken, and one that nobody has was not.
LocksOwned ==
  /\ globalLock.owner = "NULL" <=> globalLock.count = 0
  /\ eventLock.owner = "NULL" <=> eventLock.count = 0

\* The event lock is held by the dispatch of an event and by a request to the
\* driver, once each; the driver's task makes calls only while it dispatches.
EventLockBooked ==
  /\ \A c \in Caller :
       HeldBy(eventLock, c) = Once(Dispatching(c)) + Once(Connecting(c))
  /\ ~IsAt("wpa", "idle") => Dispatching("wpa")

\* A call has its locks once more than its caller had, where it holds them.
CallsBooked ==
  \A c \in Caller :
    /\ HeldBy(globalLock, c) <= LockBound
    /\ ~IsAt(c, "idle") =>
         /\ call[c].held[1] < LockBound
         /\ HeldBy(globalLock, c) = call[c].held[1] + Once(Writing(c))
         /\ call[c].held[2] = Once(Dispatching(c))

\* The connection state, as it was before the request where one is being made.
StateBooked ==
  /\ (\A c \in Caller : ~Connecting(c)) =>
       (g_connectState = "AVALIABLE" <=> connectedSince)
  /\ \A c \in Caller : Connecting(c) =>
       /\ g_connectState = "NOT_AVALIABLE"
       /\ call[c].lastState = "AVALIABLE" <=> connectedSince

\* A slot that is about to be written is in use under its own number or not in use.
SlotsWritten ==
  \A c \in Caller : Writing(c) =>
    g_wifiConfigs[call[c].slot].netId \in {call[c].slot, INVALID}

IInv == /\ TypeOK /\ LocksOwned /\ EventLockBooked /\ CallsBooked
        /\ StateBooked /\ SlotsWritten /\ BeliefsHold

--------------------
\* Locks and calls.

LEMMA CallersAreSomebody ==
  /\ "wpa" \in Caller /\ "wpa" \notin Task
  /\ \A c \in Caller : c # "NULL"
  BY WifiAssumption DEF Caller

LEMMA BoundType == LockBound \in Nat /\ LockBound > 0
  BY WifiAssumption

\* A lock, whatever its count, that is free exactly if its count is 0.
Sound(lock) == /\ lock \in [owner : Caller \cup {"NULL"}, count : Nat]
               /\ lock.owner = "NULL" <=> lock.count = 0

\* What a step of c may do to a lock.
LockStep(lock, after, c) ==
  \/ after = lock
  \/ CanLock(lock, c) /\ after = Locked(lock, c)
  \/ lock.owner = c /\ after = Released(lock)

\* Taking and giving back count, and concern nobody else.
LEMMA LockFacts ==
  ASSUME NEW lock, Sound(lock), NEW c \in Caller
  PROVE  /\ HeldBy(lock, c) \in Nat
         /\ CanLock(lock, c) => HeldBy(Locked(lock, c), c) = HeldBy(lock, c) + 1
         /\ lock.owner = c => HeldBy(Released(lock), c) = HeldBy(lock, c) - 1
         /\ HeldBy(lock, c) > 0 => lock.owner = c
         /\ lock.owner = c => HeldBy(lock, c) > 0
<1>1. CanLock(lock, c) => HeldBy(Locked(lock, c), c) = HeldBy(lock, c) + 1
  BY CallersAreSomebody DEF Sound, CanLock, Locked, HeldBy
<1>2. lock.owner = c => HeldBy(Released(lock), c) = HeldBy(lock, c) - 1
  BY CallersAreSomebody DEF Sound, Released, HeldBy, Unlocked
<1> QED BY <1>1, <1>2, CallersAreSomebody DEF Sound, HeldBy

LEMMA LockStepFacts ==
  ASSUME NEW lock, Sound(lock), NEW c \in Caller, NEW after, LockStep(lock, after, c)
  PROVE  /\ Sound(after)
         /\ \A d \in Caller \ {c} : HeldBy(after, d) = HeldBy(lock, d)
<1>1. CASE after = lock BY <1>1
<1>2. CASE CanLock(lock, c) /\ after = Locked(lock, c)
  BY <1>2, CallersAreSomebody DEF Sound, CanLock, Locked, HeldBy
<1>3. CASE lock.owner = c /\ after = Released(lock)
  BY <1>3, CallersAreSomebody DEF Sound, Released, HeldBy, Unlocked
<1> QED BY <1>1, <1>2, <1>3 DEF LockStep

\* The type of a lock bounds its count.
LEMMA LockType ==
  ASSUME NEW lock, Sound(lock), \A c \in Caller : HeldBy(lock, c) <= LockBound + 2
  PROVE  lock \in Lock
<1>1. CASE lock.owner = "NULL" BY <1>1, BoundType DEF Sound, Lock
<1>2. CASE lock.owner \in Caller
  <2>1. lock.count <= LockBound + 2 BY <1>2 DEF HeldBy
  <2> QED BY <2>1, BoundType DEF Sound, Lock
<1> QED BY <1>1, <1>2 DEF Sound

LEMMA LocksSound == ASSUME TypeOK, LocksOwned PROVE Sound(globalLock) /\ Sound(eventLock)
  BY DEF TypeOK, LocksOwned, Lock, Sound

Booked == LocksOwned /\ EventLockBooked /\ CallsBooked

\* How a step of a call, other than its first, moves it on: to r, which is idle if
\* the call returns.
CallMoves(c, r) ==
  /\ r \in CallRecord
  /\ call' = [call EXCEPT ![c] = r]
  /\ ~IsAt(c, "idle")
  /\ r.at # "idle" => r.held = call[c].held
  /\ dispatch' = dispatch

\* What the step has to leave of the locks.
LEMMA MovesBooked ==
  ASSUME TypeOK, Booked, NEW c \in Caller, NEW r, CallMoves(c, r),
         LockStep(globalLock, globalLock', c), LockStep(eventLock, eventLock', c),
         r.at # "idle" =>
           HeldBy(globalLock', c) = call[c].held[1] + Once(r.at \in {"open", "write"}),
         HeldBy(globalLock', c) <= LockBound,
         HeldBy(eventLock', c) + Once(Connecting(c)) =
           HeldBy(eventLock, c) + Once(r.at = "connecting")
  PROVE  Booked' /\ globalLock' \in Lock /\ eventLock' \in Lock
<1>1. /\ Sound(globalLock) /\ Sound(eventLock) BY LocksSound DEF Booked
<1>2. /\ Sound(globalLock') /\ Sound(eventLock')
      /\ \A d \in Caller \ {c} : /\ HeldBy(globalLock', d) = HeldBy(globalLock, d)
                                /\ HeldBy(eventLock', d) = HeldBy(eventLock, d)
  BY <1>1, LockStepFacts
<1>3. /\ call'[c] = r /\ \A d \in Caller \ {c} : call'[d] = call[d]
      /\ \A d \in Caller : Dispatching(d)' <=> Dispatching(d)
      /\ \A d \in Caller \ {c} : /\ Writing(d)' <=> Writing(d)
                                /\ Connecting(d)' <=> Connecting(d)
  BY DEF CallMoves, TypeOK, Dispatching, Writing, Connecting
<1>4. \A d \in Caller : HeldBy(globalLock', d) <= LockBound
  BY <1>2 DEF Booked, CallsBooked
<1>5. \A d \in Caller :
        HeldBy(eventLock', d) = Once(Dispatching(d)') + Once(Connecting(d)')
  <2>1. ASSUME NEW d \in Caller \ {c}
        PROVE  HeldBy(eventLock', d) = Once(Dispatching(d)') + Once(Connecting(d)')
    <3>1. HeldBy(eventLock, d) = Once(Dispatching(d)) + Once(Connecting(d))
      BY DEF Booked, EventLockBooked
    <3>2. /\ HeldBy(eventLock', d) = HeldBy(eventLock, d)
          /\ call'[d] = call[d] /\ dispatch' = dispatch
      BY <1>2, <1>3 DEF CallMoves
    <3> QED BY <3>1, <3>2 DEF Once, Dispatching, Connecting
  <2>2. HeldBy(eventLock', c) = Once(Dispatching(c)') + Once(Connecting(c)')
    <3>1. HeldBy(eventLock, c) = Once(Dispatching(c)) + Once(Connecting(c))
      BY DEF Booked, EventLockBooked
    <3>2. Connecting(c)' <=> r.at = "connecting" BY <1>3 DEF Connecting
    <3>3. HeldBy(eventLock', c) \in Nat BY <1>2, LockFacts
    <3> QED BY <1>3, <3>1, <3>2, <3>3 DEF Once
  <2> QED BY <2>1, <2>2
<1>6. LocksOwned' BY <1>2 DEF Sound, LocksOwned
<1>7. EventLockBooked'
  <2>1. ~IsAt("wpa", "idle")' => Dispatching("wpa")'
    BY <1>3, CallersAreSomebody DEF Booked, EventLockBooked, CallMoves, IsAt
  <2> QED BY <1>5, <2>1 DEF EventLockBooked, HeldBy, Dispatching, Connecting
<1>8. CallsBooked'
  <2> SUFFICES ASSUME NEW d \in Caller, ~IsAt(d, "idle")'
               PROVE  /\ call'[d].held[1] < LockBound
                      /\ HeldBy(globalLock', d) = call'[d].held[1] + Once(Writing(d)')
                      /\ call'[d].held[2] = Once(Dispatching(d)')
    BY <1>4 DEF CallsBooked, HeldBy, Writing, Dispatching, IsAt
  <2>1. CASE d # c
    <3>1. /\ call'[d] = call[d] /\ HeldBy(globalLock', d) = HeldBy(globalLock, d)
          /\ dispatch' = dispatch
      BY <1>2, <1>3, <2>1 DEF CallMoves
    <3>2. call[d].at # "idle" BY <3>1 DEF IsAt
    <3>3. /\ call[d].held[1] < LockBound
          /\ HeldBy(globalLock, d) = call[d].held[1] + Once(Writing(d))
          /\ call[d].held[2] = Once(Dispatching(d))
      BY <3>2 DEF Booked, CallsBooked, IsAt
    <3> QED BY <3>1, <3>3 DEF Once, Dispatching, Writing
  <2>2. CASE d = c BY <1>3, <2>2 DEF Booked, CallsBooked, IsAt, Once, CallMoves, Writing
  <2> QED BY <2>1, <2>2
<1>9. \A d \in Caller : HeldBy(eventLock', d) <= LockBound + 2 BY <1>5, BoundType DEF Once
<1>10. \A d \in Caller : HeldBy(globalLock', d) <= LockBound + 2
  BY <1>2, <1>4, LockFacts, BoundType
<1> QED BY <1>2, <1>6, <1>7, <1>8, <1>9, <1>10, LockType DEF Booked

\* A step that leaves the locks alone and goes from a place without them to another.
LEMMA QuietBooked ==
  ASSUME TypeOK, Booked, NEW c \in Caller, NEW r, CallMoves(c, r),
         UNCHANGED <<globalLock, eventLock>>,
         ~Writing(c) /\ ~Connecting(c),
         r.at \notin {"open", "write", "connecting"}
  PROVE  Booked' /\ globalLock' \in Lock /\ eventLock' \in Lock
<1>1. /\ HeldBy(globalLock', c) = HeldBy(globalLock, c)
      /\ HeldBy(eventLock', c) = HeldBy(eventLock, c)
  OBVIOUS
<1>2. /\ HeldBy(globalLock, c) <= LockBound
      /\ HeldBy(globalLock, c) = call[c].held[1] + Once(Writing(c))
  BY DEF Booked, CallsBooked, CallMoves
<1>3. LockStep(globalLock, globalLock', c) /\ LockStep(eventLock, eventLock', c)
  BY DEF LockStep
<1>4. HeldBy(eventLock, c) \in Nat BY LocksSound, LockFacts DEF Booked
<1>5. /\ Once(Writing(c)) = 0 /\ Once(Connecting(c)) = 0
      /\ Once(r.at \in {"open", "write"}) = 0 /\ Once(r.at = "connecting") = 0
  BY DEF Once
<1> QED BY <1>1, <1>2, <1>3, <1>4, <1>5, MovesBooked

\* Who can take a lock is the only one that may be where it is held.
LEMMA OnlyWriter ==
  ASSUME TypeOK, Booked, NEW c \in Caller, CanLock(globalLock, c)
  PROVE  \A d \in Caller \ {c} : ~Writing(d)
<1> SUFFICES ASSUME NEW d \in Caller \ {c}, Writing(d) PROVE FALSE OBVIOUS
<1>1. HeldBy(globalLock, d) = call[d].held[1] + 1
  BY DEF Booked, CallsBooked, Writing, Once, IsAt
<1>2. call[d].held[1] \in Nat BY BoundType DEF TypeOK, CallRecord
<1>3. globalLock.owner = d BY <1>1, <1>2, CallersAreSomebody DEF HeldBy
<1> QED BY <1>3, CallersAreSomebody DEF CanLock

LEMMA OnlyConnecting ==
  ASSUME TypeOK, Booked, NEW c \in Caller, CanLock(eventLock, c)
  PROVE  \A d \in Caller \ {c} : ~Connecting(d)
<1> SUFFICES ASSUME NEW d \in Caller \ {c}, Connecting(d) PROVE FALSE OBVIOUS
<1>1. HeldBy(eventLock, d) = Once(Dispatching(d)) + 1 BY DEF Booked, EventLockBooked, Once
<1>2. eventLock.owner = d BY <1>1 DEF HeldBy, Once
<1> QED BY <1>2, CallersAreSomebody DEF CanLock

LEMMA IdleType ==
  ASSUME NEW res \in Result
  PROVE  Idle(res) \in CallRecord /\ Idle(res).at = "idle"
<1>1. 0 \in Slot /\ 0 \in 0..(LockBound + 2) BY WifiAssumption, BoundType DEF Slot
<1> QED BY <1>1 DEF Idle, CallRecord, At, State

LEMMA ReturnMoves ==
  ASSUME NEW c \in Caller, ~IsAt(c, "idle"), NEW res \in Result, Return(c, res),
         UNCHANGED dispatch
  PROVE  CallMoves(c, Idle(res)) /\ Idle(res).at = "idle"
  BY IdleType DEF CallMoves, Return

LEMMA GoToMoves ==
  ASSUME TypeOK, NEW c \in Caller, ~IsAt(c, "idle"), NEW place \in At, GoTo(c, place),
         UNCHANGED dispatch
  PROVE  /\ CallMoves(c, [call[c] EXCEPT !.at = place])
         /\ [call[c] EXCEPT !.at = place].at = place
<1>1. call[c] \in CallRecord BY DEF TypeOK
<1>2. [call[c] EXCEPT !.at = place] \in CallRecord BY <1>1 DEF CallRecord
<1>3. call' = [call EXCEPT ![c] = [call[c] EXCEPT !.at = place]] BY DEF GoTo, TypeOK
<1> QED BY <1>1, <1>2, <1>3 DEF CallMoves, CallRecord

LEMMA StateKept ==
  ASSUME TypeOK, StateBooked, NEW c \in Caller, NEW r, call' = [call EXCEPT ![c] = r],
         UNCHANGED <<g_connectState, connectedSince>>,
         ~Connecting(c), r.at # "connecting"
  PROVE  StateBooked'
<1>1. call'[c] = r /\ \A d \in Caller \ {c} : call'[d] = call[d] BY DEF TypeOK
<1> QED BY <1>1 DEF StateBooked, Connecting

LEMMA SlotsKept ==
  ASSUME TypeOK, SlotsWritten, NEW c \in Caller, NEW r, call' = [call EXCEPT ![c] = r],
         \/ g_wifiConfigs' = g_wifiConfigs
         \/ \A d \in Caller \ {c} : ~Writing(d),
         r.at \in {"open", "write"} =>
           g_wifiConfigs'[r.slot].netId \in {r.slot, INVALID}
  PROVE  SlotsWritten'
<1>1. call'[c] = r /\ \A d \in Caller \ {c} : call'[d] = call[d] BY DEF TypeOK
<1> QED BY <1>1 DEF SlotsWritten, Writing

\* What a step under a lock that it has given back again, or under none, does to a call.
QuietMove(c) ==
  /\ \E r : CallMoves(c, r) /\ r.at \notin {"open", "write", "connecting"}
  /\ ~Writing(c) /\ ~Connecting(c)
  /\ UNCHANGED <<globalLock, eventLock, g_connectState, connectedSince>>
  /\ \/ g_wifiConfigs' = g_wifiConfigs
     \/ \A d \in Caller \ {c} : ~Writing(d)

Typed == /\ globalLock \in Lock /\ eventLock \in Lock
         /\ call \in [Caller -> CallRecord]

Placed == Typed /\ Booked /\ StateBooked /\ SlotsWritten

LEMMA QuietPlaced ==
  ASSUME IInv, NEW c \in Caller, QuietMove(c)
  PROVE  Placed'
<1>1. PICK r : CallMoves(c, r) /\ r.at \notin {"open", "write", "connecting"}
  BY DEF QuietMove
<1>2. TypeOK /\ Booked /\ StateBooked /\ SlotsWritten BY DEF IInv, Booked
<1>3. call' = [call EXCEPT ![c] = r] /\ call' \in [Caller -> CallRecord]
  BY <1>1, <1>2 DEF CallMoves, TypeOK
<1>4. Booked' /\ globalLock' \in Lock /\ eventLock' \in Lock
  BY <1>1, <1>2, QuietBooked DEF QuietMove
<1>5. StateBooked' BY <1>1, <1>2, <1>3, StateKept DEF QuietMove
<1>6. SlotsWritten' BY <1>1, <1>2, <1>3, SlotsKept DEF QuietMove
<1> QED BY <1>3, <1>4, <1>5, <1>6 DEF Placed, Typed


\* The rest of the types.
RestTyped ==
  /\ g_wifiStaStatus \in {"ACTIVE", "NOT_ACTIVE"}
  /\ g_wifiConfigs \in [Slot -> Config]
  /\ g_networkId \in Slot \cup {-1}
  /\ g_networkConfigReadFlag \in BOOLEAN
  /\ g_wifiEvents \in [0..(MaxEvent - 1) -> Listener \cup {"NULL"}]
  /\ g_connectState \in State /\ connectedSince \in BOOLEAN
  /\ file \in File
  /\ driver \in [started : BOOLEAN, link : {"down", "connecting", "connected"},
                 pending : Seq(Event), callback : BOOLEAN]
  /\ dispatch \in [event : Event \cup {"none"}, i : 0..MaxEvent]

LEMMA InvariantParts ==
  /\ IInv <=> Placed /\ RestTyped /\ BeliefsHold
  /\ IInv' <=> Placed' /\ RestTyped' /\ BeliefsHold'
  BY DEF IInv, Placed, Typed, RestTyped, TypeOK, Booked

\* The places of a call where it holds no lock over a step.
Quiet == {"EnableWifi", "DisableWifi", "Scan", "notify", "scan", "AddDeviceConfig",
          "GetDeviceConfigs", "ConnectTo", "Disconnect", "RegisterWifiEvent",
          "RegisterHisiCallback", "UnRegisterWifiEvent"}

LEMMA QuietReturn ==
  ASSUME NEW c \in Caller, call[c].at \in Quiet, NEW res \in Result, Return(c, res),
         UNCHANGED <<globalLock, eventLock, g_connectState, connectedSince, dispatch>>,
         \/ g_wifiConfigs' = g_wifiConfigs
         \/ \A d \in Caller \ {c} : ~Writing(d)
  PROVE  QuietMove(c)
<1>1. ~IsAt(c, "idle") /\ ~Writing(c) /\ ~Connecting(c)
  BY DEF Quiet, IsAt, Writing, Connecting
<1> QED BY <1>1, ReturnMoves DEF QuietMove

LEMMA QuietGoTo ==
  ASSUME TypeOK, NEW c \in Caller, call[c].at \in Quiet, NEW place \in At,
         place \notin {"open", "write", "connecting"}, GoTo(c, place),
         UNCHANGED <<globalLock, eventLock, g_connectState, connectedSince, dispatch,
                     g_wifiConfigs>>
  PROVE  QuietMove(c)
<1>1. ~IsAt(c, "idle") /\ ~Writing(c) /\ ~Connecting(c)
  BY DEF Quiet, IsAt, Writing, Connecting
<1> QED BY <1>1, GoToMoves DEF QuietMove

\* A lost connection is reported once more.
LEMMA LinkBecomesType ==
  ASSUME RestTyped, NEW l \in {"down", "connecting", "connected"}
  PROVE  /\ LinkBecomes(l) \in [started : BOOLEAN,
                                link : {"down", "connecting", "connected"},
                                pending : Seq(Event), callback : BOOLEAN]
         /\ LinkBecomes(l).started = driver.started
<1>1. /\ driver.pending \in Seq(Event) /\ "DISCONNECTED" \in Event
      /\ driver \in [started : BOOLEAN, link : {"down", "connecting", "connected"},
                    pending : Seq(Event), callback : BOOLEAN]
  BY DEF RestTyped, Event
<1> DEFINE p == IF driver.link = "connected" THEN Append(driver.pending, "DISCONNECTED")
                                             ELSE driver.pending
<1>2. p \in Seq(Event) BY <1>1
<1>3. LinkBecomes(l) = [driver EXCEPT !.link = l, !.pending = p] BY DEF LinkBecomes
<1> HIDE DEF p
<1> QED BY <1>1, <1>2, <1>3

--------------------
\* One lemma for each step of a call.

LEMMA EnableWifiStep == ASSUME IInv, NEW c \in Caller, EnableWifi(c) PROVE IInv'
<1>1. TypeOK /\ RestTyped /\ BeliefsHold /\ call[c].at \in Quiet
  BY InvariantParts DEF IInv, EnableWifi, IsAt, Quiet
<1>2. QuietMove(c)
  <2>1. UNCHANGED <<globalLock, eventLock, g_wifiConfigs, g_connectState, connectedSince,
                      dispatch>>
    BY DEF EnableWifi, tableVars, linkVars, eventVars
  <2>2. (\E res \in Result : Return(c, res)) BY DEF EnableWifi, Result
  <2> QED BY <1>1, <2>1, <2>2, QuietReturn DEF At
<1>3. RestTyped' BY <1>1 DEF RestTyped, EnableWifi, tableVars, linkVars, eventVars
<1>4. BeliefsHold'
  BY <1>1 DEF BeliefsHold, ActiveOnlyIfStarted, SavedNetworkKnown, RestTyped,
             EnableWifi, tableVars, linkVars, eventVars
<1> QED BY <1>2, <1>3, <1>4, QuietPlaced, InvariantParts

LEMMA DisableWifiStep == ASSUME IInv, NEW c \in Caller, DisableWifi(c) PROVE IInv'
<1>1. TypeOK /\ RestTyped /\ BeliefsHold /\ call[c].at \in Quiet
  BY InvariantParts DEF IInv, DisableWifi, IsAt, Quiet
<1>2. QuietMove(c)
  <2>1. UNCHANGED <<globalLock, eventLock, g_wifiConfigs, g_connectState, connectedSince,
                      dispatch>>
    BY DEF DisableWifi, tableVars, linkVars, eventVars
  <2>2. (\E res \in Result : Return(c, res)) BY DEF DisableWifi, Result
  <2> QED BY <1>1, <2>1, <2>2, QuietReturn DEF At
<1>3. RestTyped'
  <2>1. LinkBecomes("down") \in [started : BOOLEAN,
                                link : {"down", "connecting", "connected"},
                                pending : Seq(Event), callback : BOOLEAN]
    BY <1>1, LinkBecomesType
  <2>2. [LinkBecomes("down") EXCEPT !.started = FALSE] \in
          [started : BOOLEAN, link : {"down", "connecting", "connected"},
           pending : Seq(Event), callback : BOOLEAN]
    BY <2>1
  <2> QED BY <1>1, <2>2 DEF RestTyped, DisableWifi, tableVars, linkVars, eventVars
<1>4. BeliefsHold'
  BY <1>1 DEF BeliefsHold, ActiveOnlyIfStarted, SavedNetworkKnown, RestTyped,
             DisableWifi, tableVars, linkVars, eventVars
<1> QED BY <1>2, <1>3, <1>4, QuietPlaced, InvariantParts

LEMMA ScanStep == ASSUME IInv, NEW c \in Caller, Scan(c) PROVE IInv'
<1>1. TypeOK /\ RestTyped /\ BeliefsHold /\ call[c].at \in Quiet
  BY InvariantParts DEF IInv, Scan, IsAt, Quiet
<1>2. QuietMove(c)
  <2>1. UNCHANGED <<globalLock, eventLock, g_wifiConfigs, g_connectState, connectedSince,
                      dispatch>>
    BY DEF Scan, tableVars, linkVars, eventVars
  <2>2. (\E res \in Result : Return(c, res)) \/ GoTo(c, "notify") BY DEF Scan, Result
  <2> QED BY <1>1, <2>1, <2>2, QuietReturn, QuietGoTo DEF At
<1>3. RestTyped' BY <1>1 DEF RestTyped, Scan, tableVars, linkVars, eventVars
<1>4. BeliefsHold'
  BY <1>1 DEF BeliefsHold, ActiveOnlyIfStarted, SavedNetworkKnown, RestTyped,
             Scan, tableVars, linkVars, eventVars
<1> QED BY <1>2, <1>3, <1>4, QuietPlaced, InvariantParts

LEMMA DispatchScanStateChangeEventStep ==
  ASSUME IInv, NEW c \in Caller, DispatchScanStateChangeEvent(c)
  PROVE  IInv'
<1>1. TypeOK /\ RestTyped /\ BeliefsHold /\ call[c].at \in Quiet
  BY InvariantParts DEF IInv, DispatchScanStateChangeEvent, IsAt, Quiet
<1>2. QuietMove(c)
  <2>1. UNCHANGED <<globalLock, eventLock, g_wifiConfigs, g_connectState, connectedSince,
                      dispatch>>
    BY DEF DispatchScanStateChangeEvent, tableVars, linkVars, eventVars
  <2>2. GoTo(c, "scan") BY DEF DispatchScanStateChangeEvent, Result
  <2> QED BY <1>1, <2>1, <2>2, QuietGoTo DEF At
<1>3. RestTyped' BY <1>1 DEF RestTyped, DispatchScanStateChangeEvent, tableVars, linkVars,
              eventVars
<1>4. BeliefsHold'
  BY <1>1 DEF BeliefsHold, ActiveOnlyIfStarted, SavedNetworkKnown, RestTyped,
             DispatchScanStateChangeEvent, tableVars, linkVars, eventVars
<1> QED BY <1>2, <1>3, <1>4, QuietPlaced, InvariantParts

LEMMA StartScanStep == ASSUME IInv, NEW c \in Caller, StartScan(c) PROVE IInv'
<1>1. TypeOK /\ RestTyped /\ BeliefsHold /\ call[c].at \in Quiet
  BY InvariantParts DEF IInv, StartScan, IsAt, Quiet
<1>2. QuietMove(c)
  <2>1. UNCHANGED <<globalLock, eventLock, g_wifiConfigs, g_connectState, connectedSince,
                      dispatch>>
    BY DEF StartScan, tableVars, linkVars, eventVars
  <2>2. (\E res \in Result : Return(c, res)) BY DEF StartScan, Result
  <2> QED BY <1>1, <2>1, <2>2, QuietReturn DEF At
<1>3. RestTyped' BY <1>1 DEF RestTyped, StartScan, tableVars, linkVars, eventVars
<1>4. BeliefsHold'
  BY <1>1 DEF BeliefsHold, ActiveOnlyIfStarted, SavedNetworkKnown, RestTyped,
             StartScan, tableVars, linkVars, eventVars
<1> QED BY <1>2, <1>3, <1>4, QuietPlaced, InvariantParts

LEMMA DisconnectStep == ASSUME IInv, NEW c \in Caller, Disconnect(c) PROVE IInv'
<1>1. TypeOK /\ RestTyped /\ BeliefsHold /\ call[c].at \in Quiet
  BY InvariantParts DEF IInv, Disconnect, IsAt, Quiet
<1>2. QuietMove(c)
  <2>1. UNCHANGED <<globalLock, eventLock, g_wifiConfigs, g_connectState, connectedSince,
                      dispatch>>
    BY DEF Disconnect, tableVars, linkVars, eventVars
  <2>2. (\E res \in Result : Return(c, res)) BY DEF Disconnect, Result
  <2> QED BY <1>1, <2>1, <2>2, QuietReturn DEF At
<1>3. RestTyped'
  <2>1. driver' = driver \/ driver' = LinkBecomes("down") BY DEF Disconnect
  <2>2. driver' \in [started : BOOLEAN, link : {"down", "connecting", "connected"},
                    pending : Seq(Event), callback : BOOLEAN]
    BY <1>1, <2>1, LinkBecomesType DEF RestTyped
  <2> QED BY <1>1, <2>2 DEF RestTyped, Disconnect, tableVars, linkVars, eventVars
<1>4. BeliefsHold'
  <2>1. driver' = driver \/ driver' = LinkBecomes("down") BY DEF Disconnect
  <2>2. driver'.started = driver.started BY <1>1, <2>1, LinkBecomesType
  <2> QED BY <1>1, <2>2 DEF BeliefsHold, ActiveOnlyIfStarted, SavedNetworkKnown,
                      Disconnect,
                      tableVars, linkVars, eventVars
<1> QED BY <1>2, <1>3, <1>4, QuietPlaced, InvariantParts

LEMMA RegisterWifiEventStep ==
  ASSUME IInv, NEW c \in Caller, RegisterWifiEvent(c)
  PROVE  IInv'
<1>1. TypeOK /\ RestTyped /\ BeliefsHold /\ call[c].at \in Quiet
  BY InvariantParts DEF IInv, RegisterWifiEvent, IsAt, Quiet
<1>2. QuietMove(c)
  <2>1. UNCHANGED <<globalLock, eventLock, g_wifiConfigs, g_connectState, connectedSince,
                      dispatch>>
    BY DEF RegisterWifiEvent, tableVars, linkVars, eventVars
  <2>2. (\E res \in Result : Return(c, res)) \/ GoTo(c, "RegisterHisiCallback")
    BY DEF RegisterWifiEvent, Result
  <2> QED BY <1>1, <2>1, <2>2, QuietReturn, QuietGoTo DEF At
<1>3. RestTyped'
  <2>1. call[c].listener \in Listener \cup {"NULL"} BY <1>1 DEF TypeOK, CallRecord
  <2>2. g_wifiEvents' \in [0..(MaxEvent - 1) -> Listener \cup {"NULL"}]
    BY <1>1, <2>1 DEF RestTyped, RegisterWifiEvent
  <2> QED BY <1>1, <2>2 DEF RestTyped, RegisterWifiEvent, tableVars, linkVars
<1>4. BeliefsHold'
  BY <1>1 DEF BeliefsHold, ActiveOnlyIfStarted, SavedNetworkKnown, RestTyped,
             RegisterWifiEvent, tableVars, linkVars, eventVars
<1> QED BY <1>2, <1>3, <1>4, QuietPlaced, InvariantParts

LEMMA RegisterHisiCallbackStep ==
  ASSUME IInv, NEW c \in Caller, RegisterHisiCallback(c)
  PROVE  IInv'
<1>1. TypeOK /\ RestTyped /\ BeliefsHold /\ call[c].at \in Quiet
  BY InvariantParts DEF IInv, RegisterHisiCallback, IsAt, Quiet
<1>2. QuietMove(c)
  <2>1. UNCHANGED <<globalLock, eventLock, g_wifiConfigs, g_connectState, connectedSince,
                      dispatch>>
    BY DEF RegisterHisiCallback, tableVars, linkVars, eventVars
  <2>2. (\E res \in Result : Return(c, res)) BY DEF RegisterHisiCallback, Result
  <2> QED BY <1>1, <2>1, <2>2, QuietReturn DEF At
<1>3. RestTyped'
  BY <1>1 DEF RestTyped, RegisterHisiCallback, tableVars, linkVars, eventVars,
              DriverOutcome
<1>4. BeliefsHold'
  BY <1>1 DEF BeliefsHold, ActiveOnlyIfStarted, SavedNetworkKnown, RestTyped,
             RegisterHisiCallback, tableVars, linkVars, eventVars
<1> QED BY <1>2, <1>3, <1>4, QuietPlaced, InvariantParts

LEMMA UnRegisterWifiEventStep ==
  ASSUME IInv, NEW c \in Caller, UnRegisterWifiEvent(c)
  PROVE  IInv'
<1>1. TypeOK /\ RestTyped /\ BeliefsHold /\ call[c].at \in Quiet
  BY InvariantParts DEF IInv, UnRegisterWifiEvent, IsAt, Quiet
<1>2. QuietMove(c)
  <2>1. UNCHANGED <<globalLock, eventLock, g_wifiConfigs, g_connectState, connectedSince,
                      dispatch>>
    BY DEF UnRegisterWifiEvent, tableVars, linkVars, eventVars
  <2>2. (\E res \in Result : Return(c, res)) BY DEF UnRegisterWifiEvent, Result
  <2> QED BY <1>1, <2>1, <2>2, QuietReturn DEF At
<1>3. RestTyped'
  <2>1. g_wifiEvents' \in [0..(MaxEvent - 1) -> Listener \cup {"NULL"}]
    BY <1>1 DEF RestTyped, UnRegisterWifiEvent
  <2> QED BY <1>1, <2>1 DEF RestTyped, UnRegisterWifiEvent, tableVars, linkVars
<1>4. BeliefsHold'
  BY <1>1 DEF BeliefsHold, ActiveOnlyIfStarted, SavedNetworkKnown, RestTyped,
             UnRegisterWifiEvent, tableVars, linkVars, eventVars
<1> QED BY <1>2, <1>3, <1>4, QuietPlaced, InvariantParts

LEMMA ConnectToStep == ASSUME IInv, NEW c \in Caller, ConnectTo(c) PROVE IInv'
<1>1. TypeOK /\ RestTyped /\ BeliefsHold /\ call[c].at \in Quiet
  BY InvariantParts DEF IInv, ConnectTo, IsAt, Quiet
<1>2. QuietMove(c)
  <2> DEFINE r == [call[c] EXCEPT !.at = "StaConnect",
                                  !.net = g_wifiConfigs[call[c].slot].net]
  <2>1. UNCHANGED <<globalLock, eventLock, g_wifiConfigs, g_connectState, connectedSince,
                    dispatch>>
    BY DEF ConnectTo, tableVars, eventVars
  <2>2. CASE InUse(call[c].slot)
    <3>1. call' = [call EXCEPT ![c] = r] BY <1>1, <2>2 DEF ConnectTo, TypeOK
    <3>2. /\ call[c] \in CallRecord /\ call[c].slot \in Slot
          /\ g_wifiConfigs[call[c].slot].net \in Network \cup {"zero"}
      BY <1>1 DEF TypeOK, CallRecord, Config
    <3>3. r \in CallRecord /\ r.at = "StaConnect" /\ r.held = call[c].held
      BY <3>2 DEF CallRecord, At
    <3>4. ~IsAt(c, "idle") /\ ~Writing(c) /\ ~Connecting(c)
      BY <1>1 DEF Quiet, IsAt, Writing, Connecting
    <3> HIDE DEF r
    <3>5. CallMoves(c, r) /\ r.at \notin {"open", "write", "connecting"}
      BY <2>1, <3>1, <3>3, <3>4 DEF CallMoves
    <3> QED BY <2>1, <3>4, <3>5 DEF QuietMove
  <2>3. CASE ~InUse(call[c].slot)
    <3>1. Return(c, "NOT_AVAILABLE") BY <2>3 DEF ConnectTo
    <3> QED BY <1>1, <2>1, <3>1, QuietReturn DEF Result
  <2> QED BY <2>2, <2>3
<1>3. RestTyped'
  <2>1. call[c].slot \in Slot BY <1>1 DEF TypeOK, CallRecord
  <2> QED BY <1>1, <2>1 DEF RestTyped, ConnectTo, tableVars, eventVars
<1>4. BeliefsHold'
  BY <1>1 DEF BeliefsHold, ActiveOnlyIfStarted, SavedNetworkKnown, RestTyped,
             ConnectTo, tableVars, linkVars, eventVars
<1> QED BY <1>2, <1>3, <1>4, QuietPlaced, InvariantParts

--------------------
\* The steps that take a lock and keep it, or give it back.

\* The number of the first slot that is not in use.
LEMMA FirstFree ==
  ASSUME \E i \in Slot : ~InUse(i)
  PROVE  LET netId == CHOOSE i \in Slot : ~InUse(i) /\ \A j \in 0..(i - 1) : InUse(j)
         IN  netId \in Slot
<1> DEFINE R == {ij \in Nat \X Nat : ij[1] < ij[2]}
           T == {i \in Slot : ~InUse(i)}
<1>1. T \subseteq Nat /\ T # {} BY WifiAssumption DEF Slot
<1>2. IsWellFoundedOn(R, Nat) BY NatLessThanWellFounded DEF OpToRel
<1>3. PICK i \in T : \A j \in T : ~(<<j, i>> \in R) BY <1>1, <1>2, WFMin
<1>4. \A j \in 0..(i - 1) : j \in Slot /\ j < i /\ j \in Nat /\ i \in Nat
  BY <1>1, <1>3, WifiAssumption DEF Slot
<1>5. \A j \in 0..(i - 1) : InUse(j) BY <1>3, <1>4
<1>6. \E n \in Slot : ~InUse(n) /\ \A j \in 0..(n - 1) : InUse(j) BY <1>3, <1>5
<1> QED BY <1>6

\* Taking the global lock for what follows, or for ever.
LEMMA TakesGlobal ==
  ASSUME TypeOK, Booked, NEW c \in Caller, NEW r, CallMoves(c, r),
         ~Writing(c), ~Connecting(c), r.at \in {"open", "idle"},
         CanLock(globalLock, c), globalLock' = Locked(globalLock, c), UNCHANGED eventLock
  PROVE  Booked' /\ globalLock' \in Lock /\ eventLock' \in Lock
<1>1. Sound(globalLock) /\ Sound(eventLock) BY LocksSound DEF Booked
<1>2. /\ HeldBy(globalLock', c) = HeldBy(globalLock, c) + 1
      /\ HeldBy(eventLock', c) = HeldBy(eventLock, c)
  BY <1>1, LockFacts
<1>3. /\ HeldBy(globalLock, c) = call[c].held[1] + 0
      /\ call[c].held[1] < LockBound /\ call[c].held[1] \in Nat
      /\ HeldBy(eventLock, c) \in Nat
  BY <1>1, LockFacts DEF Booked, CallsBooked, CallMoves, Once, TypeOK, CallRecord
<1>4. LockStep(globalLock, globalLock', c) /\ LockStep(eventLock, eventLock', c)
  BY DEF LockStep
<1>5. /\ Once(Connecting(c)) = 0 /\ Once(r.at = "connecting") = 0
      /\ r.at # "idle" => Once(r.at \in {"open", "write"}) = 1
  BY DEF Once
<1>6. HeldBy(globalLock', c) <= LockBound BY <1>2, <1>3, BoundType
<1>7. r.at # "idle" =>
        HeldBy(globalLock', c) = call[c].held[1] + Once(r.at \in {"open", "write"})
  BY <1>2, <1>3, <1>5
<1>8. HeldBy(eventLock', c) + Once(Connecting(c)) =
        HeldBy(eventLock, c) + Once(r.at = "connecting")
  BY <1>2, <1>3, <1>5
<1> QED BY <1>4, <1>6, <1>7, <1>8, MovesBooked

LEMMA AddDeviceConfigStep ==
  ASSUME IInv, NEW c \in Caller, AddDeviceConfig(c)
  PROVE  IInv'
<1>1. /\ TypeOK /\ Booked /\ StateBooked /\ SlotsWritten /\ RestTyped /\ BeliefsHold
      /\ call[c].at = "AddDeviceConfig"
  BY InvariantParts DEF IInv, Booked, AddDeviceConfig, IsAt
<1>2. ~IsAt(c, "idle") /\ ~Writing(c) /\ ~Connecting(c) /\ call[c].at \in Quiet
  BY <1>1 DEF IsAt, Writing, Connecting, Quiet
<1>3. CASE \A i \in Slot : InUse(i)
  <2>1. /\ Return(c, "BUSY")
        /\ UNCHANGED <<globalLock, eventLock, g_wifiConfigs, g_connectState,
                       connectedSince, dispatch, file, g_wifiStaStatus, driver,
                       g_networkConfigReadFlag, g_networkId, g_wifiEvents>>
    BY <1>3 DEF AddDeviceConfig, linkVars, eventVars
  <2>2. QuietMove(c) BY <1>2, <2>1, QuietReturn DEF Result
  <2>3. RestTyped' /\ BeliefsHold'
    BY <1>1, <2>1 DEF RestTyped, BeliefsHold, ActiveOnlyIfStarted, SavedNetworkKnown
  <2> QED BY <2>2, <2>3, QuietPlaced, InvariantParts
<1>4. CASE \E i \in Slot : ~InUse(i)
  <2> DEFINE netId == CHOOSE i \in Slot : ~InUse(i) /\ \A j \in 0..(i - 1) : InUse(j)
             new == [netId |-> netId, net |-> call[c].net]
             r == [call[c] EXCEPT !.at = "open", !.slot = netId]
  <2>1. /\ g_wifiConfigs' = [g_wifiConfigs EXCEPT ![netId] = new]
        /\ call' = [call EXCEPT ![c].at = "open", ![c].slot = netId]
        /\ CanLock(globalLock, c) /\ globalLock' = Locked(globalLock, c)
        /\ UNCHANGED <<eventLock, g_connectState, connectedSince, dispatch, file,
                       g_wifiStaStatus, driver, g_networkConfigReadFlag,
                       g_networkId, g_wifiEvents>>
    BY <1>4 DEF AddDeviceConfig, linkVars, eventVars
  <2>2. netId \in Slot BY <1>4, FirstFree
  <2> HIDE DEF netId
  <2>3. new \in Config BY <1>1, <2>2 DEF TypeOK, CallRecord, Config
  <2>4. call' = [call EXCEPT ![c] = r] BY <1>1, <2>1 DEF TypeOK
  <2>5. /\ r \in CallRecord /\ r.at = "open" /\ r.slot = netId
        /\ r.held = call[c].held
    <3>1. call[c] \in CallRecord BY <1>1 DEF TypeOK
    <3> QED BY <2>2, <3>1 DEF CallRecord, At
  <2>6. /\ g_wifiConfigs'[r.slot].netId = r.slot
        /\ g_wifiConfigs' \in [Slot -> Config]
    BY <1>1, <2>1, <2>2, <2>3, <2>5 DEF TypeOK
  <2> HIDE DEF r, new
  <2>7. CallMoves(c, r) BY <1>2, <2>1, <2>4, <2>5 DEF CallMoves
  <2>8. Booked' /\ globalLock' \in Lock /\ eventLock' \in Lock
    BY <1>1, <1>2, <2>1, <2>5, <2>7, TakesGlobal
  <2>9. StateBooked' BY <1>1, <1>2, <2>1, <2>4, <2>5, StateKept
  <2>10. SlotsWritten' BY <1>1, <2>1, <2>4, <2>6, OnlyWriter, SlotsKept
  <2>11. Placed' BY <1>1, <2>4, <2>5, <2>8, <2>9, <2>10 DEF Placed, Typed, TypeOK
  <2>12. RestTyped' BY <1>1, <2>1, <2>6 DEF RestTyped
  <2>13. BeliefsHold' BY <1>1, <2>1, CallersAreSomebody
       DEF BeliefsHold, ActiveOnlyIfStarted, SavedNetworkKnown, Locked
  <2> QED BY <2>11, <2>12, <2>13, InvariantParts
<1> QED BY <1>3, <1>4

LEMMA RemoveDeviceStep == ASSUME IInv, NEW c \in Caller, RemoveDevice(c) PROVE IInv'
<1>1. /\ TypeOK /\ Booked /\ StateBooked /\ SlotsWritten /\ RestTyped /\ BeliefsHold
      /\ call[c].at = "RemoveDevice" /\ call[c] \in CallRecord
  BY InvariantParts DEF IInv, Booked, RemoveDevice, IsAt, TypeOK
<1>2. ~IsAt(c, "idle") /\ ~Writing(c) /\ ~Connecting(c)
  BY <1>1 DEF IsAt, Writing, Connecting
<1> DEFINE r == [call[c] EXCEPT !.at = "open"]
           i == call[c].slot
<1>3. /\ g_wifiConfigs' = [g_wifiConfigs EXCEPT ![i] = [netId |-> INVALID, net |-> "zero"]]
      /\ GoTo(c, "open")
      /\ CanLock(globalLock, c) /\ globalLock' = Locked(globalLock, c)
      /\ UNCHANGED <<eventLock, g_connectState, connectedSince, dispatch, file,
                     g_wifiStaStatus, driver, g_networkConfigReadFlag,
                     g_networkId, g_wifiEvents>>
  BY DEF RemoveDevice, linkVars, eventVars
<1>4. CallMoves(c, r) /\ r.at = "open" BY <1>1, <1>2, <1>3, GoToMoves DEF At
<1>5. i \in Slot /\ r.slot = i BY <1>1 DEF CallRecord
<1>6. /\ g_wifiConfigs'[i].netId = INVALID
      /\ g_wifiConfigs' \in [Slot -> Config]
  BY <1>1, <1>3, <1>5 DEF TypeOK, Config
<1> HIDE DEF r, i
<1>7. Booked' /\ globalLock' \in Lock /\ eventLock' \in Lock
  BY <1>1, <1>2, <1>3, <1>4, TakesGlobal
<1>8. call' = [call EXCEPT ![c] = r] /\ call' \in [Caller -> CallRecord]
  BY <1>1, <1>4 DEF CallMoves, TypeOK
<1>9. StateBooked' BY <1>1, <1>2, <1>3, <1>4, <1>8, StateKept
<1>10. SlotsWritten' BY <1>1, <1>3, <1>5, <1>6, <1>8, OnlyWriter, SlotsKept
<1>11. RestTyped' BY <1>1, <1>3, <1>6 DEF RestTyped
<1>12. BeliefsHold' BY <1>1, <1>3, CallersAreSomebody
     DEF BeliefsHold, ActiveOnlyIfStarted, SavedNetworkKnown, Locked
<1> QED BY <1>7, <1>8, <1>9, <1>10, <1>11, <1>12, InvariantParts DEF Placed, Typed

LEMMA OpenToWriteStep == ASSUME IInv, NEW c \in Caller, OpenToWrite(c) PROVE IInv'
<1>1. /\ TypeOK /\ Booked /\ StateBooked /\ SlotsWritten /\ RestTyped /\ BeliefsHold
      /\ call[c].at = "open" /\ call[c] \in CallRecord
  BY InvariantParts DEF IInv, Booked, OpenToWrite, IsAt, TypeOK
<1>2. ~IsAt(c, "idle") /\ Writing(c) /\ ~Connecting(c)
  BY <1>1 DEF IsAt, Writing, Connecting
<1>3. /\ UNCHANGED <<globalLock, eventLock, g_connectState, connectedSince, dispatch,
                     g_wifiStaStatus, g_wifiConfigs, driver, g_networkConfigReadFlag,
                     g_networkId, g_wifiEvents>>
      /\ \/ file' = EmptyFile /\ GoTo(c, "write")
         \/ Return(c, "UNKNOWN") /\ UNCHANGED file
  BY DEF OpenToWrite, linkVars, eventVars
<1>4. \E r : /\ CallMoves(c, r) /\ r.at \in {"write", "idle"}
             /\ r.at = "write" => r.slot = call[c].slot
  <2>1. CASE GoTo(c, "write")
    <3>1. [call[c] EXCEPT !.at = "write"].slot = call[c].slot BY <1>1 DEF CallRecord
    <3> QED BY <1>1, <1>2, <1>3, <2>1, <3>1, GoToMoves DEF At
  <2>2. CASE Return(c, "UNKNOWN") BY <1>2, <1>3, <2>2, ReturnMoves DEF Result
  <2> QED BY <1>3, <2>1, <2>2
<1>5. PICK r : /\ CallMoves(c, r) /\ r.at \in {"write", "idle"}
               /\ r.at = "write" => r.slot = call[c].slot
  BY <1>4
<1>6. call' = [call EXCEPT ![c] = r] /\ call' \in [Caller -> CallRecord]
  BY <1>1, <1>5 DEF CallMoves, TypeOK
<1>7. Booked' /\ globalLock' \in Lock /\ eventLock' \in Lock
  <2>1. LockStep(globalLock, globalLock', c) /\ LockStep(eventLock, eventLock', c)
    BY <1>3 DEF LockStep
  <2>2. /\ HeldBy(globalLock, c) = call[c].held[1] + 1
        /\ HeldBy(globalLock, c) <= LockBound
    BY <1>1, <1>2 DEF Booked, CallsBooked, Once
  <2>3. /\ HeldBy(globalLock', c) = HeldBy(globalLock, c)
        /\ HeldBy(eventLock', c) = HeldBy(eventLock, c)
    BY <1>3
  <2>4. /\ Once(Connecting(c)) = 0 /\ Once(r.at = "connecting") = 0
        /\ r.at # "idle" => Once(r.at \in {"open", "write"}) = 1
    BY <1>2, <1>5 DEF Once
  <2> QED BY <1>1, <1>5, <2>1, <2>2, <2>3, <2>4, MovesBooked
<1>8. StateBooked' BY <1>1, <1>2, <1>3, <1>5, <1>6, StateKept
<1>9. SlotsWritten'
  <2>1. r.at \in {"open", "write"} => g_wifiConfigs'[r.slot].netId \in {r.slot, INVALID}
    BY <1>1, <1>2, <1>3, <1>5 DEF SlotsWritten
  <2> QED BY <1>1, <1>3, <1>6, <2>1, SlotsKept
<1>10. file' \in File
  BY <1>1, <1>3, WifiAssumption DEF RestTyped, EmptyFile, ZeroConfig, File, Config,
                                    Slot
<1>11. RestTyped' BY <1>1, <1>3, <1>10 DEF RestTyped
<1>12. BeliefsHold'
  BY <1>1, <1>3 DEF BeliefsHold, ActiveOnlyIfStarted, SavedNetworkKnown, EmptyFile
<1> QED BY <1>6, <1>7, <1>8, <1>9, <1>11, <1>12, InvariantParts DEF Placed, Typed

LEMMA WriteStep == ASSUME IInv, NEW c \in Caller, Write(c) PROVE IInv'
<1>1. /\ TypeOK /\ Booked /\ StateBooked /\ SlotsWritten /\ RestTyped /\ BeliefsHold
      /\ call[c].at = "write" /\ call[c] \in CallRecord
  BY InvariantParts DEF IInv, Booked, Write, IsAt, TypeOK
<1>2. ~IsAt(c, "idle") /\ Writing(c) /\ ~Connecting(c)
  BY <1>1 DEF IsAt, Writing, Connecting
<1> DEFINE i == call[c].slot
<1>3. /\ UNCHANGED <<eventLock, g_connectState, connectedSince, dispatch,
                     g_wifiStaStatus, g_wifiConfigs, driver, g_networkConfigReadFlag,
                     g_networkId, g_wifiEvents>>
      /\ \/ /\ file' = Saved(g_wifiConfigs[i]) /\ globalLock' = Released(globalLock)
            /\ Return(c, "SUCCESS")
         \/ Return(c, "UNKNOWN") /\ UNCHANGED <<file, globalLock>>
  BY DEF Write, linkVars, eventVars
<1>4. PICK r : CallMoves(c, r) /\ r.at = "idle" BY <1>2, <1>3, ReturnMoves DEF Result
<1>5. call' = [call EXCEPT ![c] = r] /\ call' \in [Caller -> CallRecord]
  BY <1>1, <1>4 DEF CallMoves, TypeOK
<1>6. Sound(globalLock) /\ Sound(eventLock) BY <1>1, LocksSound DEF Booked
<1>7. /\ HeldBy(globalLock, c) = call[c].held[1] + 1
      /\ HeldBy(globalLock, c) <= LockBound /\ call[c].held[1] \in Nat
  BY <1>1, <1>2, BoundType DEF Booked, CallsBooked, Once, CallRecord
<1>8. globalLock.owner = c BY <1>6, <1>7, LockFacts
<1>9. Booked' /\ globalLock' \in Lock /\ eventLock' \in Lock
  <2>1. LockStep(globalLock, globalLock', c) /\ LockStep(eventLock, eventLock', c)
    BY <1>3, <1>8 DEF LockStep
  <2>2. HeldBy(globalLock', c) \in {HeldBy(globalLock, c), HeldBy(globalLock, c) - 1}
    BY <1>3, <1>6, <1>8, LockFacts
  <2>3. HeldBy(globalLock', c) <= LockBound BY <1>7, <2>2, BoundType
  <2>4. HeldBy(eventLock', c) = HeldBy(eventLock, c) BY <1>3
  <2>5. Once(Connecting(c)) = 0 /\ Once(r.at = "connecting") = 0 BY <1>2, <1>4 DEF Once
  <2> QED BY <1>1, <1>4, <2>1, <2>3, <2>4, <2>5, MovesBooked
<1>10. StateBooked' BY <1>1, <1>2, <1>3, <1>4, <1>5, StateKept
<1>11. SlotsWritten' BY <1>1, <1>3, <1>4, <1>5, SlotsKept
<1>12. i \in Slot /\ g_wifiConfigs[i] \in Config /\ g_wifiConfigs[i].netId \in {i, INVALID}
  BY <1>1, <1>2 DEF CallRecord, TypeOK, SlotsWritten
<1> HIDE DEF i
<1>13. file' \in File BY <1>1, <1>3, <1>12 DEF RestTyped, Saved, File
<1>14. RestTyped' BY <1>1, <1>3, <1>13 DEF RestTyped
\* Only slot 0 is saved under the number 0.
<1>15. BeliefsHold'
  <2>1. CASE file' = Saved(g_wifiConfigs[i])
    <3>1. file'.config = g_wifiConfigs[i] BY <2>1 DEF Saved
    <3>2. file'.config.netId = 0 => i = 0 BY <1>12, <3>1 DEF INVALID
    <3> QED BY <1>1, <1>3, <3>1, <3>2 DEF BeliefsHold, ActiveOnlyIfStarted,
                                    SavedNetworkKnown
  <2>2. CASE UNCHANGED <<file, globalLock>>
    BY <1>1, <1>3, <2>2 DEF BeliefsHold, ActiveOnlyIfStarted, SavedNetworkKnown
  <2> QED BY <1>3, <2>1, <2>2
<1> QED BY <1>5, <1>9, <1>10, <1>11, <1>14, <1>15, InvariantParts DEF Placed, Typed

\* The file as it was, or empty where there was none.
LEMMA ReadFacts ==
  ASSUME RestTyped, g_networkConfigReadFlag \/ Read \/ ReadFails,
         g_networkConfigReadFlag => UNCHANGED <<file, g_wifiConfigs>>
  PROVE  file' \in File /\ g_wifiConfigs' \in [Slot -> Config]
<1>1. /\ 0 \in Slot /\ EmptyFile \in File /\ file \in File
      /\ g_wifiConfigs \in [Slot -> Config]
  BY WifiAssumption DEF RestTyped, EmptyFile, ZeroConfig, File, Config, Slot
<1>2. file.config \in Config /\ file.state \in {"absent", "empty", "saved"}
  BY <1>1 DEF File
<1>3. CASE UNCHANGED <<file, g_wifiConfigs>> BY <1>1, <1>3
<1>4. CASE Read
  <2>1. file' \in File BY <1>1, <1>4 DEF Read
  <2>2. g_wifiConfigs' \in [Slot -> Config]
    <3>1. CASE file.state = "absent"
      <4>1. [g_wifiConfigs[0] EXCEPT !.netId = INVALID] \in Config BY <1>1 DEF Config
      <4>2. g_wifiConfigs' = [g_wifiConfigs EXCEPT ![0] =
                                [g_wifiConfigs[0] EXCEPT !.netId = INVALID]]
        BY <1>1, <1>4, <3>1 DEF Read
      <4> QED BY <1>1, <4>1, <4>2
    <3>2. CASE file.state = "empty" BY <1>1, <1>4, <3>2 DEF Read
    <3>3. CASE file.state = "saved"
      <4>1. g_wifiConfigs' = [g_wifiConfigs EXCEPT ![0] = file.config]
        BY <1>4, <3>3 DEF Read
      <4> QED BY <1>1, <1>2, <4>1
    <3> QED BY <1>2, <3>1, <3>2, <3>3
  <2> QED BY <2>1, <2>2
<1>5. CASE ReadFails BY <1>1, <1>5 DEF ReadFails
<1> QED BY <1>3, <1>4, <1>5

LEMMA GetDeviceConfigsStep ==
  ASSUME IInv, NEW c \in Caller, GetDeviceConfigs(c) PROVE IInv'
<1>1. /\ TypeOK /\ Booked /\ StateBooked /\ SlotsWritten /\ RestTyped /\ BeliefsHold
      /\ call[c].at = "GetDeviceConfigs" /\ call[c] \in CallRecord
  BY InvariantParts DEF IInv, Booked, GetDeviceConfigs, IsAt, TypeOK
<1>2. ~IsAt(c, "idle") /\ ~Writing(c) /\ ~Connecting(c) /\ call[c].at \in Quiet
  BY <1>1 DEF IsAt, Writing, Connecting, Quiet
<1> DEFINE reads == /\ IF g_networkConfigReadFlag THEN UNCHANGED <<file, g_wifiConfigs>>
                                                  ELSE Read
                    /\ Return(c, "SUCCESS") \/ Return(c, "NOT_AVAILABLE")
                    /\ UNCHANGED globalLock
           fails == /\ ~g_networkConfigReadFlag /\ ReadFails
                    /\ Return(c, "UNKNOWN") /\ globalLock' = Locked(globalLock, c)
<1>3. /\ UNCHANGED <<eventLock, g_connectState, connectedSince, dispatch,
                     g_wifiStaStatus, driver, g_networkId, g_wifiEvents>>
      /\ CanLock(globalLock, c) /\ g_networkConfigReadFlag' = TRUE
      /\ reads \/ fails
  BY DEF GetDeviceConfigs, linkVars, eventVars
<1>4. file' \in File /\ g_wifiConfigs' \in [Slot -> Config] BY <1>1, <1>3, ReadFacts
<1>5. RestTyped' BY <1>1, <1>3, <1>4 DEF RestTyped
<1>6. CASE reads
  <2>1. \E res \in Result : Return(c, res) BY <1>6 DEF Result
  <2>2. QuietMove(c) BY <1>1, <1>2, <1>3, <1>6, <2>1, OnlyWriter, QuietReturn
  <2>3. SavedNetworkKnown'
    <3>1. CASE g_networkConfigReadFlag
      BY <1>1, <1>3, <1>6, <3>1 DEF BeliefsHold, SavedNetworkKnown
    <3>2. CASE ~g_networkConfigReadFlag
      <4>1. Read BY <1>6, <3>2
      <4>2. /\ file'.state = "saved" => file.state = "saved" /\ file' = file
        BY <4>1 DEF Read, EmptyFile
      <4>3. file.state = "saved" => g_wifiConfigs'[0] = file.config
        BY <1>1, <4>1, WifiAssumption DEF Read, RestTyped, Slot
      <4> QED BY <4>2, <4>3 DEF SavedNetworkKnown
    <3> QED BY <3>1, <3>2
  <2>4. ActiveOnlyIfStarted' BY <1>1, <1>3 DEF BeliefsHold, ActiveOnlyIfStarted
  <2> QED BY <1>5, <2>2, <2>3, <2>4, QuietPlaced, InvariantParts DEF BeliefsHold
<1>7. CASE fails
  <2>1. PICK r : CallMoves(c, r) /\ r.at = "idle"
    BY <1>2, <1>3, <1>7, ReturnMoves DEF Result
  <2>2. call' = [call EXCEPT ![c] = r] /\ call' \in [Caller -> CallRecord]
    BY <1>1, <2>1 DEF CallMoves, TypeOK
  <2>3. Booked' /\ globalLock' \in Lock /\ eventLock' \in Lock
    BY <1>1, <1>2, <1>3, <1>7, <2>1, TakesGlobal
  <2>4. StateBooked' BY <1>1, <1>2, <1>3, <2>1, <2>2, StateKept
  <2>5. SlotsWritten' BY <1>1, <1>7, <2>1, <2>2, SlotsKept DEF ReadFails
  <2>6. BeliefsHold' BY <1>1, <1>3, <1>7, CallersAreSomebody
       DEF BeliefsHold, ActiveOnlyIfStarted, SavedNetworkKnown, Locked
  <2> QED BY <1>5, <2>2, <2>3, <2>4, <2>5, <2>6, InvariantParts DEF Placed, Typed
<1> QED BY <1>3, <1>6, <1>7

LEMMA StaConnectStep == ASSUME IInv, NEW c \in Caller, StaConnect(c) PROVE IInv'
<1>1. /\ TypeOK /\ Booked /\ StateBooked /\ SlotsWritten /\ RestTyped /\ BeliefsHold
      /\ call[c].at = "StaConnect" /\ call[c] \in CallRecord
  BY InvariantParts DEF IInv, Booked, StaConnect, IsAt, TypeOK
<1>2. ~IsAt(c, "idle") /\ ~Writing(c) /\ ~Connecting(c)
  BY <1>1 DEF IsAt, Writing, Connecting
<1> DEFINE r == [call[c] EXCEPT !.at = "connecting", !.lastState = g_connectState]
<1>3. /\ UNCHANGED <<globalLock, connectedSince, dispatch, g_wifiStaStatus, g_wifiConfigs,
                     driver, g_networkConfigReadFlag, g_networkId, g_wifiEvents, file>>
      /\ CanLock(eventLock, c) /\ eventLock' = Locked(eventLock, c)
      /\ g_connectState' = "NOT_AVALIABLE"
      /\ call' = [call EXCEPT ![c] = r]
  BY <1>1 DEF StaConnect, tableVars, eventVars, TypeOK
<1>4. /\ r \in CallRecord /\ r.at = "connecting" /\ r.held = call[c].held
      /\ r.lastState = g_connectState
  BY <1>1 DEF RestTyped, CallRecord, At
<1> HIDE DEF r
<1>5. CallMoves(c, r) /\ call' \in [Caller -> CallRecord]
  BY <1>1, <1>2, <1>3, <1>4 DEF CallMoves, TypeOK
<1>6. Booked' /\ globalLock' \in Lock /\ eventLock' \in Lock
  <2>1. LockStep(globalLock, globalLock', c) /\ LockStep(eventLock, eventLock', c)
    BY <1>3 DEF LockStep
  <2>2. /\ HeldBy(globalLock', c) = HeldBy(globalLock, c)
        /\ HeldBy(globalLock, c) = call[c].held[1] + Once(Writing(c))
        /\ HeldBy(globalLock, c) <= LockBound
    BY <1>1, <1>2, <1>3 DEF Booked, CallsBooked
  <2>3. HeldBy(eventLock', c) = HeldBy(eventLock, c) + 1
    BY <1>1, <1>3, LocksSound, LockFacts DEF Booked
  <2>4. /\ Once(Connecting(c)) = 0 /\ Once(r.at = "connecting") = 1
        /\ Once(Writing(c)) = 0 /\ Once(r.at \in {"open", "write"}) = 0
    BY <1>2, <1>4 DEF Once
  <2>5. HeldBy(eventLock, c) \in Nat BY <1>1, LocksSound, LockFacts DEF Booked
  <2>6. HeldBy(eventLock', c) + Once(Connecting(c)) =
          HeldBy(eventLock, c) + Once(r.at = "connecting")
    BY <2>3, <2>4, <2>5
  <2> QED BY <1>1, <1>5, <2>1, <2>2, <2>4, <2>6, MovesBooked
<1>7. call'[c] = r /\ \A d \in Caller \ {c} : call'[d] = call[d] BY <1>1, <1>3 DEF TypeOK
\* Nobody else is connecting, so the state was the one that was reported.
<1>8. StateBooked'
  <2>1. \A d \in Caller : ~Connecting(d) BY <1>1, <1>2, <1>3, OnlyConnecting
  <2>2. g_connectState = "AVALIABLE" <=> connectedSince BY <1>1, <2>1 DEF StateBooked
  <2>3. \A d \in Caller \ {c} : call'[d].at # "connecting" BY <1>7, <2>1 DEF Connecting
  <2>4. call'[c].at = "connecting" /\ call'[c].lastState = g_connectState BY <1>4, <1>7
  <2> QED BY <1>3, <2>2, <2>3, <2>4 DEF StateBooked, Connecting
<1>9. SlotsWritten' BY <1>1, <1>3, <1>4, SlotsKept
<1>10. RestTyped' BY <1>1, <1>3 DEF RestTyped, State
<1>11. BeliefsHold' BY <1>1, <1>3 DEF BeliefsHold, ActiveOnlyIfStarted, SavedNetworkKnown
<1> QED BY <1>5, <1>6, <1>8, <1>9, <1>10, <1>11, InvariantParts DEF Placed, Typed

LEMMA hi_wifi_sta_connectStep ==
  ASSUME IInv, NEW c \in Caller, hi_wifi_sta_connect(c) PROVE IInv'
<1>1. /\ TypeOK /\ Booked /\ StateBooked /\ SlotsWritten /\ RestTyped /\ BeliefsHold
      /\ call[c].at = "connecting" /\ call[c] \in CallRecord
  BY InvariantParts DEF IInv, Booked, hi_wifi_sta_connect, IsAt, TypeOK
<1>2. ~IsAt(c, "idle") /\ ~Writing(c) /\ Connecting(c)
  BY <1>1 DEF IsAt, Writing, Connecting
<1> DEFINE accepted == /\ driver' = LinkBecomes("connecting") /\ connectedSince' = FALSE
                       /\ UNCHANGED g_connectState
           refused == /\ g_connectState' = call[c].lastState
                      /\ UNCHANGED <<driver, connectedSince>>
<1>3. /\ UNCHANGED <<globalLock, dispatch, g_wifiStaStatus, g_wifiConfigs,
                     g_networkConfigReadFlag, g_networkId, g_wifiEvents, file>>
      /\ eventLock' = Released(eventLock)
      /\ Return(c, "SUCCESS") \/ Return(c, "UNKNOWN")
      /\ accepted \/ refused
  BY DEF hi_wifi_sta_connect, RequestAccepted, RequestRefused, tableVars, eventVars
<1>4. PICK r : CallMoves(c, r) /\ r.at = "idle" BY <1>2, <1>3, ReturnMoves DEF Result
<1>5. call' = [call EXCEPT ![c] = r] /\ call' \in [Caller -> CallRecord]
  BY <1>1, <1>4 DEF CallMoves, TypeOK
<1>6. Sound(globalLock) /\ Sound(eventLock) /\ HeldBy(eventLock, c) \in Nat
  BY <1>1, LocksSound, LockFacts DEF Booked
<1>7. HeldBy(eventLock, c) = Once(Dispatching(c)) + 1 /\ Once(Dispatching(c)) \in Nat
  BY <1>1, <1>2 DEF Booked, EventLockBooked, Once
<1>8. eventLock.owner = c BY <1>6, <1>7, LockFacts
<1>9. Booked' /\ globalLock' \in Lock /\ eventLock' \in Lock
  <2>1. LockStep(globalLock, globalLock', c) /\ LockStep(eventLock, eventLock', c)
    BY <1>3, <1>8 DEF LockStep
  <2>2. HeldBy(globalLock', c) <= LockBound BY <1>1, <1>3 DEF Booked, CallsBooked
  <2>3. HeldBy(eventLock', c) = HeldBy(eventLock, c) - 1 BY <1>3, <1>6, <1>8, LockFacts
  <2>4. /\ Once(Connecting(c)) = 1 /\ Once(r.at = "connecting") = 0 BY <1>2, <1>4 DEF Once
  <2>5. HeldBy(eventLock', c) + Once(Connecting(c)) =
          HeldBy(eventLock, c) + Once(r.at = "connecting")
    BY <1>6, <2>3, <2>4
  <2> QED BY <1>1, <1>4, <2>1, <2>2, <2>5, MovesBooked
<1>10. call'[c] = r /\ \A d \in Caller \ {c} : call'[d] = call[d] BY <1>1, <1>5 DEF TypeOK
<1>11. StateBooked'
  <2>1. \A d \in Caller \ {c} : call'[d].at # "connecting"
    BY <1>1, <1>8, <1>10, CallersAreSomebody, OnlyConnecting DEF CanLock, Connecting
  <2>2. call'[c].at # "connecting" BY <1>4, <1>10
  <2>3. /\ g_connectState = "NOT_AVALIABLE"
        /\ call[c].lastState = "AVALIABLE" <=> connectedSince
    BY <1>1, <1>2 DEF StateBooked
  <2>4. g_connectState' = "AVALIABLE" <=> connectedSince' BY <1>3, <2>3
  <2> QED BY <2>1, <2>2, <2>4 DEF StateBooked, Connecting
<1>12. SlotsWritten' BY <1>1, <1>3, <1>4, <1>5, SlotsKept
<1>13. RestTyped'
  <2>1. driver' = driver \/ driver' = LinkBecomes("connecting") BY <1>3
  <2>2. driver' \in [started : BOOLEAN, link : {"down", "connecting", "connected"},
                    pending : Seq(Event), callback : BOOLEAN]
    BY <1>1, <2>1, LinkBecomesType DEF RestTyped
  <2>3. g_connectState' \in State /\ connectedSince' \in BOOLEAN
    BY <1>1, <1>3 DEF RestTyped, CallRecord
  <2> QED BY <1>1, <1>3, <2>2, <2>3 DEF RestTyped
<1>14. BeliefsHold'
  <2>1. driver'.started = driver.started BY <1>1, <1>3, LinkBecomesType
  <2> QED BY <1>1, <1>3, <2>1 DEF BeliefsHold, ActiveOnlyIfStarted, SavedNetworkKnown
<1> QED BY <1>5, <1>9, <1>11, <1>12, <1>13, <1>14, InvariantParts DEF Placed, Typed

--------------------
\* Calls begin, the driver reports, its task dispatches.

LEMMA CalledFacts ==
  ASSUME TypeOK, Booked, NEW c \in Caller, NEW op \in Call, NEW i \in Slot,
         NEW net \in Network, NEW l \in Listener
  PROVE  /\ Called(c, op, i, net, l) \in CallRecord
         /\ Called(c, op, i, net, l).at = op
         /\ Called(c, op, i, net, l).held = <<HeldBy(globalLock, c), HeldBy(eventLock, c)>>
<1>1. /\ HeldBy(globalLock, c) \in 0..(LockBound + 2)
      /\ HeldBy(eventLock, c) \in 0..(LockBound + 2)
  BY BoundType DEF TypeOK, Lock, HeldBy
<1>2. Idle("SUCCESS") \in CallRecord /\ 0 \in Slot
  BY IdleType, WifiAssumption DEF Result, Slot
<1>3. op \in At BY DEF Call, At
<1> HIDE DEF HeldBy
<1> QED BY <1>1, <1>2, <1>3 DEF Called, CallRecord, Idle

\* A call begins, of a task or, while it dispatches, of the driver's task.
LEMMA CallBegins ==
  ASSUME TypeOK, Booked, StateBooked, SlotsWritten,
         NEW c \in Caller, NEW op \in Call, NEW i \in Slot,
         NEW net \in Network, NEW l \in Listener,
         IsAt(c, "idle"), globalLock.owner = c => globalLock.count < LockBound,
         call' = [call EXCEPT ![c] = Called(c, op, i, net, l)],
         UNCHANGED <<globalLock, eventLock, g_wifiConfigs>>,
         dispatch'.event = dispatch.event, c = "wpa" => dispatch.event # "none"
  PROVE  /\ call' \in [Caller -> CallRecord]
         /\ Booked' /\ SlotsWritten'
         /\ UNCHANGED <<g_connectState, connectedSince>> => StateBooked'
<1> DEFINE r == Called(c, op, i, net, l)
<1>1. /\ r \in CallRecord /\ r.at = op
      /\ r.held = <<HeldBy(globalLock, c), HeldBy(eventLock, c)>>
  BY CalledFacts
<1>2. op \notin {"idle", "open", "write", "connecting"} BY DEF Call
<1> HIDE DEF r
<1>3. call' = [call EXCEPT ![c] = r] BY DEF r
<1>4. call'[c] = r /\ \A d \in Caller \ {c} : call'[d] = call[d] BY <1>3 DEF TypeOK
<1>5. call' \in [Caller -> CallRecord] BY <1>1, <1>3 DEF TypeOK
<1>6. ~Writing(c) /\ ~Connecting(c) BY DEF IsAt, Writing, Connecting
<1>7. SlotsWritten' BY <1>1, <1>2, <1>3, SlotsKept
<1>8. UNCHANGED <<g_connectState, connectedSince>> => StateBooked'
  BY <1>1, <1>2, <1>3, <1>6, StateKept
<1>9. LocksOwned' BY DEF Booked, LocksOwned
<1>10. HeldBy(eventLock, c) = Once(Dispatching(c))
  BY <1>6 DEF Booked, EventLockBooked, Once
<1>11. HeldBy(globalLock, c) < LockBound /\ HeldBy(globalLock, c) \in Nat
  BY BoundType, LocksSound, LockFacts DEF Booked, HeldBy
<1>12. EventLockBooked'
  <2>1. ASSUME NEW d \in Caller
        PROVE  HeldBy(eventLock', d) = Once(Dispatching(d)') + Once(Connecting(d)')
    <3>1. HeldBy(eventLock, d) = Once(Dispatching(d)) + Once(Connecting(d))
      BY DEF Booked, EventLockBooked
    <3>2. Connecting(d)' <=> Connecting(d) BY <1>1, <1>2, <1>4, <1>6 DEF Connecting
    <3>3. Dispatching(d)' <=> Dispatching(d) BY DEF Dispatching
    <3>4. HeldBy(eventLock', d) = HeldBy(eventLock, d) OBVIOUS
    <3> QED BY <3>1, <3>2, <3>3, <3>4, Zenon DEF Once
  <2>2. ~IsAt("wpa", "idle")' => Dispatching("wpa")'
    BY <1>4, CallersAreSomebody DEF Booked, EventLockBooked, IsAt, Dispatching
  <2> QED BY <2>1, <2>2 DEF EventLockBooked, HeldBy, Dispatching, Connecting
<1>13. CallsBooked'
  <2> SUFFICES ASSUME NEW d \in Caller
               PROVE  /\ HeldBy(globalLock', d) <= LockBound
                      /\ call'[d].at # "idle" =>
                           /\ call'[d].held[1] < LockBound
                           /\ HeldBy(globalLock', d) = call'[d].held[1] + Once(Writing(d)')
                           /\ call'[d].held[2] = Once(Dispatching(d)')
    BY DEF CallsBooked, HeldBy, Writing, Dispatching, IsAt
  <2>1. HeldBy(globalLock', d) <= LockBound BY DEF Booked, CallsBooked
  <2>2. CASE d # c
    <3>1. call'[d] = call[d] BY <1>4, <2>2
    <3>2. call[d].at # "idle" =>
            /\ call[d].held[1] < LockBound
            /\ HeldBy(globalLock, d) = call[d].held[1] + Once(Writing(d))
            /\ call[d].held[2] = Once(Dispatching(d))
      BY DEF Booked, CallsBooked, IsAt
    <3> QED BY <2>1, <3>1, <3>2 DEF Once, Writing, Dispatching
  <2>3. CASE d = c
    <3>1. Once(Writing(c)') = 0 BY <1>1, <1>2, <1>4 DEF Once, Writing
    <3>2. Once(Dispatching(c)') = Once(Dispatching(c)) BY DEF Once, Dispatching
    <3>3. /\ call'[c].held[1] = HeldBy(globalLock, c)
          /\ call'[c].held[2] = HeldBy(eventLock, c)
          /\ HeldBy(globalLock', c) = HeldBy(globalLock, c)
      BY <1>1, <1>4
    <3> QED BY <1>10, <1>11, <2>1, <2>3, <3>1, <3>2, <3>3
  <2> QED BY <2>2, <2>3
<1> QED BY <1>5, <1>7, <1>8, <1>9, <1>12, <1>13 DEF Booked

LEMMA InvokeStep ==
  ASSUME IInv, NEW t \in Task, NEW op \in Call, NEW i \in Slot, NEW net \in Network,
         NEW l \in Listener, Invoke(t, op, i, net, l)
  PROVE  IInv'
<1>1. /\ TypeOK /\ Booked /\ StateBooked /\ SlotsWritten /\ RestTyped /\ BeliefsHold
      /\ t \in Caller /\ t # "wpa"
  BY InvariantParts, CallersAreSomebody DEF IInv, Booked, Caller
<1>2. /\ UNCHANGED <<globalLock, eventLock, g_wifiStaStatus, g_wifiConfigs, file,
                     g_networkConfigReadFlag, g_networkId, g_connectState,
                     connectedSince, g_wifiEvents, dispatch, driver>>
      /\ call' = [call EXCEPT ![t] = Called(t, op, i, net, l)]
      /\ IsAt(t, "idle")
      /\ globalLock.owner = t => globalLock.count < LockBound
  BY DEF Invoke, tableVars, linkVars, eventVars
<1>3. /\ call' \in [Caller -> CallRecord] /\ Booked' /\ SlotsWritten' /\ StateBooked'
  BY <1>1, <1>2, CallBegins
<1>4. Typed' BY <1>1, <1>2, <1>3 DEF Typed, TypeOK
<1>5. RestTyped' /\ BeliefsHold'
  BY <1>1, <1>2 DEF RestTyped, BeliefsHold, ActiveOnlyIfStarted, SavedNetworkKnown
<1> QED BY <1>3, <1>4, <1>5, InvariantParts DEF Placed

LEMMA DriverEventStep == ASSUME IInv, DriverEvent PROVE IInv'
<1>1. TypeOK /\ RestTyped /\ BeliefsHold /\ Placed BY InvariantParts DEF IInv
<1>2. UNCHANGED <<globalLock, eventLock, g_wifiStaStatus, g_wifiConfigs, file,
                  g_networkConfigReadFlag, g_networkId, g_connectState,
                  connectedSince, g_wifiEvents, dispatch, call>>
  BY DEF DriverEvent, tableVars, linkVars, eventVars
<1>3. PICK e \in Event : driver' = [driver EXCEPT
                       !.link = IF e = "CONNECTED" THEN "connected" ELSE "connecting",
                       !.pending = Append(@, e)]
  BY DEF DriverEvent
<1>4. Append(driver.pending, e) \in Seq(Event) BY <1>1 DEF RestTyped
<1>5. /\ driver' \in [started : BOOLEAN, link : {"down", "connecting", "connected"},
                     pending : Seq(Event), callback : BOOLEAN]
      /\ driver'.started = driver.started
  BY <1>1, <1>3, <1>4 DEF RestTyped
<1>6. RestTyped' BY <1>1, <1>2, <1>5 DEF RestTyped
<1>7. BeliefsHold'
  BY <1>1, <1>2, <1>5 DEF BeliefsHold, ActiveOnlyIfStarted, SavedNetworkKnown
<1>8. Placed'
  BY <1>1, <1>2 DEF Placed, Typed, Booked, LocksOwned, EventLockBooked, CallsBooked,
     StateBooked, SlotsWritten, HeldBy, Dispatching, Connecting, Writing, IsAt
<1> QED BY <1>6, <1>7, <1>8, InvariantParts

\* The dispatch of an event begins or ends, with the event lock.
LEMMA DispatchMoves ==
  ASSUME TypeOK, Booked, IsAt("wpa", "idle"), UNCHANGED <<globalLock, call>>,
         LockStep(eventLock, eventLock', "wpa"),
         HeldBy(eventLock', "wpa") + Once(dispatch.event # "none") =
           HeldBy(eventLock, "wpa") + Once(dispatch'.event # "none")
  PROVE  Booked' /\ eventLock' \in Lock
<1>1. Sound(globalLock) /\ Sound(eventLock) BY LocksSound DEF Booked
<1>2. /\ Sound(eventLock')
      /\ \A d \in Caller \ {"wpa"} : HeldBy(eventLock', d) = HeldBy(eventLock, d)
  BY <1>1, LockStepFacts, CallersAreSomebody
<1>3. LocksOwned' BY <1>2 DEF Sound, Booked, LocksOwned
<1>4. ~Connecting("wpa") BY DEF IsAt, Connecting
<1>5. ASSUME NEW d \in Caller
      PROVE  HeldBy(eventLock', d) = Once(Dispatching(d)') + Once(Connecting(d)')
  <2>1. HeldBy(eventLock, d) = Once(Dispatching(d)) + Once(Connecting(d))
    BY DEF Booked, EventLockBooked
  <2>2. Connecting(d)' <=> Connecting(d) BY DEF Connecting
  <2>3. CASE d # "wpa"
    <3>1. HeldBy(eventLock', d) = HeldBy(eventLock, d) BY <1>2, <2>3
    <3>2. Dispatching(d)' <=> Dispatching(d) BY <2>3 DEF Dispatching
    <3> QED BY <2>1, <2>2, <3>1, <3>2, Zenon DEF Once
  <2>4. CASE d = "wpa"
    <3>1. HeldBy(eventLock', d) \in Nat BY <1>2, LockFacts
    <3>2. Once(Connecting(d)) = 0 /\ Once(Connecting(d)') = 0
      BY <1>4, <2>4 DEF Once, Connecting
    <3>3. /\ Once(Dispatching(d)) = Once(dispatch.event # "none")
          /\ Once(Dispatching(d)') = Once(dispatch'.event # "none")
      BY <2>4 DEF Once, Dispatching
    <3>4. /\ Once(dispatch.event # "none") \in Nat
          /\ Once(dispatch'.event # "none") \in Nat
      BY DEF Once
    <3> QED BY <2>1, <2>4, <3>1, <3>2, <3>3, <3>4
  <2> QED BY <2>3, <2>4
<1>6. EventLockBooked'
  <2>1. IsAt("wpa", "idle")' BY DEF IsAt
  <2> QED BY <1>5, <2>1 DEF EventLockBooked, HeldBy, Dispatching, Connecting
<1>7. CallsBooked'
  <2> SUFFICES ASSUME NEW d \in Caller
               PROVE  /\ HeldBy(globalLock', d) <= LockBound
                      /\ call'[d].at # "idle" =>
                           /\ call'[d].held[1] < LockBound
                           /\ HeldBy(globalLock', d) = call'[d].held[1] + Once(Writing(d)')
                           /\ call'[d].held[2] = Once(Dispatching(d)')
    BY DEF CallsBooked, HeldBy, Writing, Dispatching, IsAt
  <2>1. HeldBy(globalLock', d) <= LockBound BY DEF Booked, CallsBooked
  <2>2. ASSUME call'[d].at # "idle"
        PROVE  /\ call'[d].held[1] < LockBound
               /\ HeldBy(globalLock', d) = call'[d].held[1] + Once(Writing(d)')
               /\ call'[d].held[2] = Once(Dispatching(d)')
    <3>1. d # "wpa" /\ call'[d] = call[d] BY <2>2 DEF IsAt
    <3>2. /\ call[d].held[1] < LockBound
          /\ HeldBy(globalLock, d) = call[d].held[1] + Once(Writing(d))
          /\ call[d].held[2] = Once(Dispatching(d))
      BY <2>2, <3>1 DEF Booked, CallsBooked, IsAt
    <3> QED BY <3>1, <3>2 DEF Once, Writing, Dispatching
  <2> QED BY <2>1, <2>2
<1>8. \A d \in Caller : HeldBy(eventLock', d) <= LockBound + 2 BY <1>5, BoundType DEF Once
<1> QED BY <1>2, <1>3, <1>6, <1>7, <1>8, LockType DEF Booked

LEMMA HiWifiWpaEventCbStep == ASSUME IInv, HiWifiWpaEventCb PROVE IInv'
<1>1. /\ TypeOK /\ Booked /\ StateBooked /\ SlotsWritten /\ RestTyped /\ BeliefsHold
  BY InvariantParts DEF IInv, Booked
<1>2. /\ UNCHANGED <<globalLock, g_wifiStaStatus, g_wifiConfigs, file,
                     g_networkConfigReadFlag, g_networkId, g_connectState,
                     connectedSince, g_wifiEvents, call>>
      /\ dispatch.event = "none"
      /\ driver.pending # <<>>
      /\ driver' = [driver EXCEPT !.pending = Tail(@)]
      /\ \/ /\ CanLock(eventLock, "wpa") /\ eventLock' = Locked(eventLock, "wpa")
            /\ dispatch' = [event |-> Head(driver.pending), i |-> 0]
         \/ UNCHANGED <<eventLock, dispatch>>
  BY DEF HiWifiWpaEventCb, NoDispatch, tableVars, linkVars
<1>3. driver.pending \in Seq(Event) BY <1>1 DEF RestTyped
<1>4. Head(driver.pending) \in Event /\ Tail(driver.pending) \in Seq(Event) BY <1>2, <1>3
<1>5. IsAt("wpa", "idle") BY <1>1, <1>2 DEF Booked, EventLockBooked, Dispatching
<1>6. Booked' /\ eventLock' \in Lock
  <2>1. CASE UNCHANGED <<eventLock, dispatch>>
    <3>1. LockStep(eventLock, eventLock', "wpa") BY <2>1 DEF LockStep
    <3>2. /\ HeldBy(eventLock', "wpa") = HeldBy(eventLock, "wpa")
          /\ dispatch' = dispatch
      BY <2>1
    <3> QED BY <1>1, <1>2, <1>5, <3>1, <3>2, DispatchMoves
  <2>2. CASE /\ CanLock(eventLock, "wpa") /\ eventLock' = Locked(eventLock, "wpa")
             /\ dispatch' = [event |-> Head(driver.pending), i |-> 0]
    <3>1. LockStep(eventLock, eventLock', "wpa") BY <2>2 DEF LockStep
    <3>2. /\ HeldBy(eventLock', "wpa") = HeldBy(eventLock, "wpa") + 1
          /\ HeldBy(eventLock, "wpa") \in Nat
      BY <1>1, <2>2, LocksSound, LockFacts, CallersAreSomebody DEF Booked
    <3>3. /\ Once(dispatch.event # "none") = 0
          /\ Once(dispatch'.event # "none") = 1
      BY <1>2, <1>4, <2>2 DEF Once, Event
    <3> QED BY <1>1, <1>2, <1>5, <3>1, <3>2, <3>3, DispatchMoves
  <2> QED BY <1>2, <2>1, <2>2
<1>7. StateBooked' /\ SlotsWritten'
  BY <1>1, <1>2 DEF StateBooked, SlotsWritten, Connecting, Writing
<1>8. Typed' BY <1>1, <1>2, <1>6 DEF Typed, TypeOK
<1>9. /\ driver' \in [started : BOOLEAN, link : {"down", "connecting", "connected"},
                     pending : Seq(Event), callback : BOOLEAN]
      /\ driver'.started = driver.started
  BY <1>1, <1>2, <1>4 DEF RestTyped
<1>10. RestTyped'
  <2>1. dispatch' \in [event : Event \cup {"none"}, i : 0..MaxEvent]
    BY <1>1, <1>2, <1>4, WifiAssumption DEF RestTyped
  <2> QED BY <1>1, <1>2, <1>9, <2>1 DEF RestTyped
<1>11. BeliefsHold'
  BY <1>1, <1>2, <1>9 DEF BeliefsHold, ActiveOnlyIfStarted, SavedNetworkKnown
<1> QED BY <1>6, <1>7, <1>8, <1>10, <1>11, InvariantParts DEF Placed

\* The driver's task has the event lock, so no request is under way.
LEMMA DispatchConnectEventStep == ASSUME IInv, DispatchConnectEvent PROVE IInv'
<1> DEFINE begins(op, i, net, l) ==
             call' = [call EXCEPT !["wpa"] = Called("wpa", op, i, net, l)]
<1>1. /\ TypeOK /\ Booked /\ StateBooked /\ SlotsWritten /\ RestTyped /\ BeliefsHold
  BY InvariantParts DEF IInv, Booked
<1>2. /\ UNCHANGED <<globalLock, eventLock, g_wifiStaStatus, g_wifiConfigs, file,
                     g_networkConfigReadFlag, g_networkId, g_wifiEvents, driver>>
      /\ dispatch.event \in Event /\ dispatch.i < MaxEvent
      /\ IsAt("wpa", "idle")
      /\ dispatch' = [dispatch EXCEPT !.i = @ + 1]
      /\ \/ UNCHANGED <<g_connectState, connectedSince>>
         \/ g_connectState' = "AVALIABLE" /\ connectedSince' = TRUE
      /\ \/ UNCHANGED call
         \/ OnWifiConnectionChanged
  BY DEF DispatchConnectEvent, tableVars
<1>3. /\ dispatch'.event = dispatch.event /\ dispatch.event # "none"
      /\ dispatch' \in [event : Event \cup {"none"}, i : 0..MaxEvent]
  <2>1. dispatch \in [event : Event \cup {"none"}, i : 0..MaxEvent] /\ MaxEvent \in Nat
    BY <1>1, WifiAssumption DEF RestTyped
  <2>2. dispatch.i + 1 \in 0..MaxEvent BY <1>2, <2>1
  <2>3. dispatch.event # "none" BY <1>2 DEF Event
  <2> QED BY <1>2, <2>1, <2>2, <2>3
<1>4. \A c \in Caller : ~Connecting(c)
  <2>1. HeldBy(eventLock, "wpa") > 0 BY <1>1, <1>3, CallersAreSomebody
       DEF Booked, EventLockBooked, Dispatching, Once
  <2>2. CanLock(eventLock, "wpa") BY <2>1 DEF HeldBy, CanLock
  <2> QED BY <1>1, <1>2, <2>2, CallersAreSomebody, OnlyConnecting DEF IsAt, Connecting
<1>5. \/ UNCHANGED call
      \/ /\ globalLock.owner = "wpa" => globalLock.count < LockBound
         /\ \E op \in Call, i \in Slot, net \in Network, l \in Listener :
              begins(op, i, net, l)
  BY <1>2, WifiAssumption DEF OnWifiConnectionChanged
<1>6. /\ Booked' /\ SlotsWritten' /\ call' \in [Caller -> CallRecord]
      /\ \A c \in Caller : ~Connecting(c)'
  <2>1. CASE UNCHANGED call
    <3>1. LockStep(eventLock, eventLock', "wpa") BY <1>2 DEF LockStep
    <3>2. Booked' BY <1>1, <1>2, <1>3, <2>1, <3>1, DispatchMoves
    <3> QED BY <1>1, <1>2, <1>4, <2>1, <3>2 DEF SlotsWritten, Writing, Connecting, TypeOK
  <2>2. CASE /\ globalLock.owner = "wpa" => globalLock.count < LockBound
             /\ \E op \in Call, i \in Slot, net \in Network, l \in Listener :
                  begins(op, i, net, l)
    <3>1. PICK op \in Call, i \in Slot, net \in Network, l \in Listener :
            begins(op, i, net, l)
      BY <2>2
    <3>2. Booked' /\ SlotsWritten' /\ call' \in [Caller -> CallRecord]
      BY <1>1, <1>2, <1>3, <2>2, <3>1, CallBegins, CallersAreSomebody
    <3>3. Called("wpa", op, i, net, l).at # "connecting"
      BY <1>1, CalledFacts, CallersAreSomebody DEF Call
    <3>4. \A c \in Caller : ~Connecting(c)'
      BY <1>1, <1>4, <3>1, <3>3 DEF Connecting, TypeOK
    <3> QED BY <3>2, <3>4
  <2> QED BY <1>5, <2>1, <2>2
<1>7. StateBooked'
  <2>1. g_connectState = "AVALIABLE" <=> connectedSince BY <1>1, <1>4 DEF StateBooked
  <2>2. g_connectState' = "AVALIABLE" <=> connectedSince' BY <1>2, <2>1
  <2> QED BY <1>6, <2>2 DEF StateBooked, Connecting
<1>8. Typed' BY <1>1, <1>2, <1>6 DEF Typed, TypeOK
<1>9. RestTyped' BY <1>1, <1>2, <1>3 DEF RestTyped, State
<1>10. BeliefsHold' BY <1>1, <1>2 DEF BeliefsHold, ActiveOnlyIfStarted, SavedNetworkKnown
<1> QED BY <1>6, <1>7, <1>8, <1>9, <1>10, InvariantParts DEF Placed

LEMMA EndOfDispatchStep == ASSUME IInv, EndOfDispatch PROVE IInv'
<1>1. /\ TypeOK /\ Booked /\ StateBooked /\ SlotsWritten /\ RestTyped /\ BeliefsHold
  BY InvariantParts DEF IInv, Booked
<1>2. /\ UNCHANGED <<globalLock, g_wifiStaStatus, g_wifiConfigs, file,
                     g_networkConfigReadFlag, g_networkId, g_connectState,
                     connectedSince, g_wifiEvents, driver, call>>
      /\ dispatch.event # "none" /\ IsAt("wpa", "idle")
      /\ dispatch' = NoDispatch /\ eventLock' = Released(eventLock)
  BY DEF EndOfDispatch, Event, tableVars, linkVars
<1>3. Sound(eventLock) BY <1>1, LocksSound DEF Booked
<1>4. HeldBy(eventLock, "wpa") = 1 BY <1>1, <1>2, CallersAreSomebody
     DEF Booked, EventLockBooked, Dispatching, Connecting, IsAt, Once
<1>5. eventLock.owner = "wpa" BY <1>4 DEF HeldBy
<1>6. HeldBy(eventLock', "wpa") = HeldBy(eventLock, "wpa") - 1
  BY <1>2, <1>3, <1>5, LockFacts, CallersAreSomebody
<1>7. Once(dispatch.event # "none") = 1 /\ Once(dispatch'.event # "none") = 0
  BY <1>2 DEF Once, NoDispatch
<1>8. LockStep(eventLock, eventLock', "wpa") BY <1>2, <1>5 DEF LockStep
<1>9. Booked' /\ eventLock' \in Lock BY <1>1, <1>2, <1>4, <1>6, <1>7, <1>8, DispatchMoves
<1>10. StateBooked' /\ SlotsWritten'
  BY <1>1, <1>2 DEF StateBooked, SlotsWritten, Connecting, Writing
<1>11. Typed' BY <1>1, <1>2, <1>9 DEF Typed, TypeOK
<1>12. RestTyped' BY <1>1, <1>2, WifiAssumption DEF RestTyped, NoDispatch
<1>13. BeliefsHold' BY <1>1, <1>2 DEF BeliefsHold, ActiveOnlyIfStarted, SavedNetworkKnown
<1> QED BY <1>9, <1>10, <1>11, <1>12, <1>13, InvariantParts DEF Placed

--------------------
\* The theorems.

\* What the device starts with, for the first time or again.
Started ==
  /\ globalLock = Unlocked /\ eventLock = Unlocked
  /\ g_wifiStaStatus = "NOT_ACTIVE"
  /\ g_wifiConfigs = [i \in Slot |-> ZeroConfig]
  /\ g_networkId = -1
  /\ g_networkConfigReadFlag = FALSE
  /\ g_wifiEvents = [i \in 0..(MaxEvent - 1) |-> "NULL"]
  /\ g_connectState = "NOT_AVALIABLE" /\ connectedSince = FALSE
  /\ driver = DriverOff
  /\ dispatch = NoDispatch
  /\ call = [c \in Caller |-> Idle("SUCCESS")]
  /\ file \in File

\* Then nothing is held, nobody is called and nothing is believed.
LEMMA StartHolds == Started => IInv
<1> SUFFICES ASSUME Started PROVE IInv OBVIOUS
<1>1. Idle("SUCCESS") \in CallRecord /\ Idle("SUCCESS").at = "idle" BY IdleType DEF Result
<1>2. \A c \in Caller : call[c] = Idle("SUCCESS") BY DEF Started
<1>3. Unlocked \in Lock /\ \A c \in Caller : HeldBy(Unlocked, c) = 0
  BY CallersAreSomebody, BoundType DEF Unlocked, Lock, HeldBy
<1>4. \A c \in Caller : ~Writing(c) /\ ~Connecting(c) /\ IsAt(c, "idle")
  BY <1>1, <1>2 DEF Writing, Connecting, IsAt
<1>5. \A c \in Caller : ~Dispatching(c) BY DEF Started, Dispatching, NoDispatch
<1>6. Typed BY <1>1, <1>3 DEF Started, Typed
<1>7. LocksOwned BY DEF Started, LocksOwned, Unlocked
<1>8. EventLockBooked
  BY <1>3, <1>4, <1>5, CallersAreSomebody DEF Started, EventLockBooked, Once
<1>9. CallsBooked BY <1>3, <1>4, BoundType DEF Started, CallsBooked
<1>10. StateBooked /\ SlotsWritten BY <1>4 DEF Started, StateBooked, SlotsWritten
<1>11. RestTyped
  <2>1. ZeroConfig \in Config /\ MaxEvent \in Nat
    BY WifiAssumption DEF ZeroConfig, Config, Slot
  <2>2. /\ DriverOff \in [started : BOOLEAN, link : {"down", "connecting", "connected"},
                          pending : Seq(Event), callback : BOOLEAN]
        /\ NoDispatch \in [event : Event \cup {"none"}, i : 0..MaxEvent]
    BY <2>1 DEF DriverOff, NoDispatch
  <2> QED BY <2>1, <2>2 DEF Started, RestTyped, State
<1>12. BeliefsHold BY DEF Started, BeliefsHold, ActiveOnlyIfStarted, SavedNetworkKnown
<1> QED BY <1>6, <1>7, <1>8, <1>9, <1>10, <1>11, <1>12, InvariantParts DEF Placed, Booked

LEMMA InitStarts == Init => Started
<1>1. NoFile \in File BY WifiAssumption DEF NoFile, File, ZeroConfig, Config, Slot
<1> QED BY <1>1 DEF Init, Started

LEMMA RestartStarts == ASSUME IInv, Restart PROVE Started'
<1>1. file' \in File BY DEF IInv, TypeOK, Restart
<1> QED BY <1>1 DEF Restart, Started

LEMMA InCallStep == ASSUME IInv, NEW c \in Caller, InCall(c) PROVE IInv'
<1>1. CASE Station(c) BY <1>1, EnableWifiStep, DisableWifiStep, ScanStep,
     DispatchScanStateChangeEventStep,
     StartScanStep DEF Station
<1>2. CASE Table(c)
  BY <1>2, AddDeviceConfigStep, RemoveDeviceStep, OpenToWriteStep, WriteStep,
     GetDeviceConfigsStep DEF Table
<1>3. CASE Link(c)
  BY <1>3, ConnectToStep, StaConnectStep, hi_wifi_sta_connectStep, DisconnectStep
     DEF Link
<1>4. CASE Listeners(c)
  BY <1>4, RegisterWifiEventStep, RegisterHisiCallbackStep, UnRegisterWifiEventStep
     DEF Listeners
<1> QED BY <1>1, <1>2, <1>3, <1>4 DEF InCall

LEMMA StutterStep == ASSUME IInv, UNCHANGED vars PROVE IInv'
  BY DEF IInv, TypeOK, LocksOwned, EventLockBooked, CallsBooked, StateBooked,
         SlotsWritten,
         BeliefsHold, ActiveOnlyIfStarted, SavedNetworkKnown, HeldBy, Dispatching,
         Connecting, Writing, IsAt, vars, tableVars, linkVars, eventVars

LEMMA NextStep == IInv /\ [Next]_vars => IInv' \/ Started'
<1> SUFFICES ASSUME IInv, [Next]_vars PROVE IInv' \/ Started' OBVIOUS
<1>1. ASSUME NEW t \in Task, NEW op \in Calls, NEW i \in Slot, NEW net \in Network,
             NEW l \in Listener, Invoke(t, op, i, net, l)
      PROVE  IInv'
  BY <1>1, InvokeStep, WifiAssumption
<1>2. ASSUME NEW c \in Caller, InCall(c) PROVE IInv' BY <1>2, InCallStep
<1>3. CASE DriverEvent BY <1>3, DriverEventStep
<1>4. CASE WpaTask
  BY <1>4, HiWifiWpaEventCbStep, DispatchConnectEventStep, EndOfDispatchStep
     DEF WpaTask
<1>5. CASE Restart BY <1>5, RestartStarts
<1>6. CASE UNCHANGED vars BY <1>6, StutterStep
<1> QED BY <1>1, <1>2, <1>3, <1>4, <1>5, <1>6 DEF Next

\* The inductive invariant: in every state, whatever failed and whenever the
\* device restarted, each lock is held as often as the calls under way account
\* for, and the beliefs of the service with it.
THEOREM StationInvariant == Spec => []IInv
<1>1. Init => Started BY InitStarts
<1>2. Started => IInv BY StartHolds
<1>3. IInv /\ [Next]_vars => IInv' \/ Started' BY NextStep
<1> QED BY <1>1, <1>2, <1>3, PTL DEF Spec

\* A call that returns, but not with ERROR_WIFI_UNKNOWN, gives the global lock back
\* if it has it and leaves it alone otherwise.
WayOut(c) ==
  /\ ~IsAt(c, "idle") /\ dispatch' = dispatch
  /\ call'[c].at = "idle" /\ call'[c].result # "UNKNOWN" =>
       IF Writing(c) THEN globalLock.owner = c /\ globalLock' = Released(globalLock)
                     ELSE globalLock' = globalLock

LEMMA WriterOwns == ASSUME IInv, NEW c \in Caller, Writing(c) PROVE globalLock.owner = c
<1>1. HeldBy(globalLock, c) = call[c].held[1] + 1 /\ call[c].held[1] \in Nat
  BY BoundType DEF IInv, TypeOK, CallRecord, CallsBooked, Writing, Once, IsAt
<1> QED BY <1>1 DEF HeldBy

LEMMA StationOut == ASSUME IInv, NEW c \in Caller, Station(c) PROVE WayOut(c)
<1>1. call \in [Caller -> CallRecord] /\ (Writing(c) => globalLock.owner = c)
  BY WriterOwns DEF IInv, TypeOK
<1>2. CASE EnableWifi(c)
  BY <1>1, <1>2 DEF EnableWifi, WayOut, Writing, IsAt, Return, GoTo, Idle, eventVars
<1>3. CASE DisableWifi(c)
  BY <1>1, <1>3 DEF DisableWifi, WayOut, Writing, IsAt, Return, GoTo, Idle,
                    eventVars
<1>4. CASE Scan(c)
  BY <1>1, <1>4 DEF Scan, WayOut, Writing, IsAt, Return, GoTo, Idle, eventVars
<1>5. CASE DispatchScanStateChangeEvent(c)
  BY <1>1, <1>5 DEF DispatchScanStateChangeEvent, WayOut, Writing, IsAt, Return,
                    GoTo, Idle, eventVars
<1>6. CASE StartScan(c)
  BY <1>1, <1>6 DEF StartScan, WayOut, Writing, IsAt, Return, GoTo, Idle, eventVars
<1> QED BY <1>2, <1>3, <1>4, <1>5, <1>6 DEF Station

LEMMA TableOut == ASSUME IInv, NEW c \in Caller, Table(c) PROVE WayOut(c)
<1>1. call \in [Caller -> CallRecord] /\ (Writing(c) => globalLock.owner = c)
  BY WriterOwns DEF IInv, TypeOK
<1>2. CASE AddDeviceConfig(c)
  <2>1. call[c].at = "AddDeviceConfig" /\ dispatch' = dispatch
    BY <1>2 DEF AddDeviceConfig, IsAt, eventVars
  <2>2. \/ globalLock' = globalLock
        \/ \E i \in Slot : call' = [call EXCEPT ![c].at = "open", ![c].slot = i]
    <3>1. CASE \E i \in Slot : ~InUse(i)
      <4>1. LET netId == CHOOSE i \in Slot : ~InUse(i) /\ \A j \in 0..(i - 1) : InUse(j)
            IN  netId \in Slot
        BY <3>1, FirstFree
      <4> QED BY <1>2, <3>1, <4>1 DEF AddDeviceConfig
    <3>2. CASE ~(\E i \in Slot : ~InUse(i)) BY <1>2, <3>2 DEF AddDeviceConfig
    <3> QED BY <3>1, <3>2
  <2>3. globalLock' = globalLock \/ call'[c].at = "open" BY <1>1, <2>2 DEF CallRecord
  <2> QED BY <2>1, <2>3 DEF WayOut, Writing, IsAt
<1>3. CASE RemoveDevice(c)
  BY <1>1, <1>3 DEF RemoveDevice, WayOut, Writing, IsAt, Return, GoTo, Idle,
                    eventVars
<1>4. CASE OpenToWrite(c)
  <2>1. call[c].at = "open" /\ dispatch' = dispatch
    BY <1>4 DEF OpenToWrite, IsAt, eventVars
  <2>2. GoTo(c, "write") \/ Return(c, "UNKNOWN") BY <1>4 DEF OpenToWrite
  <2>3. call'[c].at = "write" \/ call'[c].result = "UNKNOWN"
    BY <1>1, <2>2 DEF GoTo, Return, Idle, CallRecord
  <2> QED BY <2>1, <2>3 DEF WayOut, IsAt
<1>5. CASE Write(c)
  BY <1>1, <1>5 DEF Write, WayOut, Writing, IsAt, Return, GoTo, Idle, eventVars
<1>6. CASE GetDeviceConfigs(c)
  BY <1>1, <1>6 DEF GetDeviceConfigs, WayOut, Writing, IsAt, Return, GoTo, Idle,
                    eventVars
<1> QED BY <1>2, <1>3, <1>4, <1>5, <1>6 DEF Table

LEMMA LinkOut == ASSUME IInv, NEW c \in Caller, Link(c) PROVE WayOut(c)
<1>1. call \in [Caller -> CallRecord] /\ (Writing(c) => globalLock.owner = c)
  BY WriterOwns DEF IInv, TypeOK
<1>2. CASE ConnectTo(c)
  BY <1>1, <1>2 DEF ConnectTo, WayOut, Writing, IsAt, Return, GoTo, Idle, eventVars
<1>3. CASE StaConnect(c)
  BY <1>1, <1>3 DEF StaConnect, WayOut, Writing, IsAt, Return, GoTo, Idle, eventVars
<1>4. CASE hi_wifi_sta_connect(c)
  BY <1>1, <1>4 DEF hi_wifi_sta_connect, WayOut, Writing, IsAt, Return, GoTo, Idle,
                    eventVars
<1>5. CASE Disconnect(c)
  BY <1>1, <1>5 DEF Disconnect, WayOut, Writing, IsAt, Return, GoTo, Idle, eventVars
<1> QED BY <1>2, <1>3, <1>4, <1>5 DEF Link

LEMMA ListenersOut == ASSUME IInv, NEW c \in Caller, Listeners(c) PROVE WayOut(c)
<1>1. call \in [Caller -> CallRecord] /\ (Writing(c) => globalLock.owner = c)
  BY WriterOwns DEF IInv, TypeOK
<1>2. CASE RegisterWifiEvent(c)
  BY <1>1, <1>2 DEF RegisterWifiEvent, WayOut, Writing, IsAt, Return, GoTo, Idle,
                    eventVars
<1>3. CASE RegisterHisiCallback(c)
  BY <1>1, <1>3 DEF RegisterHisiCallback, WayOut, Writing, IsAt, Return, GoTo, Idle,
                    eventVars
<1>4. CASE UnRegisterWifiEvent(c)
  BY <1>1, <1>4 DEF UnRegisterWifiEvent, WayOut, Writing, IsAt, Return, GoTo, Idle,
                    eventVars
<1> QED BY <1>2, <1>3, <1>4 DEF Listeners

LEMMA LocksReturnedStep == IInv /\ IInv' /\ [Next]_vars => [LocksReturned]_vars
<1> SUFFICES ASSUME IInv, IInv', NEW c \in Caller, InCall(c),
                    call'[c].at = "idle", call'[c].result # "UNKNOWN"
             PROVE  <<HeldBy(globalLock', c), HeldBy(eventLock', c)>> = call[c].held
  BY DEF LocksReturned
<1>1. WayOut(c) BY StationOut, TableOut, LinkOut, ListenersOut DEF InCall
<1>2. /\ call[c].held = <<call[c].held[1], call[c].held[2]>>
      /\ call[c].held[1] \in Nat
  BY BoundType DEF IInv, TypeOK, CallRecord
<1>3. /\ HeldBy(globalLock, c) = call[c].held[1] + Once(Writing(c))
      /\ call[c].held[2] = Once(Dispatching(c))
  BY <1>1 DEF WayOut, IInv, CallsBooked
<1>4. HeldBy(globalLock', c) = call[c].held[1]
  <2>1. CASE Writing(c)
    <3>1. HeldBy(Released(globalLock), c) = HeldBy(globalLock, c) - 1
      BY <1>1, <2>1, LocksSound, LockFacts DEF WayOut, IInv
    <3> QED BY <1>1, <1>2, <1>3, <2>1, <3>1 DEF WayOut, Once
  <2>2. CASE ~Writing(c)
    <3>1. globalLock' = globalLock BY <1>1, <2>2 DEF WayOut
    <3> QED BY <1>2, <1>3, <2>2, <3>1 DEF Once
  <2> QED BY <2>1, <2>2
<1>5. HeldBy(eventLock', c) = Once(Dispatching(c)') + Once(Connecting(c)')
  BY DEF IInv, EventLockBooked, HeldBy, Dispatching, Connecting
<1>6. HeldBy(eventLock', c) = call[c].held[2]
  <2>1. dispatch' = dispatch BY <1>1 DEF WayOut
  <2> QED BY <1>3, <1>5, <2>1 DEF Once, Dispatching, Connecting
<1> QED BY <1>2, <1>4, <1>6

\* Every variable keeps its type; a lock is never taken oftener than LockBound,
\* the bound on the calls, accounts for.
THEOREM TypeCorrect == Spec => []TypeOK
<1>1. IInv => TypeOK BY DEF IInv
<1> QED BY <1>1, StationInvariant, PTL

\* However many tasks make requests, are refused or are told of connections, the
\* connection state tells whether a connection was reported since the last
\* request the driver took (wifi_device.c:224, 727-756).
THEOREM ConnectStateIsExact == Spec => []ConnectStateExact
<1>1. IInv => ConnectStateExact
  <2> SUFFICES ASSUME IInv, eventLock.owner = "NULL"
               PROVE  g_connectState = "AVALIABLE" <=> connectedSince
    BY DEF ConnectStateExact
  <2>1. ASSUME NEW c \in Caller PROVE ~Connecting(c)
    BY CallersAreSomebody DEF IInv, EventLockBooked, HeldBy, Once
  <2> QED BY <2>1 DEF IInv, StateBooked
<1> QED BY <1>1, StationInvariant, PTL

\* The station is never called active when the driver has it stopped, and slot 0
\* is the network the file has for it once it was read, at whatever step an
\* operation fails or the power is lost (wifi_device.c:62-110, 374-429, 628-690).
THEOREM BeliefsAreTrue == Spec => []BeliefsHold
<1>1. IInv => BeliefsHold BY DEF IInv
<1> QED BY <1>1, StationInvariant, PTL

\* No way out of a call but those with ERROR_WIFI_UNKNOWN keeps a lock or gives one
\* back too many, for calls of tasks and for those that listeners make within.
THEOREM LocksArePaired == Spec => LocksPaired
<1>1. IInv /\ IInv' /\ [Next]_vars => [LocksReturned]_vars BY LocksReturnedStep
<1> QED BY <1>1, StationInvariant, PTL DEF Spec, LocksPaired

--------------------
\* The access point, as a station of its own: its lock and its calls are
\* apLock and apCall here.

CONSTANT Setting
VARIABLES apLock, g_wifiApStatus, running, addressed, apCall, stopped, g_wifiApConfig,
          hapdConf

H == INSTANCE WifiHotspot WITH globalLock <- apLock, call <- apCall
NobodyIsNoTask == H!Nobody \notin Task

\* Where a call holds the lock.
Holding == {"credentials", "start", "started", "stop", "stopped", "copy"}

ApLockOwned == \A t \in Task : apCall[t] \in Holding <=> apLock = t

Somewhere(place) == \E t \in Task : apCall[t] = place

\* What the holder of the lock may count on.
StatusByPlace ==
  \A t \in Task :
    /\ apCall[t] \in {"credentials", "start", "started"} => g_wifiApStatus = "NOT_ACTIVE"
    /\ apCall[t] \in {"stop", "stopped"} => g_wifiApStatus = "ACTIVE"
    /\ apCall[t] \in {"credentials", "start", "stopped"} => ~running
    /\ apCall[t] = "started" => running \/ stopped

\* HotspotStatusTrue, but for who is between the driver and the status.
StatusBooked ==
  /\ running => g_wifiApStatus = "ACTIVE" \/ Somewhere("started")
  /\ g_wifiApStatus = "ACTIVE" /\ ~running => stopped \/ Somewhere("stopped")

\* A configuration is torn only while its lock is held.
ConfigsWhole ==
  /\ ~Somewhere("copy") => g_wifiApConfig.channel = g_wifiApConfig.key
  /\ Somewhere("credentials") => hapdConf.channel = g_wifiApConfig.channel
  /\ Somewhere("start") \/ running => hapdConf.channel = hapdConf.key

HotspotInv == H!TypeOK /\ ApLockOwned /\ StatusByPlace /\ StatusBooked /\ ConfigsWhole


\* The actions, for the cases of a step.
HotspotActs(t) ==
  \/ H!EnableHotspot(t) \/ H!CopyCredentials(t) \/ H!SoftapStart(t) \/ H!CallActive(t)
  \/ H!SetHotspotIpConfig(t) \/ H!DisableHotspot(t) \/ H!SoftapStop(t) \/ H!CallNotActive(t)
  \/ H!CopyRest(t) \/ \E setting \in Setting : H!SetHotspotConfig(t, setting)

LEMMA HotspotNextActs == H!Next <=> \E t \in Task : HotspotActs(t)
  BY DEF H!Next, H!Enabling, H!Disabling, H!Configuring, HotspotActs

\* An action changes the place of its own task only.
LEMMA OneCall ==
  ASSUME H!TypeOK, NEW t \in Task, HotspotActs(t)
  PROVE  /\ DOMAIN apCall' = Task
         /\ \A u \in Task \ {t} : apCall'[u] = apCall[u]
  BY DEF H!TypeOK, HotspotActs, H!EnableHotspot, H!CopyCredentials, H!SoftapStart,
         H!CallActive,
         H!SetHotspotIpConfig, H!DisableHotspot, H!SoftapStop, H!CallNotActive, H!CopyRest,
         H!SetHotspotConfig, H!Goes

\* Types are kept.
LEMMA HotspotTypeStep ==
  ASSUME H!TypeOK, NEW t \in Task, HotspotActs(t)
  PROVE  H!TypeOK'
<1>2. CASE H!EnableHotspot(t)
  BY <1>2 DEF H!EnableHotspot, H!TypeOK, H!Locks, H!Goes, H!driver
<1>3. CASE H!CopyCredentials(t) BY <1>3 DEF H!CopyCredentials, H!TypeOK, H!Goes, H!driver
<1>4. CASE H!SoftapStart(t)
  BY <1>4 DEF H!SoftapStart, H!TypeOK, H!Unlocks, H!Goes, H!configs
<1>5. CASE H!CallActive(t)
  BY <1>5 DEF H!CallActive, H!TypeOK, H!Unlocks, H!Goes, H!configs, H!driver
<1>6. CASE H!SetHotspotIpConfig(t)
  BY <1>6 DEF H!SetHotspotIpConfig, H!TypeOK, H!Goes, H!configs, H!driver
<1>7. CASE H!DisableHotspot(t)
  BY <1>7 DEF H!DisableHotspot, H!TypeOK, H!Locks, H!Goes, H!configs, H!driver
<1>8. CASE H!SoftapStop(t)
  BY <1>8 DEF H!SoftapStop, H!TypeOK, H!Unlocks, H!Goes, H!configs
<1>9. CASE H!CallNotActive(t)
  BY <1>9 DEF H!CallNotActive, H!TypeOK, H!Unlocks, H!Goes, H!configs, H!driver
<1>10. CASE H!CopyRest(t) BY <1>10 DEF H!CopyRest, H!TypeOK, H!Unlocks, H!Goes, H!driver
<1>11. CASE \E setting \in Setting : H!SetHotspotConfig(t, setting)
  BY <1>11 DEF H!SetHotspotConfig, H!TypeOK, H!Locks, H!Goes, H!driver
<1> QED BY <1>2, <1>3, <1>4, <1>5, <1>6, <1>7, <1>8, <1>9, <1>10, <1>11 DEF HotspotActs

\* Who is where the lock is held holds it.
LEMMA HotspotLockStep ==
  ASSUME NobodyIsNoTask, HotspotInv, NEW t \in Task, HotspotActs(t)
  PROVE  ApLockOwned'
<1>2. CASE H!EnableHotspot(t)
  BY <1>2 DEF H!EnableHotspot, HotspotInv, H!TypeOK, NobodyIsNoTask, ApLockOwned,
              Holding,
              H!Locks, H!Goes
<1>3. CASE H!CopyCredentials(t)
  BY <1>3 DEF H!CopyCredentials, HotspotInv, ApLockOwned, Holding, H!Goes
<1>4. CASE H!SoftapStart(t)
  BY <1>4 DEF H!SoftapStart, HotspotInv, H!TypeOK, NobodyIsNoTask, ApLockOwned,
              Holding,
              H!Unlocks, H!Goes
<1>5. CASE H!CallActive(t)
  BY <1>5 DEF H!CallActive, HotspotInv, H!TypeOK, NobodyIsNoTask, ApLockOwned,
              Holding, H!Unlocks,
              H!Goes
<1>6. CASE H!SetHotspotIpConfig(t)
  BY <1>6 DEF H!SetHotspotIpConfig, HotspotInv, ApLockOwned, Holding, H!Goes
<1>7. CASE H!DisableHotspot(t)
  BY <1>7 DEF H!DisableHotspot, HotspotInv, H!TypeOK, NobodyIsNoTask, ApLockOwned,
              Holding,
              H!Locks, H!Goes
<1>8. CASE H!SoftapStop(t)
  BY <1>8 DEF H!SoftapStop, HotspotInv, H!TypeOK, NobodyIsNoTask, ApLockOwned,
              Holding, H!Unlocks,
              H!Goes
<1>9. CASE H!CallNotActive(t)
  BY <1>9 DEF H!CallNotActive, HotspotInv, H!TypeOK, NobodyIsNoTask, ApLockOwned,
              Holding,
              H!Unlocks, H!Goes
<1>10. CASE H!CopyRest(t)
  BY <1>10 DEF H!CopyRest, HotspotInv, H!TypeOK, NobodyIsNoTask, ApLockOwned,
               Holding, H!Unlocks,
               H!Goes
<1>11. CASE \E setting \in Setting : H!SetHotspotConfig(t, setting)
  BY <1>11 DEF H!SetHotspotConfig, HotspotInv, H!TypeOK, NobodyIsNoTask,
               ApLockOwned, Holding,
               H!Locks, H!Goes
<1> QED BY <1>2, <1>3, <1>4, <1>5, <1>6, <1>7, <1>8, <1>9, <1>10, <1>11 DEF HotspotActs

\* Two calls never hold the lock, so nobody changes the status under another.
LEMMA HotspotPlaceStep ==
  ASSUME NobodyIsNoTask, HotspotInv, NEW t \in Task, HotspotActs(t)
  PROVE  StatusByPlace'
<1>2. CASE H!EnableHotspot(t)
  BY <1>2 DEF H!EnableHotspot, HotspotInv, NobodyIsNoTask, ApLockOwned, Holding,
              StatusByPlace, StatusBooked, Somewhere, H!Locks, H!Goes, H!driver
<1>3. CASE H!CopyCredentials(t)
  BY <1>3 DEF H!CopyCredentials, HotspotInv, StatusByPlace, H!Goes, H!driver
<1>4. CASE H!SoftapStart(t)
  BY <1>4 DEF H!SoftapStart, HotspotInv, H!TypeOK, ApLockOwned, Holding,
              StatusByPlace, H!Goes
<1>5. CASE H!CallActive(t)
  BY <1>5 DEF H!CallActive, HotspotInv, H!TypeOK, ApLockOwned, Holding,
              StatusByPlace, H!Goes
<1>6. CASE H!SetHotspotIpConfig(t)
  BY <1>6 DEF H!SetHotspotIpConfig, HotspotInv, H!TypeOK, StatusByPlace, H!Goes,
              H!driver
<1>7. CASE H!DisableHotspot(t)
  BY <1>7 DEF H!DisableHotspot, HotspotInv, StatusByPlace, H!Goes, H!driver
<1>8. CASE H!SoftapStop(t)
  BY <1>8 DEF H!SoftapStop, HotspotInv, H!TypeOK, StatusByPlace, H!Goes
<1>9. CASE H!CallNotActive(t)
  BY <1>9 DEF H!CallNotActive, HotspotInv, H!TypeOK, ApLockOwned, Holding,
              StatusByPlace, H!Goes
<1>10. CASE H!CopyRest(t)
  BY <1>10 DEF H!CopyRest, HotspotInv, StatusByPlace, H!Goes, H!driver
<1>11. CASE \E setting \in Setting : H!SetHotspotConfig(t, setting)
  BY <1>11 DEF H!SetHotspotConfig, HotspotInv, StatusByPlace, H!Goes, H!driver
<1> QED BY <1>2, <1>3, <1>4, <1>5, <1>6, <1>7, <1>8, <1>9, <1>10, <1>11 DEF HotspotActs

\* Only an address that could not be set stops what is called active.
LEMMA HotspotBookedStep ==
  ASSUME NobodyIsNoTask, HotspotInv, NEW t \in Task, HotspotActs(t)
  PROVE  StatusBooked'
<1>1. \A u \in Task \ {t} : apCall'[u] = apCall[u] BY OneCall DEF HotspotInv
<1>2. CASE H!EnableHotspot(t)
  BY <1>1, <1>2 DEF H!EnableHotspot, HotspotInv, StatusBooked, Somewhere, H!driver
<1>3. CASE H!CopyCredentials(t)
  BY <1>3 DEF H!CopyCredentials, HotspotInv, StatusByPlace, StatusBooked, H!driver
<1>4. CASE H!SoftapStart(t)
  BY <1>4 DEF H!SoftapStart, HotspotInv, H!TypeOK, StatusBooked, Somewhere, H!Goes
<1>5. CASE H!CallActive(t)
  BY <1>5 DEF H!CallActive, HotspotInv, StatusByPlace, StatusBooked, H!driver
<1>6. CASE H!SetHotspotIpConfig(t)
  <2>1. ASSUME NEW place \in Holding
        PROVE  (\E u \in Task : apCall'[u] = place) <=> (\E u \in Task : apCall[u] = place)
    BY <1>6 DEF H!SetHotspotIpConfig, Holding, H!Goes
  <2>2. /\ (\E u \in Task : apCall'[u] = "started") <=>
             (\E u \in Task : apCall[u] = "started")
        /\ (\E u \in Task : apCall'[u] = "stopped") <=>
             (\E u \in Task : apCall[u] = "stopped")
    BY <2>1 DEF Holding
  <2>3. g_wifiApStatus' = g_wifiApStatus BY <1>6 DEF H!SetHotspotIpConfig
  <2>4. running' => running BY <1>6, Zenon DEF H!SetHotspotIpConfig, H!driver
  <2>5. \/ running' = running /\ stopped' = stopped
        \/ stopped' = TRUE
    BY <1>6, Zenon DEF H!SetHotspotIpConfig, H!driver
  <2> QED BY <2>2, <2>3, <2>4, <2>5, Zenon DEF HotspotInv, StatusBooked, Somewhere
<1>7. CASE H!DisableHotspot(t)
  BY <1>1, <1>7 DEF H!DisableHotspot, HotspotInv, StatusBooked, Somewhere, H!driver
<1>8. CASE H!SoftapStop(t)
  BY <1>8 DEF H!SoftapStop, HotspotInv, H!TypeOK, StatusBooked, Somewhere, H!Goes
<1>9. CASE H!CallNotActive(t)
  BY <1>9 DEF H!CallNotActive, HotspotInv, StatusByPlace, StatusBooked, H!driver
<1>10. CASE H!CopyRest(t)
  BY <1>1, <1>10 DEF H!CopyRest, HotspotInv, StatusBooked, Somewhere, H!driver
<1>11. CASE \E setting \in Setting : H!SetHotspotConfig(t, setting)
  BY <1>1, <1>11 DEF H!SetHotspotConfig, HotspotInv, StatusBooked, Somewhere,
                     H!driver
<1> QED BY <1>2, <1>3, <1>4, <1>5, <1>6, <1>7, <1>8, <1>9, <1>10, <1>11 DEF HotspotActs

\* A copy is made of what nobody else changes.
LEMMA HotspotConfigStep ==
  ASSUME NobodyIsNoTask, HotspotInv, NEW t \in Task, HotspotActs(t)
  PROVE  ConfigsWhole'
<1>2. CASE H!EnableHotspot(t)
  BY <1>2 DEF H!EnableHotspot, HotspotInv, NobodyIsNoTask, ApLockOwned, Holding,
              StatusBooked,
              ConfigsWhole, Somewhere, H!Locks, H!Goes, H!driver
<1>3. CASE H!CopyCredentials(t)
  BY <1>3 DEF H!CopyCredentials, HotspotInv, ApLockOwned, Holding, ConfigsWhole,
              Somewhere
<1>4. CASE H!SoftapStart(t)
  BY <1>4 DEF H!SoftapStart, HotspotInv, H!TypeOK, ConfigsWhole, Somewhere, H!Goes,
              H!configs
<1>5. CASE H!CallActive(t)
  BY <1>5 DEF H!CallActive, HotspotInv, ConfigsWhole, Somewhere, H!Goes, H!configs,
              H!driver
<1>6. CASE H!SetHotspotIpConfig(t)
  <2>1. ASSUME NEW place \in Holding
        PROVE  (\E u \in Task : apCall'[u] = place) <=> (\E u \in Task : apCall[u] = place)
    BY <1>6 DEF H!SetHotspotIpConfig, Holding, H!Goes
  <2>2. /\ (\E u \in Task : apCall'[u] = "copy") <=> (\E u \in Task : apCall[u] = "copy")
        /\ (\E u \in Task : apCall'[u] = "credentials") <=>
             (\E u \in Task : apCall[u] = "credentials")
        /\ (\E u \in Task : apCall'[u] = "start") <=> (\E u \in Task : apCall[u] = "start")
    BY <2>1 DEF Holding
  <2>3. g_wifiApConfig' = g_wifiApConfig /\ hapdConf' = hapdConf
    BY <1>6 DEF H!SetHotspotIpConfig, H!configs
  <2>4. running' => running BY <1>6, Zenon DEF H!SetHotspotIpConfig, H!driver
  <2> QED BY <2>2, <2>3, <2>4, Zenon DEF HotspotInv, ConfigsWhole, Somewhere
<1>7. CASE H!DisableHotspot(t)
  BY <1>7 DEF H!DisableHotspot, HotspotInv, ConfigsWhole, Somewhere, H!Goes,
              H!configs, H!driver
<1>8. CASE H!SoftapStop(t)
  BY <1>8 DEF H!SoftapStop, HotspotInv, H!TypeOK, ConfigsWhole, Somewhere, H!Goes,
              H!configs
<1>9. CASE H!CallNotActive(t)
  BY <1>9 DEF H!CallNotActive, HotspotInv, ConfigsWhole, Somewhere, H!Goes,
              H!configs, H!driver
<1>10. CASE H!CopyRest(t)
  BY <1>10 DEF H!CopyRest, HotspotInv, ConfigsWhole, Somewhere, H!Goes, H!driver
<1>11. CASE \E setting \in Setting : H!SetHotspotConfig(t, setting)
  BY <1>11 DEF H!SetHotspotConfig, HotspotInv, H!TypeOK, NobodyIsNoTask,
               ApLockOwned, Holding,
               ConfigsWhole, Somewhere, H!Locks, H!Goes, H!driver
<1> QED BY <1>2, <1>3, <1>4, <1>5, <1>6, <1>7, <1>8, <1>9, <1>10, <1>11 DEF HotspotActs


LEMMA HotspotStarts == NobodyIsNoTask /\ H!Init => HotspotInv
<1> SUFFICES ASSUME NobodyIsNoTask, H!Init PROVE HotspotInv OBVIOUS
<1>1. H!TypeOK
  <2>1. hapdConf = [channel |-> 0, key |-> 0] /\ g_wifiApConfig = [channel |-> 0, key |-> 0]
    BY DEF H!Init
  <2>2. {g_wifiApConfig, hapdConf} \subseteq
          [channel : Setting \cup {0}, key : Setting \cup {0}]
    BY <2>1
  <2> QED BY <2>2 DEF H!Init, H!TypeOK
<1>2. \A t \in Task : apCall[t] = "none" /\ apLock # t BY DEF H!Init, NobodyIsNoTask
<1>3. ApLockOwned /\ StatusByPlace BY <1>2 DEF ApLockOwned, StatusByPlace, Holding
<1>4. StatusBooked /\ ConfigsWhole BY <1>2 DEF H!Init, StatusBooked, ConfigsWhole
<1> QED BY <1>1, <1>3, <1>4 DEF HotspotInv

LEMMA HotspotSteps == NobodyIsNoTask /\ HotspotInv /\ [H!Next]_(H!vars) => HotspotInv'
<1> SUFFICES ASSUME NobodyIsNoTask, HotspotInv, [H!Next]_(H!vars) PROVE HotspotInv'
  OBVIOUS
<1>1. CASE H!Next
  <2>1. PICK t \in Task : HotspotActs(t) BY <1>1, HotspotNextActs
  <2>2. H!TypeOK' BY <2>1, HotspotTypeStep DEF HotspotInv
  <2>3. ApLockOwned' /\ StatusByPlace' /\ StatusBooked' /\ ConfigsWhole'
    BY <2>1, HotspotLockStep, HotspotPlaceStep, HotspotBookedStep, HotspotConfigStep
  <2> QED BY <2>2, <2>3 DEF HotspotInv
<1>2. CASE UNCHANGED H!vars
  BY <1>2 DEF H!vars, HotspotInv, H!TypeOK, ApLockOwned, Holding, StatusByPlace,
              StatusBooked,
              ConfigsWhole, Somewhere
<1> QED BY <1>1, <1>2

\* Whichever tasks enable and disable the access point, and whichever operation
\* fails, its status says whether it runs as soon as the lock is given back
\* (wifi_hotspot.c:86-171).
THEOREM StatusStaysTrue == ASSUME NobodyIsNoTask PROVE H!Spec => []H!HotspotStatusTrue
<1>1. HotspotInv => H!HotspotStatusTrue
  BY NobodyIsNoTask DEF NobodyIsNoTask, HotspotInv, ApLockOwned, Holding,
                        StatusBooked,
                        Somewhere, H!HotspotStatusTrue
<1> QED BY <1>1, HotspotStarts, HotspotSteps, NobodyIsNoTask, PTL DEF H!Spec

\* However tasks set configurations meanwhile, the access point runs with one that
\* was set as a whole (wifi_hotspot.c:98-117, 179-183).
THEOREM ConfigStaysWhole == ASSUME NobodyIsNoTask PROVE H!Spec => []H!HotspotConfigWhole
<1>1. HotspotInv => H!HotspotConfigWhole
  BY DEF HotspotInv, ConfigsWhole, H!HotspotConfigWhole
<1> QED BY <1>1, HotspotStarts, HotspotSteps, NobodyIsNoTask, PTL DEF H!Spec

--------------------
\* Reading from a port, for any tasks and any lengths.

CONSTANTS MaxBytes
VARIABLES uart_rx_mutex, uart_rx_sem, g_rx_num, request, uartCall, received, returned,
          overtaken, disturbed

Uart == INSTANCE IotUart WITH call <- uartCall

\* From PendMutex to PostMutex a task has the mutex, and while one has it those that
\* have yet to read the number were overtaken.
Reading == {"reset", "drain", "receive", "wait", "post"}
ReadersApart ==
  /\ \A t \in Task : uartCall[t] \in Reading <=> uart_rx_mutex = t
  /\ uart_rx_mutex # Uart!Nobody =>
       \A t \in Task : uartCall[t] = "return" => t \in overtaken

\* The number is that of the read under way, from its reset on.
NumberIsOwn ==
  \A t \in Task :
    /\ uartCall[t] \in {"pend", "reset"} => received[t] = 0
    /\ /\ uartCall[t] \in {"drain", "receive", "wait", "post", "return"}
       /\ t \notin overtaken \cup disturbed
       => g_rx_num = received[t]

UartInv == Uart!TypeOK /\ ReadersApart /\ NumberIsOwn /\ Uart!ReadsExact

--------------------

LEMMA UartStarts == ASSUME Uart!UartFits, Uart!Init PROVE UartInv
BY DEF Uart!Init, UartInv, Uart!TypeOK, ReadersApart, NumberIsOwn, Uart!ReadsExact,
   Uart!Where, Reading, Uart!UartFits

\* A task goes on, and with it nothing but what is said.
LEMMA StepIs ==
  ASSUME Uart!TypeOK, NEW t \in Task, NEW from, NEW to \in Uart!Where,
         Uart!Step(t, from, to)
  PROVE  /\ uartCall' \in [Task -> Uart!Where] /\ uartCall[t] = from
         /\ uartCall'[t] = to
         /\ \A u \in Task : u # t => uartCall'[u] = uartCall[u]
BY DEF Uart!TypeOK, Uart!Step

LEMMA ReadKeeps ==
  ASSUME Uart!UartFits, UartInv, NEW t \in Task, Uart!IoTUartRead(t) PROVE UartInv'
<1>1. /\ uartCall' \in [Task -> Uart!Where] /\ uartCall[t] \in {"idle", "done"}
      /\ uartCall'[t] = "pend"
      /\ \A u \in Task : u # t => uartCall'[u] = uartCall[u]
  BY StepIs DEF Uart!IoTUartRead, UartInv, Uart!Where
<1>2. /\ received' = [received EXCEPT ![t] = 0]
      /\ returned' = [returned EXCEPT ![t] = 0]
      /\ overtaken' = overtaken \ {t} /\ disturbed' = disturbed \ {t}
      /\ uart_rx_mutex' = uart_rx_mutex /\ uart_rx_sem' = uart_rx_sem
      /\ g_rx_num' = g_rx_num /\ request' = request
  BY DEF Uart!IoTUartRead
<1>3. Uart!TypeOK' BY <1>1, <1>2 DEF UartInv, Uart!TypeOK, Uart!UartFits
<1>4. ReadersApart' BY <1>1, <1>2 DEF UartInv, ReadersApart, Reading
<1>5. NumberIsOwn' /\ Uart!ReadsExact'
  BY <1>1, <1>2 DEF UartInv, Uart!TypeOK, NumberIsOwn, Uart!ReadsExact
<1> QED BY <1>3, <1>4, <1>5 DEF UartInv

LEMMA PendKeeps ==
  ASSUME Uart!UartFits, UartInv, NEW t \in Task, Uart!PendMutex(t) PROVE UartInv'
<1>1. /\ uartCall' \in [Task -> Uart!Where] /\ uartCall[t] = "pend"
      /\ uartCall'[t] = "reset"
      /\ \A u \in Task : u # t => uartCall'[u] = uartCall[u]
  BY StepIs DEF Uart!PendMutex, UartInv, Uart!Where
<1>2. /\ uart_rx_mutex = Uart!Nobody /\ uart_rx_mutex' = t
      /\ overtaken' = overtaken \cup {u \in Task : uartCall[u] = "return"}
      /\ uart_rx_sem' = uart_rx_sem /\ g_rx_num' = g_rx_num /\ request' = request
      /\ received' = received /\ returned' = returned /\ disturbed' = disturbed
  BY DEF Uart!PendMutex
<1>3. Uart!TypeOK' BY <1>1, <1>2 DEF UartInv, Uart!TypeOK
<1>4. ReadersApart' BY <1>1, <1>2 DEF UartInv, ReadersApart, Reading, Uart!UartFits
<1>5. NumberIsOwn' /\ Uart!ReadsExact'
  BY <1>1, <1>2 DEF UartInv, NumberIsOwn, Uart!ReadsExact
<1> QED BY <1>3, <1>4, <1>5 DEF UartInv

LEMMA ResetKeeps ==
  ASSUME Uart!UartFits, UartInv, NEW t \in Task, Uart!ResetNumber(t) PROVE UartInv'
<1>1. /\ uartCall' \in [Task -> Uart!Where] /\ uartCall[t] = "reset"
      /\ uartCall'[t] = "drain"
      /\ \A u \in Task : u # t => uartCall'[u] = uartCall[u]
  BY StepIs DEF Uart!ResetNumber, UartInv, Uart!Where
<1>2. /\ g_rx_num' = 0 /\ uart_rx_mutex' = uart_rx_mutex
      /\ uart_rx_sem' = uart_rx_sem /\ request' = request
      /\ received' = received /\ returned' = returned /\ disturbed' = disturbed
      /\ overtaken' = overtaken
  BY DEF Uart!ResetNumber, Uart!notes
<1>3. Uart!TypeOK' BY <1>1, <1>2 DEF UartInv, Uart!TypeOK, Uart!UartFits
<1>4. ReadersApart' BY <1>1, <1>2 DEF UartInv, ReadersApart, Reading
<1>5. uart_rx_mutex = t BY <1>1 DEF UartInv, ReadersApart, Reading
<1>6. ASSUME NEW u \in Task, u # t
      PROVE  uartCall[u] \notin Reading /\ (uartCall[u] = "return" => u \in overtaken)
  BY <1>5, <1>6 DEF UartInv, ReadersApart, Uart!UartFits
<1>7. NumberIsOwn' BY <1>1, <1>2, <1>6 DEF UartInv, NumberIsOwn, Reading
<1>8. Uart!ReadsExact' BY <1>1, <1>2 DEF UartInv, Uart!ReadsExact
<1> QED BY <1>3, <1>4, <1>7, <1>8 DEF UartInv

LEMMA DrainKeeps ==
  ASSUME Uart!UartFits, UartInv, NEW t \in Task, Uart!Drain(t) PROVE UartInv'
<1>1. /\ uartCall' \in [Task -> Uart!Where] /\ uartCall[t] = "drain"
      /\ uartCall'[t] = "receive"
      /\ \A u \in Task : u # t => uartCall'[u] = uartCall[u]
  BY StepIs DEF Uart!Drain, UartInv, Uart!Where
<1>2. /\ uart_rx_sem' = 0 /\ g_rx_num' = g_rx_num /\ uart_rx_mutex' = uart_rx_mutex
      /\ request' = request
      /\ received' = received /\ returned' = returned /\ disturbed' = disturbed
      /\ overtaken' = overtaken
  BY DEF Uart!Drain, Uart!notes
<1>3. Uart!TypeOK' BY <1>1, <1>2 DEF UartInv, Uart!TypeOK
<1>4. ReadersApart' BY <1>1, <1>2 DEF UartInv, ReadersApart, Reading
<1>5. NumberIsOwn' /\ Uart!ReadsExact'
  BY <1>1, <1>2 DEF UartInv, NumberIsOwn, Uart!ReadsExact
<1> QED BY <1>3, <1>4, <1>5 DEF UartInv

LEMMA ReceiveKeeps ==
  ASSUME Uart!UartFits, UartInv, NEW t \in Task, Uart!ReceiveAsync(t) PROVE UartInv'
<1>1. /\ uart_rx_sem' = uart_rx_sem /\ g_rx_num' = g_rx_num /\ returned' = returned
      /\ received' = received /\ disturbed' = disturbed /\ overtaken' = overtaken
  BY DEF Uart!ReceiveAsync
<1>2. CASE Uart!Step(t, "receive", "wait") /\ request = Uart!Nobody /\ request' = t
           /\ UNCHANGED <<uart_rx_mutex, returned>>
  <2>1. /\ uartCall' \in [Task -> Uart!Where] /\ uartCall[t] = "receive"
        /\ uartCall'[t] = "wait"
        /\ \A u \in Task : u # t => uartCall'[u] = uartCall[u]
    BY <1>2, StepIs DEF UartInv, Uart!Where
  <2>2. Uart!TypeOK' BY <1>1, <1>2, <2>1 DEF UartInv, Uart!TypeOK
  <2>3. ReadersApart' BY <1>1, <1>2, <2>1 DEF UartInv, ReadersApart, Reading
  <2>4. NumberIsOwn' /\ Uart!ReadsExact'
    BY <1>1, <2>1 DEF UartInv, NumberIsOwn, Uart!ReadsExact
  <2> QED BY <2>2, <2>3, <2>4 DEF UartInv
<1>3. CASE Uart!Step(t, "receive", "idle") /\ uart_rx_mutex' = Uart!Nobody
           /\ UNCHANGED <<request, returned>>
  <2>1. /\ uartCall' \in [Task -> Uart!Where] /\ uartCall[t] = "receive"
        /\ uartCall'[t] = "idle"
        /\ \A u \in Task : u # t => uartCall'[u] = uartCall[u]
    BY <1>3, StepIs DEF UartInv, Uart!Where
  <2>2. Uart!TypeOK' BY <1>1, <1>3, <2>1 DEF UartInv, Uart!TypeOK
  <2>3. ReadersApart'
    <3>1. uart_rx_mutex = t BY <2>1 DEF UartInv, ReadersApart, Reading
    <3> QED BY <1>3, <2>1, <3>1 DEF UartInv, ReadersApart, Reading, Uart!UartFits
  <2>4. NumberIsOwn' /\ Uart!ReadsExact'
    BY <1>1, <2>1 DEF UartInv, NumberIsOwn, Uart!ReadsExact
  <2> QED BY <2>2, <2>3, <2>4 DEF UartInv
<1> QED BY <1>2, <1>3 DEF Uart!ReceiveAsync

LEMMA WaitKeeps ==
  ASSUME Uart!UartFits, UartInv, NEW t \in Task, Uart!WaitForEvent(t) PROVE UartInv'
<1>1. /\ uartCall' \in [Task -> Uart!Where] /\ uartCall[t] = "wait"
      /\ uartCall'[t] = "post"
      /\ \A u \in Task : u # t => uartCall'[u] = uartCall[u]
  BY StepIs DEF Uart!WaitForEvent, UartInv, Uart!Where
<1>2. /\ uart_rx_sem' = 0 /\ g_rx_num' = g_rx_num /\ uart_rx_mutex' = uart_rx_mutex
      /\ request' = request /\ received' = received /\ returned' = returned
      /\ overtaken' = overtaken
      /\ disturbed' = disturbed \/ disturbed' = disturbed \cup {t}
  BY DEF Uart!WaitForEvent
<1>3. Uart!TypeOK' BY <1>1, <1>2 DEF UartInv, Uart!TypeOK
<1>4. ReadersApart' BY <1>1, <1>2 DEF UartInv, ReadersApart, Reading
<1>5. NumberIsOwn' /\ Uart!ReadsExact'
  BY <1>1, <1>2 DEF UartInv, NumberIsOwn, Uart!ReadsExact
<1> QED BY <1>3, <1>4, <1>5 DEF UartInv

LEMMA PostKeeps ==
  ASSUME Uart!UartFits, UartInv, NEW t \in Task, Uart!PostMutex(t) PROVE UartInv'
<1>1. /\ uartCall' \in [Task -> Uart!Where] /\ uartCall[t] = "post"
      /\ uartCall'[t] = "return"
      /\ \A u \in Task : u # t => uartCall'[u] = uartCall[u]
  BY StepIs DEF Uart!PostMutex, UartInv, Uart!Where
<1>2. /\ uart_rx_mutex' = Uart!Nobody /\ uart_rx_sem' = uart_rx_sem
      /\ g_rx_num' = g_rx_num /\ request' = request
      /\ received' = received /\ returned' = returned /\ disturbed' = disturbed
      /\ overtaken' = overtaken
  BY DEF Uart!PostMutex, Uart!notes
<1>3. Uart!TypeOK' BY <1>1, <1>2 DEF UartInv, Uart!TypeOK
<1>4. ReadersApart'
  <2>1. uart_rx_mutex = t BY <1>1 DEF UartInv, ReadersApart, Reading
  <2> QED BY <1>1, <1>2, <2>1 DEF UartInv, ReadersApart, Reading, Uart!UartFits
<1>5. NumberIsOwn' /\ Uart!ReadsExact'
  BY <1>1, <1>2 DEF UartInv, NumberIsOwn, Uart!ReadsExact
<1> QED BY <1>3, <1>4, <1>5 DEF UartInv

LEMMA ReturnKeeps ==
  ASSUME Uart!UartFits, UartInv, NEW t \in Task, Uart!ReturnNumber(t) PROVE UartInv'
<1>1. /\ uartCall' \in [Task -> Uart!Where] /\ uartCall[t] = "return"
      /\ uartCall'[t] = "done"
      /\ \A u \in Task : u # t => uartCall'[u] = uartCall[u]
  BY StepIs DEF Uart!ReturnNumber, UartInv, Uart!Where
<1>2. /\ returned' = [returned EXCEPT ![t] = g_rx_num]
      /\ uart_rx_mutex' = uart_rx_mutex /\ uart_rx_sem' = uart_rx_sem
      /\ g_rx_num' = g_rx_num /\ request' = request
      /\ received' = received /\ disturbed' = disturbed /\ overtaken' = overtaken
  BY DEF Uart!ReturnNumber
<1>3. Uart!TypeOK' BY <1>1, <1>2 DEF UartInv, Uart!TypeOK
<1>4. ReadersApart' BY <1>1, <1>2 DEF UartInv, ReadersApart, Reading
<1>5. NumberIsOwn' BY <1>1, <1>2 DEF UartInv, NumberIsOwn
<1>6. Uart!ReadsExact'
  BY <1>1, <1>2 DEF UartInv, Uart!TypeOK, NumberIsOwn, Uart!ReadsExact
<1> QED BY <1>3, <1>4, <1>5, <1>6 DEF UartInv

LEMMA EventKeeps ==
  ASSUME Uart!UartFits, UartInv, Uart!ReceiveEvent PROVE UartInv'
<1>1. /\ request \in Task /\ request' = Uart!Nobody /\ uart_rx_sem' = 1
      /\ uart_rx_mutex' = uart_rx_mutex /\ uartCall' = uartCall
      /\ returned' = returned
      /\ overtaken' = overtaken
  BY DEF Uart!ReceiveEvent, UartInv, Uart!TypeOK
<1>2. PICK r \in Task : r = request BY <1>1
<1>3. ReadersApart' BY <1>1 DEF UartInv, ReadersApart
<1>4. CASE uartCall[r] = "wait"
  <2>1. /\ disturbed' = disturbed
        /\ \/ \E n \in 1..MaxBytes : /\ g_rx_num' = n
                                     /\ received' = [received EXCEPT ![r] = n]
           \/ g_rx_num' = g_rx_num /\ received' = received
    BY <1>2, <1>4 DEF Uart!ReceiveEvent
  <2>2. Uart!TypeOK' BY <1>1, <2>1 DEF UartInv, Uart!TypeOK, Uart!UartFits
  <2>3. /\ \A u \in Task : u # r => received'[u] = received[u]
        /\ g_rx_num' = received'[r] \/ (g_rx_num' = g_rx_num /\ received' = received)
    BY <2>1 DEF UartInv, Uart!TypeOK
  <2>4. ASSUME NEW u \in Task, u # r
        PROVE  uartCall[u] \notin Reading /\ (uartCall[u] = "return" => u \in overtaken)
    BY <1>4, <2>4 DEF UartInv, ReadersApart, Reading, Uart!UartFits
  <2>5. NumberIsOwn' BY <1>1, <1>4, <2>1, <2>3, <2>4 DEF UartInv, NumberIsOwn, Reading
  <2>6. Uart!ReadsExact' BY <1>1, <1>4, <2>1, <2>3 DEF UartInv, Uart!ReadsExact
  <2> QED BY <1>3, <2>2, <2>5, <2>6 DEF UartInv
<1>5. CASE uartCall[r] # "wait"
  <2>1. /\ disturbed' = disturbed \cup {t \in Task : uartCall[t] \notin {"idle", "pend", "done"}}
        /\ received' = received /\ g_rx_num' \in 0..MaxBytes
    BY <1>2, <1>5 DEF Uart!ReceiveEvent, UartInv, Uart!TypeOK, Uart!UartFits
  <2>2. Uart!TypeOK' BY <1>1, <2>1 DEF UartInv, Uart!TypeOK
  <2>3. NumberIsOwn' /\ Uart!ReadsExact'
    BY <1>1, <2>1 DEF UartInv, NumberIsOwn, Uart!ReadsExact
  <2> QED BY <1>3, <2>2, <2>3 DEF UartInv
<1> QED BY <1>4, <1>5

LEMMA UartStep ==
  ASSUME Uart!UartFits, UartInv, [Uart!Next]_(Uart!vars)
  PROVE  UartInv'
<1>1. CASE UNCHANGED Uart!vars
  BY <1>1 DEF Uart!vars, UartInv, Uart!TypeOK, ReadersApart, NumberIsOwn,
     Uart!ReadsExact
<1>2. CASE Uart!LineError
  BY <1>2 DEF Uart!LineError, Uart!notes, UartInv, Uart!TypeOK, ReadersApart,
     NumberIsOwn, Uart!ReadsExact
<1>3. CASE Uart!ReceiveEvent BY <1>3, EventKeeps
<1>4. ASSUME NEW t \in Task,
             \/ Uart!IoTUartRead(t) \/ Uart!PendMutex(t) \/ Uart!ResetNumber(t)
             \/ Uart!Drain(t)
             \/ Uart!ReceiveAsync(t) \/ Uart!WaitForEvent(t) \/ Uart!PostMutex(t)
             \/ Uart!ReturnNumber(t)
      PROVE  UartInv'
  BY <1>4, ReadKeeps, PendKeeps, ResetKeeps, DrainKeeps, ReceiveKeeps, WaitKeeps,
     PostKeeps, ReturnKeeps
<1> QED BY <1>1, <1>2, <1>3, <1>4 DEF Uart!Next

\* Of a port that any number of tasks read, with answers and errors of the line at any
\* time: a read returns what its own request brought, but for reads that an error ended
\* or another reader overtook between the mutex and the number
\* (hal_iot_uart.c:197-213).
THEOREM UartReadsExact == ASSUME Uart!UartFits PROVE Uart!Spec => []Uart!ReadsExact
<1>1. Uart!Init => UartInv BY UartStarts
<1>2. UartInv /\ [Uart!Next]_(Uart!vars) => UartInv' BY UartStep
<1>3. UartInv => Uart!ReadsExact BY DEF UartInv
<1> QED BY <1>1, <1>2, <1>3, PTL DEF Uart!Spec

--------------------
\* The file HAL, for any tasks, descriptors and lengths.

CONSTANTS FdMax, LengthMax
VARIABLES length, position, handles, fileCall, fileAnswer

Files == INSTANCE HalFile WITH call <- fileCall, answer <- fileAnswer

StatCall == [fn : {"HalFileStat"}, fd : Files!Fd, at : {"seek", "close"}]
SeekCall == [fn : {"HalFileSeek"}, fd : Files!Fd, offset : Int, whence : Files!Whence,
             at : {"end", "seek"}, len : 0..LengthMax, len2 : 0..LengthMax,
             alone : BOOLEAN, target : Int]
FileCalls == {Files!NoCall} \cup StatCall \cup SeekCall

FileTyped ==
  /\ length \in 0..LengthMax
  /\ position \in [Files!Fd -> 0..LengthMax \cup {Files!Closed}]
  /\ handles \subseteq {fd + Files!OFFSET_FD : fd \in Files!Fd}
  /\ fileCall \in [Task -> FileCalls]

\* What is open is a handle of the application or one HalFileStat's, and of one of them.
Stats(t, fd) == fileCall[t].fn = "HalFileStat" /\ fileCall[t].fd = fd
OpenForSome ==
  \A fd \in Files!Fd : position[fd] # Files!Closed
                   <=> fd + Files!OFFSET_FD \in handles \/ \E t \in Task : Stats(t, fd)
StatsApart ==
  \A t \in Task, fd \in Files!Fd : Stats(t, fd) =>
    fd + Files!OFFSET_FD \notin handles /\ \A u \in Task : Stats(u, fd) => u = t

\* A seek has a handle, and knows where to go.
SeeksHold ==
  \A t \in Task : fileCall[t].fn = "HalFileSeek" => fileCall[t].fd + Files!OFFSET_FD \in handles
SeekKnows(c) ==
  /\ c.whence = "SEEK_END_FS" => c.at = "seek"
  /\ c.whence = "SEEK_SET_FS" => c.target = c.offset
  /\ c.whence = "SEEK_CUR_FS" => c.target = IF c.at = "end" THEN c.offset + c.len
                                            ELSE c.offset
SeeksKnow == \A t \in Task : fileCall[t].fn = "HalFileSeek" => SeekKnows(fileCall[t])

FileInv == /\ FileTyped /\ OpenForSome /\ StatsApart /\ SeeksHold /\ SeeksKnow
           /\ Files!SeekExact

--------------------

LEMMA HandleOf ==
  ASSUME Files!FileFits, NEW fd \in Files!Fd, NEW g \in Files!Fd, fd + Files!OFFSET_FD = g + Files!OFFSET_FD
  PROVE  fd = g
BY DEF Files!FileFits, Files!Fd, Files!OFFSET_FD

\* Which call a call is.
LEMMA FileCallIs ==
  ASSUME NEW c \in FileCalls
  PROVE  /\ c.fn = "HalFileStat" => c \in StatCall
         /\ c.fn = "HalFileSeek" => c \in SeekCall
         /\ c.fn \notin {"HalFileStat", "HalFileSeek"} => c = Files!NoCall
BY DEF FileCalls, StatCall, SeekCall, Files!NoCall

LEMMA NoFileCallIs == Files!NoCall \in FileCalls /\ Files!NoCall.fn = "none"
BY DEF FileCalls, Files!NoCall

\* A step of one task.
LEMMA OneCalls ==
  ASSUME FileTyped, NEW t \in Task, NEW c \in FileCalls,
         fileCall' = [fileCall EXCEPT ![t] = c]
  PROVE  /\ fileCall' \in [Task -> FileCalls] /\ fileCall'[t] = c
         /\ \A u \in Task : u # t => fileCall'[u] = fileCall[u]
BY DEF FileTyped

\* What opens and closes nothing keeps the books.
LEMMA BooksKept ==
  ASSUME OpenForSome, StatsApart, handles' = handles,
         \A fd \in Files!Fd : position'[fd] = Files!Closed <=> position[fd] = Files!Closed,
         \A u \in Task, fd \in Files!Fd : Stats(u, fd)' <=> Stats(u, fd)
  PROVE  OpenForSome' /\ StatsApart'
BY DEF OpenForSome, StatsApart

\* A seek leaves descriptors open.
LEMMA SeeksFacts ==
  ASSUME Files!FileFits, FileTyped, NEW fd \in Files!Fd, position[fd] # Files!Closed, NEW offset \in Int,
         NEW whence \in {"SEEK_SET", "SEEK_CUR", "SEEK_END"},
         Files!Seeks(fd, offset, whence)
  PROVE  /\ position' \in [Files!Fd -> 0..LengthMax \cup {Files!Closed}]
         /\ \A f \in Files!Fd : position'[f] = Files!Closed <=> position[f] = Files!Closed
         /\ whence = "SEEK_SET" /\ offset \in 0..LengthMax => position'[fd] = offset
<1> DEFINE to == Files!Target(position[fd], offset, whence)
<1>1. position' = IF to \in 0..LengthMax THEN [position EXCEPT ![fd] = to] ELSE position
  BY DEF Files!Seeks
<1>2. whence = "SEEK_SET" => to = offset BY DEF Files!Target
<1> HIDE DEF to
<1>3. CASE to \in 0..LengthMax
  <2>1. position' = [position EXCEPT ![fd] = to] /\ to # Files!Closed
    BY <1>1, <1>3 DEF Files!Closed, Files!FileFits
  <2> QED BY <1>2, <2>1, <1>3 DEF FileTyped
<1>4. CASE to \notin 0..LengthMax BY <1>1, <1>2, <1>4 DEF FileTyped
<1> QED BY <1>3, <1>4

LEMMA OpenKeeps ==
  ASSUME Files!FileFits, FileInv, NEW t \in Task, NEW truncates \in BOOLEAN,
         Files!HalFileOpen(t, truncates)
  PROVE  FileInv'
<1>1. PICK f \in Files!Free : /\ position' = [position EXCEPT ![f] = 0]
                        /\ handles' = handles \cup {f + Files!OFFSET_FD}
  BY DEF Files!HalFileOpen
<1>2. /\ fileCall' = fileCall /\ fileAnswer' = Files!NoCall /\ f \in Files!Fd /\ position[f] = Files!Closed
      /\ length' = 0 \/ length' = length
  BY DEF Files!HalFileOpen, Files!Silent, Files!Free
<1>3. /\ position' \in [Files!Fd -> 0..LengthMax \cup {Files!Closed}] /\ position'[f] # Files!Closed
      /\ \A g \in Files!Fd : g # f => position'[g] = position[g]
  BY <1>1, <1>2 DEF FileInv, FileTyped, Files!FileFits, Files!Closed
<1>4. FileTyped' BY <1>1, <1>2, <1>3 DEF FileInv, FileTyped, Files!FileFits
<1>5. /\ f + Files!OFFSET_FD \notin handles /\ \A u \in Task : ~Stats(u, f)
      /\ \A g \in Files!Fd : g # f => (g + Files!OFFSET_FD \in handles' <=> g + Files!OFFSET_FD \in handles)
      /\ f + Files!OFFSET_FD \in handles'
  <2>1. f + Files!OFFSET_FD \notin handles /\ \A u \in Task : ~Stats(u, f)
    BY <1>2 DEF FileInv, OpenForSome
  <2> QED BY <1>1, <1>2, <2>1, HandleOf
<1>6. \A u \in Task, g \in Files!Fd : Stats(u, g)' <=> Stats(u, g) BY <1>2 DEF Stats
<1>7. OpenForSome' /\ StatsApart' BY <1>3, <1>5, <1>6 DEF FileInv, OpenForSome, StatsApart
<1>8. SeeksHold' /\ SeeksKnow' BY <1>1, <1>2 DEF FileInv, SeeksHold, SeeksKnow
<1>9. Files!SeekExact' BY <1>2 DEF Files!SeekExact
<1> QED BY <1>4, <1>7, <1>8, <1>9 DEF FileInv

LEMMA CloseKeeps ==
  ASSUME Files!FileFits, FileInv, NEW t \in Task, NEW f \in Files!Fd, Files!HalFileClose(t, f)
  PROVE  FileInv'
<1>1. /\ position' = [position EXCEPT ![f] = Files!Closed] /\ f + Files!OFFSET_FD \in handles
      /\ handles' = handles \ {f + Files!OFFSET_FD} /\ fileCall' = fileCall /\ fileAnswer' = Files!NoCall
      /\ length' = length
      /\ \A u \in Task : fileCall[u].fn = "HalFileSeek" => fileCall[u].fd # f
  BY DEF Files!HalFileClose, Files!Silent
<1>2. /\ position' \in [Files!Fd -> 0..LengthMax \cup {Files!Closed}] /\ position'[f] = Files!Closed
      /\ \A g \in Files!Fd : g # f => position'[g] = position[g]
  BY <1>1 DEF FileInv, FileTyped
<1>3. FileTyped' BY <1>1, <1>2 DEF FileInv, FileTyped
<1>4. /\ \A g \in Files!Fd : g # f => (g + Files!OFFSET_FD \in handles' <=> g + Files!OFFSET_FD \in handles)
      /\ f + Files!OFFSET_FD \notin handles' /\ \A u \in Task : ~Stats(u, f)
  BY <1>1, HandleOf DEF FileInv, StatsApart
<1>5. \A u \in Task, g \in Files!Fd : Stats(u, g)' <=> Stats(u, g) BY <1>1 DEF Stats
<1>6. OpenForSome' /\ StatsApart' BY <1>2, <1>4, <1>5 DEF FileInv, OpenForSome, StatsApart
<1>7. SeeksHold'
  <2> SUFFICES ASSUME NEW u \in Task, fileCall[u].fn = "HalFileSeek"
               PROVE  fileCall[u].fd + Files!OFFSET_FD \in handles'
    BY <1>1 DEF SeeksHold
  <2>1. fileCall[u].fd \in Files!Fd /\ fileCall[u].fd # f /\ fileCall[u].fd + Files!OFFSET_FD \in handles
    BY <1>1, FileCallIs DEF FileInv, FileTyped, SeeksHold, SeekCall
  <2> QED BY <1>4, <2>1
<1>8. SeeksKnow' /\ Files!SeekExact' BY <1>1 DEF FileInv, SeeksKnow, Files!SeekExact
<1> QED BY <1>3, <1>6, <1>7, <1>8 DEF FileInv

\* Another use of a descriptor is noted by the seeks of it.
LEMMA UsedFacts ==
  ASSUME FileInv, NEW f \in Files!Fd, Files!Used(f)
  PROVE  /\ fileCall' \in [Task -> FileCalls]
         /\ \A u \in Task, g \in Files!Fd : Stats(u, g)' <=> Stats(u, g)
         /\ (SeeksHold /\ handles' = handles) => SeeksHold'
         /\ SeeksKnow'
<1>1. fileCall \in [Task -> FileCalls] BY DEF FileInv, FileTyped
<1>2. ASSUME NEW u \in Task
      PROVE  /\ fileCall'[u] \in FileCalls /\ fileCall'[u].fn = fileCall[u].fn
             /\ fileCall[u].fn # "none" => fileCall'[u].fd = fileCall[u].fd
             /\ fileCall[u].fn = "HalFileSeek" /\ SeekKnows(fileCall[u])
                  => SeekKnows(fileCall'[u])
  <2>1. CASE fileCall[u].fn = "HalFileSeek" /\ fileCall[u].fd = f
    <3>1. PICK c : c = fileCall[u] OBVIOUS
    <3>2. c \in SeekCall /\ fileCall'[u] = [c EXCEPT !.alone = FALSE]
      BY <1>1, <2>1, <3>1, FileCallIs DEF Files!Used
    <3>3. PICK d : d = [c EXCEPT !.alone = FALSE] OBVIOUS
    <3>4. /\ d \in SeekCall /\ d.fn = c.fn /\ d.fd = c.fd /\ d.at = c.at
          /\ d.whence = c.whence /\ d.offset = c.offset /\ d.target = c.target
          /\ d.len = c.len
      BY <3>2, <3>3 DEF SeekCall
    <3>5. SeekKnows(c) => SeekKnows(d) BY <3>4 DEF SeekKnows
    <3>6. d \in FileCalls BY <3>4 DEF FileCalls
    <3> QED BY <3>1, <3>2, <3>3, <3>4, <3>5, <3>6
  <2>2. CASE ~(fileCall[u].fn = "HalFileSeek" /\ fileCall[u].fd = f)
    <3>1. fileCall'[u] = fileCall[u] BY <2>2 DEF Files!Used
    <3> QED BY <1>1, <3>1
  <2> QED BY <2>1, <2>2
<1>3. fileCall' \in [Task -> FileCalls]
  <2>1. fileCall' = [u \in Task |-> fileCall'[u]] BY DEF Files!Used
  <2> QED BY <1>2, <2>1
<1>4. \A u \in Task, g \in Files!Fd : Stats(u, g)' <=> Stats(u, g) BY <1>2 DEF Stats
<1>5. SeeksHold /\ handles' = handles => SeeksHold' BY <1>2 DEF SeeksHold
<1>6. SeeksKnow' BY <1>2 DEF FileInv, SeeksKnow
<1> QED BY <1>3, <1>4, <1>5, <1>6

LEMMA ReadWriteKeeps ==
  ASSUME Files!FileFits, FileInv, NEW t \in Task, NEW f \in Files!Fd,
         Files!HalFileRead(t, f) \/ Files!HalFileWrite(t, f)
  PROVE  FileInv'
<1>1. /\ position' = [position EXCEPT ![f] = position[f] + 1]
      /\ f + Files!OFFSET_FD \in handles /\ Files!Used(f) /\ handles' = handles /\ fileAnswer' = Files!NoCall
      /\ \/ position[f] < length /\ length' = length
         \/ /\ position[f] < LengthMax
            /\ length' = IF position[f] >= length THEN position[f] + 1 ELSE length
  BY DEF Files!HalFileRead, Files!HalFileWrite, Files!Silent
<1>2. position[f] \in 0..LengthMax /\ position[f] # Files!Closed /\ length \in 0..LengthMax
  BY <1>1 DEF FileInv, OpenForSome, FileTyped
<1>3. PICK p : p = position[f] + 1 OBVIOUS
<1>4. p \in 0..LengthMax /\ p # Files!Closed /\ length' \in 0..LengthMax
  BY <1>1, <1>2, <1>3 DEF Files!FileFits, Files!Closed
<1>5. position' \in [Files!Fd -> 0..LengthMax \cup {Files!Closed}]
      /\ \A g \in Files!Fd : position'[g] = Files!Closed <=> position[g] = Files!Closed
  BY <1>1, <1>2, <1>3, <1>4 DEF FileInv, FileTyped
<1>6. FileTyped' BY <1>1, <1>4, <1>5, UsedFacts DEF FileInv, FileTyped
<1>7. OpenForSome' /\ StatsApart'
  <2>1. \A u \in Task, g \in Files!Fd : Stats(u, g)' <=> Stats(u, g) BY <1>1, UsedFacts
  <2> QED BY <1>1, <1>5, <2>1, BooksKept DEF FileInv
<1>8. SeeksHold' /\ SeeksKnow' BY <1>1, UsedFacts DEF FileInv
<1>9. Files!SeekExact' BY <1>1 DEF Files!SeekExact
<1> QED BY <1>6, <1>7, <1>8, <1>9 DEF FileInv

LEMMA StatKeeps ==
  ASSUME Files!FileFits, FileInv, NEW t \in Task, Files!HalFileStat(t)
  PROVE  FileInv'
<1>1. PICK f \in Files!Free :
        /\ position' = [position EXCEPT ![f] = 0]
        /\ fileCall' = [fileCall EXCEPT ![t] = [fn |-> "HalFileStat", fd |-> f, at |-> "seek"]]
  BY DEF Files!HalFileStat
<1>2. PICK c : c = [fn |-> "HalFileStat", fd |-> f, at |-> "seek"] OBVIOUS
<1>3. /\ c \in FileCalls /\ c.fn = "HalFileStat" /\ c.fd = f /\ f \in Files!Fd
      /\ position[f] = Files!Closed
  BY <1>2 DEF FileCalls, StatCall, Files!Free
<1>4. /\ fileCall' \in [Task -> FileCalls] /\ fileCall'[t] = c
      /\ \A u \in Task : u # t => fileCall'[u] = fileCall[u]
  BY <1>1, <1>2, <1>3, OneCalls DEF FileInv
<1>5. /\ length' = length /\ handles' = handles /\ fileAnswer' = Files!NoCall
      /\ fileCall[t].fn = "none"
  BY NoFileCallIs DEF Files!HalFileStat, Files!Silent, Files!Calls
<1>6. /\ position' \in [Files!Fd -> 0..LengthMax \cup {Files!Closed}] /\ position'[f] # Files!Closed
      /\ \A g \in Files!Fd : g # f => position'[g] = position[g]
  BY <1>1, <1>3 DEF FileInv, FileTyped, Files!FileFits, Files!Closed
<1>7. FileTyped' BY <1>4, <1>5, <1>6 DEF FileInv, FileTyped
<1>8. f + Files!OFFSET_FD \notin handles /\ \A u \in Task : ~Stats(u, f)
  BY <1>3 DEF FileInv, OpenForSome
<1>9. \A u \in Task, g \in Files!Fd : Stats(u, g)' <=> Stats(u, g) \/ (u = t /\ g = f)
  BY <1>3, <1>4, <1>5 DEF Stats
<1>10. OpenForSome' BY <1>5, <1>6, <1>9 DEF FileInv, OpenForSome
<1>11. StatsApart' BY <1>5, <1>8, <1>9 DEF FileInv, StatsApart
<1>12. SeeksHold' /\ SeeksKnow' BY <1>3, <1>4, <1>5 DEF FileInv, SeeksHold, SeeksKnow
<1>13. Files!SeekExact' BY <1>5 DEF Files!SeekExact
<1> QED BY <1>7, <1>10, <1>11, <1>12, <1>13 DEF FileInv

LEMMA StatSeeksKeeps ==
  ASSUME Files!FileFits, FileInv, NEW t \in Task, Files!StatSeeks(t)
  PROVE  FileInv'
<1>1. /\ fileCall[t].fn = "HalFileStat" /\ Files!Seeks(fileCall[t].fd, 0, "SEEK_END")
      /\ fileCall' = [fileCall EXCEPT ![t].at = "close"]
      /\ length' = length /\ handles' = handles /\ fileAnswer' = Files!NoCall
  BY DEF Files!StatSeeks, Files!Silent
<1>2. PICK c, d : c = fileCall[t] /\ d = [c EXCEPT !.at = "close"] OBVIOUS
<1>3. c \in StatCall BY <1>1, <1>2, FileCallIs DEF FileInv, FileTyped
<1>4. d \in FileCalls /\ d.fn = "HalFileStat" /\ d.fd = c.fd /\ c.fd \in Files!Fd
  BY <1>2, <1>3 DEF FileCalls, StatCall
<1>5. /\ fileCall' \in [Task -> FileCalls] /\ fileCall'[t] = d
      /\ \A u \in Task : u # t => fileCall'[u] = fileCall[u]
  <2>1. fileCall' = [fileCall EXCEPT ![t] = d] BY <1>1, <1>2
  <2> QED BY <1>4, <2>1, OneCalls DEF FileInv
<1>6. position[c.fd] # Files!Closed BY <1>1, <1>2, <1>4 DEF FileInv, OpenForSome, Stats
<1>7. /\ position' \in [Files!Fd -> 0..LengthMax \cup {Files!Closed}]
      /\ \A f \in Files!Fd : position'[f] = Files!Closed <=> position[f] = Files!Closed
  BY <1>1, <1>2, <1>4, <1>6, SeeksFacts DEF FileInv
<1>8. FileTyped' BY <1>1, <1>5, <1>7 DEF FileInv, FileTyped
<1>9. OpenForSome' /\ StatsApart'
  <2>1. \A u \in Task, f \in Files!Fd : Stats(u, f)' <=> Stats(u, f)
    BY <1>1, <1>2, <1>4, <1>5 DEF Stats
  <2> QED BY <1>1, <1>7, <2>1, BooksKept DEF FileInv
<1>10. SeeksHold' /\ SeeksKnow' BY <1>1, <1>4, <1>5 DEF FileInv, SeeksHold, SeeksKnow
<1>11. Files!SeekExact' BY <1>1 DEF Files!SeekExact
<1> QED BY <1>8, <1>9, <1>10, <1>11 DEF FileInv

LEMMA StatClosesKeeps ==
  ASSUME Files!FileFits, FileInv, NEW t \in Task, Files!StatCloses(t)
  PROVE  FileInv'
<1>1. PICK f : f = fileCall[t].fd OBVIOUS
<1>2. /\ Stats(t, f) /\ position' = [position EXCEPT ![f] = Files!Closed]
      /\ fileCall' = [fileCall EXCEPT ![t] = Files!NoCall]
      /\ length' = length /\ handles' = handles /\ fileAnswer' = Files!NoCall
  BY <1>1 DEF Files!StatCloses, Files!Silent, Stats
<1>3. f \in Files!Fd BY <1>1, <1>2, FileCallIs DEF FileInv, FileTyped, Stats, StatCall
<1>4. /\ fileCall' \in [Task -> FileCalls] /\ fileCall'[t] = Files!NoCall
      /\ \A u \in Task : u # t => fileCall'[u] = fileCall[u]
  BY <1>2, NoFileCallIs, OneCalls DEF FileInv
<1>5. /\ position' \in [Files!Fd -> 0..LengthMax \cup {Files!Closed}] /\ position'[f] = Files!Closed
      /\ \A g \in Files!Fd : g # f => position'[g] = position[g]
  BY <1>2, <1>3 DEF FileInv, FileTyped
<1>6. FileTyped' BY <1>2, <1>4, <1>5 DEF FileInv, FileTyped
<1>7. f + Files!OFFSET_FD \notin handles /\ \A u \in Task : Stats(u, f) => u = t
  BY <1>2, <1>3 DEF FileInv, StatsApart
<1>8. \A u \in Task, g \in Files!Fd : Stats(u, g)' <=> Stats(u, g) /\ u # t
  BY <1>4, NoFileCallIs DEF Stats
<1>9. \A g \in Files!Fd : Stats(t, g) => g = f BY <1>1 DEF Stats
<1>10. OpenForSome' BY <1>2, <1>5, <1>7, <1>8, <1>9 DEF FileInv, OpenForSome
<1>11. StatsApart' BY <1>2, <1>8 DEF FileInv, StatsApart
<1>12. SeeksHold' /\ SeeksKnow'
  BY <1>2, <1>4, NoFileCallIs DEF FileInv, SeeksHold, SeeksKnow
<1>13. Files!SeekExact' BY <1>2 DEF Files!SeekExact
<1> QED BY <1>6, <1>10, <1>11, <1>12, <1>13 DEF FileInv

LEMMA SeekKeeps ==
  ASSUME Files!FileFits, FileInv, NEW t \in Task, NEW f \in Files!Fd, NEW offset \in Files!Offset,
         NEW whence \in Files!Whence, Files!HalFileSeek(t, f, offset, whence)
  PROVE  FileInv'
<1>1. PICK p, g : /\ p = (IF whence = "SEEK_END_FS" THEN "seek" ELSE "end")
                  /\ g = offset + (IF whence = "SEEK_CUR_FS" THEN position[f] ELSE 0)
  OBVIOUS
<1>2. PICK c : c = [fn |-> "HalFileSeek", fd |-> f, offset |-> offset,
                    whence |-> whence, at |-> p, len |-> position[f], len2 |-> 0,
                    alone |-> TRUE, target |-> g]
  OBVIOUS
<1>3. /\ fileCall' = [fileCall EXCEPT ![t] = c] /\ fileCall[t].fn = "none"
      /\ f + Files!OFFSET_FD \in handles
      /\ length' = length /\ handles' = handles /\ fileAnswer' = Files!NoCall
      /\ position' = position
  BY <1>1, <1>2, NoFileCallIs DEF Files!HalFileSeek, Files!Calls, Files!Silent
<1>4. position[f] \in 0..LengthMax /\ offset \in Int /\ g \in Int /\ 0 \in 0..LengthMax
  <2>1. position[f] \in 0..LengthMax BY <1>3 DEF FileInv, OpenForSome, FileTyped
  <2>2. offset \in Int /\ 0 \in 0..LengthMax BY DEF Files!Offset, Files!FileFits
  <2> QED BY <1>1, <2>1, <2>2
<1>5. /\ c \in SeekCall /\ c.fn = "HalFileSeek" /\ c.fd = f /\ c.at = p
      /\ c.whence = whence /\ c.offset = offset /\ c.target = g /\ c.len = position[f]
  BY <1>1, <1>2, <1>4 DEF SeekCall
<1>6. SeekKnows(c) BY <1>1, <1>4, <1>5 DEF SeekKnows
<1>7. /\ fileCall' \in [Task -> FileCalls] /\ fileCall'[t] = c
      /\ \A u \in Task : u # t => fileCall'[u] = fileCall[u]
  BY <1>3, <1>5, OneCalls DEF FileInv, FileCalls
<1>8. FileTyped' BY <1>3, <1>7 DEF FileInv, FileTyped
<1>9. OpenForSome' /\ StatsApart'
  <2>1. \A u \in Task, h \in Files!Fd : Stats(u, h)' <=> Stats(u, h)
    BY <1>3, <1>5, <1>7 DEF Stats
  <2> QED BY <1>3, <2>1, BooksKept DEF FileInv
<1>10. SeeksHold' /\ SeeksKnow'
  BY <1>3, <1>5, <1>6, <1>7 DEF FileInv, SeeksHold, SeeksKnow
<1>11. Files!SeekExact' BY <1>3 DEF Files!SeekExact
<1> QED BY <1>8, <1>9, <1>10, <1>11 DEF FileInv

LEMMA SeekEndKeeps ==
  ASSUME Files!FileFits, FileInv, NEW t \in Task, Files!SeekEnd(t)
  PROVE  FileInv'
<1>1. PICK c, o : /\ c = fileCall[t]
                  /\ o = (IF c.whence = "SEEK_CUR_FS" THEN c.offset + c.len ELSE c.offset)
  OBVIOUS
<1>2. PICK d : d = [c EXCEPT !.at = "seek", !.len2 = length, !.offset = o] OBVIOUS
<1>3. /\ c.fn = "HalFileSeek" /\ c.at = "end" /\ Files!Seeks(c.fd, 0, "SEEK_END")
      /\ fileCall' = [fileCall EXCEPT ![t] = d]
      /\ length' = length /\ handles' = handles /\ fileAnswer' = Files!NoCall
  BY <1>1, <1>2 DEF Files!SeekEnd, Files!Silent
<1>4. c \in SeekCall /\ SeekKnows(c) /\ length \in 0..LengthMax
  BY <1>1, <1>3, FileCallIs DEF FileInv, FileTyped, SeeksKnow
<1>5. c.offset \in Int /\ c.len \in Int /\ c.fd \in Files!Fd /\ o \in Int
  BY <1>1, <1>4 DEF SeekCall
<1>6. /\ d \in SeekCall /\ d.fn = "HalFileSeek" /\ d.fd = c.fd /\ d.at = "seek"
      /\ d.whence = c.whence /\ d.offset = o /\ d.target = c.target
  BY <1>2, <1>4, <1>5 DEF SeekCall
<1>7. SeekKnows(d) BY <1>1, <1>3, <1>4, <1>6 DEF SeekKnows
<1>8. /\ fileCall' \in [Task -> FileCalls] /\ fileCall'[t] = d
      /\ \A u \in Task : u # t => fileCall'[u] = fileCall[u]
  BY <1>3, <1>6, OneCalls DEF FileInv, FileCalls
<1>9. c.fd + Files!OFFSET_FD \in handles /\ position[c.fd] # Files!Closed
  BY <1>1, <1>3, <1>5 DEF FileInv, SeeksHold, OpenForSome
<1>10. /\ position' \in [Files!Fd -> 0..LengthMax \cup {Files!Closed}]
       /\ \A f \in Files!Fd : position'[f] = Files!Closed <=> position[f] = Files!Closed
  BY <1>3, <1>5, <1>9, SeeksFacts DEF FileInv
<1>11. FileTyped' BY <1>3, <1>8, <1>10 DEF FileInv, FileTyped
<1>12. OpenForSome' /\ StatsApart'
  <2>1. \A u \in Task, h \in Files!Fd : Stats(u, h)' <=> Stats(u, h)
    BY <1>1, <1>3, <1>6, <1>8 DEF Stats
  <2> QED BY <1>3, <1>10, <2>1, BooksKept DEF FileInv
<1>13. SeeksHold' /\ SeeksKnow'
  BY <1>3, <1>6, <1>7, <1>8, <1>9 DEF FileInv, SeeksHold, SeeksKnow
<1>14. Files!SeekExact' BY <1>3 DEF Files!SeekExact
<1> QED BY <1>11, <1>12, <1>13, <1>14 DEF FileInv

LEMMA SeekReturnsKeeps ==
  ASSUME Files!FileFits, FileInv, NEW t \in Task, Files!SeekReturns(t)
  PROVE  FileInv'
<1>1. PICK c : c = fileCall[t] OBVIOUS
<1>2. /\ c.fn = "HalFileSeek" /\ c.at = "seek"
      /\ fileCall' = [fileCall EXCEPT ![t] = Files!NoCall] /\ length' = length /\ handles' = handles
      /\ fileAnswer' = IF c.alone THEN Files!Verdict(c, position'[c.fd]) ELSE Files!NoCall
  BY <1>1 DEF Files!SeekReturns
<1>3. c \in SeekCall /\ SeekKnows(c)
  BY <1>1, <1>2, FileCallIs DEF FileInv, FileTyped, SeeksKnow
<1>4. /\ c.fd \in Files!Fd /\ c.offset \in Int /\ c.target \in Int /\ c.len \in 0..LengthMax
      /\ c.len2 \in 0..LengthMax /\ c.whence \in Files!Whence
  BY <1>3 DEF SeekCall
<1>5. c.fd + Files!OFFSET_FD \in handles /\ position[c.fd] # Files!Closed
  BY <1>1, <1>2, <1>4 DEF FileInv, SeeksHold, OpenForSome
<1>6. PICK w \in {"SEEK_SET", "SEEK_CUR", "SEEK_END"} :
        w = IF c.whence = "SEEK_END_FS" THEN "SEEK_END" ELSE "SEEK_SET"
  OBVIOUS
<1>7. IF Files!Beyond(c) THEN Files!Seeks(c.fd, c.len, "SEEK_SET") ELSE Files!Seeks(c.fd, c.offset, w)
  BY <1>1, <1>6 DEF Files!SeekReturns
<1>8. /\ position' \in [Files!Fd -> 0..LengthMax \cup {Files!Closed}]
      /\ \A f \in Files!Fd : position'[f] = Files!Closed <=> position[f] = Files!Closed
      /\ Files!Beyond(c) => position'[c.fd] = c.len
      /\ (~Files!Beyond(c) /\ w = "SEEK_SET" /\ c.offset \in 0..LengthMax)
           => position'[c.fd] = c.offset
  <2>1. CASE Files!Beyond(c)
    <3>1. Files!Seeks(c.fd, c.len, "SEEK_SET") /\ c.len \in Int BY <1>4, <1>7, <2>1
    <3> QED BY <1>4, <1>5, <2>1, <3>1, SeeksFacts DEF FileInv
  <2>2. CASE ~Files!Beyond(c) BY <1>4, <1>5, <1>6, <1>7, <2>2, SeeksFacts DEF FileInv
  <2> QED BY <2>1, <2>2
<1>9. /\ fileCall' \in [Task -> FileCalls] /\ fileCall'[t] = Files!NoCall
      /\ \A u \in Task : u # t => fileCall'[u] = fileCall[u]
  BY <1>2, NoFileCallIs, OneCalls DEF FileInv
<1>10. FileTyped' BY <1>2, <1>8, <1>9 DEF FileInv, FileTyped
<1>11. OpenForSome' /\ StatsApart'
  <2>1. \A u \in Task, h \in Files!Fd : Stats(u, h)' <=> Stats(u, h)
    BY <1>1, <1>2, <1>9, NoFileCallIs DEF Stats
  <2> QED BY <1>2, <1>8, <2>1, BooksKept DEF FileInv
<1>12. SeeksHold' /\ SeeksKnow'
  BY <1>2, <1>9, NoFileCallIs DEF FileInv, SeeksHold, SeeksKnow
<1>13. Files!SeekExact'
  <2>1. CASE ~c.alone \/ c.whence = "SEEK_END_FS" \/ c.target < 0
    <3>1. fileAnswer' = Files!NoCall BY <1>2, <2>1 DEF Files!Verdict
    <3> QED BY <3>1 DEF Files!SeekExact
  <2>2. CASE c.alone /\ c.whence # "SEEK_END_FS" /\ ~(c.target < 0)
    <3>1. c.target = c.offset /\ w = "SEEK_SET"
      BY <1>2, <1>3, <1>4, <1>6, <2>2 DEF SeekKnows, Files!Whence
    <3>2. Files!Beyond(c) <=> c.target > c.len2 BY <2>2, <3>1 DEF Files!Beyond
    <3>3. position'[c.fd] = IF c.target > c.len2 THEN c.len ELSE c.target
      BY <1>4, <1>8, <2>2, <3>1, <3>2 DEF Files!FileFits
    <3>4. PICK x, y : x = position'[c.fd] /\ y = IF c.target > c.len2 THEN c.len ELSE c.target
      OBVIOUS
    <3>5. fileAnswer' = [fn |-> "HalFileSeek", to |-> x, expected |-> y]
      BY <1>2, <2>2, <3>4 DEF Files!Verdict
    <3> QED BY <3>3, <3>4, <3>5 DEF Files!SeekExact
  <2> QED BY <2>1, <2>2
<1> QED BY <1>10, <1>11, <1>12, <1>13 DEF FileInv

LEMMA FileStarts == ASSUME Files!FileFits, Files!Init PROVE FileInv
<1>1. FileTyped BY NoFileCallIs DEF Files!Init, FileTyped, Files!FileFits
<1>2. \A t \in Task : fileCall[t].fn = "none" BY NoFileCallIs DEF Files!Init
<1>3. OpenForSome /\ StatsApart BY <1>2 DEF Files!Init, OpenForSome, StatsApart, Stats
<1>4. SeeksHold /\ SeeksKnow /\ Files!SeekExact
  BY <1>2 DEF Files!Init, SeeksHold, SeeksKnow, Files!SeekExact
<1> QED BY <1>1, <1>3, <1>4 DEF FileInv

LEMMA FileStep == ASSUME Files!FileFits, FileInv, [Files!Next]_(Files!vars) PROVE FileInv'
<1>1. CASE UNCHANGED Files!vars
  <2>1. /\ length' = length /\ position' = position /\ handles' = handles
        /\ fileCall' = fileCall /\ fileAnswer' = fileAnswer
    BY <1>1 DEF Files!vars
  <2> QED BY <2>1 DEF FileInv, FileTyped, OpenForSome, StatsApart, Stats, SeeksHold,
       SeeksKnow, Files!SeekExact
<1>2. CASE Files!Next
  BY <1>2, OpenKeeps, CloseKeeps, ReadWriteKeeps, StatKeeps, StatSeeksKeeps,
     StatClosesKeeps, SeekKeeps, SeekEndKeeps, SeekReturnsKeeps DEF Files!Next
<1> QED BY <1>1, <1>2

LEMMA BooksBalanced == ASSUME Files!FileFits, FileInv PROVE Files!DescriptorsBalanced
<1>1. ASSUME NEW f \in Files!Fd, Files!Open(f)
      PROVE  f \in {h - Files!OFFSET_FD : h \in handles} \cup
                     {fileCall[t].fd : t \in {u \in Task : fileCall[u].fn = "HalFileStat"}}
  <2>1. CASE f + Files!OFFSET_FD \in handles
    <3>1. (f + Files!OFFSET_FD) - Files!OFFSET_FD = f
      BY DEF Files!Fd, Files!FileFits, Files!OFFSET_FD
    <3> QED BY <2>1, <3>1
  <2>2. CASE \E t \in Task : Stats(t, f) BY <2>2 DEF Stats
  <2> QED BY <1>1, <2>1, <2>2 DEF Files!Open, FileInv, OpenForSome
<1>2. ASSUME NEW h \in handles PROVE h - Files!OFFSET_FD \in Files!Fd /\ Files!Open(h - Files!OFFSET_FD)
  <2>1. PICK f \in Files!Fd : h = f + Files!OFFSET_FD BY DEF FileInv, FileTyped
  <2>2. h - Files!OFFSET_FD = f BY <2>1 DEF Files!Fd, Files!FileFits, Files!OFFSET_FD
  <2> QED BY <2>1, <2>2 DEF Files!Open, FileInv, OpenForSome
<1>3. ASSUME NEW t \in Task, fileCall[t].fn = "HalFileStat"
      PROVE  fileCall[t].fd \in Files!Fd /\ Files!Open(fileCall[t].fd)
  <2>1. fileCall[t].fd \in Files!Fd BY <1>3, FileCallIs DEF FileInv, FileTyped, StatCall
  <2> QED BY <1>3, <2>1 DEF Files!Open, FileInv, OpenForSome, Stats
<1> QED BY <1>1, <1>2, <1>3 DEF Files!DescriptorsBalanced

\* Of the files, however many tasks share descriptors: every descriptor that is open is
\* the application's or one HalFileStat will close, and a seek nobody disturbed goes
\* where it was told, or past the end nowhere (hal_file.c:131-188).
THEOREM FilesStayBalanced == ASSUME Files!FileFits PROVE Files!Spec => [](Files!DescriptorsBalanced /\ Files!SeekExact)
<1>1. Files!Init => FileInv BY FileStarts
<1>2. FileInv /\ [Files!Next]_(Files!vars) => FileInv' BY FileStep
<1>3. FileInv => Files!DescriptorsBalanced /\ Files!SeekExact BY BooksBalanced DEF FileInv
<1> QED BY <1>1, <1>2, <1>3, PTL DEF Files!Spec

--------------------
\* The pins, for any tasks, pins and registrations.

CONSTANTS InterruptId, OutputId, Registration
VARIABLES isr_cfg_info, gpiote, g_gpio_dir, g_gpio_out, pins, gpioCall, called

Pins == INSTANCE Gpio

IsrFns == {"IoTGpioRegisterIsrFunc", "IoTGpioUnregisterIsrFunc", "IoTGpioSetIsrMode"}
OutFns == {"IoTGpioSetDir", "IoTGpioSetOutputVal", "IoTGpioDeinit"}
Func == {Pins!NoFunc} \cup (InterruptId \X Registration)
Entry == [func : Func, arg : Func, mode : Pins!Mode \cup {"none"}, initialized : BOOLEAN]
Hardware == [io_evt_cb : BOOLEAN, mode : Pins!Mode \cup {"none"}]
Pin == [dir : Pins!Dir, level : {0, 1}]
Fns == IsrFns \cup OutFns
Places == {"none", "arg", "config", "init", "noted", "dir"} \cup Registration
PinCall == [fn : Fns \cup {"none"}, at : Places,
            id : InterruptId \cup OutputId \cup {0}]

GpioTyped ==
  /\ isr_cfg_info \in [InterruptId -> Entry] /\ gpiote \in [InterruptId -> Hardware]
  /\ g_gpio_dir \in [OutputId -> Pins!Dir] /\ g_gpio_out \in [OutputId -> {0, 1}]
  /\ pins \in [OutputId -> Pin] /\ gpioCall \in [Task -> PinCall]

InIsr(t, i) == gpioCall[t].fn \in IsrFns /\ gpioCall[t].id = i
InOut(t, i) == gpioCall[t].fn \in OutFns /\ gpioCall[t].id = i

\* A call is of a pin that can have it, and of a pin nobody else is in a call of.
CallsApart ==
  \A t \in Task :
    /\ gpioCall[t].fn \in IsrFns => gpioCall[t].id \in InterruptId
    /\ gpioCall[t].fn \in OutFns => /\ gpioCall[t].id \in OutputId
                                     /\ gpioCall[t].at # "config"
    /\ \A u \in Task :
         /\ gpioCall[t].fn # "none" /\ gpioCall[u].fn # "none"
         /\ gpioCall[t].id = gpioCall[u].id
         => t = u

\* What is in the table of a pin, by where the call that changes it is.
EntryBooked(c, e) ==
  /\ c.fn = "IoTGpioRegisterIsrFunc" /\ c.at = "config" => e.arg = e.func
  /\ c.fn = "IoTGpioUnregisterIsrFunc" =>
       e.func = Pins!NoFunc /\ (c.at = "config" => e.arg = Pins!NoFunc)
  /\ c.fn = "IoTGpioSetIsrMode" => e.arg = e.func
EntryAgrees(e, h) ==
  e.mode = h.mode /\ (e.func # Pins!NoFunc => h.io_evt_cb) /\ e.arg = e.func
EntriesBooked ==
  \A i \in InterruptId :
    /\ isr_cfg_info[i].func # Pins!NoFunc => isr_cfg_info[i].func[1] = i
    /\ \A t \in Task : InIsr(t, i) => EntryBooked(gpioCall[t], isr_cfg_info[i])
    /\ (\A t \in Task : ~InIsr(t, i)) => EntryAgrees(isr_cfg_info[i], gpiote[i])

\* Of a direction and a value one is as noted.
PinBooked(c, p, dir, out) ==
  /\ c.fn = "IoTGpioSetDir" => p.level = out
  /\ c.fn = "IoTGpioSetOutputVal" => p.dir = dir
  /\ c.fn = "IoTGpioDeinit" => p.dir = "IOT_GPIO_DIR_IN" /\ p.level = 0
PinAgrees(p, dir, out) == p.dir = dir /\ p.level = out
PinsBooked ==
  \A i \in OutputId :
    /\ \A t \in Task : InOut(t, i) =>
         PinBooked(gpioCall[t], pins[i], g_gpio_dir[i], g_gpio_out[i])
    /\ (\A t \in Task : ~InOut(t, i)) =>
         PinAgrees(pins[i], g_gpio_dir[i], g_gpio_out[i])

GpioInv == /\ GpioTyped /\ CallsApart /\ EntriesBooked /\ PinsBooked /\ Pins!CallbacksOwn

--------------------
\* One task at one pin.

LEMMA NoPinCallIs == Pins!NoCall \in PinCall /\ Pins!NoCall.fn = "none"
BY DEF Pins!NoCall, PinCall, Places

\* A step of t at the pin i, which nobody else is in a call of.
AtPin(t, i, fns) ==
  /\ \/ gpioCall[t].fn = "none" /\ \A u \in Task : gpioCall[u].fn # "none" => gpioCall[u].id # i
     \/ gpioCall[t].fn \in fns /\ gpioCall[t].id = i
  /\ gpioCall' \in [Task -> PinCall]
  /\ \A u \in Task : u # t => gpioCall'[u] = gpioCall[u]
  /\ called' = Pins!NotCalled

LEMMA ApartKept ==
  ASSUME GpioInv, NEW t \in Task, NEW i, NEW fns \in {IsrFns, OutFns}, AtPin(t, i, fns),
         fns = IsrFns => i \in InterruptId, fns = OutFns => i \in OutputId,
         gpioCall'[t].fn = "none" \/ (gpioCall'[t].fn \in fns /\ gpioCall'[t].id = i),
         gpioCall'[t].fn \in OutFns => gpioCall'[t].at # "config"
  PROVE  CallsApart'
<1>1. \A u \in Task : u # t => gpioCall'[u] = gpioCall[u] BY DEF AtPin
<1>2. \A u \in Task : u # t /\ gpioCall[u].fn # "none" => gpioCall[u].id # i
  BY DEF AtPin, GpioInv, CallsApart, IsrFns, OutFns
<1>3. /\ gpioCall'[t].fn \in IsrFns => gpioCall'[t].id \in InterruptId
      /\ gpioCall'[t].fn \in OutFns => gpioCall'[t].id \in OutputId
      /\ gpioCall'[t].fn # "none" => gpioCall'[t].id = i
  BY DEF IsrFns, OutFns
<1> QED BY <1>1, <1>2, <1>3 DEF GpioInv, CallsApart

LEMMA OwnKept == ASSUME NEW t, NEW i, NEW fns, AtPin(t, i, fns) PROVE Pins!CallbacksOwn'
BY DEF AtPin, Pins!CallbacksOwn

LEMMA IsrKeeps ==
  ASSUME GpioInv, NEW t \in Task, NEW i \in InterruptId, AtPin(t, i, IsrFns),
         UNCHANGED Pins!outputVars,
         isr_cfg_info' \in [InterruptId -> Entry], gpiote' \in [InterruptId -> Hardware],
         \A j \in InterruptId : j # i => /\ isr_cfg_info'[j] = isr_cfg_info[j]
                                         /\ gpiote'[j] = gpiote[j],
         isr_cfg_info'[i].func # Pins!NoFunc => isr_cfg_info'[i].func[1] = i,
         \/ /\ gpioCall'[t].fn \in IsrFns /\ gpioCall'[t].id = i
            /\ EntryBooked(gpioCall'[t], isr_cfg_info'[i])
         \/ gpioCall'[t].fn = "none" /\ EntryAgrees(isr_cfg_info'[i], gpiote'[i])
  PROVE  GpioInv'
<1>1. \A u \in Task : u # t => gpioCall'[u] = gpioCall[u] /\ ~InIsr(u, i)
  BY DEF AtPin, GpioInv, CallsApart, InIsr, IsrFns
<1>2. /\ g_gpio_dir' = g_gpio_dir /\ g_gpio_out' = g_gpio_out /\ pins' = pins
  BY DEF Pins!outputVars
<1>3. GpioTyped' BY <1>2 DEF AtPin, GpioInv, GpioTyped
<1>4. CallsApart' BY ApartKept DEF IsrFns, OutFns
<1>5. \A j \in InterruptId, u \in Task : (j # i \/ u # t) => (InIsr(u, j)' <=> InIsr(u, j))
  BY <1>1 DEF InIsr, AtPin, IsrFns
<1>6. EntriesBooked'
  <2> SUFFICES ASSUME NEW j \in InterruptId
               PROVE  /\ isr_cfg_info'[j].func # Pins!NoFunc => isr_cfg_info'[j].func[1] = j
                      /\ \A u \in Task : InIsr(u, j)' =>
                           EntryBooked(gpioCall'[u], isr_cfg_info'[j])
                      /\ (\A u \in Task : ~InIsr(u, j)') =>
                           EntryAgrees(isr_cfg_info'[j], gpiote'[j])
    BY DEF EntriesBooked
  <2>1. CASE j = i
    <3>1. \A u \in Task : u # t => ~InIsr(u, j)' BY <1>1, <1>5, <2>1
    <3>2. CASE /\ gpioCall'[t].fn \in IsrFns /\ gpioCall'[t].id = i
               /\ EntryBooked(gpioCall'[t], isr_cfg_info'[i])
      BY <2>1, <3>1, <3>2 DEF InIsr
    <3>3. CASE gpioCall'[t].fn = "none" /\ EntryAgrees(isr_cfg_info'[i], gpiote'[i])
      BY <2>1, <3>1, <3>3 DEF InIsr, IsrFns
    <3> QED BY <3>2, <3>3
  <2>2. CASE j # i
    <3>1. /\ isr_cfg_info'[j] = isr_cfg_info[j] /\ gpiote'[j] = gpiote[j]
          /\ \A u \in Task : InIsr(u, j)' <=> InIsr(u, j)
          /\ ~InIsr(t, j)'
      BY <1>5, <2>2 DEF InIsr, IsrFns
    <3>2. \A u \in Task : InIsr(u, j)' => gpioCall'[u] = gpioCall[u] BY <1>1, <3>1
    <3> QED BY <3>1, <3>2 DEF GpioInv, EntriesBooked
  <2> QED BY <2>1, <2>2
<1>7. \A j \in OutputId, u \in Task :
        /\ InOut(u, j)' <=> InOut(u, j)
        /\ InOut(u, j) => gpioCall'[u] = gpioCall[u]
  BY <1>1 DEF InOut, AtPin, IsrFns, OutFns
<1>8. PinsBooked' BY <1>2, <1>7 DEF GpioInv, PinsBooked
<1> QED BY <1>3, <1>4, <1>6, <1>8, OwnKept DEF GpioInv

LEMMA OutKeeps ==
  ASSUME GpioInv, NEW t \in Task, NEW i \in OutputId, AtPin(t, i, OutFns),
         UNCHANGED Pins!isrVars,
         g_gpio_dir' \in [OutputId -> Pins!Dir], g_gpio_out' \in [OutputId -> {0, 1}],
         pins' \in [OutputId -> Pin],
         \A j \in OutputId : j # i => /\ g_gpio_dir'[j] = g_gpio_dir[j]
                                      /\ g_gpio_out'[j] = g_gpio_out[j]
                                      /\ pins'[j] = pins[j],
         \/ /\ gpioCall'[t].fn \in OutFns /\ gpioCall'[t].id = i
            /\ gpioCall'[t].at # "config"
            /\ PinBooked(gpioCall'[t], pins'[i], g_gpio_dir'[i], g_gpio_out'[i])
         \/ /\ gpioCall'[t].fn = "none"
            /\ PinAgrees(pins'[i], g_gpio_dir'[i], g_gpio_out'[i])
  PROVE  GpioInv'
<1>1. \A u \in Task : u # t => gpioCall'[u] = gpioCall[u] /\ ~InOut(u, i)
  BY DEF AtPin, GpioInv, CallsApart, InOut, OutFns
<1>2. isr_cfg_info' = isr_cfg_info /\ gpiote' = gpiote BY DEF Pins!isrVars
<1>3. GpioTyped' BY <1>2 DEF AtPin, GpioInv, GpioTyped
<1>4. CallsApart' BY ApartKept DEF IsrFns, OutFns
<1>5. \A j \in OutputId, u \in Task : (j # i \/ u # t) => (InOut(u, j)' <=> InOut(u, j))
  BY <1>1 DEF InOut, AtPin, OutFns
<1>6. PinsBooked'
  <2> SUFFICES ASSUME NEW j \in OutputId
               PROVE  /\ \A u \in Task : InOut(u, j)' =>
                           PinBooked(gpioCall'[u], pins'[j], g_gpio_dir'[j],
                                     g_gpio_out'[j])
                      /\ (\A u \in Task : ~InOut(u, j)') =>
                           PinAgrees(pins'[j], g_gpio_dir'[j], g_gpio_out'[j])
    BY DEF PinsBooked
  <2>1. CASE j = i
    <3>1. \A u \in Task : u # t => ~InOut(u, j)' BY <1>1, <1>5, <2>1
    <3>2. CASE /\ gpioCall'[t].fn \in OutFns /\ gpioCall'[t].id = i
               /\ PinBooked(gpioCall'[t], pins'[i], g_gpio_dir'[i], g_gpio_out'[i])
      BY <2>1, <3>1, <3>2 DEF InOut
    <3>3. CASE /\ gpioCall'[t].fn = "none"
               /\ PinAgrees(pins'[i], g_gpio_dir'[i], g_gpio_out'[i])
      BY <2>1, <3>1, <3>3 DEF InOut, OutFns
    <3> QED BY <3>2, <3>3
  <2>2. CASE j # i
    <3>1. /\ pins'[j] = pins[j] /\ g_gpio_dir'[j] = g_gpio_dir[j]
          /\ g_gpio_out'[j] = g_gpio_out[j]
          /\ \A u \in Task : InOut(u, j)' <=> InOut(u, j)
          /\ ~InOut(t, j)'
      BY <1>5, <2>2 DEF InOut, OutFns
    <3>2. \A u \in Task : InOut(u, j)' => gpioCall'[u] = gpioCall[u] BY <1>1, <3>1
    <3> QED BY <3>1, <3>2 DEF GpioInv, PinsBooked
  <2> QED BY <2>1, <2>2
<1>7. \A j \in InterruptId, u \in Task :
        /\ InIsr(u, j)' <=> InIsr(u, j)
        /\ InIsr(u, j) => gpioCall'[u] = gpioCall[u]
  BY <1>1 DEF InIsr, AtPin, IsrFns, OutFns
<1>8. EntriesBooked' BY <1>2, <1>7 DEF GpioInv, EntriesBooked
<1> QED BY <1>3, <1>4, <1>6, <1>8, OwnKept DEF GpioInv

\* A call begins, goes on and returns at its pin.
LEMMA EntersFacts ==
  ASSUME GpioInv, NEW t \in Task, NEW fn \in Fns, NEW at \in Places,
         NEW i \in InterruptId \cup OutputId, Pins!Enters(t, fn, at, i)
  PROVE  /\ AtPin(t, i, IsrFns) /\ AtPin(t, i, OutFns)
         /\ gpioCall'[t].fn = fn /\ gpioCall'[t].at = at /\ gpioCall'[t].id = i
         /\ \A u \in Task : ~InIsr(u, i) /\ ~InOut(u, i)
<1>1. PICK c : c = [fn |-> fn, at |-> at, id |-> i] OBVIOUS
<1>2. c \in PinCall /\ c.fn = fn /\ c.at = at /\ c.id = i BY <1>1 DEF PinCall
<1>3. gpioCall' = [gpioCall EXCEPT ![t] = c] /\ called' = Pins!NotCalled
  BY <1>1 DEF Pins!Enters
<1>4. /\ gpioCall' \in [Task -> PinCall] /\ gpioCall'[t] = c
      /\ \A u \in Task : u # t => gpioCall'[u] = gpioCall[u]
  BY <1>2, <1>3 DEF GpioInv, GpioTyped
<1>5. /\ gpioCall[t].fn = "none"
      /\ \A u \in Task : gpioCall[u].fn # "none" => gpioCall[u].id # i
  BY NoPinCallIs DEF Pins!Enters, Pins!Settled
<1>6. \A u \in Task : ~InIsr(u, i) /\ ~InOut(u, i)
  BY <1>5 DEF InIsr, InOut, IsrFns, OutFns
<1> QED BY <1>2, <1>3, <1>4, <1>5, <1>6 DEF AtPin

\* The names of the functions and places.
LEMMA NamesAre == /\ IsrFns \subseteq Fns /\ OutFns \subseteq Fns
                  /\ {"arg", "config", "init", "noted", "dir"} \subseteq Places
                  /\ Registration \subseteq Places
                  /\ InterruptId \subseteq InterruptId \cup OutputId
                  /\ OutputId \subseteq InterruptId \cup OutputId
BY DEF Fns, Places

LEMMA GoesFacts ==
  ASSUME GpioInv, NEW t \in Task, NEW fns, gpioCall[t].fn \in fns,
         NEW at \in Places, Pins!Goes(t, at)
  PROVE  /\ AtPin(t, gpioCall[t].id, fns) /\ gpioCall'[t].fn = gpioCall[t].fn
         /\ gpioCall'[t].id = gpioCall[t].id /\ gpioCall'[t].at = at
<1>1. PICK c, d : c = gpioCall[t] /\ d = [c EXCEPT !.at = at] OBVIOUS
<1>2. c \in PinCall BY <1>1 DEF GpioInv, GpioTyped
<1>3. d \in PinCall /\ d.fn = c.fn /\ d.id = c.id /\ d.at = at BY <1>1, <1>2 DEF PinCall
<1>4. gpioCall' = [gpioCall EXCEPT ![t] = d] /\ called' = Pins!NotCalled
  BY <1>1 DEF Pins!Goes
<1>5. /\ gpioCall' \in [Task -> PinCall] /\ gpioCall'[t] = d
      /\ \A u \in Task : u # t => gpioCall'[u] = gpioCall[u]
  BY <1>3, <1>4 DEF GpioInv, GpioTyped
<1> QED BY <1>1, <1>3, <1>4, <1>5 DEF AtPin

LEMMA ReturnsFacts ==
  ASSUME GpioInv, NEW t \in Task, NEW fns, gpioCall[t].fn \in fns, Pins!Returns(t)
  PROVE  AtPin(t, gpioCall[t].id, fns) /\ gpioCall'[t].fn = "none"
<1>1. gpioCall' = [gpioCall EXCEPT ![t] = Pins!NoCall] /\ called' = Pins!NotCalled
  BY DEF Pins!Returns
<1>2. /\ gpioCall' \in [Task -> PinCall] /\ gpioCall'[t] = Pins!NoCall
      /\ \A u \in Task : u # t => gpioCall'[u] = gpioCall[u]
  BY <1>1, NoPinCallIs DEF GpioInv, GpioTyped
<1> QED BY <1>1, <1>2, NoPinCallIs DEF AtPin

\* An entry of the table with one field set.
LEMMA EntrySet ==
  ASSUME GpioInv, NEW i \in InterruptId, NEW e \in Entry,
         isr_cfg_info' = [isr_cfg_info EXCEPT ![i] = e], gpiote' = gpiote
  PROVE  /\ isr_cfg_info' \in [InterruptId -> Entry] /\ isr_cfg_info'[i] = e
         /\ gpiote' \in [InterruptId -> Hardware]
         /\ \A j \in InterruptId : j # i => /\ isr_cfg_info'[j] = isr_cfg_info[j]
                                            /\ gpiote'[j] = gpiote[j]
BY DEF GpioInv, GpioTyped

LEMMA EntryFacts ==
  ASSUME GpioInv, NEW i \in InterruptId
  PROVE  /\ isr_cfg_info[i] \in Entry
         /\ isr_cfg_info[i].func # Pins!NoFunc => isr_cfg_info[i].func[1] = i
         /\ (\A t \in Task : ~InIsr(t, i)) => isr_cfg_info[i].arg = isr_cfg_info[i].func
BY DEF GpioInv, GpioTyped, EntriesBooked, EntryAgrees

--------------------
\* The functions for interrupts.

LEMMA RegisterKeeps ==
  ASSUME GpioInv, NEW t \in Task, NEW i \in InterruptId, NEW mode \in Pins!Mode,
         NEW r \in Registration, Pins!IoTGpioRegisterIsrFunc(t, i, mode, r)
  PROVE  GpioInv'
<1>1. PICK e, f : e = isr_cfg_info[i] /\ f = [e EXCEPT !.mode = mode] OBVIOUS
<1>2. e \in Entry /\ (e.func # Pins!NoFunc => e.func[1] = i) BY <1>1, EntryFacts
<1>3. f \in Entry /\ f.func = e.func /\ f.arg = e.arg BY <1>1, <1>2 DEF Entry
<1>4. /\ isr_cfg_info' = [isr_cfg_info EXCEPT ![i] = f] /\ gpiote' = gpiote
      /\ UNCHANGED Pins!outputVars /\ Pins!Enters(t, "IoTGpioRegisterIsrFunc", r, i)
  BY <1>1 DEF Pins!IoTGpioRegisterIsrFunc
<1>5. /\ AtPin(t, i, IsrFns) /\ \A u \in Task : ~InIsr(u, i)
      /\ gpioCall'[t].fn = "IoTGpioRegisterIsrFunc" /\ gpioCall'[t].id = i
  <2>1. /\ "IoTGpioRegisterIsrFunc" \in Fns /\ r \in Places
        /\ i \in InterruptId \cup OutputId
    BY NamesAre DEF IsrFns
  <2>2. Pins!Enters(t, "IoTGpioRegisterIsrFunc", r, i) BY <1>4
  <2> QED BY <2>1, <2>2, EntersFacts
<1>6. e.arg = e.func BY <1>1, <1>5, EntryFacts
<1>7. EntryBooked(gpioCall'[t], f) /\ gpioCall'[t].fn \in IsrFns
  BY <1>3, <1>5, <1>6 DEF EntryBooked, IsrFns
<1> QED
  <2>1. f \in Entry /\ i \in InterruptId BY <1>2, <1>3, <1>4, <1>5, <1>7
  <2>2. /\ isr_cfg_info' \in [InterruptId -> Entry] /\ isr_cfg_info'[i] = f
        /\ gpiote' \in [InterruptId -> Hardware]
        /\ \A j \in InterruptId : j # i => /\ isr_cfg_info'[j] = isr_cfg_info[j]
                                           /\ gpiote'[j] = gpiote[j]
    BY <1>2, <1>3, <1>4, <1>5, <1>7, <2>1, EntrySet
  <2>3. f.func # Pins!NoFunc => f.func[1] = i BY <1>2, <1>3, <1>4, <1>5, <1>7
  <2> QED BY <1>2, <1>3, <1>4, <1>5, <1>7, <2>1, <2>2, <2>3, IsrKeeps

LEMMA UnregisterKeeps ==
  ASSUME GpioInv, NEW t \in Task, NEW i \in InterruptId, Pins!IoTGpioUnregisterIsrFunc(t, i)
  PROVE  GpioInv'
<1>1. PICK e, f : e = isr_cfg_info[i] /\ f = [e EXCEPT !.func = Pins!NoFunc] OBVIOUS
<1>2. e \in Entry BY <1>1, EntryFacts
<1>3. f \in Entry /\ f.func = Pins!NoFunc BY <1>1, <1>2 DEF Entry, Func
<1>4. /\ isr_cfg_info' = [isr_cfg_info EXCEPT ![i] = f] /\ gpiote' = gpiote
      /\ UNCHANGED Pins!outputVars /\ Pins!Enters(t, "IoTGpioUnregisterIsrFunc", "arg", i)
  BY <1>1 DEF Pins!IoTGpioUnregisterIsrFunc
<1>5. /\ AtPin(t, i, IsrFns) /\ gpioCall'[t].at = "arg"
      /\ gpioCall'[t].fn = "IoTGpioUnregisterIsrFunc" /\ gpioCall'[t].id = i
  <2>1. /\ "IoTGpioUnregisterIsrFunc" \in Fns /\ "arg" \in Places
        /\ i \in InterruptId \cup OutputId
    BY NamesAre DEF IsrFns
  <2>2. Pins!Enters(t, "IoTGpioUnregisterIsrFunc", "arg", i) BY <1>4
  <2> QED BY <2>1, <2>2, EntersFacts
<1>6. EntryBooked(gpioCall'[t], f) /\ gpioCall'[t].fn \in IsrFns
  BY <1>3, <1>5 DEF EntryBooked, IsrFns
<1> QED
  <2>1. f \in Entry /\ i \in InterruptId BY <1>3, <1>4, <1>5, <1>6
  <2>2. /\ isr_cfg_info' \in [InterruptId -> Entry] /\ isr_cfg_info'[i] = f
        /\ gpiote' \in [InterruptId -> Hardware]
        /\ \A j \in InterruptId : j # i => /\ isr_cfg_info'[j] = isr_cfg_info[j]
                                           /\ gpiote'[j] = gpiote[j]
    BY <1>3, <1>4, <1>5, <1>6, <2>1, EntrySet
  <2>3. f.func # Pins!NoFunc => f.func[1] = i BY <1>3, <1>4, <1>5, <1>6
  <2> QED BY <1>3, <1>4, <1>5, <1>6, <2>1, <2>2, <2>3, IsrKeeps

LEMMA SetIsrModeKeeps ==
  ASSUME GpioInv, NEW t \in Task, NEW i \in InterruptId, NEW mode \in Pins!Mode,
         Pins!IoTGpioSetIsrMode(t, i, mode)
  PROVE  GpioInv'
<1>1. PICK e, f : e = isr_cfg_info[i] /\ f = [e EXCEPT !.mode = mode] OBVIOUS
<1>2. e \in Entry /\ (e.func # Pins!NoFunc => e.func[1] = i) BY <1>1, EntryFacts
<1>3. f \in Entry /\ f.func = e.func /\ f.arg = e.arg BY <1>1, <1>2 DEF Entry
<1>4. /\ isr_cfg_info' = [isr_cfg_info EXCEPT ![i] = f] /\ gpiote' = gpiote
      /\ UNCHANGED Pins!outputVars /\ Pins!Enters(t, "IoTGpioSetIsrMode", "config", i)
  BY <1>1 DEF Pins!IoTGpioSetIsrMode
<1>5. /\ AtPin(t, i, IsrFns) /\ \A u \in Task : ~InIsr(u, i)
      /\ gpioCall'[t].fn = "IoTGpioSetIsrMode" /\ gpioCall'[t].id = i
  <2>1. /\ "IoTGpioSetIsrMode" \in Fns /\ "config" \in Places
        /\ i \in InterruptId \cup OutputId
    BY NamesAre DEF IsrFns
  <2>2. Pins!Enters(t, "IoTGpioSetIsrMode", "config", i) BY <1>4
  <2> QED BY <2>1, <2>2, EntersFacts
<1>6. e.arg = e.func BY <1>1, <1>5, EntryFacts
<1>7. EntryBooked(gpioCall'[t], f) /\ gpioCall'[t].fn \in IsrFns
  BY <1>3, <1>5, <1>6 DEF EntryBooked, IsrFns
<1> QED
  <2>1. f \in Entry /\ i \in InterruptId BY <1>2, <1>3, <1>4, <1>5, <1>7
  <2>2. /\ isr_cfg_info' \in [InterruptId -> Entry] /\ isr_cfg_info'[i] = f
        /\ gpiote' \in [InterruptId -> Hardware]
        /\ \A j \in InterruptId : j # i => /\ isr_cfg_info'[j] = isr_cfg_info[j]
                                           /\ gpiote'[j] = gpiote[j]
    BY <1>2, <1>3, <1>4, <1>5, <1>7, <2>1, EntrySet
  <2>3. f.func # Pins!NoFunc => f.func[1] = i BY <1>2, <1>3, <1>4, <1>5, <1>7
  <2> QED BY <1>2, <1>3, <1>4, <1>5, <1>7, <2>1, <2>2, <2>3, IsrKeeps

\* Which pin a call is of, and what its entry is.
LEMMA InCallFacts ==
  ASSUME GpioInv, NEW t \in Task, gpioCall[t].fn \in IsrFns
  PROVE  /\ gpioCall[t].id \in InterruptId
         /\ EntryBooked(gpioCall[t], isr_cfg_info[gpioCall[t].id])
BY DEF GpioInv, CallsApart, EntriesBooked, InIsr

LEMMA RegisterFuncKeeps ==
  ASSUME GpioInv, NEW t \in Task, Pins!RegisterFunc(t)
  PROVE  GpioInv'
<1>1. PICK i, r : i = gpioCall[t].id /\ r = gpioCall[t].at OBVIOUS
<1>2. PICK e, x, f : e = isr_cfg_info[i] /\ x = <<i, r>> /\ f = [e EXCEPT !.func = x]
  OBVIOUS
<1>3. /\ gpioCall[t].fn = "IoTGpioRegisterIsrFunc" /\ r \in Registration
      /\ isr_cfg_info' = [isr_cfg_info EXCEPT ![i] = f] /\ Pins!Goes(t, "arg")
      /\ gpiote' = gpiote /\ UNCHANGED Pins!outputVars
  BY <1>1, <1>2 DEF Pins!RegisterFunc
<1>4. gpioCall[t].fn \in IsrFns BY <1>3 DEF IsrFns
<1>5. i \in InterruptId BY <1>1, <1>4, InCallFacts
<1>6. e \in Entry /\ x \in Func /\ x[1] = i BY <1>2, <1>3, <1>5, EntryFacts DEF Func
<1>7. f \in Entry /\ f.func = x BY <1>2, <1>6 DEF Entry
<1>p. /\ gpioCall[t].fn \in IsrFns /\ "arg" \in Places
      /\ Pins!Goes(t, "arg")
  BY <1>3, <1>4, NamesAre
<1>q. AtPin(t, gpioCall[t].id, IsrFns) /\ gpioCall'[t].fn = gpioCall[t].fn
      /\ gpioCall'[t].id = gpioCall[t].id /\ gpioCall'[t].at = "arg"
  BY <1>p, GoesFacts
<1>8. /\ AtPin(t, i, IsrFns) /\ gpioCall'[t].fn = "IoTGpioRegisterIsrFunc"
      /\ gpioCall'[t].id = i /\ gpioCall'[t].at = "arg"
  BY <1>1, <1>3, <1>q
<1>9. EntryBooked(gpioCall'[t], f) /\ gpioCall'[t].fn \in IsrFns
  BY <1>8 DEF EntryBooked, IsrFns
<1> QED
  <2>1. f \in Entry /\ i \in InterruptId BY <1>3, <1>5, <1>6, <1>7, <1>8, <1>9
  <2>2. /\ isr_cfg_info' \in [InterruptId -> Entry] /\ isr_cfg_info'[i] = f
        /\ gpiote' \in [InterruptId -> Hardware]
        /\ \A j \in InterruptId : j # i => /\ isr_cfg_info'[j] = isr_cfg_info[j]
                                           /\ gpiote'[j] = gpiote[j]
    BY <1>3, <1>5, <1>6, <1>7, <1>8, <1>9, <2>1, EntrySet
  <2>3. f.func # Pins!NoFunc => f.func[1] = i BY <1>3, <1>5, <1>6, <1>7, <1>8, <1>9
  <2> QED BY <1>3, <1>5, <1>6, <1>7, <1>8, <1>9, <2>1, <2>2, <2>3, IsrKeeps

LEMMA RegisterArgKeeps ==
  ASSUME GpioInv, NEW t \in Task, Pins!RegisterArg(t)
  PROVE  GpioInv'
<1>1. PICK i : i = gpioCall[t].id OBVIOUS
<1>2. PICK e, f : e = isr_cfg_info[i] /\ f = [e EXCEPT !.arg = e.func] OBVIOUS
<1>3. /\ gpioCall[t].fn = "IoTGpioRegisterIsrFunc"
      /\ isr_cfg_info' = [isr_cfg_info EXCEPT ![i] = f] /\ Pins!Goes(t, "config")
      /\ gpiote' = gpiote /\ UNCHANGED Pins!outputVars
  BY <1>1, <1>2 DEF Pins!RegisterArg, Pins!At
<1>4. gpioCall[t].fn \in IsrFns BY <1>3 DEF IsrFns
<1>5. i \in InterruptId BY <1>1, <1>4, InCallFacts
<1>6. e \in Entry /\ (e.func # Pins!NoFunc => e.func[1] = i) BY <1>2, <1>5, EntryFacts
<1>7. f \in Entry /\ f.func = e.func /\ f.arg = e.func BY <1>2, <1>6 DEF Entry
<1>p. /\ gpioCall[t].fn \in IsrFns /\ "config" \in Places
      /\ Pins!Goes(t, "config")
  BY <1>3, <1>4, NamesAre
<1>q. AtPin(t, gpioCall[t].id, IsrFns) /\ gpioCall'[t].fn = gpioCall[t].fn
      /\ gpioCall'[t].id = gpioCall[t].id /\ gpioCall'[t].at = "config"
  BY <1>p, GoesFacts
<1>8. /\ AtPin(t, i, IsrFns) /\ gpioCall'[t].fn = "IoTGpioRegisterIsrFunc"
      /\ gpioCall'[t].id = i
  BY <1>1, <1>3, <1>q
<1>9. EntryBooked(gpioCall'[t], f) /\ gpioCall'[t].fn \in IsrFns
  BY <1>7, <1>8 DEF EntryBooked, IsrFns
<1> QED
  <2>1. f \in Entry /\ i \in InterruptId BY <1>3, <1>5, <1>6, <1>7, <1>8, <1>9
  <2>2. /\ isr_cfg_info' \in [InterruptId -> Entry] /\ isr_cfg_info'[i] = f
        /\ gpiote' \in [InterruptId -> Hardware]
        /\ \A j \in InterruptId : j # i => /\ isr_cfg_info'[j] = isr_cfg_info[j]
                                           /\ gpiote'[j] = gpiote[j]
    BY <1>3, <1>5, <1>6, <1>7, <1>8, <1>9, <2>1, EntrySet
  <2>3. f.func # Pins!NoFunc => f.func[1] = i BY <1>3, <1>5, <1>6, <1>7, <1>8, <1>9
  <2> QED BY <1>3, <1>5, <1>6, <1>7, <1>8, <1>9, <2>1, <2>2, <2>3, IsrKeeps

LEMMA UnregisterArgKeeps ==
  ASSUME GpioInv, NEW t \in Task, Pins!UnregisterArg(t)
  PROVE  GpioInv'
<1>1. PICK i : i = gpioCall[t].id OBVIOUS
<1>2. PICK e, f : e = isr_cfg_info[i] /\ f = [e EXCEPT !.arg = Pins!NoFunc] OBVIOUS
<1>3. /\ gpioCall[t].fn = "IoTGpioUnregisterIsrFunc"
      /\ isr_cfg_info' = [isr_cfg_info EXCEPT ![i] = f] /\ Pins!Goes(t, "config")
      /\ gpiote' = gpiote /\ UNCHANGED Pins!outputVars
  BY <1>1, <1>2 DEF Pins!UnregisterArg, Pins!At
<1>4. gpioCall[t].fn \in IsrFns BY <1>3 DEF IsrFns
<1>5. i \in InterruptId /\ EntryBooked(gpioCall[t], e) BY <1>1, <1>2, <1>4, InCallFacts
<1>6. e \in Entry /\ e.func = Pins!NoFunc BY <1>2, <1>3, <1>5, EntryFacts DEF EntryBooked
<1>7. f \in Entry /\ f.func = Pins!NoFunc /\ f.arg = Pins!NoFunc
  BY <1>2, <1>6 DEF Entry, Func
<1>p. /\ gpioCall[t].fn \in IsrFns /\ "config" \in Places
      /\ Pins!Goes(t, "config")
  BY <1>3, <1>4, NamesAre
<1>q. AtPin(t, gpioCall[t].id, IsrFns) /\ gpioCall'[t].fn = gpioCall[t].fn
      /\ gpioCall'[t].id = gpioCall[t].id /\ gpioCall'[t].at = "config"
  BY <1>p, GoesFacts
<1>8. /\ AtPin(t, i, IsrFns) /\ gpioCall'[t].fn = "IoTGpioUnregisterIsrFunc"
      /\ gpioCall'[t].id = i
  BY <1>1, <1>3, <1>q
<1>9. EntryBooked(gpioCall'[t], f) /\ gpioCall'[t].fn \in IsrFns
  BY <1>7, <1>8 DEF EntryBooked, IsrFns
<1> QED
  <2>1. f \in Entry /\ i \in InterruptId BY <1>3, <1>5, <1>7, <1>8, <1>9
  <2>2. /\ isr_cfg_info' \in [InterruptId -> Entry] /\ isr_cfg_info'[i] = f
        /\ gpiote' \in [InterruptId -> Hardware]
        /\ \A j \in InterruptId : j # i => /\ isr_cfg_info'[j] = isr_cfg_info[j]
                                           /\ gpiote'[j] = gpiote[j]
    BY <1>3, <1>5, <1>7, <1>8, <1>9, <2>1, EntrySet
  <2>3. f.func # Pins!NoFunc => f.func[1] = i BY <1>3, <1>5, <1>7, <1>8, <1>9
  <2> QED BY <1>3, <1>5, <1>7, <1>8, <1>9, <2>1, <2>2, <2>3, IsrKeeps

LEMMA ConfigureKeeps ==
  ASSUME GpioInv, NEW t \in Task, Pins!Configure(t), gpioCall[t].fn \in IsrFns
  PROVE  GpioInv'
<1>1. PICK i : i = gpioCall[t].id OBVIOUS
<1>2. PICK e, f, b, h : /\ e = isr_cfg_info[i] /\ f = [e EXCEPT !.initialized = TRUE]
                        /\ b = (gpioCall[t].fn # "IoTGpioUnregisterIsrFunc")
                        /\ h = [mode |-> e.mode, io_evt_cb |-> b]
  OBVIOUS
<1>3. /\ gpioCall[t].at = "config" /\ isr_cfg_info' = [isr_cfg_info EXCEPT ![i] = f]
      /\ gpiote' = [gpiote EXCEPT ![i] = h] /\ Pins!Returns(t) /\ UNCHANGED Pins!outputVars
  BY <1>1, <1>2 DEF Pins!Configure
<1>4. i \in InterruptId /\ EntryBooked(gpioCall[t], e) BY <1>1, <1>2, InCallFacts
<1>5. e \in Entry /\ (e.func # Pins!NoFunc => e.func[1] = i) BY <1>2, <1>4, EntryFacts
<1>6. f \in Entry /\ f.func = e.func /\ f.arg = e.arg /\ f.mode = e.mode
  BY <1>2, <1>5 DEF Entry
<1>7. b \in BOOLEAN BY <1>2
<1>8. h \in Hardware /\ h.mode = e.mode /\ h.io_evt_cb = b
  BY <1>2, <1>5, <1>7 DEF Hardware, Entry
<1>9. EntryAgrees(f, h)
  <2>1. e.arg = e.func BY <1>3, <1>4 DEF EntryBooked, IsrFns
  <2>2. gpioCall[t].fn = "IoTGpioUnregisterIsrFunc" => e.func = Pins!NoFunc
    BY <1>4 DEF EntryBooked
  <2>3. e.func # Pins!NoFunc => b BY <1>2, <2>2
  <2> QED BY <1>6, <1>8, <2>1, <2>3 DEF EntryAgrees
<1>10. AtPin(t, i, IsrFns) /\ gpioCall'[t].fn = "none" BY <1>1, <1>3, ReturnsFacts
<1>11. /\ isr_cfg_info' \in [InterruptId -> Entry] /\ isr_cfg_info'[i] = f
       /\ gpiote' \in [InterruptId -> Hardware] /\ gpiote'[i] = h
       /\ \A j \in InterruptId : j # i => /\ isr_cfg_info'[j] = isr_cfg_info[j]
                                          /\ gpiote'[j] = gpiote[j]
  BY <1>3, <1>4, <1>6, <1>8 DEF GpioInv, GpioTyped
<1> QED BY <1>3, <1>4, <1>5, <1>6, <1>9, <1>10, <1>11, IsrKeeps

--------------------
\* Directions and values.

\* What is known of a pin.
LEMMA PinFacts ==
  ASSUME GpioInv, NEW i \in OutputId
  PROVE  /\ pins[i] \in Pin /\ g_gpio_dir[i] \in Pins!Dir /\ g_gpio_out[i] \in {0, 1}
         /\ (\A t \in Task : ~InOut(t, i)) =>
              pins[i].dir = g_gpio_dir[i] /\ pins[i].level = g_gpio_out[i]
         /\ \A t \in Task : InOut(t, i) =>
              PinBooked(gpioCall[t], pins[i], g_gpio_dir[i], g_gpio_out[i])
BY DEF GpioInv, GpioTyped, PinsBooked, PinAgrees

\* One pin with what is noted of it.
LEMMA PinSet ==
  ASSUME GpioInv, NEW i \in OutputId, NEW p \in Pin, NEW dir \in Pins!Dir, NEW out \in {0, 1},
         pins' = [pins EXCEPT ![i] = p],
         g_gpio_dir' = [g_gpio_dir EXCEPT ![i] = dir],
         g_gpio_out' = [g_gpio_out EXCEPT ![i] = out]
  PROVE  /\ g_gpio_dir' \in [OutputId -> Pins!Dir] /\ g_gpio_out' \in [OutputId -> {0, 1}]
         /\ pins' \in [OutputId -> Pin]
         /\ pins'[i] = p /\ g_gpio_dir'[i] = dir /\ g_gpio_out'[i] = out
         /\ \A j \in OutputId : j # i => /\ g_gpio_dir'[j] = g_gpio_dir[j]
                                         /\ g_gpio_out'[j] = g_gpio_out[j]
                                         /\ pins'[j] = pins[j]
BY DEF GpioInv, GpioTyped

LEMMA Same ==
  ASSUME GpioInv, NEW i \in OutputId
  PROVE  /\ pins' = pins => pins' = [pins EXCEPT ![i] = pins[i]]
         /\ g_gpio_dir' = g_gpio_dir => g_gpio_dir' = [g_gpio_dir EXCEPT ![i] = g_gpio_dir[i]]
         /\ g_gpio_out' = g_gpio_out => g_gpio_out' = [g_gpio_out EXCEPT ![i] = g_gpio_out[i]]
BY DEF GpioInv, GpioTyped

LEMMA SetDirKeeps ==
  ASSUME GpioInv, NEW t \in Task, NEW i \in OutputId, NEW dir \in Pins!Dir,
         Pins!IoTGpioSetDir(t, i, dir)
  PROVE  GpioInv'
<1>1. /\ g_gpio_dir' = [g_gpio_dir EXCEPT ![i] = dir] /\ g_gpio_out' = g_gpio_out
      /\ pins' = pins /\ UNCHANGED Pins!isrVars /\ Pins!Enters(t, "IoTGpioSetDir", "init", i)
  BY DEF Pins!IoTGpioSetDir
<1>2. /\ AtPin(t, i, OutFns) /\ gpioCall'[t].fn = "IoTGpioSetDir" /\ gpioCall'[t].id = i
      /\ gpioCall'[t].at # "config"
      /\ \A u \in Task : ~InOut(u, i)
  <2>1. /\ "IoTGpioSetDir" \in Fns /\ "init" \in Places
        /\ i \in InterruptId \cup OutputId
    BY NamesAre DEF OutFns
  <2>2. Pins!Enters(t, "IoTGpioSetDir", "init", i) BY <1>1
  <2> QED BY <2>1, <2>2, EntersFacts
<1>3. /\ g_gpio_dir' \in [OutputId -> Pins!Dir] /\ g_gpio_out' \in [OutputId -> {0, 1}]
      /\ pins' \in [OutputId -> Pin]
      /\ pins'[i] = pins[i] /\ g_gpio_dir'[i] = dir /\ g_gpio_out'[i] = g_gpio_out[i]
      /\ \A j \in OutputId : j # i => /\ g_gpio_dir'[j] = g_gpio_dir[j]
                                      /\ g_gpio_out'[j] = g_gpio_out[j]
                                      /\ pins'[j] = pins[j]
  <2>1. PICK x, d, o : x = pins[i] /\ d = dir /\ o = g_gpio_out[i] OBVIOUS
  <2>2. x \in Pin /\ d \in Pins!Dir /\ o \in {0, 1} BY <1>1, <2>1, PinFacts
  <2>3. /\ pins' = [pins EXCEPT ![i] = x] /\ g_gpio_dir' = [g_gpio_dir EXCEPT ![i] = d]
        /\ g_gpio_out' = [g_gpio_out EXCEPT ![i] = o]
    BY <1>1, <2>1, Same
  <2> QED BY <2>1, <2>2, <2>3, PinSet
<1>4. PinBooked(gpioCall'[t], pins'[i], g_gpio_dir'[i], g_gpio_out'[i])
      /\ gpioCall'[t].fn \in OutFns
  BY <1>2, <1>3, PinFacts DEF PinBooked, OutFns
<1> QED BY <1>1, <1>2, <1>3, <1>4, OutKeeps

LEMMA SetOutputKeeps ==
  ASSUME GpioInv, NEW t \in Task, NEW i \in OutputId, NEW val \in {0, 1},
         Pins!IoTGpioSetOutputVal(t, i, val)
  PROVE  GpioInv'
<1>1. PICK p : p = [pins[i] EXCEPT !.level = val] OBVIOUS
<1>2. p \in Pin /\ p.dir = pins[i].dir BY <1>1, PinFacts DEF Pin
<1>3. /\ pins' = [pins EXCEPT ![i] = p] /\ g_gpio_out' = g_gpio_out
      /\ g_gpio_dir' = g_gpio_dir /\ UNCHANGED Pins!isrVars
      /\ Pins!Enters(t, "IoTGpioSetOutputVal", "noted", i)
  BY <1>1 DEF Pins!IoTGpioSetOutputVal
<1>4. /\ AtPin(t, i, OutFns) /\ gpioCall'[t].fn = "IoTGpioSetOutputVal"
      /\ gpioCall'[t].id = i /\ gpioCall'[t].at # "config"
      /\ \A u \in Task : ~InOut(u, i)
  <2>1. /\ "IoTGpioSetOutputVal" \in Fns /\ "noted" \in Places
        /\ i \in InterruptId \cup OutputId
    BY NamesAre DEF OutFns
  <2>2. Pins!Enters(t, "IoTGpioSetOutputVal", "noted", i) BY <1>3
  <2> QED BY <2>1, <2>2, EntersFacts
<1>5. /\ g_gpio_dir' \in [OutputId -> Pins!Dir] /\ g_gpio_out' \in [OutputId -> {0, 1}]
      /\ pins' \in [OutputId -> Pin]
      /\ pins'[i] = p /\ g_gpio_dir'[i] = g_gpio_dir[i] /\ g_gpio_out'[i] = g_gpio_out[i]
      /\ \A j \in OutputId : j # i => /\ g_gpio_dir'[j] = g_gpio_dir[j]
                                      /\ g_gpio_out'[j] = g_gpio_out[j]
                                      /\ pins'[j] = pins[j]
  <2>1. PICK x, d, o : x = p /\ d = g_gpio_dir[i] /\ o = g_gpio_out[i] OBVIOUS
  <2>2. x \in Pin /\ d \in Pins!Dir /\ o \in {0, 1} BY <1>2, <1>3, <2>1, PinFacts
  <2>3. /\ pins' = [pins EXCEPT ![i] = x] /\ g_gpio_dir' = [g_gpio_dir EXCEPT ![i] = d]
        /\ g_gpio_out' = [g_gpio_out EXCEPT ![i] = o]
    BY <1>2, <1>3, <2>1, Same
  <2> QED BY <2>1, <2>2, <2>3, PinSet
<1>6. PinBooked(gpioCall'[t], pins'[i], g_gpio_dir'[i], g_gpio_out'[i])
      /\ gpioCall'[t].fn \in OutFns
  BY <1>2, <1>4, <1>5, PinFacts DEF PinBooked, OutFns
<1> QED BY <1>3, <1>4, <1>5, <1>6, OutKeeps

LEMMA DeinitKeeps ==
  ASSUME GpioInv, NEW t \in Task, NEW i \in OutputId, Pins!IoTGpioDeinit(t, i)
  PROVE  GpioInv'
<1>1. PICK p : p = [dir |-> "IOT_GPIO_DIR_IN", level |-> 0] OBVIOUS
<1>2. p \in Pin /\ p.dir = "IOT_GPIO_DIR_IN" /\ p.level = 0 BY <1>1 DEF Pin, Pins!Dir
<1>3. /\ pins' = [pins EXCEPT ![i] = p] /\ g_gpio_out' = g_gpio_out
      /\ g_gpio_dir' = g_gpio_dir /\ UNCHANGED Pins!isrVars
      /\ Pins!Enters(t, "IoTGpioDeinit", "dir", i)
  BY <1>1 DEF Pins!IoTGpioDeinit
<1>4. /\ AtPin(t, i, OutFns) /\ gpioCall'[t].fn = "IoTGpioDeinit" /\ gpioCall'[t].id = i
      /\ gpioCall'[t].at # "config"
  <2>1. /\ "IoTGpioDeinit" \in Fns /\ "dir" \in Places
        /\ i \in InterruptId \cup OutputId
    BY NamesAre DEF OutFns
  <2>2. Pins!Enters(t, "IoTGpioDeinit", "dir", i) BY <1>3
  <2> QED BY <2>1, <2>2, EntersFacts
<1>5. /\ g_gpio_dir' \in [OutputId -> Pins!Dir] /\ g_gpio_out' \in [OutputId -> {0, 1}]
      /\ pins' \in [OutputId -> Pin]
      /\ pins'[i] = p
      /\ \A j \in OutputId : j # i => /\ g_gpio_dir'[j] = g_gpio_dir[j]
                                      /\ g_gpio_out'[j] = g_gpio_out[j]
                                      /\ pins'[j] = pins[j]
  <2>1. PICK x, d, o : x = p /\ d = g_gpio_dir[i] /\ o = g_gpio_out[i] OBVIOUS
  <2>2. x \in Pin /\ d \in Pins!Dir /\ o \in {0, 1} BY <1>2, <1>3, <2>1, PinFacts
  <2>3. /\ pins' = [pins EXCEPT ![i] = x] /\ g_gpio_dir' = [g_gpio_dir EXCEPT ![i] = d]
        /\ g_gpio_out' = [g_gpio_out EXCEPT ![i] = o]
    BY <1>2, <1>3, <2>1, Same
  <2> QED BY <2>1, <2>2, <2>3, PinSet
<1>6. PinBooked(gpioCall'[t], pins'[i], g_gpio_dir'[i], g_gpio_out'[i])
      /\ gpioCall'[t].fn \in OutFns
  BY <1>2, <1>4, <1>5 DEF PinBooked, OutFns
<1> QED BY <1>3, <1>4, <1>5, <1>6, OutKeeps

\* Which pin a call is of.
LEMMA OutCallFacts ==
  ASSUME GpioInv, NEW t \in Task, gpioCall[t].fn \in OutFns
  PROVE  gpioCall[t].id \in OutputId /\ InOut(t, gpioCall[t].id)
BY DEF GpioInv, CallsApart, InOut

LEMMA SetDirReturnsKeeps ==
  ASSUME GpioInv, NEW t \in Task, Pins!SetDirReturns(t)
  PROVE  GpioInv'
<1>1. PICK i : i = gpioCall[t].id OBVIOUS
<1>2. gpioCall[t].fn = "IoTGpioSetDir" /\ gpioCall[t].fn \in OutFns
  BY DEF Pins!SetDirReturns, Pins!At, OutFns
<1>3. i \in OutputId /\ InOut(t, i) BY <1>1, <1>2, OutCallFacts
<1>4. PICK p : p = [pins[i] EXCEPT !.dir = g_gpio_dir[i]] OBVIOUS
<1>5. p \in Pin /\ p.dir = g_gpio_dir[i] /\ p.level = pins[i].level
  BY <1>3, <1>4, PinFacts DEF Pin
<1>6. /\ pins' = [pins EXCEPT ![i] = p] /\ g_gpio_out' = g_gpio_out
      /\ g_gpio_dir' = g_gpio_dir /\ UNCHANGED Pins!isrVars /\ Pins!Returns(t)
  BY <1>1, <1>4 DEF Pins!SetDirReturns
<1>7. AtPin(t, i, OutFns) /\ gpioCall'[t].fn = "none" BY <1>1, <1>2, <1>6, ReturnsFacts
<1>8. /\ g_gpio_dir' \in [OutputId -> Pins!Dir] /\ g_gpio_out' \in [OutputId -> {0, 1}]
      /\ pins' \in [OutputId -> Pin]
      /\ pins'[i] = p /\ g_gpio_dir'[i] = g_gpio_dir[i] /\ g_gpio_out'[i] = g_gpio_out[i]
      /\ \A j \in OutputId : j # i => /\ g_gpio_dir'[j] = g_gpio_dir[j]
                                      /\ g_gpio_out'[j] = g_gpio_out[j]
                                      /\ pins'[j] = pins[j]
  <2>1. PICK x, d, o : x = p /\ d = g_gpio_dir[i] /\ o = g_gpio_out[i] OBVIOUS
  <2>2. x \in Pin /\ d \in Pins!Dir /\ o \in {0, 1}
    BY <1>3, <1>5, <1>6, <2>1, PinFacts DEF Pins!Dir
  <2>3. /\ pins' = [pins EXCEPT ![i] = x] /\ g_gpio_dir' = [g_gpio_dir EXCEPT ![i] = d]
        /\ g_gpio_out' = [g_gpio_out EXCEPT ![i] = o]
    BY <1>3, <1>5, <1>6, <2>1, Same
  <2> QED BY <1>3, <2>1, <2>2, <2>3, PinSet
<1>9. PinAgrees(pins'[i], g_gpio_dir'[i], g_gpio_out'[i])
  BY <1>2, <1>3, <1>5, <1>8, PinFacts DEF PinBooked, PinAgrees
<1> QED BY <1>3, <1>6, <1>7, <1>8, <1>9, OutKeeps

LEMMA SetOutputReturnsKeeps ==
  ASSUME GpioInv, NEW t \in Task, Pins!SetOutputReturns(t)
  PROVE  GpioInv'
<1>1. PICK i : i = gpioCall[t].id OBVIOUS
<1>2. gpioCall[t].fn = "IoTGpioSetOutputVal" /\ gpioCall[t].fn \in OutFns
  BY DEF Pins!SetOutputReturns, Pins!At, OutFns
<1>3. i \in OutputId /\ InOut(t, i) BY <1>1, <1>2, OutCallFacts
<1>4. PICK v : v = pins[i].level OBVIOUS
<1>5. v \in {0, 1} BY <1>3, <1>4, PinFacts DEF Pin
<1>6. /\ g_gpio_out' = [g_gpio_out EXCEPT ![i] = v] /\ pins' = pins
      /\ g_gpio_dir' = g_gpio_dir /\ UNCHANGED Pins!isrVars /\ Pins!Returns(t)
  BY <1>1, <1>4 DEF Pins!SetOutputReturns
<1>7. AtPin(t, i, OutFns) /\ gpioCall'[t].fn = "none" BY <1>1, <1>2, <1>6, ReturnsFacts
<1>8. /\ g_gpio_dir' \in [OutputId -> Pins!Dir] /\ g_gpio_out' \in [OutputId -> {0, 1}]
      /\ pins' \in [OutputId -> Pin]
      /\ pins'[i] = pins[i] /\ g_gpio_dir'[i] = g_gpio_dir[i] /\ g_gpio_out'[i] = v
      /\ \A j \in OutputId : j # i => /\ g_gpio_dir'[j] = g_gpio_dir[j]
                                      /\ g_gpio_out'[j] = g_gpio_out[j]
                                      /\ pins'[j] = pins[j]
  <2>1. PICK x, d, o : x = pins[i] /\ d = g_gpio_dir[i] /\ o = v OBVIOUS
  <2>2. x \in Pin /\ d \in Pins!Dir /\ o \in {0, 1}
    BY <1>3, <1>5, <1>6, <2>1, PinFacts DEF Pins!Dir
  <2>3. /\ pins' = [pins EXCEPT ![i] = x] /\ g_gpio_dir' = [g_gpio_dir EXCEPT ![i] = d]
        /\ g_gpio_out' = [g_gpio_out EXCEPT ![i] = o]
    BY <1>3, <1>5, <1>6, <2>1, Same
  <2> QED BY <1>3, <2>1, <2>2, <2>3, PinSet
<1>9. PinAgrees(pins'[i], g_gpio_dir'[i], g_gpio_out'[i])
  BY <1>2, <1>3, <1>4, <1>8, PinFacts DEF PinBooked, PinAgrees
<1> QED BY <1>3, <1>6, <1>7, <1>8, <1>9, OutKeeps

LEMMA DeinitReturnsKeeps ==
  ASSUME GpioInv, NEW t \in Task, Pins!DeinitReturns(t)
  PROVE  GpioInv'
<1>1. PICK i : i = gpioCall[t].id OBVIOUS
<1>2. gpioCall[t].fn = "IoTGpioDeinit" /\ gpioCall[t].fn \in OutFns
  BY DEF Pins!DeinitReturns, Pins!At, OutFns
<1>3. i \in OutputId /\ InOut(t, i) BY <1>1, <1>2, OutCallFacts
<1>4. /\ g_gpio_out' = [g_gpio_out EXCEPT ![i] = 0] /\ pins' = pins
      /\ g_gpio_dir' = [g_gpio_dir EXCEPT ![i] = "IOT_GPIO_DIR_IN"]
      /\ UNCHANGED Pins!isrVars /\ Pins!Returns(t)
  BY <1>1 DEF Pins!DeinitReturns
<1>5. AtPin(t, i, OutFns) /\ gpioCall'[t].fn = "none" BY <1>1, <1>2, <1>4, ReturnsFacts
<1>6. /\ g_gpio_dir' \in [OutputId -> Pins!Dir] /\ g_gpio_out' \in [OutputId -> {0, 1}]
      /\ pins' \in [OutputId -> Pin]
      /\ pins'[i] = pins[i] /\ g_gpio_dir'[i] = "IOT_GPIO_DIR_IN" /\ g_gpio_out'[i] = 0
      /\ \A j \in OutputId : j # i => /\ g_gpio_dir'[j] = g_gpio_dir[j]
                                      /\ g_gpio_out'[j] = g_gpio_out[j]
                                      /\ pins'[j] = pins[j]
  <2>1. PICK x, d, o : x = pins[i] /\ d = "IOT_GPIO_DIR_IN" /\ o = 0 OBVIOUS
  <2>2. x \in Pin /\ d \in Pins!Dir /\ o \in {0, 1}
    BY <1>3, <1>4, <2>1, PinFacts DEF Pins!Dir
  <2>3. /\ pins' = [pins EXCEPT ![i] = x] /\ g_gpio_dir' = [g_gpio_dir EXCEPT ![i] = d]
        /\ g_gpio_out' = [g_gpio_out EXCEPT ![i] = o]
    BY <1>3, <1>4, <2>1, Same
  <2> QED BY <1>3, <2>1, <2>2, <2>3, PinSet
<1>7. PinAgrees(pins'[i], g_gpio_dir'[i], g_gpio_out'[i])
  BY <1>2, <1>3, <1>6, PinFacts DEF PinBooked, PinAgrees
<1> QED BY <1>3, <1>4, <1>5, <1>6, <1>7, OutKeeps

--------------------
\* The interrupt.

\* The table's index of a pin that interrupts is the pin.
LEMMA IndexIs ==
  ASSUME Pins!GpioFits, NEW i \in InterruptId
  PROVE  Pins!EventIndex(Pins!pin_map(i)) = i
<1>1. i \in 0..39 BY DEF Pins!GpioFits, Pins!AON_GPIO_MAX
<1>2. \A k : Pins!get_pin_index({k}) = k BY DEF Pins!get_pin_index, Pins!Min
<1>3. CASE i <= 31
  <2>1. PICK evt : evt = [type |-> "NORMAL", pin |-> {i}] OBVIOUS
  <2>2. Pins!pin_map(i) = evt BY <1>3, <2>1 DEF Pins!pin_map, Pins!NORMAL_GPIO_MAX
  <2>3. Pins!EventIndex(evt) = Pins!get_pin_index({i}) BY <2>1 DEF Pins!EventIndex
  <2> QED BY <1>2, <2>2, <2>3
<1>4. CASE i > 31
  <2>1. PICK k, evt : k = i - 32 /\ evt = [type |-> "AON", pin |-> {k}] OBVIOUS
  <2>2. Pins!pin_map(i) = evt
    BY <1>1, <1>4, <2>1 DEF Pins!pin_map, Pins!NORMAL_GPIO_MAX, Pins!AON_GPIO_MAX,
       Pins!AON_START_IDX
  <2>3. Pins!EventIndex(evt) = Pins!get_pin_index({k}) + 32
    BY <2>1 DEF Pins!EventIndex, Pins!AON_START_IDX
  <2>4. Pins!get_pin_index({k}) = k BY <1>2
  <2>5. k + 32 = i BY <1>1, <2>1
  <2> QED BY <2>2, <2>3, <2>4, <2>5
<1> QED BY <1>1, <1>3, <1>4

LEMMA CallbackKeeps ==
  ASSUME Pins!GpioFits, GpioInv, NEW i \in InterruptId, Pins!app_io_callback(i)
  PROVE  GpioInv'
<1>1. /\ isr_cfg_info[i].func # Pins!NoFunc
      /\ called' = [event |-> i, func |-> isr_cfg_info[i].func,
                    arg |-> isr_cfg_info[i].arg, settled |-> Pins!Settled(i)]
      /\ isr_cfg_info' = isr_cfg_info /\ gpiote' = gpiote /\ g_gpio_dir' = g_gpio_dir
      /\ g_gpio_out' = g_gpio_out /\ pins' = pins /\ gpioCall' = gpioCall
  BY IndexIs DEF Pins!app_io_callback
<1>2. PICK b \in BOOLEAN : b = Pins!Settled(i) BY DEF Pins!Settled
<1>3. PICK f, a : f = isr_cfg_info[i].func /\ a = isr_cfg_info[i].arg OBVIOUS
<1>4. called' = [event |-> i, func |-> f, arg |-> a, settled |-> b] BY <1>1, <1>2, <1>3
<1>5. called'.event = i /\ called'.func = f /\ called'.arg = a /\ called'.settled = b
  BY <1>4
<1>6. f[1] = i BY <1>1, <1>3, EntryFacts
<1>7. b => a = f
  <2>1. Pins!Settled(i) => \A t \in Task : ~InIsr(t, i) BY DEF Pins!Settled, InIsr, IsrFns
  <2> QED BY <1>2, <1>3, <2>1, EntryFacts
<1>8. Pins!CallbacksOwn' BY <1>5, <1>6, <1>7 DEF Pins!CallbacksOwn
<1>9. GpioTyped' /\ CallsApart' BY <1>1 DEF GpioInv, GpioTyped, CallsApart
<1>10. EntriesBooked' /\ PinsBooked'
  BY <1>1 DEF GpioInv, EntriesBooked, PinsBooked, InIsr, InOut
<1> QED BY <1>8, <1>9, <1>10 DEF GpioInv

LEMMA GpioStarts == ASSUME Pins!Init PROVE GpioInv
<1>1. PICK e, h, p : /\ e = [func |-> Pins!NoFunc, arg |-> Pins!NoFunc, mode |-> "none",
                             initialized |-> FALSE]
                     /\ h = [io_evt_cb |-> FALSE, mode |-> "none"]
                     /\ p = [dir |-> "IOT_GPIO_DIR_IN", level |-> 0]
  OBVIOUS
<1>2. /\ e \in Entry /\ e.func = Pins!NoFunc /\ e.arg = Pins!NoFunc /\ e.mode = "none"
      /\ h \in Hardware /\ h.mode = "none"
      /\ p \in Pin /\ p.dir = "IOT_GPIO_DIR_IN" /\ p.level = 0
  BY <1>1 DEF Entry, Func, Hardware, Pin, Pins!Dir
<1>3. /\ isr_cfg_info = [i \in InterruptId |-> e] /\ gpiote = [i \in InterruptId |-> h]
      /\ g_gpio_dir = [i \in OutputId |-> "IOT_GPIO_DIR_IN"]
      /\ g_gpio_out = [i \in OutputId |-> 0] /\ pins = [i \in OutputId |-> p]
      /\ gpioCall = [t \in Task |-> Pins!NoCall] /\ called = Pins!NotCalled
  BY <1>1 DEF Pins!Init
<1>4. GpioTyped BY <1>2, <1>3, NoPinCallIs DEF GpioTyped, Pins!Dir
<1>5. \A t \in Task : gpioCall[t].fn = "none" BY <1>3, NoPinCallIs
<1>6. CallsApart BY <1>5 DEF CallsApart, IsrFns, OutFns
<1>7. EntriesBooked BY <1>2, <1>3, <1>5 DEF EntriesBooked, EntryAgrees, InIsr, IsrFns
<1>8. PinsBooked BY <1>2, <1>3, <1>5 DEF PinsBooked, PinAgrees, InOut, OutFns
<1>9. Pins!CallbacksOwn BY <1>3 DEF Pins!CallbacksOwn
<1> QED BY <1>4, <1>6, <1>7, <1>8, <1>9 DEF GpioInv

\* Only the calls that change a registration end in Configure.
LEMMA OutConfigures ==
  ASSUME GpioInv, NEW t \in Task, Pins!Configure(t)
  PROVE  gpioCall[t].fn \in IsrFns
<1>1. gpioCall[t].fn # "none" /\ gpioCall[t].at = "config" BY DEF Pins!Configure
<1>2. gpioCall[t] \in PinCall BY DEF GpioInv, GpioTyped
<1>3. gpioCall[t].fn \in Fns \cup {"none"} BY <1>2 DEF PinCall
<1>4. gpioCall[t].fn \notin OutFns BY <1>1 DEF GpioInv, CallsApart
<1> QED BY <1>1, <1>3, <1>4 DEF Fns

LEMMA GpioStep == ASSUME Pins!GpioFits, GpioInv, [Pins!Next]_(Pins!vars) PROVE GpioInv'
<1>1. CASE UNCHANGED Pins!vars
  <2>1. /\ isr_cfg_info' = isr_cfg_info /\ gpiote' = gpiote /\ g_gpio_dir' = g_gpio_dir
        /\ g_gpio_out' = g_gpio_out /\ pins' = pins /\ gpioCall' = gpioCall
        /\ called' = called
    BY <1>1 DEF Pins!vars
  <2>2. GpioTyped' /\ CallsApart' BY <2>1 DEF GpioInv, GpioTyped, CallsApart
  <2>3. EntriesBooked' /\ PinsBooked' /\ Pins!CallbacksOwn'
    BY <2>1 DEF GpioInv, EntriesBooked, PinsBooked, InIsr, InOut, Pins!CallbacksOwn
  <2> QED BY <2>2, <2>3 DEF GpioInv
<1>2. ASSUME NEW t \in Task, Pins!Configure(t) PROVE GpioInv'
  BY <1>2, ConfigureKeeps, OutConfigures
<1>3. CASE Pins!Next BY <1>2, <1>3, CallbackKeeps, RegisterFuncKeeps, RegisterArgKeeps,
     UnregisterArgKeeps, SetDirReturnsKeeps, SetOutputReturnsKeeps,
     DeinitReturnsKeeps, UnregisterKeeps, SetIsrModeKeeps, RegisterKeeps,
     SetDirKeeps, SetOutputKeeps, DeinitKeeps DEF Pins!Next
<1> QED BY <1>1, <1>3

\* Of pins that any number of tasks use, with interrupts between any two of their steps:
\* an event calls back what was registered for its own pin, and between calls tables,
\* directions and values are what the hardware has (hal_iot_gpio.c:128-145).
THEOREM PinsStayTrue == ASSUME Pins!GpioFits PROVE Pins!Spec => [](Pins!CallbacksOwn /\ Pins!TablesAgree)
<1>1. Pins!Init => GpioInv BY GpioStarts
<1>2. GpioInv /\ [Pins!Next]_(Pins!vars) => GpioInv' BY GpioStep
<1>3. GpioInv => Pins!CallbacksOwn /\ Pins!TablesAgree
  <2> SUFFICES ASSUME GpioInv PROVE Pins!TablesAgree BY DEF GpioInv
  <2>1. ASSUME NEW i \in InterruptId, Pins!Settled(i)
        PROVE  /\ isr_cfg_info[i].mode = gpiote[i].mode
               /\ isr_cfg_info[i].func # Pins!NoFunc => gpiote[i].io_evt_cb
               /\ isr_cfg_info[i].arg = isr_cfg_info[i].func
    <3>1. \A t \in Task : ~InIsr(t, i) BY <2>1 DEF Pins!Settled, InIsr, IsrFns
    <3> QED BY <3>1 DEF GpioInv, EntriesBooked, EntryAgrees
  <2>2. ASSUME NEW i \in OutputId, Pins!Settled(i)
        PROVE  pins[i] = [dir |-> g_gpio_dir[i], level |-> g_gpio_out[i]]
    <3>1. \A t \in Task : ~InOut(t, i) BY <2>2 DEF Pins!Settled, InOut, OutFns
    <3>2. pins[i] \in Pin /\ pins[i].dir = g_gpio_dir[i] /\ pins[i].level = g_gpio_out[i]
      BY <3>1, PinFacts
    <3> QED BY <3>2 DEF Pin
  <2> QED BY <2>1, <2>2 DEF Pins!TablesAgree
<1> QED BY <1>1, <1>2, <1>3, PTL DEF Pins!Spec
=============================================================================
