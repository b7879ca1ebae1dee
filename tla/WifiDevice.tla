---------------------------- MODULE WifiDevice ----------------------------
(***************************************************************************)
(* The WiFi station service (wifi_device.c): the table of configured       *)
(* networks with the one file it is saved in, the station's status, the    *)
(* registered listeners and the connection state, under two recursive      *)
(* locks that application tasks share with the driver's task, which calls  *)
(* the listeners.                                                          *)
(*                                                                         *)
(* A section under a lock is one step unless something can be seen or can  *)
(* happen inside it: a driver or file operation, or a loss of power.  The  *)
(* driver, hi_wifi_api.h, and the file system are external.                *)
(***************************************************************************)
EXTENDS Integers, Sequences

CONSTANTS Task,           \* application tasks
          MaxConfig,      \* WIFI_MAX_CONFIG_SIZE
          MaxEvent,       \* WIFI_MAX_EVENT_SIZE
          Network,        \* contents of a network's configuration
          Listener,       \* WifiEvent objects of the application
          Hears,          \* those with an OnWifiConnectionChanged
          Calls,          \* the calls application tasks make
          NestedCalls,    \* the calls listeners make when they are called
          DriverFails,    \* TRUE: driver operations may fail
          FileFails,      \* TRUE: file operations may fail
          MayRestart,     \* TRUE: the device may lose its power
          LockBound       \* bound on how often one task leaves a lock taken

Call == {"EnableWifi", "DisableWifi", "Scan", "AddDeviceConfig", "GetDeviceConfigs",
         "ConnectTo", "Disconnect", "RemoveDevice", "RegisterWifiEvent",
         "UnRegisterWifiEvent"}

ASSUME WifiAssumption ==
  /\ MaxConfig \in Nat \ {0} /\ MaxEvent \in Nat \ {0}
  /\ Hears \subseteq Listener
  /\ Calls \subseteq Call /\ NestedCalls \subseteq Call
  /\ DriverFails \in BOOLEAN /\ FileFails \in BOOLEAN /\ MayRestart \in BOOLEAN
  /\ LockBound \in Nat \ {0}
  /\ "wpa" \notin Task /\ "NULL" \notin Task \cup Listener /\ "zero" \notin Network

VARIABLES globalLock, eventLock,
          g_wifiStaStatus, g_wifiConfigs, g_networkId, g_networkConfigReadFlag,
          g_wifiEvents, g_connectState,
          file,      \* WIFI_FILE
          driver,    \* the station interface, the link, its undelivered events
          dispatch,  \* where HiWifiWpaEventCb is in g_wifiEvents
          call,      \* per caller, the call it is in
          connectedSince \* history: a connection was reported since the last request

tableVars == <<g_wifiConfigs, g_networkConfigReadFlag, file>>
linkVars == <<g_networkId, g_connectState, connectedSince>>
eventVars == <<g_wifiEvents, dispatch>>
vars == <<globalLock, eventLock, g_wifiStaStatus, tableVars, linkVars, eventVars,
          driver, call>>

Caller == Task \cup {"wpa"}  \* "wpa": the driver's task
Slot == 0..(MaxConfig - 1)
INVALID == -1                \* WIFI_CONFIG_INVALID

Config == [netId : Slot \cup {INVALID}, net : Network \cup {"zero"}]
ZeroConfig == [netId |-> 0, net |-> "zero"]
InUse(i) == g_wifiConfigs[i].netId = i

\* The file is "empty" when it was created or truncated and not written.
File == [state : {"absent", "empty", "saved"}, config : Config]
NoFile == [state |-> "absent", config |-> ZeroConfig]
EmptyFile == [state |-> "empty", config |-> ZeroConfig]
Saved(config) == [state |-> "saved", config |-> config]

Lock == [owner : Caller \cup {"NULL"}, count : 0..(LockBound + 2)]
Unlocked == [owner |-> "NULL", count |-> 0]
CanLock(lock, c) == lock.owner \in {c, "NULL"}
Locked(lock, c) == [owner |-> c, count |-> lock.count + 1]
HeldBy(lock, c) == IF lock.owner = c THEN lock.count ELSE 0

Released(lock) == IF lock.count = 1 THEN Unlocked ELSE [lock EXCEPT !.count = @ - 1]

Result == {"SUCCESS", "UNKNOWN", "BUSY", "NOT_STARTED", "NOT_AVAILABLE"}
At == {"idle", "EnableWifi", "DisableWifi", "Scan", "notify", "scan", "AddDeviceConfig",
       "GetDeviceConfigs", "RemoveDevice", "open", "write", "ConnectTo", "StaConnect",
       "connecting", "Disconnect", "RegisterWifiEvent", "RegisterHisiCallback",
       "UnRegisterWifiEvent"}
State == {"AVALIABLE", "NOT_AVALIABLE"}
CallRecord == [at : At, slot : Slot, net : Network \cup {"zero"},
               listener : Listener \cup {"NULL"}, lastState : State, result : Result,
               held : (0..(LockBound + 2)) \X (0..(LockBound + 2))]
Idle(r) == [at |-> "idle", slot |-> 0, net |-> "zero", listener |-> "NULL",
            lastState |-> "NOT_AVALIABLE", result |-> r, held |-> <<0, 0>>]

Event == {"CONNECTED", "DISCONNECTED", "NO_NETWORK"}
NoDispatch == [event |-> "none", i |-> 0]
DriverOff == [started |-> FALSE, link |-> "down", pending |-> <<>>, callback |-> FALSE]

\* The link goes from what it was to l; a connection that is lost is reported.
LinkBecomes(l) ==
  [driver EXCEPT !.link = l,
                 !.pending = IF driver.link = "connected"
                               THEN Append(@, "DISCONNECTED") ELSE @]

--------------------
\* The initialiser of g_wifiConfigs leaves the netId of every slot zero.
Init ==
  /\ globalLock = Unlocked /\ eventLock = Unlocked
  /\ g_wifiStaStatus = "NOT_ACTIVE"
  /\ g_wifiConfigs = [i \in Slot |-> ZeroConfig]
  /\ g_networkId = -1
  /\ g_networkConfigReadFlag = FALSE
  /\ g_wifiEvents = [i \in 0..(MaxEvent - 1) |-> "NULL"]
  /\ g_connectState = "NOT_AVALIABLE" /\ connectedSince = FALSE
  /\ file = NoFile
  /\ driver = DriverOff
  /\ dispatch = NoDispatch
  /\ call = [c \in Caller |-> Idle("SUCCESS")]

\* Power lost and back: nothing but the file is left.
Restart ==
  /\ MayRestart
  /\ globalLock' = Unlocked /\ eventLock' = Unlocked
  /\ g_wifiStaStatus' = "NOT_ACTIVE"
  /\ g_wifiConfigs' = [i \in Slot |-> ZeroConfig]
  /\ g_networkId' = -1
  /\ g_networkConfigReadFlag' = FALSE
  /\ g_wifiEvents' = [i \in 0..(MaxEvent - 1) |-> "NULL"]
  /\ g_connectState' = "NOT_AVALIABLE" /\ connectedSince' = FALSE
  /\ driver' = DriverOff
  /\ dispatch' = NoDispatch
  /\ call' = [c \in Caller |-> Idle("SUCCESS")]
  /\ UNCHANGED file

IsAt(c, l) == call[c].at = l
GoTo(c, l) == call' = [call EXCEPT ![c].at = l]
Return(c, r) == call' = [call EXCEPT ![c] = Idle(r)]

\* What a driver or a file operation may report.
DriverOutcome == IF DriverFails THEN BOOLEAN ELSE {TRUE}
FileOutcome == IF FileFails THEN BOOLEAN ELSE {TRUE}

\* A call, those of the arguments that it has, and (for LocksPaired) how often
\* its caller has taken each lock.
Called(c, op, i, net, l) ==
  [Idle("SUCCESS") EXCEPT
     !.at = op,
     !.held = <<HeldBy(globalLock, c), HeldBy(eventLock, c)>>,
     !.slot = IF op \in {"ConnectTo", "RemoveDevice"} THEN i ELSE 0,
     !.net = IF op = "AddDeviceConfig" THEN net ELSE "zero",
     !.listener = IF op \in {"RegisterWifiEvent", "UnRegisterWifiEvent"} THEN l ELSE "NULL"]

Invoke(c, op, i, net, l) ==
  /\ IsAt(c, "idle")
  /\ globalLock.owner = c => globalLock.count < LockBound
  /\ call' = [call EXCEPT ![c] = Called(c, op, i, net, l)]
  /\ UNCHANGED <<globalLock, eventLock, g_wifiStaStatus, tableVars, linkVars,
                 eventVars, driver>>

--------------------
(* The status of the station.                                              *)

\* The station can be started when it is not; the policy is set after that,
\* and a failure there leaves it started.
EnableWifi(c) ==
  /\ IsAt(c, "EnableWifi")
  /\ CanLock(globalLock, c)
  /\ \/ /\ g_wifiStaStatus = "ACTIVE"
        /\ Return(c, "BUSY")
        /\ UNCHANGED <<g_wifiStaStatus, driver>>
     \/ /\ g_wifiStaStatus = "NOT_ACTIVE"
        /\ DriverFails \/ driver.started
        /\ Return(c, "NOT_STARTED")
        /\ UNCHANGED <<g_wifiStaStatus, driver>>
     \/ /\ g_wifiStaStatus = "NOT_ACTIVE"
        /\ ~driver.started
        /\ driver' = [driver EXCEPT !.started = TRUE]
        /\ \E policySet \in DriverOutcome :
             /\ g_wifiStaStatus' = IF policySet THEN "ACTIVE" ELSE "NOT_ACTIVE"
             /\ Return(c, IF policySet THEN "SUCCESS" ELSE "UNKNOWN")
  /\ UNCHANGED <<globalLock, eventLock, tableVars, linkVars, eventVars>>

DisableWifi(c) ==
  /\ IsAt(c, "DisableWifi")
  /\ CanLock(globalLock, c)
  /\ \/ /\ \/ g_wifiStaStatus = "NOT_ACTIVE"
           \/ DriverFails
        /\ Return(c, "NOT_STARTED")
        /\ UNCHANGED <<g_wifiStaStatus, driver>>
     \/ /\ g_wifiStaStatus = "ACTIVE"
        /\ driver' = [LinkBecomes("down") EXCEPT !.started = FALSE]
        /\ g_wifiStaStatus' = "NOT_ACTIVE"
        /\ Return(c, "SUCCESS")
  /\ UNCHANGED <<globalLock, eventLock, tableVars, linkVars, eventVars>>

\* Scan, and AdvanceScan: the status is checked under one lock, the listeners
\* are told under the other and the scan is started under none.
Scan(c) ==
  /\ IsAt(c, "Scan")
  /\ CanLock(globalLock, c)
  /\ IF g_wifiStaStatus = "ACTIVE" THEN GoTo(c, "notify") ELSE Return(c, "NOT_STARTED")
  /\ UNCHANGED <<globalLock, eventLock, g_wifiStaStatus, tableVars, linkVars,
                 eventVars, driver>>

DispatchScanStateChangeEvent(c) ==
  /\ IsAt(c, "notify")
  /\ CanLock(eventLock, c)
  /\ GoTo(c, "scan")
  /\ UNCHANGED <<globalLock, eventLock, g_wifiStaStatus, tableVars, linkVars,
                 eventVars, driver>>

StartScan(c) ==
  /\ IsAt(c, "scan")
  /\ \E ok \in IF driver.started THEN DriverOutcome ELSE {FALSE} :
       Return(c, IF ok THEN "SUCCESS" ELSE "UNKNOWN")
  /\ UNCHANGED <<globalLock, eventLock, g_wifiStaStatus, tableVars, linkVars,
                 eventVars, driver>>

--------------------
(* The table of networks.  Adding and removing write the slot they change  *)
(* to the file, whichever slot it is; reading fills slot 0.                *)

\* Mutant: a full table is reported with the lock held.
ReturnFullLocked(c) ==
  /\ IsAt(c, "AddDeviceConfig")
  /\ CanLock(globalLock, c)
  /\ globalLock' = Locked(globalLock, c)
  /\ IF \E i \in Slot : ~InUse(i)
       THEN LET netId == CHOOSE i \in Slot : ~InUse(i) /\ \A j \in 0..(i - 1) : InUse(j)
            IN  /\ g_wifiConfigs' = [g_wifiConfigs EXCEPT ![netId] =
                                       [netId |-> netId, net |-> call[c].net]]
                /\ call' = [call EXCEPT ![c].at = "open", ![c].slot = netId]
       ELSE /\ Return(c, "BUSY")
            /\ UNCHANGED g_wifiConfigs
  /\ UNCHANGED <<eventLock, g_wifiStaStatus, g_networkConfigReadFlag, file, linkVars,
                 eventVars, driver>>

AddDeviceConfig(c) ==
  /\ IsAt(c, "AddDeviceConfig")
  /\ CanLock(globalLock, c)
  /\ IF \E i \in Slot : ~InUse(i)
       THEN LET netId == CHOOSE i \in Slot : ~InUse(i) /\ \A j \in 0..(i - 1) : InUse(j)
            IN  /\ g_wifiConfigs' = [g_wifiConfigs EXCEPT ![netId] =
                                       [netId |-> netId, net |-> call[c].net]]
                /\ call' = [call EXCEPT ![c].at = "open", ![c].slot = netId]
                /\ globalLock' = Locked(globalLock, c)
       ELSE /\ Return(c, "BUSY")
            /\ UNCHANGED <<globalLock, g_wifiConfigs>>
  /\ UNCHANGED <<eventLock, g_wifiStaStatus, g_networkConfigReadFlag, file, linkVars,
                 eventVars, driver>>

\* Mutant: a removed network is left in the file.
RemoveFromTableOnly(c) ==
  /\ IsAt(c, "RemoveDevice")
  /\ CanLock(globalLock, c)
  /\ g_wifiConfigs' = [g_wifiConfigs EXCEPT ![call[c].slot] =
                         [netId |-> INVALID, net |-> "zero"]]
  /\ Return(c, "SUCCESS")
  /\ UNCHANGED <<globalLock, eventLock, g_wifiStaStatus, g_networkConfigReadFlag, file,
                 linkVars, eventVars, driver>>

RemoveDevice(c) ==
  /\ IsAt(c, "RemoveDevice")
  /\ CanLock(globalLock, c)
  /\ globalLock' = Locked(globalLock, c)
  /\ g_wifiConfigs' = [g_wifiConfigs EXCEPT ![call[c].slot] =
                         [netId |-> INVALID, net |-> "zero"]]
  /\ GoTo(c, "open")
  /\ UNCHANGED <<eventLock, g_wifiStaStatus, g_networkConfigReadFlag, file, linkVars,
                 eventVars, driver>>

\* WriteNetworkConfig.  A failure returns with the lock still taken.
OpenToWrite(c) ==
  /\ IsAt(c, "open")
  /\ \E ok \in FileOutcome :
       IF ok THEN file' = EmptyFile /\ GoTo(c, "write")
             ELSE Return(c, "UNKNOWN") /\ UNCHANGED file
  /\ UNCHANGED <<globalLock, eventLock, g_wifiStaStatus, g_wifiConfigs,
                 g_networkConfigReadFlag, linkVars, eventVars, driver>>

Write(c) ==
  /\ IsAt(c, "write")
  /\ \E ok \in FileOutcome :
       IF ok THEN /\ file' = Saved(g_wifiConfigs[call[c].slot])
                  /\ globalLock' = Released(globalLock)
                  /\ Return(c, "SUCCESS")
             ELSE /\ Return(c, "UNKNOWN")
                  /\ UNCHANGED <<file, globalLock>>
  /\ UNCHANGED <<eventLock, g_wifiStaStatus, g_wifiConfigs, g_networkConfigReadFlag,
                 linkVars, eventVars, driver>>

\* ReadNetworkConfig: the file is created if it is not there, and an empty
\* file leaves slot 0 as it is.  A failure returns with the lock still taken.
Read ==
  /\ file' = IF file.state = "absent" THEN EmptyFile ELSE file
  /\ g_wifiConfigs' =
       CASE file.state = "absent" -> [g_wifiConfigs EXCEPT ![0].netId = INVALID]
         [] file.state = "empty"  -> g_wifiConfigs
         [] file.state = "saved"  -> [g_wifiConfigs EXCEPT ![0] = file.config]

ReadFails ==
  /\ FileFails
  /\ file' \in {file, IF file.state = "absent" THEN EmptyFile ELSE file}
  /\ UNCHANGED g_wifiConfigs

GetDeviceConfigs(c) ==
  /\ IsAt(c, "GetDeviceConfigs")
  /\ CanLock(globalLock, c)
  /\ g_networkConfigReadFlag' = TRUE
  /\ \/ /\ IF g_networkConfigReadFlag THEN UNCHANGED <<file, g_wifiConfigs>> ELSE Read
        /\ \E i \in Slot : g_wifiConfigs'[i].netId = i
        /\ Return(c, "SUCCESS")
        /\ UNCHANGED globalLock
     \/ /\ IF g_networkConfigReadFlag THEN UNCHANGED <<file, g_wifiConfigs>> ELSE Read
        /\ \A i \in Slot : g_wifiConfigs'[i].netId # i
        /\ Return(c, "NOT_AVAILABLE")
        /\ UNCHANGED globalLock
     \/ /\ ~g_networkConfigReadFlag
        /\ ReadFails
        /\ Return(c, "UNKNOWN")
        /\ globalLock' = Locked(globalLock, c)
  /\ UNCHANGED <<eventLock, g_wifiStaStatus, linkVars, eventVars, driver>>

--------------------
(* Connecting.                                                             *)

\* Mutant: the event lock is taken before the global lock is released.
ConnectUnderBothLocks(c) ==
  /\ \/ /\ IsAt(c, "ConnectTo")
        /\ CanLock(globalLock, c)
        /\ globalLock' = Locked(globalLock, c)
        /\ UNCHANGED call
     \/ /\ IsAt(c, "ConnectTo")
        /\ globalLock.owner = c
        /\ CanLock(eventLock, c)
        /\ globalLock' = Released(globalLock)
        /\ GoTo(c, "StaConnect")
  /\ g_networkId' = call[c].slot
  /\ UNCHANGED <<eventLock, g_wifiStaStatus, tableVars, g_connectState,
                 connectedSince, eventVars, driver>>

\* The request is filled from the table under the one lock and made under the
\* other.  (Only its channel is read from the table in between.)
ConnectTo(c) ==
  /\ IsAt(c, "ConnectTo")
  /\ CanLock(globalLock, c)
  /\ IF InUse(call[c].slot)
       THEN /\ g_networkId' = call[c].slot
            /\ call' = [call EXCEPT ![c].at = "StaConnect",
                                    ![c].net = g_wifiConfigs[call[c].slot].net]
       ELSE /\ Return(c, "NOT_AVAILABLE")
            /\ UNCHANGED g_networkId
  /\ UNCHANGED <<globalLock, eventLock, g_wifiStaStatus, tableVars, g_connectState,
                 connectedSince, eventVars, driver>>

StaConnect(c) ==
  /\ IsAt(c, "StaConnect")
  /\ CanLock(eventLock, c)
  /\ eventLock' = Locked(eventLock, c)
  /\ g_connectState' = "NOT_AVALIABLE"
  /\ call' = [call EXCEPT ![c].at = "connecting", ![c].lastState = g_connectState]
  /\ UNCHANGED <<globalLock, g_wifiStaStatus, tableVars, g_networkId, connectedSince,
                 eventVars, driver>>

\* hi_wifi_sta_connect drops the link there is and looks for the network.
RequestAccepted(c) ==
  /\ driver.started
  /\ driver' = LinkBecomes("connecting")
  /\ connectedSince' = FALSE
  /\ Return(c, "SUCCESS")
  /\ UNCHANGED g_connectState

\* Mutant: the state before the request is not restored.
RefusedButNotRestored(c) ==
  /\ DriverFails \/ ~driver.started
  /\ Return(c, "UNKNOWN")
  /\ UNCHANGED <<driver, linkVars>>

RequestRefused(c) ==
  /\ DriverFails \/ ~driver.started
  /\ g_connectState' = call[c].lastState
  /\ Return(c, "UNKNOWN")
  /\ UNCHANGED <<driver, connectedSince>>

hi_wifi_sta_connect(c) ==
  /\ IsAt(c, "connecting")
  /\ RequestAccepted(c) \/ RequestRefused(c)
  /\ eventLock' = Released(eventLock)
  /\ UNCHANGED <<globalLock, g_wifiStaStatus, tableVars, g_networkId, eventVars>>

Disconnect(c) ==
  /\ IsAt(c, "Disconnect")
  /\ \/ /\ driver.started
        /\ driver' = LinkBecomes("down")
        /\ Return(c, "SUCCESS")
     \/ /\ DriverFails \/ ~driver.started
        /\ Return(c, "UNKNOWN")
        /\ UNCHANGED driver
  /\ UNCHANGED <<globalLock, eventLock, g_wifiStaStatus, tableVars, linkVars, eventVars>>

--------------------
(* Listeners.                                                              *)

\* The search for an empty slot ends at the first one.
RegisterWifiEvent(c) ==
  /\ IsAt(c, "RegisterWifiEvent")
  /\ CanLock(eventLock, c)
  /\ LET Seen(i) == \A j \in 0..(i - 1) : g_wifiEvents[j] \notin {"NULL", call[c].listener}
         found == {i \in DOMAIN g_wifiEvents :
                     Seen(i) /\ g_wifiEvents[i] \in {"NULL", call[c].listener}}
     IN  IF \E i \in found : g_wifiEvents[i] = "NULL"
           THEN /\ g_wifiEvents' = [i \in DOMAIN g_wifiEvents |->
                     IF i \in found THEN call[c].listener ELSE g_wifiEvents[i]]
                /\ GoTo(c, "RegisterHisiCallback")
           ELSE /\ Return(c, "BUSY")
                /\ UNCHANGED g_wifiEvents
  /\ UNCHANGED <<globalLock, eventLock, g_wifiStaStatus, tableVars, linkVars,
                 dispatch, driver>>

RegisterHisiCallback(c) ==
  /\ IsAt(c, "RegisterHisiCallback")
  /\ \E ok \in DriverOutcome : driver' = [driver EXCEPT !.callback = @ \/ ok]
  /\ Return(c, "SUCCESS")
  /\ UNCHANGED <<globalLock, eventLock, g_wifiStaStatus, tableVars, linkVars, eventVars>>

UnRegisterWifiEvent(c) ==
  /\ IsAt(c, "UnRegisterWifiEvent")
  /\ CanLock(eventLock, c)
  /\ LET Holds(i) == g_wifiEvents[i] = call[c].listener
     IN  IF \E i \in DOMAIN g_wifiEvents : Holds(i)
           THEN /\ g_wifiEvents' = [i \in DOMAIN g_wifiEvents |->
                     IF Holds(i) /\ \A j \in 0..(i - 1) : ~Holds(j)
                       THEN "NULL" ELSE g_wifiEvents[i]]
                /\ Return(c, "SUCCESS")
           ELSE /\ Return(c, "UNKNOWN")
                /\ UNCHANGED g_wifiEvents
  /\ UNCHANGED <<globalLock, eventLock, g_wifiStaStatus, tableVars, linkVars,
                 dispatch, driver>>

--------------------
(* The driver and its task.                                                *)

\* While the station is told to be connected it finds the network or does not,
\* loses it and tries again.
DriverEvent ==
  /\ \E e \in Event :
       /\ \/ driver.link = "connecting" /\ e \in {"CONNECTED", "NO_NETWORK"}
          \/ driver.link = "connected" /\ e = "DISCONNECTED"
       /\ driver' = [driver EXCEPT
                       !.link = IF e = "CONNECTED" THEN "connected" ELSE "connecting",
                       !.pending = Append(@, e)]
  /\ UNCHANGED <<globalLock, eventLock, g_wifiStaStatus, tableVars, linkVars,
                 eventVars, call>>

\* HiWifiWpaEventCb, called for the oldest event.
HiWifiWpaEventCb ==
  /\ dispatch = NoDispatch
  /\ driver.pending # <<>>
  /\ IF driver.callback
       THEN /\ CanLock(eventLock, "wpa")
            /\ eventLock' = Locked(eventLock, "wpa")
            /\ dispatch' = [event |-> Head(driver.pending), i |-> 0]
       ELSE UNCHANGED <<eventLock, dispatch>>
  /\ driver' = [driver EXCEPT !.pending = Tail(@)]
  /\ UNCHANGED <<globalLock, g_wifiStaStatus, tableVars, linkVars, g_wifiEvents, call>>

\* The listener may make a call of its own before it returns.
OnWifiConnectionChanged ==
  \/ UNCHANGED call
  \/ /\ globalLock.owner = "wpa" => globalLock.count < LockBound
     /\ \E op \in NestedCalls, i \in Slot, net \in Network, l \in Listener :
          call' = [call EXCEPT !["wpa"] = Called("wpa", op, i, net, l)]

DispatchConnectEvent ==
  LET l == g_wifiEvents[dispatch.i] IN
  /\ dispatch.event \in Event
  /\ dispatch.i < MaxEvent
  /\ IsAt("wpa", "idle")
  /\ dispatch' = [dispatch EXCEPT !.i = @ + 1]
  /\ IF \/ l \notin Hears
        \/ dispatch.event = "NO_NETWORK" /\ g_connectState = "AVALIABLE"
       THEN UNCHANGED <<g_connectState, connectedSince, call>>
       ELSE /\ IF dispatch.event = "CONNECTED"
                 THEN g_connectState' = "AVALIABLE" /\ connectedSince' = TRUE
                 ELSE UNCHANGED <<g_connectState, connectedSince>>
            /\ OnWifiConnectionChanged
  /\ UNCHANGED <<globalLock, eventLock, g_wifiStaStatus, tableVars, g_networkId,
                 g_wifiEvents, driver>>

EndOfDispatch ==
  /\ dispatch.event \in Event
  /\ dispatch.i = MaxEvent
  /\ IsAt("wpa", "idle")
  /\ dispatch' = NoDispatch
  /\ eventLock' = Released(eventLock)
  /\ UNCHANGED <<globalLock, g_wifiStaStatus, tableVars, linkVars, g_wifiEvents,
                 driver, call>>

--------------------
Station(c) ==
  EnableWifi(c) \/ DisableWifi(c) \/ Scan(c) \/ DispatchScanStateChangeEvent(c)
    \/ StartScan(c)
Table(c) ==
  AddDeviceConfig(c) \/ RemoveDevice(c) \/ OpenToWrite(c) \/ Write(c) \/ GetDeviceConfigs(c)
Link(c) ==
  ConnectTo(c) \/ StaConnect(c) \/ hi_wifi_sta_connect(c) \/ Disconnect(c)
Listeners(c) ==
  RegisterWifiEvent(c) \/ RegisterHisiCallback(c) \/ UnRegisterWifiEvent(c)

InCall(c) == Station(c) \/ Table(c) \/ Link(c) \/ Listeners(c)
WpaTask == HiWifiWpaEventCb \/ DispatchConnectEvent \/ EndOfDispatch

Next ==
  \/ \E t \in Task, op \in Calls, i \in Slot, net \in Network, l \in Listener :
       Invoke(t, op, i, net, l)
  \/ \E c \in Caller : InCall(c)
  \/ DriverEvent \/ WpaTask \/ Restart

Spec == Init /\ [][Next]_vars

\* The scheduler runs every ready task: callers and the driver's task go on
\* with what they are doing, and the mutexes serve those that wait.
FairSpec == Spec /\ WF_vars(WpaTask) /\ \A c \in Caller : SF_vars(InCall(c))

--------------------
(* Properties.                                                             *)

TypeOK ==
  /\ globalLock \in Lock /\ eventLock \in Lock
  /\ g_wifiStaStatus \in {"ACTIVE", "NOT_ACTIVE"}
  /\ g_wifiConfigs \in [Slot -> Config]
  /\ g_networkId \in Slot \cup {-1}
  /\ g_networkConfigReadFlag \in BOOLEAN
  /\ g_wifiEvents \in [0..(MaxEvent - 1) -> Listener \cup {"NULL"}]
  /\ g_connectState \in State /\ connectedSince \in BOOLEAN
  /\ file \in File
  /\ driver \in [started : BOOLEAN, link : {"down", "connecting", "connected"},
                 pending : Seq(Event), callback : BOOLEAN]
  /\ dispatch \in [event : Event \cup {"none"}, i : 0..MaxEvent]
  /\ call \in [Caller -> CallRecord]

\* Who returns has the locks that it had when it was called.
LocksReturned ==
  \A c \in Caller :
    InCall(c) /\ call'[c].at = "idle" /\ call'[c].result # "UNKNOWN"
      => <<HeldBy(globalLock', c), HeldBy(eventLock', c)>> = call[c].held

\* A call leaves both locks as its caller had them, through every way out, but
\* for those that end in ERROR_WIFI_UNKNOWN (after an error of the file system
\* the global lock stays taken, for ever).
LocksPaired == [][LocksReturned]_vars

\* The service calls the station active only while the driver has it started,
\* whichever of the driver's operations failed.
ActiveOnlyIfStarted == g_wifiStaStatus = "ACTIVE" => driver.started

\* Once the file was read, a network saved in slot 0 is the one slot 0 has,
\* through failures and restarts at any point.
SavedNetworkKnown ==
  (/\ g_networkConfigReadFlag
   /\ globalLock.owner = "NULL"
   /\ file.state = "saved" /\ file.config.netId = 0)
  => g_wifiConfigs[0] = file.config

\* What the service believes is so, whatever failed (wifi_device.c:70, 387).
BeliefsHold == ActiveOnlyIfStarted /\ SavedNetworkKnown

\* While nobody has the event lock, the connection state is AVALIABLE exactly
\* when a connection was reported since the driver last accepted a request,
\* whichever way requests, refusals and events interleave.
ConnectStateExact ==
  eventLock.owner = "NULL" => (g_connectState = "AVALIABLE" <=> connectedSince)

\* Every call returns, those a listener makes under the event lock included:
\* the two locks are never waited for in both orders.
EveryCallReturns == \A c \in Caller : ~IsAt(c, "idle") ~> IsAt(c, "idle")
=============================================================================
