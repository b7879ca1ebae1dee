---------------------------- MODULE WifiHotspot ----------------------------
(* The access point of wifi_hotspot.c.  Tasks enable and disable it under the *)
(* global lock; its address is set after the lock was given back, and the     *)
(* access point stopped again when that fails.  The driver and the network    *)
(* interface are external and may fail.                                       *)
EXTENDS Naturals, FiniteSets

CONSTANTS Task,
          Setting   \* what tells one configuration, each of its fields, from another

VARIABLES globalLock,      \* who holds it
          g_wifiApStatus,
          running,         \* the driver's access point is started
          addressed,       \* the address of "ap0" is set and its DHCP server runs
          call,            \* per task, how far it is
          stopped,         \* an address could not be set since it was started
          g_wifiApConfig,  \* of which the channel and the credentials are told apart
          hapdConf         \* what the driver is given of it

vars == <<globalLock, g_wifiApStatus, running, addressed, call, stopped,
          g_wifiApConfig, hapdConf>>

Nobody == "nobody"

TypeOK ==
  /\ globalLock \in Task \cup {Nobody}
  /\ g_wifiApStatus \in {"ACTIVE", "NOT_ACTIVE"}
  /\ running \in BOOLEAN /\ addressed \in BOOLEAN /\ stopped \in BOOLEAN
  /\ call \in [Task -> {"none", "credentials", "start", "started", "address", "stop",
                        "stopped", "copy"}]
  /\ {g_wifiApConfig, hapdConf} \subseteq [channel : Setting \cup {0}, key : Setting \cup {0}]

Init ==
  /\ globalLock = Nobody /\ g_wifiApStatus = "NOT_ACTIVE" /\ running = FALSE
  /\ addressed = FALSE /\ call = [t \in Task |-> "none"] /\ stopped = FALSE
  /\ g_wifiApConfig = [channel |-> 0, key |-> 0] /\ hapdConf = g_wifiApConfig

Locks(t) == globalLock = Nobody /\ globalLock' = t
\* Giving back what another task holds fails and changes nothing.
Unlocks(t) == globalLock' = IF globalLock = t THEN Nobody ELSE globalLock
Goes(t, place) == call' = [call EXCEPT ![t] = place]
configs == <<g_wifiApConfig, hapdConf>>
driver == <<running, addressed, stopped>>

\* Busy when it is active already: the lock is taken and given back.
EnableHotspot(t) ==
  /\ call[t] = "none"
  /\ g_wifiApStatus = "NOT_ACTIVE" /\ Locks(t) /\ Goes(t, "credentials")
  /\ hapdConf' = [hapdConf EXCEPT !.channel = g_wifiApConfig.channel]
  /\ UNCHANGED <<g_wifiApStatus, driver, g_wifiApConfig>>

CopyCredentials(t) ==
  /\ call[t] = "credentials" /\ Goes(t, "start")
  /\ hapdConf' = [hapdConf EXCEPT !.key = g_wifiApConfig.key]
  /\ UNCHANGED <<globalLock, g_wifiApStatus, driver, g_wifiApConfig>>

\* hi_wifi_softap_start; on failure ERROR_WIFI_NOT_STARTED.
SoftapStart(t) ==
  /\ call[t] = "start"
  /\ \/ /\ running' = TRUE /\ stopped' = FALSE /\ Goes(t, "started")
        /\ UNCHANGED globalLock
     \/ /\ Unlocks(t) /\ Goes(t, "none") /\ UNCHANGED <<running, stopped>>
  /\ UNCHANGED <<g_wifiApStatus, addressed, configs>>

CallActive(t) ==
  /\ call[t] = "started"
  /\ g_wifiApStatus' = "ACTIVE" /\ Unlocks(t) /\ Goes(t, "address")
  /\ UNCHANGED <<driver, configs>>

\* No lock is held.  Without an interface nothing is stopped; when the DHCP
\* server does not start the access point is, and whether it did is not asked.
SetHotspotIpConfig(t) ==
  /\ call[t] = "address" /\ Goes(t, "none")
  /\ \/ addressed' = TRUE /\ UNCHANGED <<running, stopped>>
     \/ UNCHANGED driver
     \/ /\ running' \in {running, FALSE} /\ stopped' = TRUE
        /\ UNCHANGED addressed
  /\ UNCHANGED <<globalLock, g_wifiApStatus, configs>>

\* ERROR_WIFI_NOT_STARTED when it is not active.
DisableHotspot(t) ==
  /\ call[t] = "none"
  /\ g_wifiApStatus = "ACTIVE" /\ Locks(t) /\ Goes(t, "stop")
  /\ UNCHANGED <<g_wifiApStatus, driver, configs>>

\* Mutant: a failure to stop is passed over.
SoftapStopUnchecked(t) ==
  /\ call[t] = "stop" /\ running' \in {running, FALSE} /\ Goes(t, "stopped")
  /\ UNCHANGED <<globalLock, g_wifiApStatus, addressed, stopped, configs>>

\* hi_wifi_softap_stop; on failure the access point stays active.
SoftapStop(t) ==
  /\ call[t] = "stop"
  /\ \/ running' = FALSE /\ Goes(t, "stopped") /\ UNCHANGED globalLock
     \/ Unlocks(t) /\ Goes(t, "none") /\ UNCHANGED running
  /\ UNCHANGED <<g_wifiApStatus, addressed, stopped, configs>>

CallNotActive(t) ==
  /\ call[t] = "stopped"
  /\ g_wifiApStatus' = "NOT_ACTIVE" /\ Unlocks(t) /\ Goes(t, "none")
  /\ UNCHANGED <<driver, configs>>

\* Mutant: the lock is not taken.
SetUnlocked(t, setting) ==
  /\ call[t] = "none" /\ Goes(t, "copy")
  /\ g_wifiApConfig' = [g_wifiApConfig EXCEPT !.channel = setting]
  /\ UNCHANGED <<globalLock, g_wifiApStatus, driver, hapdConf>>

\* memcpy_s, here in two steps, also while the access point is active.
SetHotspotConfig(t, setting) ==
  /\ call[t] = "none" /\ Locks(t) /\ Goes(t, "copy")
  /\ g_wifiApConfig' = [g_wifiApConfig EXCEPT !.channel = setting]
  /\ UNCHANGED <<g_wifiApStatus, driver, hapdConf>>

CopyRest(t) ==
  /\ call[t] = "copy" /\ Unlocks(t) /\ Goes(t, "none")
  /\ g_wifiApConfig' = [g_wifiApConfig EXCEPT !.key = g_wifiApConfig.channel]
  /\ UNCHANGED <<g_wifiApStatus, driver, hapdConf>>

Enabling(t) == \/ EnableHotspot(t) \/ CopyCredentials(t) \/ SoftapStart(t)
               \/ CallActive(t) \/ SetHotspotIpConfig(t)
Disabling(t) == DisableHotspot(t) \/ SoftapStop(t) \/ CallNotActive(t)
Configuring(t) == CopyRest(t) \/ \E setting \in Setting : SetHotspotConfig(t, setting)

Next == \E t \in Task : Enabling(t) \/ Disabling(t) \/ Configuring(t)

Spec == Init /\ [][Next]_vars

--------------------

\* Between calls the access point never runs unnoticed, and it is called active
\* without running only when an address could not be set since: then another
\* task's access point may be the one that was stopped (wifi_hotspot.c:78-82, 134-139).
HotspotStatusTrue ==
  globalLock = Nobody =>
    /\ running => g_wifiApStatus = "ACTIVE"
    /\ g_wifiApStatus = "ACTIVE" /\ ~running => stopped

\* The access point runs with one configuration that was set as a whole, although
\* the next one may be set at any time: wifi_hotspot.c:98-117, 179-183.
HotspotConfigWhole == running => hapdConf.channel = hapdConf.key
=============================================================================
