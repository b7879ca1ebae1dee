---------------------------- MODULE MCWifiDevice ----------------------------
(* Instances of WifiDevice for TLC: every constant is given in the .cfg.     *)
EXTENDS WifiDevice

CONSTANT PendingBound  \* the link does no more before its events are delivered

BoundedNext == Next /\ (DriverEvent => Len(driver.pending) < PendingBound)

BoundedFairSpec ==
  Init /\ [][BoundedNext]_vars /\ WF_vars(WpaTask)
       /\ \A c \in Caller : SF_vars(InCall(c))
=============================================================================
