------------------------------ MODULE MCMutex ------------------------------
(* Instances of Mutex for TLC.                                               *)
EXTENDS Integers, Mutex

\* Three priorities, the middle one able to starve the lowest.
ThreeTasks == {"low", "mid", "high"}
ThreePriorities == [t \in ThreeTasks |-> CASE t = "low" -> 0
                                          [] t = "mid" -> 1 [] t = "high" -> 2]

\* The most urgent one takes the plain mutex only, the others nest the two.
NestingUse == [t \in Task |-> IF t = "high" THEN {"b"} ELSE Mutexes]

\* Two of one priority above a third.
Peers == {"low", "peer", "high"}
PeerPriorities == [t \in Peers |-> IF t = "low" THEN 0 ELSE 1]
AllUseAll == [t \in Task |-> Mutexes]

\* A chain: "link" holds a mutex that "high" waits for and waits for another.
FourTasks == {"low", "link", "mid", "high"}
FourPriorities == [t \in FourTasks |-> CASE t = "low" -> 0 [] t = "link" -> 1
                                         [] t = "mid" -> 2 [] t = "high" -> 3]
ChainUse == [t \in Task |-> IF t \in {"low", "mid"} THEN {"inner"}
                            ELSE {"outer", "inner"}]
=============================================================================
