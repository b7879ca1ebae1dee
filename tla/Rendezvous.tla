----------------------------- MODULE Rendezvous -----------------------------
(* What tasks that meet with xEventGroupSync rely on: none goes on before   *)
(* all have arrived, and then all do, each once, whoever runs first; a fast *)
(* one may arrive at the next meeting before a slow one has left this one.  *)

CONSTANT Party
VARIABLES arrived, \* those that wait for the others
          passed   \* those the last meeting let go that have not left yet

vars == <<arrived, passed>>

Init == arrived = {} /\ passed = {}

Arrive(p) ==
  /\ p \notin arrived \cup passed
  /\ IF arrived \cup {p} = Party
       THEN arrived' = {} /\ passed' = Party
       ELSE arrived' = arrived \cup {p} /\ UNCHANGED passed

Leave(p) == p \in passed /\ passed' = passed \ {p} /\ UNCHANGED arrived

Next == \E p \in Party : Arrive(p) \/ Leave(p)

Spec == Init /\ [][Next]_vars
=============================================================================
