----------------------------- MODULE ByteStream -----------------------------
(***************************************************************************)
(* What stream_buffer.c promises one writer and one reader: a stream of    *)
(* bytes of bounded capacity.  A send offers bytes and moves them in from  *)
(* the front, what it gives up it gives up from the back; a receive takes  *)
(* bytes off the front in one instant and hands over exactly those; nobody *)
(* else changes anything but a reset.                                      *)
(***************************************************************************)
EXTENDS Naturals, SequencesExt

CONSTANT Capacity

VARIABLES queue,     \* the bytes sent and not received yet
          offered,   \* the bytes the send in progress has still to move in
          delivered  \* the bytes a receive took, until it returns

vars == <<queue, offered, delivered>>

Init == queue = <<>> /\ offered = <<>> /\ delivered = <<>>

Offer == /\ offered = <<>> /\ offered' # <<>>
         /\ UNCHANGED <<queue, delivered>>

Send == /\ \E n \in 1..Len(offered) :
             /\ Len(queue) + n <= Capacity
             /\ queue' = queue \o SubSeq(offered, 1, n)
             /\ offered' = SubSeq(offered, n + 1, Len(offered))
        /\ UNCHANGED delivered

GiveUp == /\ IsPrefix(offered', offered)
          /\ UNCHANGED <<queue, delivered>>

Receive == /\ delivered = <<>> /\ delivered' # <<>>
           /\ queue = delivered' \o queue'
           /\ UNCHANGED offered

Return == delivered' = <<>> /\ UNCHANGED <<queue, offered>>

Reset == queue' = <<>> /\ UNCHANGED <<offered, delivered>>

Next == Offer \/ Send \/ GiveUp \/ Receive \/ Return \/ Reset

Spec == Init /\ [][Next]_vars
=============================================================================
