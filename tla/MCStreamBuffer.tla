--------------------------- MODULE MCStreamBuffer ---------------------------
(* Instances of StreamBuffer for TLC. *)
EXTENDS StreamBuffer

\* Nobody resets the buffer, and nobody else notifies its two users.
UndisturbedNext == Next /\ ~Notify /\ ~xStreamBufferReset

UndisturbedSpec == Init /\ [][UndisturbedNext]_vars
UndisturbedFairSpec ==
  UndisturbedSpec /\ WF_vars(WriterStep) /\ WF_vars(ReaderStep) /\ WF_vars(InvokeReceive)

\* Runs of bytes told apart by their first.
Runs == {<<1, 2>>, <<2, 2, 1>>}

\* The last one holds what looks like the length of a shorter one.
Messages == {<<7>>, <<1, 0, 5>>}
=============================================================================
