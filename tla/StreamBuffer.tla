---------------------------- MODULE StreamBuffer ----------------------------
(***************************************************************************)
(* stream_buffer.c: a ring of bytes with one writer and one reader, which  *)
(* run without a lock.  Each owns one index, copies its bytes first and    *)
(* then publishes the index; they block through task notifications.  A     *)
(* message buffer is a stream buffer that stores a length before the bytes *)
(* of each message.                                                        *)
(*                                                                         *)
(* An operation is the sequence of its accesses to what the other side     *)
(* sees.  A critical section is one step.  Writer and reader are two tasks *)
(* that preempt each other anywhere, or one of them is an interrupt, whose *)
(* calls (the FromISR functions: the same accesses, without the waiting)   *)
(* run to their end before the task runs again.                            *)
(***************************************************************************)
EXTENDS Naturals, SequencesExt

CONSTANTS Length,       \* xLength, one more than the bytes the buffer holds
          Header,       \* sbBYTES_TO_STORE_MESSAGE_LENGTH, 0 for a stream buffer
          Payloads,     \* what the writer sends
          ReceiveSizes, \* xBufferLengthBytes of the reader's calls
          SendWaits, ReceiveWaits, \* subsets of {"none", "finite", "forever"}
          Trigger,      \* the trigger level the buffer is created with
          NewTriggers,  \* arguments of xStreamBufferSetTriggerLevel
          Interrupts,   \* what may be an interrupt: "none", "writer", "reader"
          MayPutBack    \* FALSE: a task does not read what it may have to put back

Bytes == 0..255

ASSUME StreamBufferAssumption ==
  /\ Length \in Nat /\ Header \in Nat /\ Length > Header + 1
  /\ Payloads \subseteq Seq(Bytes) /\ \A p \in Payloads : Len(p) \in 1..255
  /\ ReceiveSizes \subseteq Nat \ {0} /\ NewTriggers \subseteq Nat
  /\ Trigger \in 0..(Length - 1)
  /\ SendWaits \subseteq {"none", "finite", "forever"}
  /\ ReceiveWaits \subseteq {"none", "finite", "forever"}
  /\ Interrupts \subseteq {"none", "writer", "reader"}
  /\ MayPutBack \in BOOLEAN

VARIABLES xTail, xHead, pucBuffer, xTriggerLevelBytes,
          xTaskWaitingToReceive, xTaskWaitingToSend, \* TRUE: holds the handle
          notified,   \* per side, a notification is pending
          send, recv, \* the call each side is in
          interrupt   \* the side that is an interrupt, if any

ring == <<xTail, xHead, pucBuffer>>
handles == <<xTaskWaitingToReceive, xTaskWaitingToSend>>
vars == <<ring, xTriggerLevelBytes, handles, notified, send, recv, interrupt>>

IsMessageBuffer == Header > 0
Wait == {"none", "finite", "forever"}
Index == 0..(Length - 1)
AtMost(a, b) == IF a < b THEN a ELSE b   \* configMIN

--------------------
(* The ring. *)

\* Mutant: one place further before it wraps.
AdvancePastEnd(i, n) == IF i + n > Length THEN i + n - Length ELSE i + n
Advance(i, n) == IF i + n >= Length THEN i + n - Length ELSE i + n

prvBytesInBuffer ==
  LET c == Length + xHead - xTail IN IF c >= Length THEN c - Length ELSE c

xStreamBufferSpacesAvailable ==
  LET s == Length + xTail - xHead - 1 IN IF s >= Length THEN s - Length ELSE s

\* The buffer once the bytes were copied in from xHead on.
Filled(bytes) ==
  LET offset(i) == IF i >= xHead THEN i - xHead ELSE i + Length - xHead
  IN  [i \in Index |-> IF offset(i) < Len(bytes) THEN bytes[offset(i) + 1]
                       ELSE pucBuffer[i]]

FromTail(n) == [k \in 1..n |-> pucBuffer[Advance(xTail, k - 1)]]

\* The length of a message as it is stored, and as it is read back: size_t,
\* the low byte first.
LengthBytes(n) == [k \in 1..Header |-> IF k = 1 THEN n ELSE 0]
StoredLength(bytes) ==
  LET from[k \in 1..(Len(bytes) + 1)] ==
        IF k > Len(bytes) THEN 0 ELSE bytes[k] + 256 * from[k + 1]
  IN  from[1]

--------------------
(* Calls. *)
SendPlace == {"idle", "check", "wait", "woken", "decide", "copy", "publish",
              "complete", "notify"}
ReceivePlace == {"idle", "check", "wait", "woken", "look", "empty", "copy",
                 "publish", "length", "restore", "complete"}

NoSend == [at |-> "idle", data |-> <<>>, wait |-> "none", expired |-> FALSE,
           xSpace |-> 0, chunks |-> <<>>]
NoReceive == [at |-> "idle", peek |-> FALSE, size |-> 1, wait |-> "none",
              expired |-> FALSE, xBytesAvailable |-> 0, body |-> FALSE,
              xOriginalTail |-> 0, xCount |-> 0, bytes |-> <<>>]

\* An interrupt runs to its end before the other side goes on.
WriterRuns == interrupt = "reader" => recv.at = "idle"
ReaderRuns == interrupt = "writer" => send.at = "idle"

SendAt(place) == WriterRuns /\ send.at = place
ReceiveAt(place) == ReaderRuns /\ recv.at = place

Init ==
  /\ xTail = 0 /\ xHead = 0 /\ pucBuffer = [i \in Index |-> 85]
  /\ xTriggerLevelBytes = IF Trigger = 0 THEN 1 ELSE Trigger
  /\ xTaskWaitingToReceive = FALSE /\ xTaskWaitingToSend = FALSE
  /\ notified = [p \in {"writer", "reader"} |-> FALSE]
  /\ send = NoSend /\ recv = NoReceive
  /\ interrupt \in Interrupts

\* Another user of the task's notification, or SendCompletedFromISR and
\* ReceiveCompletedFromISR.
Notify ==
  /\ \/ \E p \in {"writer", "reader"} :
          notified' = [notified EXCEPT ![p] = TRUE] /\ UNCHANGED handles
     \/ /\ xTaskWaitingToReceive
        /\ notified' = [notified EXCEPT !["reader"] = TRUE]
        /\ xTaskWaitingToReceive' = FALSE /\ UNCHANGED xTaskWaitingToSend
     \/ /\ xTaskWaitingToSend
        /\ notified' = [notified EXCEPT !["writer"] = TRUE]
        /\ xTaskWaitingToSend' = FALSE /\ UNCHANGED xTaskWaitingToReceive
  /\ UNCHANGED <<interrupt, ring, xTriggerLevelBytes, send, recv>>

\* Only between calls: nothing else keeps a reset away from a call in progress.
xStreamBufferReset ==
  /\ send.at = "idle" /\ recv.at = "idle"
  /\ ~xTaskWaitingToReceive /\ ~xTaskWaitingToSend
  /\ xTail' = 0 /\ xHead' = 0 /\ pucBuffer' = [i \in Index |-> 85]
  /\ UNCHANGED <<interrupt, xTriggerLevelBytes, handles, notified, send, recv>>

xStreamBufferSetTriggerLevel ==
  /\ \E n \in NewTriggers :
       LET level == IF n = 0 THEN 1 ELSE n
       IN  level <= Length /\ xTriggerLevelBytes' = level
  /\ UNCHANGED <<interrupt, ring, handles, notified, send, recv>>

--------------------
(* The writer: xStreamBufferSend, xStreamBufferSendFromISR. *)

\* Mutant: the length stored with a message is not counted.
RequiredWithoutLength(p) == Len(p)

RequiredSpace(p) == Len(p) + Header

InvokeSend ==
  /\ SendAt("idle")
  /\ \E p \in Payloads, w \in IF interrupt = "writer" THEN {"none"} ELSE SendWaits :
       send' = [NoSend EXCEPT !.at = IF w = "none" THEN "decide" ELSE "check",
                              !.data = p, !.wait = w]
  /\ UNCHANGED <<interrupt, ring, xTriggerLevelBytes, handles, notified, recv>>

CheckSpace ==
  /\ SendAt("check")
  /\ LET space == xStreamBufferSpacesAvailable
         short == space < RequiredSpace(send.data)
     IN  /\ send' = [send EXCEPT !.xSpace = space,
                                 !.at = IF short THEN "wait" ELSE "decide"]
         /\ notified' = IF short THEN [notified EXCEPT !["writer"] = FALSE]
                        ELSE notified
         /\ xTaskWaitingToSend' = IF short THEN TRUE ELSE xTaskWaitingToSend
  /\ UNCHANGED <<interrupt, ring, xTriggerLevelBytes, xTaskWaitingToReceive, recv>>

\* xTaskNotifyWait returns: at once when a notification is pending.
WakeWriter ==
  /\ SendAt("wait") /\ (notified["writer"] \/ send.expired)
  /\ notified' = [notified EXCEPT !["writer"] = FALSE]
  /\ send' = [send EXCEPT !.at = "woken"]
  /\ UNCHANGED <<interrupt, ring, xTriggerLevelBytes, handles, recv>>

WriterAwake ==
  /\ SendAt("woken")
  /\ xTaskWaitingToSend' = FALSE
  /\ send' = [send EXCEPT !.at = IF send.expired THEN "decide" ELSE "check"]
  /\ UNCHANGED <<interrupt, ring, xTriggerLevelBytes, xTaskWaitingToReceive, notified, recv>>

\* prvWriteMessageToBuffer: the byte strings it hands to prvWriteBytesToBuffer.
Chunks(p, space) ==
  CASE space = 0 -> <<>>
    [] space > 0 /\ ~IsMessageBuffer -> <<SubSeq(p, 1, AtMost(Len(p), space))>>
    [] space >= RequiredSpace(p) /\ IsMessageBuffer -> <<LengthBytes(Len(p)), p>>
    [] OTHER -> <<>>

\* The space found before the last wait is used if it was not zero.
Decide ==
  /\ SendAt("decide")
  /\ LET space == IF send.xSpace = 0 THEN xStreamBufferSpacesAvailable
                  ELSE send.xSpace
         chunks == Chunks(send.data, space)
     IN  send' = IF chunks = <<>> THEN NoSend
                 ELSE [send EXCEPT !.at = "copy", !.chunks = chunks, !.xSpace = 0]
  /\ UNCHANGED <<interrupt, ring, xTriggerLevelBytes, handles, notified, recv>>

\* Mutant: the index is published although the bytes are not there yet.
CopyNothing ==
  /\ SendAt("copy")
  /\ send' = [send EXCEPT !.at = "publish"]
  /\ UNCHANGED <<interrupt, ring, xTriggerLevelBytes, handles, notified, recv>>

CopyIn ==
  /\ SendAt("copy")
  /\ pucBuffer' = Filled(Head(send.chunks))
  /\ send' = [send EXCEPT !.at = "publish"]
  /\ UNCHANGED <<interrupt, xTail, xHead, xTriggerLevelBytes, handles, notified, recv>>

PublishHead ==
  /\ SendAt("publish")
  /\ xHead' = Advance(xHead, Len(Head(send.chunks)))
  /\ send' = [send EXCEPT !.chunks = Tail(send.chunks),
                          !.at = IF Len(send.chunks) > 1 THEN "copy" ELSE "complete"]
  /\ UNCHANGED <<interrupt, xTail, pucBuffer, xTriggerLevelBytes, handles, notified, recv>>

\* Mutant: one byte more than the trigger level wakes the reader.
CompleteAboveTrigger ==
  /\ SendAt("complete")
  /\ send' = IF prvBytesInBuffer > xTriggerLevelBytes
             THEN [send EXCEPT !.at = "notify"] ELSE NoSend
  /\ UNCHANGED <<interrupt, ring, xTriggerLevelBytes, handles, notified, recv>>

SendComplete ==
  /\ SendAt("complete")
  /\ send' = IF prvBytesInBuffer >= xTriggerLevelBytes
             THEN [send EXCEPT !.at = "notify"] ELSE NoSend
  /\ UNCHANGED <<interrupt, ring, xTriggerLevelBytes, handles, notified, recv>>

sbSEND_COMPLETED ==
  /\ SendAt("notify")
  /\ notified' = [notified EXCEPT !["reader"] = @ \/ xTaskWaitingToReceive]
  /\ xTaskWaitingToReceive' = FALSE
  /\ send' = NoSend
  /\ UNCHANGED <<interrupt, ring, xTriggerLevelBytes, xTaskWaitingToSend, recv>>

--------------------
(* The reader: xStreamBufferReceive, xStreamBufferReceiveFromISR and       *)
(* xStreamBufferNextMessageLengthBytes.                                    *)

\* No task sees the tail an interrupt puts back.  Between two tasks it is seen.
PutsBackSafely == ~IsMessageBuffer \/ interrupt = "reader" \/ MayPutBack

InvokeReceive ==
  /\ ReceiveAt("idle")
  /\ \E n \in ReceiveSizes,
        w \in IF interrupt = "reader" THEN {"none"} ELSE ReceiveWaits :
       /\ (\A p \in Payloads : Len(p) <= n) \/ PutsBackSafely
       /\ recv' = [NoReceive EXCEPT !.at = IF w = "none" THEN "look" ELSE "check",
                                    !.size = n, !.wait = w]
  /\ UNCHANGED <<interrupt, ring, xTriggerLevelBytes, handles, notified, send>>

InvokePeek ==
  /\ ReceiveAt("idle") /\ IsMessageBuffer /\ PutsBackSafely
  /\ recv' = [NoReceive EXCEPT !.at = "look", !.peek = TRUE]
  /\ UNCHANGED <<interrupt, ring, xTriggerLevelBytes, handles, notified, send>>

\* The first bytes to read: the length of the message, or all of the data.
StartReading(r, available) ==
  [r EXCEPT !.xBytesAvailable = available,
            !.at = IF available > Header THEN "copy" ELSE "empty",
            !.body = ~IsMessageBuffer,
            !.xCount = IF IsMessageBuffer THEN Header ELSE AtMost(available, r.size)]

\* Mutant: the bytes are counted first, outside of the critical section.
CheckBytesUnlocked ==
  /\ ReceiveAt("check")
  /\ \/ /\ recv.xCount = 0
        /\ recv' = IF prvBytesInBuffer <= Header THEN [recv EXCEPT !.xCount = 1]
                   ELSE StartReading(recv, prvBytesInBuffer)
        /\ UNCHANGED <<notified, xTaskWaitingToReceive>>
     \/ /\ recv.xCount = 1
        /\ recv' = [recv EXCEPT !.at = "wait"]
        /\ notified' = [notified EXCEPT !["reader"] = FALSE]
        /\ xTaskWaitingToReceive' = TRUE
  /\ UNCHANGED <<interrupt, ring, xTriggerLevelBytes, xTaskWaitingToSend, send>>

CheckBytes ==
  /\ ReceiveAt("check")
  /\ LET short == prvBytesInBuffer <= Header
     IN  /\ recv' = IF short THEN [recv EXCEPT !.at = "wait"]
                    ELSE StartReading(recv, prvBytesInBuffer)
         /\ notified' = IF short THEN [notified EXCEPT !["reader"] = FALSE]
                        ELSE notified
         /\ xTaskWaitingToReceive' = IF short THEN TRUE ELSE xTaskWaitingToReceive
  /\ UNCHANGED <<interrupt, ring, xTriggerLevelBytes, xTaskWaitingToSend, send>>

WakeReader ==
  /\ ReceiveAt("wait") /\ (notified["reader"] \/ recv.expired)
  /\ notified' = [notified EXCEPT !["reader"] = FALSE]
  /\ recv' = [recv EXCEPT !.at = "woken"]
  /\ UNCHANGED <<interrupt, ring, xTriggerLevelBytes, handles, send>>

ReaderAwake ==
  /\ ReceiveAt("woken")
  /\ xTaskWaitingToReceive' = FALSE
  /\ recv' = [recv EXCEPT !.at = "look"]
  /\ UNCHANGED <<interrupt, ring, xTriggerLevelBytes, xTaskWaitingToSend, notified, send>>

Look ==
  /\ ReceiveAt("look")
  /\ recv' = StartReading(recv, prvBytesInBuffer)
  /\ UNCHANGED <<interrupt, ring, xTriggerLevelBytes, handles, notified, send>>

ReturnNothing ==
  /\ ReceiveAt("empty")
  /\ recv' = NoReceive
  /\ UNCHANGED <<interrupt, ring, xTriggerLevelBytes, handles, notified, send>>

CopyOut ==
  /\ ReceiveAt("copy")
  /\ recv' = [recv EXCEPT !.bytes = FromTail(recv.xCount), !.at = "publish",
                          !.xOriginalTail = IF recv.body THEN @ ELSE xTail]
  /\ UNCHANGED <<interrupt, ring, xTriggerLevelBytes, handles, notified, send>>

PublishTail ==
  /\ ReceiveAt("publish")
  /\ xTail' = Advance(xTail, recv.xCount)
  /\ recv' = [recv EXCEPT !.at = IF recv.body THEN "complete" ELSE "length"]
  /\ UNCHANGED <<interrupt, xHead, pucBuffer, xTriggerLevelBytes, handles, notified, send>>

\* The length is known: read the message, or put the length back.
MessageLength ==
  /\ ReceiveAt("length")
  /\ LET n == StoredLength(recv.bytes)
         available == recv.xBytesAvailable - Header
     IN  recv' = IF recv.peek \/ n > recv.size
                 THEN [recv EXCEPT !.at = "restore", !.bytes = <<>>]
                 ELSE [recv EXCEPT !.body = TRUE, !.xBytesAvailable = available,
                                   !.xCount = AtMost(available, n), !.bytes = <<>>,
                                   !.at = IF n = 0 THEN "empty" ELSE "copy"]
  /\ UNCHANGED <<interrupt, ring, xTriggerLevelBytes, handles, notified, send>>

RestoreTail ==
  /\ ReceiveAt("restore")
  /\ xTail' = recv.xOriginalTail
  /\ recv' = NoReceive
  /\ UNCHANGED <<interrupt, xHead, pucBuffer, xTriggerLevelBytes, handles, notified, send>>

\* Mutant: the writer is told only when the buffer was emptied.
CompletedWhenEmpty ==
  /\ ReceiveAt("complete")
  /\ notified' = [notified EXCEPT
       !["writer"] = @ \/ (xTaskWaitingToSend /\ prvBytesInBuffer = 0)]
  /\ xTaskWaitingToSend' = (xTaskWaitingToSend /\ prvBytesInBuffer > 0)
  /\ recv' = NoReceive
  /\ UNCHANGED <<interrupt, ring, xTriggerLevelBytes, xTaskWaitingToReceive, send>>

sbRECEIVE_COMPLETED ==
  /\ ReceiveAt("complete")
  /\ notified' = [notified EXCEPT !["writer"] = @ \/ xTaskWaitingToSend]
  /\ xTaskWaitingToSend' = FALSE
  /\ recv' = NoReceive
  /\ UNCHANGED <<interrupt, ring, xTriggerLevelBytes, xTaskWaitingToReceive, send>>

--------------------
\* A finite block time runs out.
ExpireSend == /\ send.at = "wait" /\ send.wait = "finite" /\ ~send.expired
              /\ send' = [send EXCEPT !.expired = TRUE]
              /\ UNCHANGED <<interrupt, ring, xTriggerLevelBytes, handles, notified, recv>>
ExpireReceive == /\ recv.at = "wait" /\ recv.wait = "finite" /\ ~recv.expired
                 /\ recv' = [recv EXCEPT !.expired = TRUE]
                 /\ UNCHANGED <<interrupt, ring, xTriggerLevelBytes, handles, notified, send>>

WriterStep == \/ CheckSpace \/ WakeWriter \/ WriterAwake \/ Decide \/ CopyIn
              \/ PublishHead \/ SendComplete \/ sbSEND_COMPLETED
ReaderStep == \/ CheckBytes \/ WakeReader \/ ReaderAwake \/ Look \/ ReturnNothing
              \/ CopyOut \/ PublishTail \/ MessageLength \/ RestoreTail
              \/ sbRECEIVE_COMPLETED

Next ==
  \/ WriterStep \/ ReaderStep
  \/ InvokeSend \/ InvokeReceive \/ InvokePeek
  \/ ExpireSend \/ ExpireReceive
  \/ Notify \/ xStreamBufferReset \/ xStreamBufferSetTriggerLevel

Spec == Init /\ [][Next]_vars

\* Both sides are scheduled, and the reader keeps on reading.
FairSpec == Spec /\ WF_vars(WriterStep) /\ WF_vars(ReaderStep) /\ WF_vars(InvokeReceive)

--------------------
(* Properties. *)

\* Type correctness; both indices stay inside the buffer.
TypeOK ==
  /\ xTail \in Index /\ xHead \in Index
  /\ pucBuffer \in [Index -> Bytes]
  /\ xTriggerLevelBytes \in 1..Length
  /\ xTaskWaitingToReceive \in BOOLEAN /\ xTaskWaitingToSend \in BOOLEAN
  /\ notified \in [{"writer", "reader"} -> BOOLEAN]
  /\ DOMAIN send = DOMAIN NoSend /\ DOMAIN recv = DOMAIN NoReceive
  /\ send.at \in SendPlace /\ recv.at \in ReceivePlace
  /\ interrupt \in {"none", "writer", "reader"}
  /\ send.wait \in Wait /\ recv.wait \in Wait
  /\ send.xSpace \in 0..(Length - 1) /\ recv.xBytesAvailable \in 0..(Length - 1)
  /\ recv.xOriginalTail \in Index /\ recv.xCount \in 0..(Length - 1)

\* The ring is a stream of bytes: however the steps of a send and a receive
\* mix, the bytes received are the bytes sent, in order, none lost, none
\* repeated, none read before it was written.  The stream changes when an
\* index is published.
Stream == INSTANCE ByteStream WITH
  Capacity <- Length - 1,
  queue <- FromTail(prvBytesInBuffer),
  offered <- IF send.at \in {"check", "wait", "woken", "decide"}
             THEN LengthBytes(Len(send.data)) \o send.data
             ELSE FlattenSeq(send.chunks),
  delivered <- IF recv.at \in {"length", "complete"} THEN recv.bytes ELSE <<>>

ImplementsByteStream == Stream!Spec

\* A reader that sleeps is registered, and if the trigger level is reached the
\* writer is still on its way to wake it (xStreamBufferReceive clears the
\* notification and registers in one critical section for this).
NoReaderLeftAsleep ==
  recv.at = "wait" /\ ~notified["reader"] =>
    /\ xTaskWaitingToReceive
    /\ \/ prvBytesInBuffer < xTriggerLevelBytes
       \/ send.at \in {"copy", "publish", "complete", "notify"}

\* A writer that sleeps is registered, and if there is space for its data the
\* reader is still on its way to wake it.
NoWriterLeftAsleep ==
  send.at = "wait" /\ ~notified["writer"] =>
    /\ xTaskWaitingToSend
    /\ \/ xStreamBufferSpacesAvailable < RequiredSpace(send.data)
       \/ recv.at \in {"copy", "publish", "length", "restore", "complete"}

\* No wake-up is lost, on either side (stream_buffer.c:545, 745).
NobodyLeftAsleep == NoReaderLeftAsleep /\ NoWriterLeftAsleep

\* Reader and writer wait for each other only if the writer waits for more
\* space than a buffer one byte short of its trigger level has.
MutualWaitNeedsHighTrigger ==
  /\ recv.at = "wait" /\ ~notified["reader"]
  /\ send.at = "wait" /\ ~notified["writer"]
  => xTriggerLevelBytes + RequiredSpace(send.data) > Length

\* What is received from a message buffer is one message that was sent, never
\* a part of one, never bytes of two.
RightMessage ==
  IsMessageBuffer /\ recv.at = "complete" => recv.bytes \in Payloads

\* A writer whose data fits below the trigger level gets through, if the reader
\* keeps on reading: no wake-up is lost and the two do not wait for each other.
SendReturns ==
  send.at # "idle" /\ xTriggerLevelBytes + RequiredSpace(send.data) <= Length
    ~> send.at = "idle"
=============================================================================
