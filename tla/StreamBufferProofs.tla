------------------------- MODULE StreamBufferProofs -------------------------
\* Theorems about StreamBuffer, stream and message buffers of any capacity, for
\* any data, any waiting times and any trigger level.
\* At the end: co-routines (CoRoutine) and the idle task that stops the tick
\* (Tickless).
EXTENDS StreamBuffer, SequenceTheorems, FiniteSetTheorems, WellFoundedInduction, TLAPS

IsStream == Header = 0

--------------------
\* The ring by itself, read from tail on and written from head on.

Between(tail, head) ==
  LET c == Length + head - tail IN IF c >= Length THEN c - Length ELSE c

Room(tail, head) == Length - 1 - Between(tail, head)

LEMMA LengthFacts == Length \in Nat /\ Length > 1
  BY StreamBufferAssumption

LEMMA PayloadFacts ==
  ASSUME NEW p \in Payloads
  PROVE  p \in Seq(Bytes) /\ Len(p) \in Nat /\ Len(p) >= 1
<1>1. p \in Seq(Bytes) /\ Len(p) \in 1..255 BY StreamBufferAssumption
<1> DEFINE n == Len(p)
<1>2. n \in 1..255 BY <1>1
<1> HIDE DEF n
<1>3. n \in Nat /\ n >= 1 BY <1>2
<1> QED BY <1>1, <1>3 DEF n

LEMMA RingBounds ==
  ASSUME NEW tail \in Index, NEW head \in Index
  PROVE  /\ Between(tail, head) \in Index /\ Room(tail, head) \in Index
         /\ Between(tail, head) + Room(tail, head) = Length - 1
         /\ Advance(tail, Between(tail, head)) = head
  BY LengthFacts DEF Index, Between, Room, Advance

LEMMA SpaceIs ==
  ASSUME NEW tail \in Index, NEW head \in Index
  PROVE  (LET s == Length + tail - head - 1 IN IF s >= Length THEN s - Length ELSE s)
           = Room(tail, head)
  BY LengthFacts DEF Index, Between, Room

LEMMA OperatorsAre ==
  ASSUME xTail \in Index, xHead \in Index
  PROVE  /\ prvBytesInBuffer = Between(xTail, xHead)
         /\ xStreamBufferSpacesAvailable = Room(xTail, xHead)
  BY LengthFacts DEF Index, prvBytesInBuffer, xStreamBufferSpacesAvailable, Between, Room

LEMMA AdvanceType ==
  ASSUME NEW i \in Index, NEW n \in 0..Length
  PROVE  Advance(i, n) \in Index
  BY LengthFacts DEF Index, Advance

\* Two advances are one.
LEMMA AdvanceTwice ==
  ASSUME NEW i \in Index, NEW m \in Nat, NEW n \in Nat, m + n <= Length
  PROVE  Advance(Advance(i, m), n) = Advance(i, m + n)
  BY LengthFacts DEF Index, Advance

LEMMA HeadMoves ==
  ASSUME NEW tail \in Index, NEW head \in Index, NEW n \in 0..Room(tail, head)
  PROVE  /\ Advance(head, n) \in Index
         /\ Between(tail, Advance(head, n)) = Between(tail, head) + n
  BY LengthFacts DEF Index, Between, Room, Advance

LEMMA TailMoves ==
  ASSUME NEW tail \in Index, NEW head \in Index, NEW n \in 0..Between(tail, head)
  PROVE  /\ Advance(tail, n) \in Index
         /\ Between(Advance(tail, n), head) = Between(tail, head) - n
  BY LengthFacts DEF Index, Between, Advance

\* The n bytes from a place on.
Listed(buffer, i, n) == [k \in 1..n |-> buffer[Advance(i, k - 1)]]

LEMMA ListedFacts ==
  ASSUME NEW buffer \in [Index -> Bytes], NEW i \in Index, NEW n \in 0..Length
  PROVE  /\ Listed(buffer, i, n) \in Seq(Bytes) /\ Len(Listed(buffer, i, n)) = n
         /\ \A k \in 1..n : Listed(buffer, i, n)[k] = buffer[Advance(i, k - 1)]
<1>1. n \in Nat BY LengthFacts
<1>2. \A k \in 1..n : Advance(i, k - 1) \in Index
  <2> SUFFICES ASSUME NEW k \in 1..n PROVE Advance(i, k - 1) \in Index OBVIOUS
  <2>1. k - 1 \in 0..Length BY LengthFacts
  <2> QED BY <2>1, AdvanceType
<1>3. Listed(buffer, i, n) \in [1..n -> Bytes] BY <1>2 DEF Listed
<1>4. Listed(buffer, i, n) \in Seq(Bytes) BY <1>1, <1>3, SeqDef
<1>5. DOMAIN Listed(buffer, i, n) = 1..n BY <1>3
<1> DEFINE l == Listed(buffer, i, n)
<1>6. Len(l) \in Nat /\ DOMAIN l = 1..Len(l) BY <1>4, LenProperties
<1>7. Len(l) = n
  <2> DEFINE m == Len(l)
  <2>1. m \in Nat /\ 1..m = 1..n BY <1>5, <1>6
  <2> HIDE DEF l, m
  <2>2. (n \in 1..n <=> n \in 1..m) /\ (m \in 1..n <=> m \in 1..m) BY <2>1
  <2>3. m = n BY <1>1, <2>1, <2>2
  <2> QED BY <2>3 DEF m
<1> QED BY <1>4, <1>7 DEF Listed

\* Sequences with the same bytes are the same.
LEMMA SameSequence ==
  ASSUME NEW S, NEW s \in Seq(S), NEW t \in Seq(S), Len(s) = Len(t),
         \A k \in 1..Len(s) : s[k] = t[k]
  PROVE  s = t
  BY SeqEqual

\* What is written after the head does not touch what is listed from the tail.
LEMMA FilledFacts ==
  ASSUME xTail \in Index, xHead \in Index, pucBuffer \in [Index -> Bytes],
         NEW bytes \in Seq(Bytes), Len(bytes) \in 0..Room(xTail, xHead)
  PROVE  /\ Filled(bytes) \in [Index -> Bytes]
         /\ \A k \in 1..Len(bytes) : Filled(bytes)[Advance(xHead, k - 1)] = bytes[k]
         /\ \A k \in 1..Between(xTail, xHead) :
              Filled(bytes)[Advance(xTail, k - 1)] = pucBuffer[Advance(xTail, k - 1)]
<1> DEFINE offset(i) == IF i >= xHead THEN i - xHead ELSE i + Length - xHead
<1>1. Filled(bytes) = [i \in Index |-> IF offset(i) < Len(bytes) THEN bytes[offset(i) + 1]
                                       ELSE pucBuffer[i]]
  BY DEF Filled
<1>2. \A i \in Index : offset(i) \in Index BY LengthFacts DEF Index
<1>3. Len(bytes) \in Nat /\ \A k \in 1..Len(bytes) : bytes[k] \in Bytes
  BY ElementOfSeq, LenProperties
<1>4. Room(xTail, xHead) \in Index /\ Between(xTail, xHead) \in Index BY RingBounds
<1>5. \A k \in 1..Len(bytes) : Advance(xHead, k - 1) \in Index /\ offset(Advance(xHead, k - 1)) = k - 1
  BY <1>3, <1>4, LengthFacts DEF Index, Advance
<1>6. \A k \in 1..Between(xTail, xHead) :
        /\ Advance(xTail, k - 1) \in Index
        /\ offset(Advance(xTail, k - 1)) >= Len(bytes)
  BY <1>3, <1>4, LengthFacts DEF Index, Advance, Between, Room
<1>7. Filled(bytes) \in [Index -> Bytes]
  <2> SUFFICES ASSUME NEW i \in Index
               PROVE  (IF offset(i) < Len(bytes) THEN bytes[offset(i) + 1]
                       ELSE pucBuffer[i]) \in Bytes
    BY <1>1
  <2>1. ASSUME offset(i) < Len(bytes) PROVE offset(i) + 1 \in 1..Len(bytes)
    BY <1>2, <1>3, <2>1, LengthFacts DEF Index
  <2> QED BY <1>3, <2>1
<1>8. ASSUME NEW k \in 1..Len(bytes)
      PROVE  Filled(bytes)[Advance(xHead, k - 1)] = bytes[k]
  <2>1. k - 1 < Len(bytes) /\ (k - 1) + 1 = k BY <1>3
  <2> HIDE DEF offset
  <2> QED BY <1>1, <1>5, <2>1
<1>9. ASSUME NEW k \in 1..Between(xTail, xHead)
      PROVE  Filled(bytes)[Advance(xTail, k - 1)] = pucBuffer[Advance(xTail, k - 1)]
  <2>1. /\ Advance(xTail, k - 1) \in Index
        /\ offset(Advance(xTail, k - 1)) >= Len(bytes)
    BY <1>6
  <2>2. offset(Advance(xTail, k - 1)) \in Nat BY <1>2, <2>1, LengthFacts DEF Index
  <2> HIDE DEF offset
  <2>3. ~(offset(Advance(xTail, k - 1)) < Len(bytes)) BY <1>3, <2>1, <2>2
  <2> QED BY <1>1, <2>1, <2>3
<1> QED BY <1>7, <1>8, <1>9

--------------------
\* The inductive invariant.

SendCall == [at : SendPlace, data : Payloads \cup {<<>>}, wait : Wait,
             expired : BOOLEAN, xSpace : Index, chunks : Seq(Seq(Bytes))]
ReceiveCall == [at : ReceivePlace, peek : BOOLEAN, size : Nat \ {0}, wait : Wait,
                expired : BOOLEAN, xBytesAvailable : Index, body : BOOLEAN,
                xOriginalTail : Index, xCount : Index, bytes : Seq(Bytes)]

CallsTyped == send \in SendCall /\ recv \in ReceiveCall

\* Before it writes, the writer saw no more space than there is: only it takes
\* space away.  What it writes fits, and is there before the head passes it.
WriterInv ==
  /\ send.at # "idle" => send.data \in Payloads
  /\ send.at \in {"check", "wait", "woken", "decide"} =>
       send.chunks = <<>> /\ send.xSpace <= xStreamBufferSpacesAvailable
  /\ send.at \in {"copy", "publish"} =>
       /\ Len(send.chunks) = 1
       /\ Len(send.chunks[1]) \in 1..xStreamBufferSpacesAvailable
  /\ send.at = "publish" =>
       \A k \in 1..Len(send.chunks[1]) :
         pucBuffer[Advance(xHead, k - 1)] = send.chunks[1][k]
  /\ send.at \in {"idle", "complete", "notify"} => send.chunks = <<>>

\* The reader takes no more than there is, and has what it takes before the
\* tail passes it.
ReaderInv ==
  /\ recv.at \notin {"length", "restore"} /\ ~recv.peek
  /\ recv.at \in {"copy", "publish"} => recv.body /\ recv.xCount \in 1..prvBytesInBuffer
  /\ recv.at = "publish" => recv.bytes = FromTail(recv.xCount)
  /\ recv.at = "complete" => recv.bytes # <<>>

IInv == TypeOK /\ CallsTyped /\ WriterInv /\ ReaderInv

LEMMA RingNow ==
  ASSUME TypeOK
  PROVE  /\ xTail \in Index /\ xHead \in Index
         /\ prvBytesInBuffer \in Index /\ xStreamBufferSpacesAvailable \in Index
         /\ prvBytesInBuffer + xStreamBufferSpacesAvailable = Length - 1
         /\ prvBytesInBuffer = Between(xTail, xHead)
         /\ xStreamBufferSpacesAvailable = Room(xTail, xHead)
         /\ 0 \in Index /\ \A n \in Index : n \in Int /\ n >= 0 /\ n <= Length - 1
<1>1. xTail \in Index /\ xHead \in Index BY DEF TypeOK
<1>2. 0 \in Index /\ \A n \in Index : n \in Int /\ n >= 0 /\ n <= Length - 1
  BY LengthFacts DEF Index
<1> QED BY <1>1, <1>2, RingBounds, OperatorsAre

\* What is no part of the invariant but is kept by its types.
OthersTyped ==
  /\ xTriggerLevelBytes \in 1..Length
  /\ xTaskWaitingToReceive \in BOOLEAN /\ xTaskWaitingToSend \in BOOLEAN
  /\ notified \in [{"writer", "reader"} -> BOOLEAN]
  /\ interrupt \in {"none", "writer", "reader"}

RingTyped == xTail \in Index /\ xHead \in Index /\ pucBuffer \in [Index -> Bytes]

LEMMA TypesTogether ==
  ASSUME RingTyped', OthersTyped', CallsTyped'
  PROVE  TypeOK'
<1>1. /\ DOMAIN NoSend = {"at", "data", "wait", "expired", "xSpace", "chunks"}
      /\ DOMAIN NoReceive = {"at", "peek", "size", "wait", "expired", "xBytesAvailable",
                             "body", "xOriginalTail", "xCount", "bytes"}
  BY DEF NoSend, NoReceive
<1>2. /\ DOMAIN send' = {"at", "data", "wait", "expired", "xSpace", "chunks"}
      /\ DOMAIN recv' = {"at", "peek", "size", "wait", "expired", "xBytesAvailable",
                        "body", "xOriginalTail", "xCount", "bytes"}
  BY DEF CallsTyped, SendCall, ReceiveCall
<1>3. /\ send'.at \in SendPlace /\ recv'.at \in ReceivePlace
      /\ send'.wait \in Wait /\ recv'.wait \in Wait
      /\ send'.xSpace \in Index /\ recv'.xBytesAvailable \in Index
      /\ recv'.xOriginalTail \in Index /\ recv'.xCount \in Index
  BY DEF CallsTyped, SendCall, ReceiveCall
<1> QED BY <1>1, <1>2, <1>3 DEF RingTyped, OthersTyped, TypeOK, Index

LEMMA NoCallsTyped == NoSend \in SendCall /\ NoReceive \in ReceiveCall
<1>1. 0 \in Index /\ <<>> \in Seq(Bytes) /\ <<>> \in Seq(Seq(Bytes))
  BY LengthFacts DEF Index
<1> QED
  BY <1>1 DEF NoSend, NoReceive, SendCall, ReceiveCall, SendPlace, ReceivePlace, Wait

\* A step of one side leaves what the other counts on, if it leaves the ring.
LEMMA WriterLeaves ==
  ASSUME IInv, UNCHANGED <<xTail, xHead, pucBuffer, recv>>
  PROVE  ReaderInv'
  BY DEF IInv, ReaderInv, prvBytesInBuffer, FromTail

LEMMA ReaderLeaves ==
  ASSUME IInv, UNCHANGED <<xTail, xHead, pucBuffer, send>>
  PROVE  WriterInv'
  BY DEF IInv, WriterInv, xStreamBufferSpacesAvailable

--------------------
\* The writer's steps.

\* Those that leave the ring: the call and the notifications only.
WriterAside == InvokeSend \/ CheckSpace \/ WakeWriter \/ WriterAwake \/ Decide
               \/ SendComplete \/ sbSEND_COMPLETED \/ ExpireSend

LEMMA WriterAsideFrame ==
  ASSUME TypeOK, WriterAside
  PROVE  /\ UNCHANGED <<xTail, xHead, pucBuffer, recv, xTriggerLevelBytes, interrupt>>
         /\ OthersTyped'
<1>1. UNCHANGED <<xTail, xHead, pucBuffer, recv, xTriggerLevelBytes, interrupt>>
  BY DEF WriterAside, InvokeSend, CheckSpace, WakeWriter, WriterAwake, Decide,
         SendComplete, sbSEND_COMPLETED, ExpireSend, ring
<1>2. notified \in [{"writer", "reader"} -> BOOLEAN] /\ xTaskWaitingToReceive \in BOOLEAN
      /\ xTaskWaitingToSend \in BOOLEAN
  BY DEF TypeOK
<1>3. notified' \in [{"writer", "reader"} -> BOOLEAN]
  BY <1>2, Zenon DEF WriterAside, InvokeSend, CheckSpace, WakeWriter, WriterAwake, Decide,
         SendComplete, sbSEND_COMPLETED, ExpireSend
<1>4. xTaskWaitingToReceive' \in BOOLEAN /\ xTaskWaitingToSend' \in BOOLEAN
  BY <1>2, Zenon DEF WriterAside, InvokeSend, CheckSpace, WakeWriter, WriterAwake, Decide,
         SendComplete, sbSEND_COMPLETED, ExpireSend, handles
<1> QED BY <1>1, <1>3, <1>4 DEF TypeOK, OthersTyped

\* What the writer hands over when it found that much space.
LEMMA ChunksFit ==
  ASSUME IsStream, NEW p \in Payloads, NEW space \in Index
  PROVE  LET c == Chunks(p, space)
         IN  /\ c \in Seq(Seq(Bytes))
             /\ space = 0 => c = <<>>
             /\ space > 0 => /\ Len(c) = 1 /\ c[1] \in Seq(Bytes)
                             /\ Len(c[1]) \in 1..space /\ Len(c[1]) <= Len(p)
                             /\ \A k \in 1..Len(c[1]) : c[1][k] = p[k]
<1>1. p \in Seq(Bytes) /\ Len(p) \in Nat /\ Len(p) >= 1 BY PayloadFacts
<1>2. ~IsMessageBuffer BY DEF IsStream, IsMessageBuffer
<1>3. CASE space = 0 BY <1>2, <1>3 DEF Chunks
<1>4. CASE space > 0
  <2> DEFINE n == AtMost(Len(p), space)
             part == SubSeq(p, 1, n)
  <2>1. /\ n \in 1..Len(p) /\ n \in 1..space /\ n \in Int /\ 1 <= n /\ n - 1 + 1 = n
        /\ Len(p) \in Nat /\ space \in Nat
    BY <1>1, <1>4, LengthFacts DEF AtMost, Index
  <2>2. Chunks(p, space) = <<part>> BY <1>2, <1>4, LengthFacts DEF Chunks, Index
  <2> HIDE DEF n
  <2>3. \A i \in 1..n : p[i] \in Bytes BY <1>1, <2>1, ElementOfSeq
  <2>4. part \in Seq(Bytes) /\ Len(part) = n BY <2>1, <2>3, SubSeqProperties
  <2>5. \A k \in 1..n : part[k] = p[k] BY <2>1, <2>3, SubSeqProperties
  <2> HIDE DEF part
  <2>6. <<part>> \in Seq(Seq(Bytes)) /\ Len(<<part>>) = 1 /\ <<part>>[1] = part BY <2>4
  <2> QED BY <1>4, <2>1, <2>2, <2>4, <2>5, <2>6
<1> QED BY <1>3, <1>4, LengthFacts DEF Index

LEMMA WriterAsideStep ==
  ASSUME IsStream, IInv, WriterAside
  PROVE  IInv'
<1>1. /\ send \in SendCall /\ NoSend \in SendCall
      /\ NoSend.at = "idle" /\ NoSend.chunks = <<>> /\ NoSend.xSpace = 0
  BY NoCallsTyped DEF IInv, CallsTyped, NoSend
<1>2. xStreamBufferSpacesAvailable' = xStreamBufferSpacesAvailable
  BY WriterAsideFrame DEF IInv, xStreamBufferSpacesAvailable
<1>3. xStreamBufferSpacesAvailable \in Index /\ 0 <= xStreamBufferSpacesAvailable
      /\ xStreamBufferSpacesAvailable <= xStreamBufferSpacesAvailable
  BY RingNow DEF IInv
<1>4. /\ send.at # "idle" => send.data \in Payloads
      /\ send.at \in {"check", "wait", "woken", "decide"} =>
           send.chunks = <<>> /\ send.xSpace <= xStreamBufferSpacesAvailable
      /\ send.at \in {"complete", "notify"} => send.chunks = <<>>
  BY DEF IInv, WriterInv
<1>5. send' \in SendCall /\ WriterInv'
  <2>1. CASE InvokeSend
    <3>1. PICK p \in Payloads, w \in Wait :
            send' = [NoSend EXCEPT !.at = IF w = "none" THEN "decide" ELSE "check",
                                   !.data = p, !.wait = w]
      BY <2>1, StreamBufferAssumption DEF InvokeSend, Wait
    <3>2. send' \in SendCall /\ send'.data \in Payloads /\ send'.chunks = <<>>
          /\ send'.xSpace = 0 /\ send'.at \in {"decide", "check"}
      BY <1>1, <3>1 DEF SendCall, SendPlace, NoSend
    <3> QED BY <1>2, <1>3, <3>2 DEF WriterInv
  <2>2. CASE CheckSpace
    <3>1. /\ send.at = "check"
          /\ send' = [send EXCEPT !.xSpace = xStreamBufferSpacesAvailable,
                        !.at = IF xStreamBufferSpacesAvailable < RequiredSpace(send.data)
                               THEN "wait" ELSE "decide"]
      BY <2>2 DEF CheckSpace, SendAt
    <3>2. /\ send' \in SendCall /\ send'.data = send.data /\ send'.chunks = send.chunks
          /\ send'.xSpace = xStreamBufferSpacesAvailable
          /\ send'.at \in {"wait", "decide"}
      BY <1>1, <1>3, <3>1 DEF SendCall, SendPlace
    <3> QED BY <1>2, <1>3, <1>4, <3>1, <3>2 DEF WriterInv
  <2>3. CASE WakeWriter \/ WriterAwake \/ ExpireSend
    <3>1. /\ send.at \in {"wait", "woken"}
          /\ send' \in SendCall /\ send'.data = send.data /\ send'.chunks = send.chunks
          /\ send'.xSpace = send.xSpace
          /\ send'.at \in {"check", "wait", "woken", "decide"}
      BY <1>1, <2>3 DEF WakeWriter, WriterAwake, ExpireSend, SendAt, SendCall, SendPlace
    <3> QED BY <1>2, <1>4, <3>1 DEF WriterInv
  <2>4. CASE Decide
    <3> DEFINE space == IF send.xSpace = 0 THEN xStreamBufferSpacesAvailable
                        ELSE send.xSpace
               chunks == Chunks(send.data, space)
    <3>1. /\ send.at = "decide" /\ send.data \in Payloads /\ send.xSpace \in Index
          /\ send.xSpace <= xStreamBufferSpacesAvailable
          /\ send' = IF chunks = <<>> THEN NoSend
                     ELSE [send EXCEPT !.at = "copy", !.chunks = chunks, !.xSpace = 0]
      BY <1>1, <1>4, <2>4 DEF Decide, SendAt, SendCall
    <3>2. space \in Index /\ space <= xStreamBufferSpacesAvailable BY <1>3, <3>1
    <3> HIDE DEF space
    <3>3. CASE chunks = <<>> BY <1>1, <3>1, <3>3 DEF WriterInv
    <3>4. CASE chunks # <<>>
      <4>1. /\ chunks \in Seq(Seq(Bytes)) /\ Len(chunks) = 1
            /\ Len(chunks[1]) \in 1..space
        BY <3>1, <3>2, <3>4, ChunksFit, LengthFacts DEF Index
      <4> HIDE DEF chunks
      <4>2. /\ send' \in SendCall /\ send'.at = "copy" /\ send'.chunks = chunks
            /\ send'.data = send.data
        BY <1>1, <3>1, <3>4, <4>1, LengthFacts DEF SendCall, SendPlace, Index
      <4>3. Len(chunks[1]) \in 1..xStreamBufferSpacesAvailable
        <5> DEFINE n == Len(chunks[1])
        <5>1. n \in 1..space BY <4>1
        <5> HIDE DEF n
        <5>2. n \in 1..xStreamBufferSpacesAvailable
          BY <1>3, <3>2, <5>1, LengthFacts DEF Index
        <5> QED BY <5>2 DEF n
      <4> QED BY <1>2, <3>1, <4>1, <4>2, <4>3 DEF WriterInv
    <3> QED BY <3>3, <3>4
  <2>5. CASE SendComplete
    <3>1. /\ send.at = "complete"
          /\ \/ send' = NoSend
             \/ send' = [send EXCEPT !.at = "notify"]
      BY <2>5 DEF SendComplete, SendAt
    <3>2. CASE send' = NoSend BY <1>1, <3>2 DEF WriterInv
    <3>3. CASE send' = [send EXCEPT !.at = "notify"]
      <4>1. send' \in SendCall /\ send'.data = send.data /\ send'.chunks = send.chunks
            /\ send'.at = "notify"
        BY <1>1, <3>3 DEF SendCall, SendPlace
      <4> QED BY <1>4, <3>1, <4>1 DEF WriterInv
    <3> QED BY <3>1, <3>2, <3>3
  <2>6. CASE sbSEND_COMPLETED
    <3>1. send' = NoSend BY <2>6 DEF sbSEND_COMPLETED
    <3> QED BY <1>1, <3>1 DEF WriterInv
  <2> QED BY <2>1, <2>2, <2>3, <2>4, <2>5, <2>6 DEF WriterAside
<1>6. RingTyped' /\ CallsTyped' /\ OthersTyped'
  BY <1>5, WriterAsideFrame DEF IInv, TypeOK, RingTyped, CallsTyped
<1>7. ReaderInv' BY WriterAsideFrame, WriterLeaves DEF IInv
<1>8. TypeOK' BY <1>6, TypesTogether
<1> QED BY <1>5, <1>6, <1>7, <1>8 DEF IInv

\* The chunk the writer is at.
LEMMA ChunkFacts ==
  ASSUME IInv, send.at \in {"copy", "publish"}
  PROVE  LET chunk == send.chunks[1]
         IN  /\ chunk \in Seq(Bytes) /\ Len(chunk) \in 1..Room(xTail, xHead)
             /\ Len(send.chunks) = 1 /\ Len(chunk) \in Nat /\ Len(chunk) <= Length - 1
             /\ Head(send.chunks) = chunk /\ Tail(send.chunks) = <<>>
             /\ send.chunks = <<chunk>>
<1> DEFINE chunks == send.chunks
           chunk == chunks[1]
           n == Len(chunk)
<1>1. chunks \in Seq(Seq(Bytes)) /\ Len(chunks) = 1 /\ n \in 1..Room(xTail, xHead)
  BY RingNow DEF IInv, CallsTyped, SendCall, WriterInv
<1>2. Room(xTail, xHead) \in Int /\ Room(xTail, xHead) <= Length - 1 BY RingNow DEF IInv
<1> HIDE DEF chunks, n
<1>3. chunk \in Seq(Bytes)
  <2>1. 1 \in 1..Len(chunks) BY <1>1
  <2> QED BY <1>1, <2>1, ElementOfSeq
<1>4. n \in Nat /\ n <= Length - 1 BY <1>1, <1>2, LengthFacts
<1>5. chunks # <<>> BY <1>1
<1>6. Tail(chunks) = <<>>
  <2>1. Tail(chunks) \in Seq(Seq(Bytes)) /\ Len(Tail(chunks)) = 0
    BY <1>1, <1>5, HeadTailProperties
  <2> QED BY <2>1, EmptySeq
<1>7. chunks = <<chunk>>
  <2>1. <<chunk>> \in Seq(Seq(Bytes)) /\ Len(<<chunk>>) = 1 /\ <<chunk>>[1] = chunk
    BY <1>3
  <2> QED BY <1>1, <2>1, SeqEqual
<1> QED BY <1>1, <1>3, <1>4, <1>6, <1>7 DEF chunks, n

LEMMA CopyInStep ==
  ASSUME IInv, CopyIn
  PROVE  IInv' /\ FromTail(prvBytesInBuffer)' = FromTail(prvBytesInBuffer)
<1> DEFINE chunk == send.chunks[1]
<1>1. /\ chunk \in Seq(Bytes) /\ Len(chunk) \in 1..Room(xTail, xHead)
      /\ Head(send.chunks) = chunk /\ Len(chunk) \in 0..Room(xTail, xHead)
      /\ Len(send.chunks) = 1
  BY ChunkFacts, LengthFacts DEF CopyIn, SendAt
<1>2. /\ send.at = "copy" /\ pucBuffer' = Filled(chunk)
      /\ send' = [send EXCEPT !.at = "publish"]
      /\ UNCHANGED <<interrupt, xTail, xHead, xTriggerLevelBytes, handles, notified, recv>>
  BY <1>1 DEF CopyIn, SendAt
<1>3. /\ xTail \in Index /\ xHead \in Index /\ pucBuffer \in [Index -> Bytes]
      /\ prvBytesInBuffer = Between(xTail, xHead)
      /\ prvBytesInBuffer \in Index
  BY RingNow DEF IInv, TypeOK
<1>4. /\ Filled(chunk) \in [Index -> Bytes]
      /\ \A k \in 1..Len(chunk) : Filled(chunk)[Advance(xHead, k - 1)] = chunk[k]
      /\ \A k \in 1..prvBytesInBuffer :
           Filled(chunk)[Advance(xTail, k - 1)] = pucBuffer[Advance(xTail, k - 1)]
  BY <1>1, <1>3, FilledFacts
<1>5. /\ prvBytesInBuffer' = prvBytesInBuffer
      /\ xStreamBufferSpacesAvailable' = xStreamBufferSpacesAvailable
  BY <1>2 DEF prvBytesInBuffer, xStreamBufferSpacesAvailable
<1>6. ASSUME NEW n \in 0..prvBytesInBuffer
      PROVE  FromTail(n)' = FromTail(n)
  <2>1. \A k \in 1..n : k \in 1..prvBytesInBuffer BY <1>3, LengthFacts DEF Index
  <2>2. \A k \in 1..n : pucBuffer'[Advance(xTail, k - 1)] = pucBuffer[Advance(xTail, k - 1)]
    BY <1>2, <1>4, <2>1
  <2>3. FromTail(n)' = [k \in 1..n |-> pucBuffer'[Advance(xTail, k - 1)]]
    BY <1>2 DEF FromTail
  <2> QED BY <2>2, <2>3 DEF FromTail
<1>7. send' \in SendCall /\ WriterInv'
  <2>1. send \in SendCall /\ send.data \in Payloads
    BY <1>2 DEF IInv, CallsTyped, WriterInv
  <2>2. /\ send' \in SendCall /\ send'.at = "publish" /\ send'.data = send.data
        /\ send'.chunks = send.chunks
    BY <1>2, <2>1 DEF SendCall, SendPlace
  <2>3. Len(chunk) \in 1..xStreamBufferSpacesAvailable BY <1>2 DEF IInv, WriterInv
  <2>4. \A k \in 1..Len(chunk) : pucBuffer'[Advance(xHead', k - 1)] = chunk[k]
    BY <1>2, <1>4
  <2> QED BY <1>1, <1>5, <2>1, <2>2, <2>3, <2>4 DEF WriterInv
<1>8. ReaderInv'
  <2>1. recv.at = "publish" => FromTail(recv.xCount)' = FromTail(recv.xCount)
    <3> SUFFICES ASSUME recv.at = "publish"
                 PROVE  FromTail(recv.xCount)' = FromTail(recv.xCount)
      OBVIOUS
    <3>1. recv.xCount \in 1..prvBytesInBuffer BY DEF IInv, ReaderInv
    <3>2. recv.xCount \in 0..prvBytesInBuffer /\ recv' = recv BY <1>2, <3>1
    <3>3. \A n \in 0..prvBytesInBuffer : FromTail(n)' = FromTail(n) BY <1>6
    <3> QED BY <3>2, <3>3 DEF FromTail
  <2> QED BY <1>2, <1>5, <2>1 DEF IInv, ReaderInv, FromTail
<1>9. RingTyped' /\ CallsTyped' /\ OthersTyped' BY <1>2, <1>3, <1>4, <1>7
     DEF IInv, TypeOK, RingTyped, CallsTyped, OthersTyped, handles
<1>10. TypeOK' BY <1>9, TypesTogether
<1>11. FromTail(prvBytesInBuffer)' = FromTail(prvBytesInBuffer)
  <2>1. prvBytesInBuffer \in 0..prvBytesInBuffer BY <1>3, LengthFacts DEF Index
  <2> QED BY <1>5, <1>6, <2>1 DEF FromTail
<1> QED BY <1>7, <1>8, <1>9, <1>10, <1>11 DEF IInv

\* Publishing appends the chunk to the bytes of the buffer.
LEMMA PublishHeadStep ==
  ASSUME IInv, PublishHead
  PROVE  /\ IInv'
         /\ prvBytesInBuffer' = prvBytesInBuffer + Len(send.chunks[1])
         /\ FromTail(prvBytesInBuffer)' = FromTail(prvBytesInBuffer) \o send.chunks[1]
         /\ send'.at = "complete" /\ send'.chunks = <<>>
<1> DEFINE chunk == send.chunks[1]
           b == prvBytesInBuffer
           n == Len(chunk)
<1>1. /\ chunk \in Seq(Bytes) /\ n \in 1..Room(xTail, xHead)
      /\ Head(send.chunks) = chunk /\ n \in 0..Room(xTail, xHead) /\ n \in Nat /\ n >= 1
      /\ Len(send.chunks) = 1 /\ Tail(send.chunks) = <<>>
  BY ChunkFacts, LengthFacts DEF PublishHead, SendAt
<1>2. /\ send.at = "publish" /\ xHead' = Advance(xHead, n)
      /\ send' = [send EXCEPT !.chunks = <<>>, !.at = "complete"]
      /\ UNCHANGED <<interrupt, xTail, pucBuffer, xTriggerLevelBytes, handles, notified, recv>>
  <2>1. /\ send.at = "publish" /\ xHead' = Advance(xHead, Len(Head(send.chunks)))
        /\ send' = [send EXCEPT !.chunks = Tail(send.chunks),
                                !.at = IF Len(send.chunks) > 1 THEN "copy" ELSE "complete"]
        /\ UNCHANGED <<interrupt, xTail, pucBuffer, xTriggerLevelBytes, handles, notified, recv>>
    BY DEF PublishHead, SendAt
  <2>2. ~(Len(send.chunks) > 1) BY <1>1
  <2> QED BY <1>1, <2>1, <2>2
<1>3. /\ xTail \in Index /\ xHead \in Index /\ pucBuffer \in [Index -> Bytes]
      /\ b = Between(xTail, xHead) /\ b \in Index /\ b \in Nat
      /\ b + Room(xTail, xHead) = Length - 1 /\ Room(xTail, xHead) \in Int
      /\ Advance(xTail, b) = xHead
  BY RingNow, RingBounds DEF IInv, TypeOK
<1>4. xHead' \in Index /\ Between(xTail, xHead') = b + n BY <1>1, <1>2, <1>3, HeadMoves
<1>5. prvBytesInBuffer' = b + n
  <2>1. prvBytesInBuffer' = Between(xTail', xHead') BY <1>2 DEF prvBytesInBuffer, Between
  <2> QED BY <1>2, <1>4, <2>1
<1>6. send' \in SendCall /\ WriterInv'
  <2>1. send \in SendCall /\ send.data \in Payloads
    BY <1>2 DEF IInv, CallsTyped, WriterInv
  <2>2. /\ send' \in SendCall /\ send'.at = "complete" /\ send'.data = send.data
        /\ send'.chunks = <<>>
    <3>1. <<>> \in Seq(Seq(Bytes)) OBVIOUS
    <3> QED BY <1>2, <2>1, <3>1 DEF SendCall, SendPlace
  <2> QED BY <2>1, <2>2 DEF WriterInv
<1>7. ReaderInv'
  <2>1. recv.at \in {"copy", "publish"} => recv.xCount \in 1..(b + n)
    <3>1. recv.at \in {"copy", "publish"} => recv.xCount \in 1..b BY DEF IInv, ReaderInv
    <3> HIDE DEF b, n
    <3> QED BY <1>1, <1>3, <3>1
  <2> QED BY <1>2, <1>5, <2>1 DEF IInv, ReaderInv, FromTail
<1>8. RingTyped' /\ CallsTyped' /\ OthersTyped' BY <1>2, <1>3, <1>4, <1>6
     DEF IInv, TypeOK, RingTyped, CallsTyped, OthersTyped, handles
<1>9. TypeOK' BY <1>8, TypesTogether
<1>10. FromTail(prvBytesInBuffer)' = FromTail(b) \o chunk
  <2> DEFINE old == Listed(pucBuffer, xTail, b)
             new == Listed(pucBuffer, xTail, b + n)
  <2>1. FromTail(prvBytesInBuffer)' = new /\ FromTail(b) = old
    BY <1>2, <1>5 DEF FromTail, Listed
  <2>2. b \in 0..Length /\ b + n \in 0..Length
    <3> HIDE DEF b, n
    <3> QED BY <1>1, <1>3, LengthFacts
  <2>3. /\ old \in Seq(Bytes) /\ Len(old) = b
        /\ \A k \in 1..b : old[k] = pucBuffer[Advance(xTail, k - 1)]
    BY <1>3, <2>2, ListedFacts
  <2>4. /\ new \in Seq(Bytes) /\ Len(new) = b + n
        /\ \A k \in 1..(b + n) : new[k] = pucBuffer[Advance(xTail, k - 1)]
    BY <1>3, <2>2, ListedFacts
  <2>5. \A k \in 1..n : pucBuffer[Advance(xHead, k - 1)] = chunk[k]
    BY <1>2 DEF IInv, WriterInv
  <2> HIDE DEF old, new, chunk, b
  <2>6. /\ old \o chunk \in Seq(Bytes) /\ Len(old \o chunk) = Len(old) + Len(chunk)
        /\ \A k \in 1..(Len(old) + Len(chunk)) :
             (old \o chunk)[k] = IF k <= Len(old) THEN old[k] ELSE chunk[k - Len(old)]
    BY <1>1, <2>3, ConcatProperties
  <2> HIDE DEF n
  <2>10. b \in Nat /\ n \in Nat /\ b + n <= Length BY <1>1, <1>3, <2>2, LengthFacts DEF n
  <2>7. ASSUME NEW k \in 1..(b + n) PROVE new[k] = (old \o chunk)[k]
    <3>1. CASE k <= b
      <4>1. k \in 1..b BY <1>3, <3>1
      <4> QED BY <2>3, <2>4, <2>6, <3>1, <4>1 DEF n
    <3>2. CASE ~(k <= b)
      <4>1. /\ k - b \in 1..n /\ b + ((k - b) - 1) = k - 1 /\ (k - b) - 1 \in Nat
            /\ b + ((k - b) - 1) <= Length
        BY <2>10, <3>2, LengthFacts
      <4>2. Advance(Advance(xTail, b), (k - b) - 1) = Advance(xTail, k - 1)
        BY <1>3, <4>1, AdvanceTwice
      <4>3. chunk[k - b] = pucBuffer[Advance(xTail, k - 1)] BY <1>3, <2>5, <4>1, <4>2
      <4>4. (old \o chunk)[k] = chunk[k - b] BY <2>3, <2>6, <3>2 DEF n
      <4> QED BY <2>4, <4>3, <4>4
    <3> QED BY <3>1, <3>2
  <2>8. Len(new) = Len(old \o chunk) BY <2>3, <2>4, <2>6 DEF n
  <2>9. new = old \o chunk BY <2>4, <2>6, <2>7, <2>8, SeqEqual
  <2> QED BY <2>1, <2>9
<1>11. send'.at = "complete" /\ send'.chunks = <<>> BY <1>2 DEF IInv, CallsTyped, SendCall
<1> QED BY <1>5, <1>6, <1>7, <1>8, <1>9, <1>10, <1>11 DEF IInv

--------------------
\* The reader's steps.

\* Those that leave the ring.
ReaderAside == InvokeReceive \/ CheckBytes \/ WakeReader \/ ReaderAwake \/ Look
               \/ ReturnNothing \/ CopyOut \/ sbRECEIVE_COMPLETED \/ ExpireReceive

LEMMA ReaderAsideFrame ==
  ASSUME TypeOK, ReaderAside
  PROVE  /\ UNCHANGED <<xTail, xHead, pucBuffer, send, xTriggerLevelBytes, interrupt>>
         /\ OthersTyped'
<1>1. UNCHANGED <<xTail, xHead, pucBuffer, send, xTriggerLevelBytes, interrupt>>
  BY DEF ReaderAside, InvokeReceive, CheckBytes, WakeReader, ReaderAwake, Look,
         ReturnNothing, CopyOut, sbRECEIVE_COMPLETED, ExpireReceive, ring
<1>2. notified \in [{"writer", "reader"} -> BOOLEAN] /\ xTaskWaitingToReceive \in BOOLEAN
      /\ xTaskWaitingToSend \in BOOLEAN
  BY DEF TypeOK
<1>3. notified' \in [{"writer", "reader"} -> BOOLEAN]
  BY <1>2, Zenon DEF ReaderAside, InvokeReceive, CheckBytes, WakeReader, ReaderAwake,
         Look, ReturnNothing, CopyOut, sbRECEIVE_COMPLETED, ExpireReceive
<1>4. xTaskWaitingToReceive' \in BOOLEAN /\ xTaskWaitingToSend' \in BOOLEAN
  BY <1>2, Zenon DEF ReaderAside, InvokeReceive, CheckBytes, WakeReader, ReaderAwake,
         Look, ReturnNothing, CopyOut, sbRECEIVE_COMPLETED, ExpireReceive, handles
<1> QED BY <1>1, <1>3, <1>4 DEF TypeOK, OthersTyped

\* A read takes all there is, up to the size of the call.
LEMMA StartReadingFacts ==
  ASSUME IsStream, NEW r \in ReceiveCall, NEW available \in Index
  PROVE  LET new == StartReading(r, available)
         IN  /\ new \in ReceiveCall /\ new.peek = r.peek /\ new.body
             /\ new.at \in {"copy", "empty"}
             /\ available > 0 <=> new.at = "copy"
             /\ new.at = "copy" => new.xCount \in 1..available
<1>1. ~IsMessageBuffer /\ Header = 0 BY DEF IsStream, IsMessageBuffer
<1>2. r.size \in Nat \ {0} /\ available \in Nat /\ available <= Length - 1
  BY LengthFacts DEF ReceiveCall, Index
<1> DEFINE n == AtMost(available, r.size)
<1>3. n \in Index /\ available > 0 => n \in 1..available
  BY <1>2, LengthFacts DEF AtMost, Index
<1>4. n \in Index BY <1>2, LengthFacts DEF AtMost, Index
<1> HIDE DEF n
<1>5. StartReading(r, available) =
        [r EXCEPT !.xBytesAvailable = available,
                  !.at = IF available > 0 THEN "copy" ELSE "empty",
                  !.body = TRUE, !.xCount = n]
  BY <1>1 DEF StartReading, n
<1> QED BY <1>2, <1>3, <1>4, <1>5 DEF ReceiveCall, ReceivePlace

LEMMA ReaderAsideStep ==
  ASSUME IsStream, IInv, ReaderAside
  PROVE  IInv'
<1>1. /\ recv \in ReceiveCall /\ NoReceive \in ReceiveCall
      /\ NoReceive.at = "idle" /\ ~NoReceive.peek
  BY NoCallsTyped DEF IInv, CallsTyped, NoReceive
<1>2. prvBytesInBuffer' = prvBytesInBuffer /\ \A n : FromTail(n)' = FromTail(n)
  BY ReaderAsideFrame DEF IInv, prvBytesInBuffer, FromTail
<1>3. prvBytesInBuffer \in Index BY RingNow DEF IInv
<1>4. /\ recv.at \notin {"length", "restore"} /\ ~recv.peek
      /\ recv.at \in {"copy", "publish"} => recv.body /\ recv.xCount \in 1..prvBytesInBuffer
  BY DEF IInv, ReaderInv
<1>5. recv' \in ReceiveCall /\ ReaderInv'
  <2>1. CASE InvokeReceive
    <3>1. PICK n \in Nat \ {0}, w \in Wait :
            recv' = [NoReceive EXCEPT !.at = IF w = "none" THEN "look" ELSE "check",
                                      !.size = n, !.wait = w]
      BY <2>1, StreamBufferAssumption DEF InvokeReceive, Wait
    <3>2. /\ recv' \in ReceiveCall /\ ~recv'.peek /\ recv'.at \in {"look", "check"}
      BY <1>1, <3>1 DEF ReceiveCall, ReceivePlace, NoReceive
    <3> QED BY <3>2 DEF ReaderInv
  <2>2. CASE CheckBytes \/ Look
    <3>1. \/ recv' = [recv EXCEPT !.at = "wait"]
          \/ recv' = StartReading(recv, prvBytesInBuffer)
      BY <2>2 DEF CheckBytes, Look
    <3>2. CASE recv' = [recv EXCEPT !.at = "wait"]
      <4>1. recv' \in ReceiveCall /\ recv'.peek = recv.peek /\ recv'.at = "wait"
        BY <1>1, <3>2 DEF ReceiveCall, ReceivePlace
      <4> QED BY <1>4, <4>1 DEF ReaderInv
    <3>3. CASE recv' = StartReading(recv, prvBytesInBuffer)
      <4>1. /\ recv' \in ReceiveCall /\ recv'.peek = recv.peek /\ recv'.body
            /\ recv'.at \in {"copy", "empty"}
            /\ recv'.at = "copy" => recv'.xCount \in 1..prvBytesInBuffer
        BY <1>1, <1>3, <3>3, StartReadingFacts
      <4> QED BY <1>2, <1>4, <4>1 DEF ReaderInv
    <3> QED BY <3>1, <3>2, <3>3
  <2>3. CASE WakeReader \/ ReaderAwake \/ ExpireReceive
    <3>1. recv' \in ReceiveCall /\ recv'.peek = recv.peek
          /\ recv'.at \in {"wait", "woken", "look"}
      BY <1>1, <2>3 DEF WakeReader, ReaderAwake, ExpireReceive, ReceiveAt, ReceiveCall,
                        ReceivePlace
    <3> QED BY <1>4, <3>1 DEF ReaderInv
  <2>4. CASE ReturnNothing \/ sbRECEIVE_COMPLETED
    <3>1. recv' = NoReceive BY <2>4 DEF ReturnNothing, sbRECEIVE_COMPLETED
    <3> QED BY <1>1, <3>1 DEF ReaderInv
  <2>5. CASE CopyOut
    <3>1. /\ recv.at = "copy" /\ recv.xCount \in Index
          /\ recv' = [recv EXCEPT !.bytes = FromTail(recv.xCount), !.at = "publish",
                                  !.xOriginalTail = IF recv.body THEN @ ELSE xTail]
      BY <1>1, <2>5 DEF CopyOut, ReceiveAt, ReceiveCall
    <3>2. FromTail(recv.xCount) \in Seq(Bytes)
      <4>1. xTail \in Index /\ pucBuffer \in [Index -> Bytes] /\ recv.xCount \in 0..Length
        BY <3>1, LengthFacts DEF IInv, TypeOK, Index
      <4> QED BY <4>1, ListedFacts DEF Listed, FromTail
    <3>3. /\ recv' \in ReceiveCall /\ recv'.at = "publish" /\ recv'.peek = recv.peek
          /\ recv'.body = recv.body /\ recv'.xCount = recv.xCount
          /\ recv'.bytes = FromTail(recv.xCount)
      BY <1>1, <1>4, <3>1, <3>2 DEF ReceiveCall, ReceivePlace
    <3> QED BY <1>2, <1>4, <3>1, <3>3 DEF ReaderInv
  <2> QED BY <2>1, <2>2, <2>3, <2>4, <2>5 DEF ReaderAside
<1>6. RingTyped' /\ CallsTyped' /\ OthersTyped'
  BY <1>5, ReaderAsideFrame DEF IInv, TypeOK, RingTyped, CallsTyped
<1>7. WriterInv' BY ReaderAsideFrame, ReaderLeaves DEF IInv
<1>8. TypeOK' BY <1>6, TypesTogether
<1> QED BY <1>5, <1>6, <1>7, <1>8 DEF IInv

\* Publishing the tail takes the bytes that were read off the front.
LEMMA PublishTailStep ==
  ASSUME IInv, PublishTail
  PROVE  /\ IInv'
         /\ xStreamBufferSpacesAvailable' >= xStreamBufferSpacesAvailable
         /\ FromTail(prvBytesInBuffer) = recv.bytes \o FromTail(prvBytesInBuffer)'
         /\ recv' = [recv EXCEPT !.at = "complete"] /\ recv.bytes # <<>>
<1> DEFINE b == prvBytesInBuffer
           n == recv.xCount
<1>1. /\ recv.at = "publish" /\ recv \in ReceiveCall /\ recv.body /\ ~recv.peek
      /\ n \in 1..b /\ recv.bytes = FromTail(n)
  BY DEF PublishTail, ReceiveAt, IInv, CallsTyped, ReaderInv
<1>2. /\ xTail' = Advance(xTail, n) /\ recv' = [recv EXCEPT !.at = "complete"]
      /\ UNCHANGED <<interrupt, xHead, pucBuffer, xTriggerLevelBytes, handles, notified, send>>
  BY <1>1 DEF PublishTail
<1>3. /\ xTail \in Index /\ xHead \in Index /\ pucBuffer \in [Index -> Bytes]
      /\ b = Between(xTail, xHead) /\ b \in Index /\ b \in Nat /\ b <= Length - 1
      /\ xStreamBufferSpacesAvailable = Length - 1 - b
  BY RingNow, LengthFacts DEF IInv, TypeOK, Room
<1>4. n \in Nat /\ n >= 1 /\ n <= b /\ n \in 0..Between(xTail, xHead)
  <2>1. n \in 1..Between(xTail, xHead) /\ Between(xTail, xHead) \in Nat BY <1>1, <1>3
  <2> QED BY <1>3, <2>1
<1>5. xTail' \in Index /\ Between(xTail', xHead) = b - n BY <1>2, <1>3, <1>4, TailMoves
<1>6. /\ prvBytesInBuffer' = b - n
      /\ xStreamBufferSpacesAvailable' = Length - 1 - (b - n)
  <2>1. prvBytesInBuffer' = Between(xTail', xHead) BY <1>2 DEF prvBytesInBuffer, Between
  <2>2. xStreamBufferSpacesAvailable' = Length - 1 - Between(xTail', xHead)
    <3>1. xStreamBufferSpacesAvailable' =
            LET c == Length + xTail' - xHead - 1 IN IF c >= Length THEN c - Length ELSE c
      BY <1>2 DEF xStreamBufferSpacesAvailable
    <3> QED BY <1>3, <1>5, <3>1, SpaceIs DEF Room
  <2> QED BY <1>5, <2>1, <2>2
<1>7. /\ xStreamBufferSpacesAvailable' >= xStreamBufferSpacesAvailable
      /\ xStreamBufferSpacesAvailable' \in Int /\ xStreamBufferSpacesAvailable \in Int
  <2> HIDE DEF b, n
  <2> QED BY <1>3, <1>4, <1>6, LengthFacts
<1>8. WriterInv'
  <2>1. send.at \in {"copy", "publish"} =>
          Len(send.chunks[1]) \in 1..xStreamBufferSpacesAvailable'
    <3> SUFFICES ASSUME send.at \in {"copy", "publish"}
                 PROVE  Len(send.chunks[1]) \in 1..xStreamBufferSpacesAvailable'
      OBVIOUS
    <3> DEFINE k == Len(send.chunks[1])
    <3>1. k \in 1..xStreamBufferSpacesAvailable BY DEF IInv, WriterInv
    <3> HIDE DEF k
    <3>2. k \in 1..xStreamBufferSpacesAvailable' BY <1>7, <3>1
    <3> QED BY <3>2 DEF k
  <2>2. send.at \in {"check", "wait", "woken", "decide"} =>
          send.xSpace <= xStreamBufferSpacesAvailable'
    <3>1. send.xSpace \in Int BY LengthFacts DEF IInv, CallsTyped, SendCall, Index
    <3> QED BY <1>7, <3>1 DEF IInv, WriterInv
  <2> QED BY <1>2, <2>1, <2>2 DEF IInv, WriterInv
<1>9. recv' \in ReceiveCall /\ ReaderInv' /\ recv.bytes # <<>>
  <2>1. recv.bytes # <<>>
    <3>1. Len(Listed(pucBuffer, xTail, n)) = n
      <4>1. n \in 0..Length BY <1>3, <1>4, LengthFacts
      <4> QED BY <1>3, <4>1, ListedFacts
    <3>2. recv.bytes = Listed(pucBuffer, xTail, n) BY <1>1 DEF Listed, FromTail
    <3>3. Len(<<>>) = 0 /\ n # 0 BY <1>4
    <3> QED BY <3>1, <3>2, <3>3
  <2>2. /\ recv' \in ReceiveCall /\ recv'.at = "complete" /\ recv'.peek = recv.peek
        /\ recv'.bytes = recv.bytes
    BY <1>1, <1>2 DEF ReceiveCall, ReceivePlace
  <2> QED BY <1>1, <2>1, <2>2 DEF ReaderInv
<1>10. RingTyped' /\ CallsTyped' /\ OthersTyped' BY <1>2, <1>3, <1>5, <1>9
     DEF IInv, TypeOK, RingTyped, CallsTyped, OthersTyped, handles
<1>11. TypeOK' BY <1>10, TypesTogether
<1>12. FromTail(b) = recv.bytes \o FromTail(prvBytesInBuffer)'
  <2> DEFINE old == Listed(pucBuffer, xTail, b)
             read == Listed(pucBuffer, xTail, n)
             rest == Listed(pucBuffer, xTail', b - n)
  <2>1. /\ FromTail(prvBytesInBuffer)' = rest /\ FromTail(b) = old /\ recv.bytes = read
    BY <1>1, <1>2, <1>6 DEF FromTail, Listed
  <2>2. b \in 0..Length /\ n \in 0..Length /\ b - n \in 0..Length
    <3> HIDE DEF b, n
    <3> QED BY <1>3, <1>4, LengthFacts
  <2>3. /\ old \in Seq(Bytes) /\ Len(old) = b
        /\ \A k \in 1..b : old[k] = pucBuffer[Advance(xTail, k - 1)]
    BY <1>3, <2>2, ListedFacts
  <2>4. /\ read \in Seq(Bytes) /\ Len(read) = n
        /\ \A k \in 1..n : read[k] = pucBuffer[Advance(xTail, k - 1)]
    BY <1>3, <2>2, ListedFacts
  <2>5. /\ rest \in Seq(Bytes) /\ Len(rest) = b - n
        /\ \A k \in 1..(b - n) : rest[k] = pucBuffer[Advance(xTail', k - 1)]
    BY <1>3, <1>5, <2>2, ListedFacts
  <2> HIDE DEF old, read, rest
  <2>6. /\ read \o rest \in Seq(Bytes) /\ Len(read \o rest) = Len(read) + Len(rest)
        /\ \A k \in 1..(Len(read) + Len(rest)) :
             (read \o rest)[k] = IF k <= Len(read) THEN read[k] ELSE rest[k - Len(read)]
    BY <2>4, <2>5, ConcatProperties
  <2>7. b \in Nat /\ n \in Nat /\ n <= b /\ b <= Length /\ n + (b - n) = b
    BY <1>3, <1>4, LengthFacts
  <2> HIDE DEF b, n
  <2>8. ASSUME NEW k \in 1..b PROVE old[k] = (read \o rest)[k]
    <3>1. (read \o rest)[k] = IF k <= n THEN read[k] ELSE rest[k - n]
      BY <2>4, <2>5, <2>6, <2>7
    <3>2. CASE k <= n
      <4>1. k \in 1..n BY <2>7, <3>2
      <4> QED BY <2>3, <2>4, <3>1, <3>2, <4>1
    <3>3. CASE ~(k <= n)
      <4>1. /\ k - n \in 1..(b - n) /\ n + ((k - n) - 1) = k - 1 /\ (k - n) - 1 \in Nat
            /\ n + ((k - n) - 1) <= Length
        BY <2>7, <3>3, LengthFacts
      <4>2. Advance(xTail', (k - n) - 1) = Advance(xTail, k - 1)
        BY <1>2, <1>3, <2>7, <4>1, AdvanceTwice DEF n
      <4>3. rest[k - n] = pucBuffer[Advance(xTail, k - 1)] BY <2>5, <4>1, <4>2
      <4> QED BY <2>3, <3>1, <3>3, <4>3
    <3> QED BY <3>2, <3>3
  <2>9. Len(old) = Len(read \o rest) BY <2>3, <2>4, <2>5, <2>6, <2>7
  <2>10. old = read \o rest BY <2>3, <2>6, <2>8, <2>9, SeqEqual
  <2> QED BY <2>1, <2>10 DEF b, n
<1> QED BY <1>2, <1>7, <1>8, <1>9, <1>10, <1>11, <1>12 DEF IInv

--------------------
\* The other steps, and all together.

LEMMA OthersFrame ==
  ASSUME TypeOK, Notify \/ xStreamBufferSetTriggerLevel
  PROVE  UNCHANGED <<interrupt, xTail, xHead, pucBuffer, send, recv>> /\ OthersTyped'
<1>1. CASE Notify
  <2>1. UNCHANGED <<interrupt, xTail, xHead, pucBuffer, xTriggerLevelBytes, send, recv>>
    BY <1>1 DEF Notify, ring
  <2>2. notified \in [{"writer", "reader"} -> BOOLEAN] /\ xTaskWaitingToReceive \in BOOLEAN
        /\ xTaskWaitingToSend \in BOOLEAN
    BY DEF TypeOK
  <2>3. notified' \in [{"writer", "reader"} -> BOOLEAN] BY <1>1, <2>2, Zenon DEF Notify
  <2>4. xTaskWaitingToReceive' \in BOOLEAN /\ xTaskWaitingToSend' \in BOOLEAN
    BY <1>1, <2>2, Zenon DEF Notify, handles
  <2> QED BY <2>1, <2>3, <2>4 DEF TypeOK, OthersTyped
<1>2. CASE xStreamBufferSetTriggerLevel
  <2>1. UNCHANGED <<interrupt, xTail, xHead, pucBuffer, handles, notified, send, recv>>
    BY <1>2 DEF xStreamBufferSetTriggerLevel, ring
  <2>2. xTriggerLevelBytes' \in 1..Length
    BY <1>2, StreamBufferAssumption, LengthFacts DEF xStreamBufferSetTriggerLevel
  <2> QED BY <2>1, <2>2 DEF TypeOK, OthersTyped, handles
<1> QED BY <1>1, <1>2

LEMMA OthersStep ==
  ASSUME IInv, Notify \/ xStreamBufferSetTriggerLevel
  PROVE  IInv'
<1>1. UNCHANGED <<interrupt, xTail, xHead, pucBuffer, send, recv>> /\ OthersTyped'
  BY OthersFrame DEF IInv
<1>2. RingTyped' /\ CallsTyped' BY <1>1 DEF IInv, TypeOK, RingTyped, CallsTyped
<1>3. TypeOK' BY <1>1, <1>2, TypesTogether
<1> QED BY <1>1, <1>2, <1>3, WriterLeaves, ReaderLeaves DEF IInv

LEMMA ResetTypes ==
  ASSUME TypeOK, CallsTyped, xStreamBufferReset
  PROVE  /\ TypeOK' /\ CallsTyped' /\ send.at = "idle" /\ recv.at = "idle"
         /\ UNCHANGED <<send, recv, interrupt>>
<1>1. 0 \in Index /\ 85 \in Bytes /\ [i \in Index |-> 85] \in [Index -> Bytes]
  BY LengthFacts DEF Index, Bytes
<1>2. /\ send.at = "idle" /\ recv.at = "idle"
      /\ UNCHANGED <<interrupt, xTriggerLevelBytes, handles, notified, send, recv>>
  BY DEF xStreamBufferReset
<1>3. RingTyped' /\ CallsTyped' /\ OthersTyped'
  BY <1>1, <1>2 DEF TypeOK, RingTyped, CallsTyped, OthersTyped, handles, xStreamBufferReset
<1> QED BY <1>2, <1>3, TypesTogether

LEMMA ResetStep ==
  ASSUME IInv, xStreamBufferReset
  PROVE  IInv'
<1>1. /\ TypeOK' /\ CallsTyped' /\ send.at = "idle" /\ recv.at = "idle"
      /\ UNCHANGED <<send, recv>>
  BY ResetTypes DEF IInv
<1> QED BY <1>1 DEF IInv, WriterInv, ReaderInv

\* What only a message buffer does.
LEMMA NoMessageSteps ==
  ASSUME IsStream, IInv
  PROVE  ~InvokePeek /\ ~MessageLength /\ ~RestoreTail
  BY DEF IsStream, IsMessageBuffer, InvokePeek, MessageLength, RestoreTail, ReceiveAt,
         IInv, ReaderInv

\* The cases of a step.
LEMMA Cases ==
  ASSUME IsStream, IInv, Next
  PROVE  \/ WriterAside \/ CopyIn \/ PublishHead \/ ReaderAside \/ PublishTail
         \/ Notify \/ xStreamBufferReset \/ xStreamBufferSetTriggerLevel
  BY NoMessageSteps DEF Next, WriterStep, ReaderStep, WriterAside, ReaderAside

LEMMA InitTypes == ASSUME Init PROVE TypeOK /\ CallsTyped
<1>1. 0 \in Index /\ 85 \in Bytes /\ [i \in Index |-> 85] \in [Index -> Bytes]
  BY LengthFacts DEF Index, Bytes
<1>2. CallsTyped BY NoCallsTyped DEF Init, CallsTyped
<1>3. RingTyped /\ OthersTyped
  <2>1. xTriggerLevelBytes \in 1..Length BY StreamBufferAssumption, LengthFacts DEF Init
  <2> QED BY <1>1, <2>1, StreamBufferAssumption DEF Init, RingTyped, OthersTyped
<1>4. TypeOK
  <2>1. send = NoSend /\ recv = NoReceive BY DEF Init
  <2>2. /\ send.at \in SendPlace /\ recv.at \in ReceivePlace
        /\ send.wait \in Wait /\ recv.wait \in Wait
        /\ send.xSpace \in Index /\ recv.xBytesAvailable \in Index
        /\ recv.xOriginalTail \in Index /\ recv.xCount \in Index
    BY <1>2 DEF CallsTyped, SendCall, ReceiveCall
  <2> QED BY <1>3, <2>1, <2>2 DEF TypeOK, RingTyped, OthersTyped, Index
<1> QED BY <1>2, <1>4

LEMMA InitIInv == ASSUME Init PROVE IInv
  BY InitTypes DEF Init, IInv, NoSend, NoReceive, WriterInv, ReaderInv

LEMMA NextIInv == ASSUME IsStream, IInv, [Next]_vars PROVE IInv'
<1>1. CASE Next
  BY <1>1, Cases, WriterAsideStep, CopyInStep, PublishHeadStep, ReaderAsideStep,
     PublishTailStep, OthersStep, ResetStep
<1>2. CASE UNCHANGED vars
  <2>1. UNCHANGED <<interrupt, xTail, xHead, pucBuffer, xTriggerLevelBytes,
                    xTaskWaitingToReceive, xTaskWaitingToSend, notified, send, recv>>
    BY <1>2 DEF vars, ring, handles
  <2>2. TypeOK' BY <2>1 DEF IInv, TypeOK
  <2>3. CallsTyped' BY <2>1 DEF IInv, CallsTyped
  <2> QED BY <2>1, <2>2, <2>3, WriterLeaves, ReaderLeaves DEF IInv
<1> QED BY <1>1, <1>2

LEMMA Invariance == ASSUME IsStream PROVE Spec => []IInv
<1>1. Init => IInv BY InitIInv
<1>2. IInv /\ [Next]_vars => IInv' BY NextIInv
<1> QED BY <1>1, <1>2, PTL DEF Spec

LEMMA LeastOf ==
  ASSUME NEW S \in SUBSET Nat, S # {}
  PROVE  \E x \in S : \A y \in S : x <= y
<1> DEFINE R == {ss \in Nat \X Nat : ss[1] < ss[2]}
<1>1. PICK x \in S : \A y \in S : ~ (<<y, x>> \in R)
  <2>1. IsWellFoundedOn(R, Nat) BY NatLessThanWellFounded, Zenon DEF OpToRel
  <2> HIDE DEF R
  <2> QED BY <2>1, WFMin
<1>2. ASSUME NEW y \in S PROVE x <= y
  <2>1. x \in Nat /\ y \in Nat /\ ~ (y < x) BY <1>1
  <2> QED BY <2>1
<1> QED BY <1>2

--------------------
\* The length of a message, written and read back.

LEMMA HeaderFacts ==
  ASSUME IsMessageBuffer
  PROVE  Header \in Nat /\ Header >= 1 /\ Header + 1 < Length
  BY StreamBufferAssumption DEF IsMessageBuffer

LEMMA LengthBytesAre ==
  ASSUME IsMessageBuffer, NEW n \in Bytes
  PROVE  /\ LengthBytes(n) \in Seq(Bytes) /\ Len(LengthBytes(n)) = Header
         /\ \A k \in 1..Header : LengthBytes(n)[k] = IF k = 1 THEN n ELSE 0
<1>1. Header \in Nat /\ 0 \in Bytes BY HeaderFacts DEF Bytes
<1>2. LengthBytes(n) \in [1..Header -> Bytes] BY <1>1 DEF LengthBytes
<1> QED BY <1>1, <1>2, SeqDef DEF LengthBytes

\* What is read back is what was written.
LEMMA StoredLengthIs ==
  ASSUME IsMessageBuffer, NEW n \in Bytes
  PROVE  StoredLength(LengthBytes(n)) = n
<1> DEFINE bytes == LengthBytes(n)
           Steps(f) == [k \in 1..(Len(bytes) + 1) |->
                          IF k > Len(bytes) THEN 0 ELSE bytes[k] + 256 * f[k + 1]]
           from == CHOOSE f : f = Steps(f)
           g == [k \in 1..(Header + 1) |-> IF k = 1 THEN n ELSE 0]
<1>1. Header \in Nat /\ Header >= 1 /\ n \in Nat BY HeaderFacts DEF Bytes
<1>2. Len(bytes) = Header /\ \A k \in 1..Header : bytes[k] = IF k = 1 THEN n ELSE 0
  BY LengthBytesAre
<1> HIDE DEF bytes
<1>3. g = Steps(g)
  <2>1. \A k \in 1..(Header + 1) :
          g[k] = IF k > Header THEN 0 ELSE bytes[k] + 256 * g[k + 1]
    BY <1>1, <1>2
  <2> QED BY <1>2, <2>1
<1>4. from = Steps(from) BY <1>3
<1>5. StoredLength(bytes) = from[1] BY DEF StoredLength
<1> HIDE DEF from, g
<1>6. /\ \A k \in 1..(Header + 1) :
           from[k] = IF k > Header THEN 0 ELSE bytes[k] + 256 * from[k + 1]
      /\ \A k \in 1..(Header + 1) :
           g[k] = IF k > Header THEN 0 ELSE bytes[k] + 256 * g[k + 1]
  <2>1. ASSUME NEW k \in 1..(Header + 1)
        PROVE  Steps(from)[k] = IF k > Header THEN 0 ELSE bytes[k] + 256 * from[k + 1]
    BY <1>2
  <2>2. ASSUME NEW k \in 1..(Header + 1)
        PROVE  Steps(g)[k] = IF k > Header THEN 0 ELSE bytes[k] + 256 * g[k + 1]
    BY <1>2
  <2> HIDE DEF Steps
  <2> QED BY <1>3, <1>4, <2>1, <2>2
<1>7. from[1] = g[1]
  <2> DEFINE S == {j \in 0..Header : from[Header + 1 - j] # g[Header + 1 - j]}
  <2>1. S = {}
    <3> SUFFICES ASSUME S # {} PROVE FALSE OBVIOUS
    <3>1. PICK j \in S : \A i \in S : j <= i
      <4>1. S \in SUBSET Nat BY <1>1
      <4> HIDE DEF S
      <4> QED BY <4>1, LeastOf
    <3>2. CASE j = 0 BY <1>1, <1>6, <3>1, <3>2
    <3>3. CASE j # 0
      <4> DEFINE k == Header + 1 - j
      <4>1. k \in 1..Header /\ k + 1 = Header + 1 - (j - 1) /\ j - 1 \in 0..Header
            /\ ~(k > Header) /\ k \in 1..(Header + 1) /\ k + 1 \in 1..(Header + 1)
        BY <1>1, <3>3
      <4>2. j - 1 \notin S
        <5>1. ~(j <= j - 1) BY <1>1
        <5> HIDE DEF S
        <5> QED BY <3>1, <5>1
      <4>3. from[k + 1] = g[k + 1] BY <4>1, <4>2
      <4>4. from[k] # g[k] OBVIOUS
      <4> HIDE DEF k
      <4> QED BY <1>6, <4>1, <4>3, <4>4
    <3> QED BY <3>2, <3>3
  <2>2. Header \in 0..Header /\ Header + 1 - Header = 1 BY <1>1
  <2> QED BY <2>1, <2>2
<1>8. g[1] = n BY <1>1 DEF g
<1> QED BY <1>5, <1>7, <1>8 DEF bytes
--------------------
\* Messages one after the other.

\* The bytes after the first b are those of a message, or first of its length.
BodyAt(q, b, p) == \A k \in 1..Len(p) : q[b + k] = p[k]
LengthAt(q, b, p) == \A k \in 1..Header : q[b + k] = LengthBytes(Len(p))[k]
FrameAt(q, b, p) == LengthAt(q, b, p) /\ BodyAt(q, b + Header, p)

\* From a on there is message after message, up to z: B is where one ends.
Framed(q, a, z) ==
  \E B \in SUBSET (a..z) :
    /\ a \in B /\ z \in B
    /\ \A b \in B : b = z \/ \E p \in Payloads : b + RequiredSpace(p) \in B /\ FrameAt(q, b, p)

LEMMA RequiredFacts ==
  ASSUME IsMessageBuffer, NEW p \in Payloads
  PROVE  /\ Len(p) \in Bytes /\ Len(p) \in Nat /\ Len(p) >= 1 /\ Header \in Nat /\ Header >= 1
         /\ RequiredSpace(p) = Len(p) + Header /\ RequiredSpace(p) \in Nat
         /\ p \in Seq(Bytes)
<1>1. Len(p) \in 1..255 /\ p \in Seq(Bytes) BY StreamBufferAssumption
<1> DEFINE n == Len(p)
<1>2. n \in 1..255 /\ Header \in Nat /\ Header >= 1 BY <1>1, HeaderFacts
<1> HIDE DEF n
<1>3. n \in Bytes /\ n \in Nat /\ n >= 1 /\ n + Header \in Nat BY <1>2 DEF Bytes
<1> QED BY <1>1, <1>2, <1>3 DEF n, RequiredSpace

\* What was d bytes further on, and is the same bytes.
LEMMA FrameShifts ==
  ASSUME IsMessageBuffer, NEW p \in Payloads, NEW q, NEW r, NEW b \in Nat, NEW d \in Int,
         NEW z \in Nat, b + RequiredSpace(p) <= z,
         \A i \in (b + 1)..z : r[i - d] = q[i]
  PROVE  FrameAt(q, b, p) => FrameAt(r, b - d, p)
<1>1. /\ Len(p) \in Nat /\ Header \in Nat /\ RequiredSpace(p) = Len(p) + Header
  BY RequiredFacts
<1> DEFINE n == Len(p)
           s == LengthBytes(Len(p))
<1> HIDE DEF n, s
<1>2. n \in Nat /\ b + n + Header <= z BY <1>1 DEF n
<1>3. ASSUME \A k \in 1..Header : q[b + k] = s[k] PROVE \A k \in 1..Header : r[(b - d) + k] = s[k]
  <2> SUFFICES ASSUME NEW k \in 1..Header PROVE r[(b - d) + k] = s[k] OBVIOUS
  <2>1. b + k \in (b + 1)..z /\ (b + k) - d = (b - d) + k BY <1>1, <1>2
  <2> QED BY <1>3, <2>1
<1>4. ASSUME \A k \in 1..n : q[(b + Header) + k] = p[k]
      PROVE  \A k \in 1..n : r[((b - d) + Header) + k] = p[k]
  <2> SUFFICES ASSUME NEW k \in 1..n PROVE r[((b - d) + Header) + k] = p[k] OBVIOUS
  <2>1. (b + Header) + k \in (b + 1)..z /\ ((b + Header) + k) - d = ((b - d) + Header) + k
    BY <1>1, <1>2
  <2> QED BY <1>4, <2>1
<1> QED BY <1>3, <1>4 DEF FrameAt, LengthAt, BodyAt, n, s

LEMMA FramedShifts ==
  ASSUME IsMessageBuffer, NEW q, NEW r, NEW a \in Nat, NEW z \in Nat, NEW d \in Int, a - d >= 0,
         \A i \in (a + 1)..z : r[i - d] = q[i], Framed(q, a, z)
  PROVE  Framed(r, a - d, z - d)
<1>1. PICK B \in SUBSET (a..z) :
        /\ a \in B /\ z \in B
        /\ \A b \in B : b = z \/ \E p \in Payloads : b + RequiredSpace(p) \in B /\ FrameAt(q, b, p)
  BY DEF Framed
<1> DEFINE C == {b - d : b \in B}
<1>2. C \in SUBSET ((a - d)..(z - d)) /\ a - d \in C /\ z - d \in C BY <1>1
<1>3. ASSUME NEW c \in C, c # z - d
      PROVE  \E p \in Payloads : c + RequiredSpace(p) \in C /\ FrameAt(r, c, p)
  <2>1. PICK b \in B : c = b - d BY <1>3
  <2>2. b \in Nat /\ b # z /\ b >= a BY <1>1, <1>3, <2>1
  <2>3. PICK p \in Payloads : b + RequiredSpace(p) \in B /\ FrameAt(q, b, p) BY <1>1, <2>2
  <2>4. RequiredSpace(p) \in Nat /\ b + RequiredSpace(p) <= z BY <1>1, <2>3, RequiredFacts
  <2>5. c + RequiredSpace(p) \in C
    <3>1. c + RequiredSpace(p) = (b + RequiredSpace(p)) - d BY <2>1, <2>2, <2>4
    <3> QED BY <2>3, <3>1
  <2>6. \A i \in (b + 1)..z : r[i - d] = q[i] BY <2>2
  <2>7. FrameAt(r, b - d, p) BY <2>2, <2>3, <2>4, <2>6, FrameShifts
  <2> QED BY <2>1, <2>5, <2>7
<1> HIDE DEF C
<1> QED BY <1>2, <1>3 DEF Framed

LEMMA FramedNone == ASSUME NEW q, NEW a \in Nat PROVE Framed(q, a, a)
<1>1. {a} \in SUBSET (a..a) /\ a \in {a} /\ \A b \in {a} : b = a OBVIOUS
<1> QED BY <1>1 DEF Framed

\* The first message is one, and messages follow.
LEMMA FramedFirst ==
  ASSUME IsMessageBuffer, NEW q, NEW a \in Nat, NEW z \in Nat, a # z, Framed(q, a, z)
  PROVE  \E p \in Payloads : /\ FrameAt(q, a, p) /\ a + RequiredSpace(p) <= z
                             /\ Framed(q, a + RequiredSpace(p), z)
<1>1. PICK B \in SUBSET (a..z) :
        /\ a \in B /\ z \in B
        /\ \A b \in B : b = z \/ \E p \in Payloads : b + RequiredSpace(p) \in B /\ FrameAt(q, b, p)
  BY DEF Framed
<1>2. PICK p \in Payloads : a + RequiredSpace(p) \in B /\ FrameAt(q, a, p) BY <1>1
<1> DEFINE c == a + RequiredSpace(p)
           C == B \cap (c..z)
<1>3. c \in Nat /\ c <= z BY <1>1, <1>2, RequiredFacts
<1>4. C \in SUBSET (c..z) /\ c \in C /\ z \in C BY <1>1, <1>2, <1>3
<1>5. ASSUME NEW b \in C, b # z
      PROVE  \E s \in Payloads : b + RequiredSpace(s) \in C /\ FrameAt(q, b, s)
  <2>1. PICK s \in Payloads : b + RequiredSpace(s) \in B /\ FrameAt(q, b, s) BY <1>1, <1>5
  <2>2. b + RequiredSpace(s) \in c..z
    <3>1. RequiredSpace(s) \in Nat /\ b \in c..z /\ b + RequiredSpace(s) \in a..z
      BY <1>1, <2>1, RequiredFacts
    <3> HIDE DEF c
    <3> QED BY <1>3, <3>1
  <2> QED BY <2>1, <2>2
<1>6. Framed(q, c, z)
  <2> HIDE DEF C, c
  <2> QED BY <1>4, <1>5 DEF Framed
<1> QED BY <1>2, <1>3, <1>6

\* One more message, before the first or after the last.
LEMMA FramedBefore ==
  ASSUME IsMessageBuffer, NEW q, NEW a \in Nat, NEW z \in Nat, NEW p \in Payloads,
         FrameAt(q, a, p), a + RequiredSpace(p) <= z, Framed(q, a + RequiredSpace(p), z)
  PROVE  Framed(q, a, z)
<1> DEFINE c == a + RequiredSpace(p)
<1>1. PICK B \in SUBSET (c..z) :
        /\ c \in B /\ z \in B
        /\ \A b \in B : b = z \/ \E s \in Payloads : b + RequiredSpace(s) \in B /\ FrameAt(q, b, s)
  BY DEF Framed
<1>2. RequiredSpace(p) \in Nat BY RequiredFacts
<1> DEFINE C == B \cup {a}
<1>3. C \in SUBSET (a..z) /\ a \in C /\ z \in C BY <1>1, <1>2
<1>4. ASSUME NEW b \in C PROVE b = z \/ \E s \in Payloads : b + RequiredSpace(s) \in C /\ FrameAt(q, b, s)
  <2>1. CASE b = a BY <1>1, <2>1
  <2>2. CASE b \in B BY <1>1, <2>2
  <2> QED BY <2>1, <2>2
<1> HIDE DEF C
<1> QED BY <1>3, <1>4 DEF Framed

LEMMA FramedAfter ==
  ASSUME IsMessageBuffer, NEW q, NEW a \in Nat, NEW z \in Nat, NEW p \in Payloads,
         Framed(q, a, z), FrameAt(q, z, p)
  PROVE  Framed(q, a, z + RequiredSpace(p))
<1>1. PICK B \in SUBSET (a..z) :
        /\ a \in B /\ z \in B
        /\ \A b \in B : b = z \/ \E s \in Payloads : b + RequiredSpace(s) \in B /\ FrameAt(q, b, s)
  BY DEF Framed
<1> DEFINE c == z + RequiredSpace(p)
           C == B \cup {c}
<1>2. RequiredSpace(p) \in Nat BY RequiredFacts
<1>3. C \in SUBSET (a..c) /\ a \in C /\ c \in C
  <2>1. c \in Nat /\ z <= c /\ a <= z BY <1>1, <1>2
  <2> HIDE DEF c
  <2>2. c \in a..c /\ \A b \in a..z : b \in a..c BY <2>1
  <2> QED BY <1>1, <2>2
<1>4. ASSUME NEW b \in C PROVE b = c \/ \E s \in Payloads : b + RequiredSpace(s) \in C /\ FrameAt(q, b, s)
  <2>1. CASE b = z BY <2>1
  <2>2. CASE b \in B /\ b # z BY <1>1, <2>2
  <2>3. CASE b = c BY <2>3
  <2> QED BY <2>1, <2>2, <2>3
<1> HIDE DEF C, c
<1>5. Framed(q, a, c) BY <1>3, <1>4 DEF Framed
<1> QED BY <1>5 DEF c
--------------------
\* Message buffers.

\* Nobody reads what it would have to put back while the writer may see it.
IsMessages == IsMessageBuffer /\ ~MayPutBack

Content == FromTail(prvBytesInBuffer)

\* The length of a message is in the buffer, the message is not.
Partial == send.at \in {"copy", "publish"} /\ Len(send.chunks) = 1
Whole == prvBytesInBuffer - (IF Partial THEN Header ELSE 0)

\* The space the reader will not take back.
Given == xStreamBufferSpacesAvailable
           - (IF interrupt = "reader" /\ recv.at \in {"length", "restore"} THEN Header ELSE 0)

MessageWriterInv ==
  /\ send.at # "idle" => send.data \in Payloads
  /\ send.at \in {"check", "wait", "woken", "decide"} =>
       send.chunks = <<>> /\ send.xSpace <= Given
  /\ send.at \in {"copy", "publish"} =>
       \/ /\ send.chunks = <<LengthBytes(Len(send.data)), send.data>>
          /\ RequiredSpace(send.data) <= Given
       \/ send.chunks = <<send.data>> /\ Len(send.data) <= Given
  /\ send.at = "publish" =>
       \A k \in 1..Len(send.chunks[1]) :
         pucBuffer[Advance(xHead, k - 1)] = send.chunks[1][k]
  /\ send.at \in {"idle", "complete", "notify"} => send.chunks = <<>>

\* What is in the buffer of the message being written.
PartialFits == Partial => prvBytesInBuffer >= Header /\ LengthAt(Content, Whole, send.data)

\* The length of this message was read, the message is next.
BodyNext(q, w, p) == Len(p) <= w /\ BodyAt(q, 0, p) /\ Framed(q, Len(p), w)

\* This message is next.
FrameNext(q, w, p) == /\ RequiredSpace(p) <= w /\ FrameAt(q, 0, p)
                      /\ Framed(q, RequiredSpace(p), w)

\* Its length can be put back.
Held(p) ==
  /\ Advance(recv.xOriginalTail, Header) = xTail
  /\ prvBytesInBuffer + Header <= Length - 1
  /\ \A k \in 1..Header :
       pucBuffer[Advance(recv.xOriginalTail, k - 1)] = LengthBytes(Len(p))[k]

AtHeader(r) == r.at \in {"copy", "publish"} /\ ~r.body
AtBody(r) == r.at \in {"copy", "publish"} /\ r.body
Outside(r) == r.at \notin {"copy", "publish", "length", "restore"}

MessageReaderInv ==
  /\ recv.at # "idle" /\ interrupt # "reader" =>
       ~recv.peek /\ \A p \in Payloads : Len(p) <= recv.size
  /\ Outside(recv) => Framed(Content, 0, Whole)
  /\ AtHeader(recv) =>
       /\ recv.xCount = Header
       /\ \E p \in Payloads :
            /\ FrameNext(Content, Whole, p) /\ RequiredSpace(p) <= recv.xBytesAvailable
            /\ recv.at = "publish" => recv.bytes = LengthBytes(Len(p))
       /\ recv.at = "publish" => recv.xOriginalTail = xTail
  /\ recv.at = "length" =>
       \E p \in Payloads : /\ BodyNext(Content, Whole, p) /\ recv.bytes = LengthBytes(Len(p))
                           /\ RequiredSpace(p) <= recv.xBytesAvailable
                           /\ interrupt = "reader" => Held(p)
  /\ recv.at = "restore" =>
       interrupt = "reader" /\ \E p \in Payloads : BodyNext(Content, Whole, p) /\ Held(p)
  /\ AtBody(recv) =>
       \E p \in Payloads : /\ BodyNext(Content, Whole, p) /\ recv.xCount = Len(p)
                           /\ recv.at = "publish" => recv.bytes = p
  /\ recv.at = "complete" => recv.bytes \in Payloads

MessageInv == /\ TypeOK /\ CallsTyped /\ MessageWriterInv /\ PartialFits /\ MessageReaderInv

LEMMA StayAt ==
  ASSUME IsMessageBuffer, NEW q, NEW r, NEW a \in Nat, NEW w \in Nat, a <= w,
         \A i \in 1..w : r[i] = q[i]
  PROVE  /\ Framed(q, a, w) => Framed(r, a, w)
         /\ \A p \in Payloads : a + RequiredSpace(p) <= w /\ FrameAt(q, a, p) => FrameAt(r, a, p)
         /\ \A p \in Payloads : Len(p) <= w /\ BodyAt(q, 0, p) => BodyAt(r, 0, p)
<1>1. /\ a - 0 = a /\ w - 0 = w /\ 0 \in Int /\ a - 0 >= 0
      /\ \A i \in (a + 1)..w : i \in 1..w /\ i - 0 = i
  OBVIOUS
<1>2. \A i \in (a + 1)..w : r[i - 0] = q[i] BY <1>1
<1>3. Framed(q, a, w) => Framed(r, a, w)
  <2> SUFFICES ASSUME Framed(q, a, w) PROVE Framed(r, a, w) OBVIOUS
  <2>1. Framed(r, a - 0, w - 0) BY <1>1, <1>2, FramedShifts
  <2> QED BY <1>1, <2>1
<1>4. ASSUME NEW p \in Payloads, a + RequiredSpace(p) <= w, FrameAt(q, a, p)
      PROVE  FrameAt(r, a, p)
  <2>1. FrameAt(r, a - 0, p) BY <1>1, <1>2, <1>4, FrameShifts
  <2> QED BY <1>1, <2>1
<1>5. ASSUME NEW p \in Payloads, Len(p) <= w, BodyAt(q, 0, p)
      PROVE  BodyAt(r, 0, p)
  <2> DEFINE n == Len(p)
  <2>1. n \in Nat /\ n <= w BY <1>5, RequiredFacts
  <2> HIDE DEF n
  <2>2. \A k \in 1..n : 0 + k \in 1..w BY <2>1
  <2>3. \A k \in 1..n : q[0 + k] = p[k] BY <1>5 DEF BodyAt, n
  <2>4. \A k \in 1..n : r[0 + k] = p[k] BY <2>2, <2>3
  <2> QED BY <2>4 DEF BodyAt, n
<1> QED BY <1>3, <1>4, <1>5

\* The reader's view of the messages depends on their bytes only.
LEMMA NextStays ==
  ASSUME IsMessageBuffer, NEW q, NEW r, NEW w \in Nat, \A i \in 1..w : r[i] = q[i]
  PROVE  /\ Framed(q, 0, w) => Framed(r, 0, w)
         /\ \A p \in Payloads : BodyNext(q, w, p) => BodyNext(r, w, p)
         /\ \A p \in Payloads : FrameNext(q, w, p) => FrameNext(r, w, p)
<1>1. Framed(q, 0, w) => Framed(r, 0, w) BY StayAt
<1>2. ASSUME NEW p \in Payloads, BodyNext(q, w, p) PROVE BodyNext(r, w, p)
  <2>1. Len(p) \in Nat /\ Len(p) <= w /\ BodyAt(q, 0, p) /\ Framed(q, Len(p), w)
    BY <1>2, RequiredFacts DEF BodyNext
  <2>2. BodyAt(r, 0, p) /\ Framed(r, Len(p), w) BY <2>1, StayAt
  <2> QED BY <2>1, <2>2 DEF BodyNext
<1>3. ASSUME NEW p \in Payloads, FrameNext(q, w, p) PROVE FrameNext(r, w, p)
  <2>1. /\ RequiredSpace(p) \in Nat /\ RequiredSpace(p) <= w /\ 0 + RequiredSpace(p) <= w
        /\ FrameAt(q, 0, p) /\ Framed(q, RequiredSpace(p), w)
    BY <1>3, RequiredFacts DEF FrameNext
  <2>2. FrameAt(r, 0, p) /\ Framed(r, RequiredSpace(p), w) BY <2>1, StayAt
  <2> QED BY <2>1, <2>2 DEF FrameNext
<1> QED BY <1>1, <1>2, <1>3

\* What follows the first n bytes, once these are gone.
LEMMA GoneFrom ==
  ASSUME IsMessageBuffer, NEW q, NEW r, NEW n \in Nat, NEW w \in Nat, n <= w,
         \A i \in (n + 1)..w : r[i - n] = q[i]
  PROVE  /\ Framed(q, n, w) => Framed(r, 0, w - n)
         /\ n = Header => \A p \in Payloads : FrameNext(q, w, p) => BodyNext(r, w - n, p)
<1>1. n - n = 0 /\ n - n >= 0 /\ n \in Int OBVIOUS
<1>2. ASSUME Framed(q, n, w) PROVE Framed(r, 0, w - n)
  <2>1. Framed(r, n - n, w - n) BY <1>1, <1>2, FramedShifts
  <2> QED BY <1>1, <2>1
<1>3. ASSUME n = Header, NEW p \in Payloads, FrameNext(q, w, p) PROVE BodyNext(r, w - n, p)
  <2> DEFINE l == Len(p)
             m == RequiredSpace(p)
  <2>1. /\ l \in Nat /\ m = l + n /\ m \in Nat /\ m <= w /\ m - n = l /\ m - n >= 0 /\ l <= w - n
        /\ Framed(q, m, w)
    BY <1>3, RequiredFacts DEF FrameNext
  <2>2. \A k \in 1..l : q[(0 + n) + k] = p[k] BY <1>3 DEF FrameNext, FrameAt, BodyAt
  <2> HIDE DEF l, m
  <2>3. \A i \in (m + 1)..w : r[i - n] = q[i] BY <2>1
  <2>4. Framed(r, m - n, w - n) BY <1>1, <2>1, <2>3, FramedShifts
  <2>5. ASSUME NEW k \in 1..l PROVE r[0 + k] = p[k]
    <3>1. n + k \in (n + 1)..w /\ (n + k) - n = 0 + k /\ (0 + n) + k = n + k BY <2>1
    <3>2. r[(n + k) - n] = q[n + k] BY <3>1
    <3> QED BY <2>2, <3>1, <3>2
  <2> QED BY <2>1, <2>4, <2>5 DEF BodyNext, BodyAt, l
<1> QED BY <1>2, <1>3

\* The length is put back.
LEMMA PutBack ==
  ASSUME IsMessageBuffer, NEW q, NEW r, NEW w \in Nat, NEW p \in Payloads, BodyNext(q, w, p),
         LengthAt(r, 0, p), \A i \in 1..w : r[i + Header] = q[i]
  PROVE  Framed(r, 0, w + Header)
<1> DEFINE l == Len(p)
           m == RequiredSpace(p)
<1>1. /\ l \in Nat /\ m = l + Header /\ m \in Nat /\ l <= w /\ Header \in Nat
      /\ m <= w + Header /\ w + Header \in Nat /\ 0 + m = m
      /\ Framed(q, l, w)
  BY RequiredFacts DEF BodyNext
<1>2. \A k \in 1..l : q[0 + k] = p[k] BY DEF BodyNext, BodyAt
<1> HIDE DEF l, m
<1>3. Framed(r, m, w + Header)
  <2> DEFINE d == 0 - Header
  <2>1. d \in Int /\ l - d = m /\ l - d >= 0 /\ w - d = w + Header BY <1>1
  <2>2. \A i \in (l + 1)..w : r[i - d] = q[i]
    <3> SUFFICES ASSUME NEW i \in (l + 1)..w PROVE r[i - d] = q[i] OBVIOUS
    <3>1. i \in 1..w /\ i - d = i + Header BY <1>1
    <3> HIDE DEF d
    <3> QED BY <3>1
  <2> HIDE DEF d
  <2>3. Framed(r, l - d, w - d) BY <1>1, <2>1, <2>2, FramedShifts
  <2> QED BY <2>1, <2>3
<1>4. FrameAt(r, 0, p)
  <2>1. ASSUME NEW k \in 1..l PROVE r[(0 + Header) + k] = p[k]
    <3>1. k \in 1..w /\ (0 + Header) + k = k + Header /\ 0 + k = k BY <1>1
    <3> QED BY <1>2, <3>1
  <2> QED BY <2>1 DEF FrameAt, BodyAt, l
<1>5. 0 + RequiredSpace(p) <= w + Header /\ Framed(r, 0 + RequiredSpace(p), w + Header)
  BY <1>1, <1>3 DEF m
<1> QED BY <1>1, <1>4, <1>5, FramedBefore

\* What the reader knows of the first w bytes of q, it knows of the first v of r.
Follows(q, w, r, v) ==
  /\ Framed(q, 0, w) => Framed(r, 0, v)
  /\ \A p \in Payloads : /\ BodyNext(q, w, p) => BodyNext(r, v, p)
                         /\ FrameNext(q, w, p) => FrameNext(r, v, p)

LEMMA FollowsSame ==
  ASSUME IsMessageBuffer, NEW q, NEW r, NEW w \in Nat, \A i \in 1..w : r[i] = q[i]
  PROVE  Follows(q, w, r, w)
  BY NextStays DEF Follows

LEMMA FollowsAfter ==
  ASSUME IsMessageBuffer, NEW q, NEW r, NEW w \in Nat, \A i \in 1..w : r[i] = q[i],
         NEW s \in Payloads, FrameAt(r, w, s)
  PROVE  Follows(q, w, r, w + RequiredSpace(s))
<1> DEFINE v == w + RequiredSpace(s)
<1>1. v \in Nat /\ w <= v BY RequiredFacts
<1>2. Framed(q, 0, w) => Framed(r, 0, v)
  <2> SUFFICES ASSUME Framed(q, 0, w) PROVE Framed(r, 0, v) OBVIOUS
  <2>1. Framed(r, 0, w) BY NextStays
  <2> QED BY <2>1, FramedAfter
<1>3. ASSUME NEW p \in Payloads, BodyNext(q, w, p) PROVE BodyNext(r, v, p)
  <2>1. BodyNext(r, w, p) BY <1>3, NextStays
  <2>2. Len(p) \in Nat /\ Len(p) <= w /\ BodyAt(r, 0, p) /\ Framed(r, Len(p), w)
    BY <2>1, RequiredFacts DEF BodyNext
  <2>3. Framed(r, Len(p), v) BY <2>2, FramedAfter
  <2>4. Len(p) <= v
    <3> DEFINE n == Len(p)
    <3> HIDE DEF v
    <3>1. n \in Nat /\ n <= w BY <2>2
    <3> HIDE DEF n
    <3>2. n <= v BY <1>1, <3>1
    <3> QED BY <3>2 DEF n
  <2> HIDE DEF v
  <2> QED BY <2>2, <2>3, <2>4 DEF BodyNext
<1>4. ASSUME NEW p \in Payloads, FrameNext(q, w, p) PROVE FrameNext(r, v, p)
  <2> DEFINE n == RequiredSpace(p)
  <2>1. FrameNext(r, w, p) BY <1>4, NextStays
  <2>2. n \in Nat /\ n <= w /\ FrameAt(r, 0, p) /\ Framed(r, n, w)
    BY <2>1, RequiredFacts DEF FrameNext
  <2> HIDE DEF n
  <2>3. Framed(r, n, v) BY <2>2, FramedAfter
  <2> HIDE DEF v
  <2>4. n <= v BY <1>1, <2>2
  <2> QED BY <2>2, <2>3, <2>4 DEF FrameNext, n
<1> HIDE DEF v
<1>5. Follows(q, w, r, v) BY <1>2, <1>3, <1>4 DEF Follows
<1> QED BY <1>5 DEF v

--------------------
\* The writer of a message buffer.

LEMMA MessageNumbers ==
  ASSUME IsMessageBuffer, MessageInv
  PROVE  /\ Header \in Nat /\ Header >= 1
         /\ prvBytesInBuffer \in Nat /\ xStreamBufferSpacesAvailable \in Nat
         /\ prvBytesInBuffer + xStreamBufferSpacesAvailable = Length - 1
         /\ Whole \in Nat /\ Whole <= prvBytesInBuffer
         /\ Partial => Whole + Header = prvBytesInBuffer
         /\ ~Partial => Whole = prvBytesInBuffer
         /\ Given \in Int /\ Given <= xStreamBufferSpacesAvailable
         /\ WriterRuns => Given = xStreamBufferSpacesAvailable
<1> DEFINE b == prvBytesInBuffer
           s == xStreamBufferSpacesAvailable
<1>1. /\ Header \in Nat /\ Header >= 1 /\ b \in Nat /\ s \in Nat /\ b + s = Length - 1
  BY HeaderFacts, RingNow, LengthFacts DEF MessageInv, Index
<1>2. Partial => b >= Header BY DEF MessageInv, PartialFits
<1> HIDE DEF b, s
<1>3. Whole = b - (IF Partial THEN Header ELSE 0) BY DEF Whole, b
<1>4. Given = s - (IF interrupt = "reader" /\ recv.at \in {"length", "restore"} THEN Header ELSE 0)
  BY DEF Given, s
<1>5. /\ Whole \in Nat /\ Whole <= b /\ (Partial => Whole + Header = b) /\ (~Partial => Whole = b)
  BY <1>1, <1>2, <1>3
<1>6. Given \in Int /\ Given <= s /\ (WriterRuns => Given = s)
  <2>1. WriterRuns => ~(interrupt = "reader" /\ recv.at \in {"length", "restore"})
    BY DEF WriterRuns
  <2> QED BY <1>1, <1>4, <2>1
<1> QED BY <1>1, <1>5, <1>6 DEF b, s

\* The writer's step leaves what the reader counts on.
LEMMA ReaderStays ==
  ASSUME MessageInv, UNCHANGED <<recv, interrupt, xTail>>,
         Follows(Content, Whole, Content', Whole'),
         WriterRuns \/ UNCHANGED <<xHead, pucBuffer>>
  PROVE  MessageReaderInv'
<1>1. /\ Framed(Content, 0, Whole) => Framed(Content', 0, Whole')
      /\ \A p \in Payloads : /\ BodyNext(Content, Whole, p) => BodyNext(Content', Whole', p)
                             /\ FrameNext(Content, Whole, p) => FrameNext(Content', Whole', p)
  BY DEF Follows
<1>2. recv.at \in {"length", "restore"} /\ interrupt = "reader" =>
        \A p \in Payloads : Held(p) => Held(p)'
  <2> SUFFICES ASSUME recv.at \in {"length", "restore"}, interrupt = "reader",
                      NEW p \in Payloads, Held(p)
               PROVE  Held(p)'
    OBVIOUS
  <2>1. UNCHANGED <<xHead, pucBuffer>> BY DEF WriterRuns
  <2> QED BY <2>1 DEF Held, prvBytesInBuffer
<1>3. MessageReaderInv BY DEF MessageInv
<1>4. recv.at # "idle" /\ interrupt # "reader" =>
        ~recv.peek /\ \A p \in Payloads : Len(p) <= recv.size
  BY <1>3 DEF MessageReaderInv
<1>5. Outside(recv) => Framed(Content', 0, Whole') BY <1>1, <1>3 DEF MessageReaderInv
<1>6. AtHeader(recv) =>
        /\ recv.xCount = Header
        /\ \E p \in Payloads :
             /\ FrameNext(Content', Whole', p) /\ RequiredSpace(p) <= recv.xBytesAvailable
             /\ recv.at = "publish" => recv.bytes = LengthBytes(Len(p))
        /\ recv.at = "publish" => recv.xOriginalTail = xTail
  BY <1>1, <1>3 DEF MessageReaderInv
<1>7. recv.at = "length" =>
        \E p \in Payloads : /\ BodyNext(Content', Whole', p) /\ recv.bytes = LengthBytes(Len(p))
                            /\ RequiredSpace(p) <= recv.xBytesAvailable
                            /\ interrupt = "reader" => Held(p)'
  BY <1>1, <1>2, <1>3 DEF MessageReaderInv
<1>8. recv.at = "restore" =>
        interrupt = "reader" /\ \E p \in Payloads : BodyNext(Content', Whole', p) /\ Held(p)'
  BY <1>1, <1>2, <1>3 DEF MessageReaderInv
<1>9. AtBody(recv) => \E p \in Payloads : /\ BodyNext(Content', Whole', p) /\ recv.xCount = Len(p)
                                          /\ recv.at = "publish" => recv.bytes = p
  <2> SUFFICES ASSUME AtBody(recv)
               PROVE  \E p \in Payloads : /\ BodyNext(Content', Whole', p) /\ recv.xCount = Len(p)
                                          /\ recv.at = "publish" => recv.bytes = p
    OBVIOUS
  <2>1. PICK p \in Payloads : /\ BodyNext(Content, Whole, p) /\ recv.xCount = Len(p)
                              /\ recv.at = "publish" => recv.bytes = p
    BY <1>3 DEF MessageReaderInv
  <2>2. BodyNext(Content', Whole', p) BY <1>1, <2>1
  <2> QED BY <2>1, <2>2
<1>10. recv.at = "complete" => recv.bytes \in Payloads BY <1>3 DEF MessageReaderInv
<1> QED BY <1>4, <1>5, <1>6, <1>7, <1>8, <1>9, <1>10 DEF MessageReaderInv

LEMMA WriterAsideMessage ==
  ASSUME IsMessages, MessageInv, WriterAside
  PROVE  MessageInv'
<1>1. /\ send \in SendCall /\ NoSend \in SendCall
      /\ NoSend.at = "idle" /\ NoSend.chunks = <<>> /\ NoSend.xSpace = 0
  BY NoCallsTyped DEF MessageInv, CallsTyped, NoSend
<1>2. /\ UNCHANGED <<xTail, xHead, pucBuffer, recv, xTriggerLevelBytes, interrupt>> /\ OthersTyped'
      /\ prvBytesInBuffer' = prvBytesInBuffer
      /\ xStreamBufferSpacesAvailable' = xStreamBufferSpacesAvailable
  BY WriterAsideFrame DEF MessageInv, prvBytesInBuffer, xStreamBufferSpacesAvailable
<1>3. /\ Given' = Given /\ Given \in Int /\ xStreamBufferSpacesAvailable \in Index
      /\ xStreamBufferSpacesAvailable >= 0 /\ xStreamBufferSpacesAvailable \in Int
      /\ WriterRuns => Given = xStreamBufferSpacesAvailable
  BY <1>2, MessageNumbers, RingNow DEF IsMessages, MessageInv, Given
<1>4. /\ send.at # "idle" => send.data \in Payloads
      /\ send.at \in {"check", "wait", "woken", "decide"} =>
           send.chunks = <<>> /\ send.xSpace <= Given
      /\ send.at \in {"complete", "notify"} => send.chunks = <<>>
  BY DEF MessageInv, MessageWriterInv
<1>5. send' \in SendCall /\ MessageWriterInv' /\ ~Partial /\ ~Partial'
  <2>1. CASE InvokeSend
    <3>1. PICK p \in Payloads, w \in Wait :
            send' = [NoSend EXCEPT !.at = IF w = "none" THEN "decide" ELSE "check",
                                   !.data = p, !.wait = w]
      BY <2>1, StreamBufferAssumption DEF InvokeSend, Wait
    <3>2. send' \in SendCall /\ send'.data \in Payloads /\ send'.chunks = <<>>
          /\ send'.xSpace = 0 /\ send'.at \in {"decide", "check"}
      BY <1>1, <3>1 DEF SendCall, SendPlace, NoSend
    <3>3. send.at = "idle" /\ WriterRuns BY <2>1 DEF InvokeSend, SendAt
    <3>4. 0 <= Given' BY <1>3, <3>3
    <3> QED BY <3>2, <3>3, <3>4 DEF MessageWriterInv, Partial
  <2>2. CASE CheckSpace
    <3>1. /\ send.at = "check" /\ WriterRuns
          /\ send' = [send EXCEPT !.xSpace = xStreamBufferSpacesAvailable,
                        !.at = IF xStreamBufferSpacesAvailable < RequiredSpace(send.data)
                               THEN "wait" ELSE "decide"]
      BY <2>2 DEF CheckSpace, SendAt
    <3>2. /\ send' \in SendCall /\ send'.data = send.data /\ send'.chunks = send.chunks
          /\ send'.xSpace = xStreamBufferSpacesAvailable
          /\ send'.at \in {"wait", "decide"}
      BY <1>1, <1>3, <3>1 DEF SendCall, SendPlace
    <3>3. send'.xSpace <= Given' BY <1>3, <3>1, <3>2
    <3> QED BY <1>4, <3>1, <3>2, <3>3 DEF MessageWriterInv, Partial
  <2>3. CASE WakeWriter \/ WriterAwake \/ ExpireSend
    <3>1. /\ send.at \in {"wait", "woken"}
          /\ send' \in SendCall /\ send'.data = send.data /\ send'.chunks = send.chunks
          /\ send'.xSpace = send.xSpace
          /\ send'.at \in {"check", "wait", "woken", "decide"}
      BY <1>1, <2>3 DEF WakeWriter, WriterAwake, ExpireSend, SendAt, SendCall, SendPlace
    <3> QED BY <1>3, <1>4, <3>1 DEF MessageWriterInv, Partial
  <2>4. CASE Decide
    <3> DEFINE space == IF send.xSpace = 0 THEN xStreamBufferSpacesAvailable
                        ELSE send.xSpace
               chunks == Chunks(send.data, space)
               pair == <<LengthBytes(Len(send.data)), send.data>>
    <3>1. /\ send.at = "decide" /\ send.data \in Payloads /\ send.xSpace \in Index /\ WriterRuns
          /\ send.xSpace <= Given
          /\ send' = IF chunks = <<>> THEN NoSend
                     ELSE [send EXCEPT !.at = "copy", !.chunks = chunks, !.xSpace = 0]
      BY <1>1, <1>4, <2>4 DEF Decide, SendAt, SendCall
    <3>2. space \in Int /\ space <= Given /\ 0 \in Index
      BY <1>3, <3>1, LengthFacts DEF Index
    <3> HIDE DEF space
    <3>3. CASE chunks = <<>> BY <1>1, <3>1, <3>3 DEF MessageWriterInv, Partial
    <3>4. CASE chunks # <<>>
      <4>1. chunks = pair /\ space >= RequiredSpace(send.data)
        BY <3>4 DEF Chunks, IsMessages
      <4>2. pair \in Seq(Seq(Bytes)) /\ Len(pair) = 2 /\ pair # <<>>
        <5>1. Len(send.data) \in Bytes /\ send.data \in Seq(Bytes)
          BY <3>1, RequiredFacts DEF IsMessages
        <5>2. LengthBytes(Len(send.data)) \in Seq(Bytes)
          BY <5>1, LengthBytesAre DEF IsMessages
        <5> QED BY <5>1, <5>2
      <4> HIDE DEF chunks
      <4>3. RequiredSpace(send.data) \in Int BY <3>1, RequiredFacts DEF IsMessages
      <4> HIDE DEF pair
      <4>4. /\ send' \in SendCall /\ send'.at = "copy" /\ send'.chunks = pair
            /\ send'.data = send.data
        BY <1>1, <3>1, <3>2, <3>4, <4>1, <4>2 DEF SendCall, SendPlace
      <4>5. RequiredSpace(send'.data) <= Given' BY <1>3, <3>2, <4>1, <4>3, <4>4
      <4>6. MessageWriterInv' BY <3>1, <4>4, <4>5 DEF MessageWriterInv, pair
      <4>7. Len(send'.chunks) # 1 BY <4>2, <4>4
      <4> QED BY <3>1, <4>4, <4>6, <4>7 DEF Partial
    <3> QED BY <3>3, <3>4
  <2>5. CASE SendComplete
    <3>1. /\ send.at = "complete"
          /\ \/ send' = NoSend
             \/ send' = [send EXCEPT !.at = "notify"]
      BY <2>5 DEF SendComplete, SendAt
    <3>2. CASE send' = NoSend BY <1>1, <3>1, <3>2 DEF MessageWriterInv, Partial
    <3>3. CASE send' = [send EXCEPT !.at = "notify"]
      <4>1. send' \in SendCall /\ send'.data = send.data /\ send'.chunks = send.chunks
            /\ send'.at = "notify"
        BY <1>1, <3>3 DEF SendCall, SendPlace
      <4> QED BY <1>4, <3>1, <4>1 DEF MessageWriterInv, Partial
    <3> QED BY <3>1, <3>2, <3>3
  <2>6. CASE sbSEND_COMPLETED
    <3>1. send' = NoSend /\ send.at = "notify" BY <2>6 DEF sbSEND_COMPLETED, SendAt
    <3> QED BY <1>1, <3>1 DEF MessageWriterInv, Partial
  <2> QED BY <2>1, <2>2, <2>3, <2>4, <2>5, <2>6 DEF WriterAside
<1>6. Whole' = Whole /\ Content' = Content /\ Whole \in Nat
  BY <1>2, <1>5, MessageNumbers DEF IsMessages, Whole, Content, FromTail
<1>7. MessageReaderInv'
  <2>1. Follows(Content, Whole, Content', Whole') BY <1>6 DEF Follows
  <2> QED BY <1>2, <2>1, ReaderStays
<1>8. PartialFits' BY <1>5 DEF PartialFits
<1>9. RingTyped' /\ CallsTyped'
  BY <1>2, <1>5 DEF MessageInv, TypeOK, RingTyped, CallsTyped
<1>10. TypeOK' BY <1>2, <1>9, TypesTogether
<1> QED BY <1>5, <1>7, <1>8, <1>9, <1>10 DEF MessageInv

\* The chunk the writer is at: the length of the message, or the message.
LEMMA MessageChunk ==
  ASSUME IsMessages, MessageInv, send.at \in {"copy", "publish"}, WriterRuns
  PROVE  LET chunk == send.chunks[1]
         IN  /\ send.data \in Payloads
             /\ chunk \in Seq(Bytes) /\ Len(chunk) \in Nat /\ Len(chunk) >= 1
             /\ Len(chunk) <= Room(xTail, xHead) /\ Room(xTail, xHead) \in Nat
             /\ Head(send.chunks) = chunk
             /\ \/ /\ send.chunks = <<LengthBytes(Len(send.data)), send.data>> /\ ~Partial
                   /\ chunk = LengthBytes(Len(send.data)) /\ Len(chunk) = Header
                   /\ Tail(send.chunks) = <<send.data>> /\ Len(send.chunks) > 1
                   /\ RequiredSpace(send.data) <= Room(xTail, xHead)
                \/ /\ send.chunks = <<send.data>> /\ Partial /\ chunk = send.data
                   /\ Tail(send.chunks) = <<>> /\ ~(Len(send.chunks) > 1)
<1> DEFINE d == send.data
           h == LengthBytes(Len(d))
           n == Len(d)
           room == Room(xTail, xHead)
<1>1. /\ d \in Payloads
      /\ \/ send.chunks = <<h, d>> /\ RequiredSpace(d) <= Given
         \/ send.chunks = <<d>> /\ n <= Given
  BY DEF MessageInv, MessageWriterInv
<1>2. room = Given /\ room \in Nat BY MessageNumbers, RingNow DEF IsMessages, MessageInv
<1>3. /\ n \in Bytes /\ n \in Nat /\ n >= 1 /\ d \in Seq(Bytes)
      /\ RequiredSpace(d) = n + Header /\ Header \in Nat /\ Header >= 1
  BY <1>1, RequiredFacts DEF IsMessages
<1>4. h \in Seq(Bytes) /\ Len(h) = Header BY <1>3, LengthBytesAre DEF IsMessages
<1> HIDE DEF h, d, room
<1>5. CASE send.chunks = <<h, d>> /\ RequiredSpace(d) <= Given
  <2>1. /\ send.chunks[1] = h /\ Head(send.chunks) = h /\ Tail(send.chunks) = <<d>>
        /\ Len(send.chunks) = 2
    BY <1>3, <1>4, <1>5
  <2>2. Header <= room
    <3> HIDE DEF n
    <3> QED BY <1>2, <1>3, <1>5
  <2> QED BY <1>1, <1>2, <1>3, <1>4, <1>5, <2>1, <2>2 DEF Partial, d, h, room
<1>6. CASE send.chunks = <<d>> /\ n <= Given
  <2>1. /\ send.chunks[1] = d /\ Head(send.chunks) = d /\ Tail(send.chunks) = <<>>
        /\ Len(send.chunks) = 1
    BY <1>3, <1>6
  <2> QED BY <1>1, <1>2, <1>3, <1>6, <2>1 DEF Partial, d, room
<1> QED BY <1>1, <1>5, <1>6

LEMMA CopyInMessage ==
  ASSUME IsMessages, MessageInv, CopyIn
  PROVE  MessageInv'
<1> DEFINE chunk == send.chunks[1]
           b == prvBytesInBuffer
           n == Len(chunk)
<1>1. /\ send.at = "copy" /\ WriterRuns /\ pucBuffer' = Filled(Head(send.chunks))
      /\ send' = [send EXCEPT !.at = "publish"]
      /\ UNCHANGED <<interrupt, xTail, xHead, xTriggerLevelBytes, handles, notified, recv>>
  BY DEF CopyIn, SendAt
<1>2. /\ send.data \in Payloads /\ chunk \in Seq(Bytes) /\ n \in Nat
      /\ n <= Room(xTail, xHead) /\ Room(xTail, xHead) \in Nat /\ Head(send.chunks) = chunk
  BY <1>1, MessageChunk
<1>3. /\ xTail \in Index /\ xHead \in Index /\ pucBuffer \in [Index -> Bytes]
      /\ b = Between(xTail, xHead) /\ b \in Nat /\ Whole \in Nat /\ Whole <= b
      /\ Header \in Nat /\ (Partial => Whole + Header = b)
  BY RingNow, MessageNumbers DEF IsMessages, MessageInv, TypeOK
<1>4. /\ pucBuffer' \in [Index -> Bytes]
      /\ \A k \in 1..n : pucBuffer'[Advance(xHead, k - 1)] = chunk[k]
      /\ \A k \in 1..b : pucBuffer'[Advance(xTail, k - 1)] = pucBuffer[Advance(xTail, k - 1)]
  <2>1. Len(chunk) \in 0..Room(xTail, xHead)
    <3> HIDE DEF n
    <3>1. n \in 0..Room(xTail, xHead) BY <1>2
    <3> QED BY <3>1 DEF n
  <2> QED BY <1>1, <1>2, <1>3, <2>1, FilledFacts
<1>5. b' = b /\ Given' = Given
  BY <1>1 DEF prvBytesInBuffer, xStreamBufferSpacesAvailable, Given
<1>6. /\ send' \in SendCall /\ send'.at = "publish" /\ send'.data = send.data
      /\ send'.chunks = send.chunks
  BY <1>1 DEF MessageInv, CallsTyped, SendCall, SendPlace
<1>7. Partial' = Partial /\ Whole' = Whole
  <2>1. Partial' <=> Partial BY <1>1, <1>6 DEF Partial
  <2> QED BY <1>5, <2>1 DEF Whole, Partial
<1>8. \A i \in 1..b : Content'[i] = Content[i]
  <2>1. /\ Content = [k \in 1..b |-> pucBuffer[Advance(xTail, k - 1)]]
        /\ Content' = [k \in 1..b |-> pucBuffer'[Advance(xTail, k - 1)]]
    BY <1>1, <1>5 DEF Content, FromTail
  <2> QED BY <1>4, <2>1
<1>9. MessageWriterInv'
  <2>1. /\ \/ /\ send.chunks = <<LengthBytes(Len(send.data)), send.data>>
              /\ RequiredSpace(send.data) <= Given
           \/ send.chunks = <<send.data>> /\ Len(send.data) <= Given
    BY <1>1 DEF MessageInv, MessageWriterInv
  <2>2. \A k \in 1..Len(send'.chunks[1]) :
          pucBuffer'[Advance(xHead', k - 1)] = send'.chunks[1][k]
    BY <1>1, <1>4, <1>6
  <2>3. \/ /\ send'.chunks = <<LengthBytes(Len(send'.data)), send'.data>>
           /\ RequiredSpace(send'.data) <= Given'
        \/ send'.chunks = <<send'.data>> /\ Len(send'.data) <= Given'
    BY <1>5, <1>6, <2>1
  <2> QED BY <1>2, <1>6, <2>2, <2>3 DEF MessageWriterInv
<1>10. PartialFits'
  <2> SUFFICES ASSUME Partial' PROVE b' >= Header /\ LengthAt(Content', Whole', send'.data)
    BY DEF PartialFits
  <2>1. Partial /\ b >= Header /\ LengthAt(Content, Whole, send.data)
    BY <1>7 DEF MessageInv, PartialFits
  <2>2. \A k \in 1..Header : Whole + k \in 1..b
    <3> HIDE DEF b
    <3> QED BY <1>3, <2>1
  <2>3. \A k \in 1..Header : Content'[Whole + k] = LengthBytes(Len(send.data))[k]
    BY <1>8, <2>1, <2>2 DEF LengthAt
  <2> QED BY <1>5, <1>6, <1>7, <2>1, <2>3 DEF LengthAt
<1>11. MessageReaderInv'
  <2>1. \A i \in 1..Whole : Content'[i] = Content[i]
    <3>1. \A i \in 1..Whole : i \in 1..b
      <4> HIDE DEF b
      <4> QED BY <1>3
    <3> QED BY <1>8, <3>1
  <2>2. Follows(Content, Whole, Content', Whole')
    BY <1>3, <1>7, <2>1, FollowsSame DEF IsMessages
  <2> QED BY <1>1, <2>2, ReaderStays
<1>12. RingTyped' /\ CallsTyped' /\ OthersTyped'
  BY <1>1, <1>3, <1>4, <1>6 DEF MessageInv, TypeOK, RingTyped, CallsTyped, OthersTyped, handles
<1>13. TypeOK' BY <1>12, TypesTogether
<1> QED BY <1>9, <1>10, <1>11, <1>12, <1>13 DEF MessageInv

\* What publishing the chunk does to the ring.
LEMMA ChunkPublished ==
  ASSUME IsMessages, MessageInv, PublishHead
  PROVE  LET chunk == send.chunks[1]
         IN  /\ xHead' \in Index
             /\ prvBytesInBuffer' = prvBytesInBuffer + Len(chunk)
             /\ xStreamBufferSpacesAvailable' = xStreamBufferSpacesAvailable - Len(chunk)
             /\ \A i \in 1..prvBytesInBuffer : Content'[i] = Content[i]
             /\ \A k \in 1..Len(chunk) : Content'[prvBytesInBuffer + k] = chunk[k]
<1> DEFINE chunk == send.chunks[1]
           b == prvBytesInBuffer
           n == Len(chunk)
<1>1. /\ send.at = "publish" /\ WriterRuns /\ xHead' = Advance(xHead, Len(Head(send.chunks)))
      /\ UNCHANGED <<xTail, pucBuffer>>
  BY DEF PublishHead, SendAt
<1>2. /\ chunk \in Seq(Bytes) /\ n \in Nat
      /\ n <= Room(xTail, xHead) /\ Room(xTail, xHead) \in Nat /\ Head(send.chunks) = chunk
  BY <1>1, MessageChunk
<1>3. /\ xTail \in Index /\ xHead \in Index /\ b = Between(xTail, xHead) /\ b \in Nat
      /\ b + Room(xTail, xHead) = Length - 1 /\ Advance(xTail, b) = xHead
      /\ xStreamBufferSpacesAvailable = Length - 1 - b /\ Length \in Nat
  BY RingNow, RingBounds, MessageNumbers, LengthFacts DEF IsMessages, MessageInv, Room
<1>4. n \in 0..Room(xTail, xHead)
  <2> HIDE DEF n
  <2> QED BY <1>2
<1>5. xHead' \in Index /\ Between(xTail, xHead') = b + n
  BY <1>1, <1>2, <1>3, <1>4, HeadMoves
<1>6. b' = b + n /\ xStreamBufferSpacesAvailable' = Length - 1 - (b + n)
  <2>1. b' = Between(xTail, xHead') BY <1>1 DEF prvBytesInBuffer, Between
  <2>2. xStreamBufferSpacesAvailable' = Room(xTail, xHead')
    <3>1. xStreamBufferSpacesAvailable' =
            LET c == Length + xTail - xHead' - 1 IN IF c >= Length THEN c - Length ELSE c
      BY <1>1 DEF xStreamBufferSpacesAvailable
    <3> QED BY <1>3, <1>5, <3>1, SpaceIs
  <2> QED BY <1>5, <2>1, <2>2 DEF Room
<1>7. \A k \in 1..n : pucBuffer[Advance(xHead, k - 1)] = chunk[k]
  BY <1>1 DEF MessageInv, MessageWriterInv
<1>8. /\ Content = [k \in 1..b |-> pucBuffer[Advance(xTail, k - 1)]]
      /\ Content' = [k \in 1..(b + n) |-> pucBuffer[Advance(xTail, k - 1)]]
  BY <1>1, <1>6 DEF Content, FromTail
<1> HIDE DEF b, n
<1>9. \A i \in 1..b : Content'[i] = Content[i]
  <2>1. \A i \in 1..b : i \in 1..(b + n) BY <1>2, <1>3
  <2> QED BY <1>8, <2>1
<1>10. ASSUME NEW k \in 1..n PROVE Content'[b + k] = chunk[k]
  <2>1. /\ b + k \in 1..(b + n) /\ k - 1 \in Nat /\ b + (k - 1) = (b + k) - 1
        /\ b + (k - 1) <= Length
    BY <1>2, <1>3
  <2>2. Advance(xHead, k - 1) = Advance(xTail, (b + k) - 1) BY <1>3, <2>1, AdvanceTwice
  <2> QED BY <1>7, <1>8, <2>1, <2>2
<1>11. xStreamBufferSpacesAvailable' = xStreamBufferSpacesAvailable - n
  BY <1>2, <1>3, <1>6
<1> QED BY <1>5, <1>6, <1>9, <1>10, <1>11 DEF b, n

LEMMA PublishHeadMessage ==
  ASSUME IsMessages, MessageInv, PublishHead
  PROVE  MessageInv'
<1> DEFINE chunk == send.chunks[1]
           d == send.data
           b == prvBytesInBuffer
           s == xStreamBufferSpacesAvailable
<1>1. /\ send.at = "publish" /\ WriterRuns
      /\ send' = [send EXCEPT !.chunks = Tail(send.chunks),
                              !.at = IF Len(send.chunks) > 1 THEN "copy" ELSE "complete"]
      /\ UNCHANGED <<interrupt, xTail, pucBuffer, xTriggerLevelBytes, handles, notified, recv>>
  BY DEF PublishHead, SendAt
<1>2. /\ send \in SendCall /\ d \in Payloads /\ d \in Seq(Bytes)
      /\ RequiredSpace(d) = Len(d) + Header /\ Len(d) \in Nat
  BY <1>1, MessageChunk, RequiredFacts DEF IsMessages, MessageInv, CallsTyped
<1>3. /\ b \in Nat /\ s \in Nat /\ Whole \in Nat /\ Whole <= b /\ Header \in Nat /\ Header >= 1
      /\ (Partial => Whole + Header = b) /\ (~Partial => Whole = b)
      /\ s = Room(xTail, xHead)
  BY MessageNumbers, RingNow DEF IsMessages, MessageInv
<1>4. /\ xHead' \in Index /\ b' = b + Len(chunk) /\ s' = s - Len(chunk)
      /\ \A i \in 1..b : Content'[i] = Content[i]
      /\ \A k \in 1..Len(chunk) : Content'[b + k] = chunk[k]
  BY ChunkPublished
<1>5. Given' = s'
  <2>1. ~(interrupt = "reader" /\ recv.at \in {"length", "restore"})
    BY <1>1 DEF WriterRuns
  <2>2. s' \in Int BY <1>2, <1>3, <1>4, MessageChunk, <1>1
  <2> QED BY <1>1, <2>1, <2>2 DEF Given
<1>6. \A i \in 1..Whole : Content'[i] = Content[i]
  <2>1. \A i \in 1..Whole : i \in 1..b
    <3> HIDE DEF b
    <3> QED BY <1>3
  <2> QED BY <1>4, <2>1
<1>7. send' \in SendCall /\ MessageWriterInv' /\ PartialFits'
      /\ Follows(Content, Whole, Content', Whole')
  <2>1. CASE /\ send.chunks = <<LengthBytes(Len(d)), d>> /\ ~Partial
             /\ chunk = LengthBytes(Len(d)) /\ Len(chunk) = Header
             /\ Tail(send.chunks) = <<d>> /\ Len(send.chunks) > 1
             /\ RequiredSpace(d) <= Room(xTail, xHead)
    <3>1. <<d>> \in Seq(Seq(Bytes)) /\ Len(<<d>>) = 1 BY <1>2
    <3>2. /\ send' \in SendCall /\ send'.at = "copy" /\ send'.chunks = <<d>> /\ send'.data = d
      BY <1>1, <1>2, <2>1, <3>1 DEF SendCall, SendPlace
    <3>3. Partial' BY <3>1, <3>2 DEF Partial
    <3>4. b' = b + Header /\ s' = s - Header /\ Whole' = b /\ Whole = b
      <4>1. Whole' = b' - Header BY <3>3 DEF Whole
      <4>2. Whole = b /\ b' = b + Header /\ s' = s - Header BY <1>3, <1>4, <2>1, Zenon
      <4> HIDE DEF b, s
      <4>3. Whole' = b BY <1>3, <4>1, <4>2
      <4> QED BY <4>2, <4>3
    <3>5. Len(d) <= Given'
      <4> HIDE DEF s
      <4> DEFINE n == Len(d)
      <4> HIDE DEF n
      <4>1. n \in Nat /\ n + Header <= s BY <1>2, <1>3, <2>1 DEF n
      <4>2. n <= s' BY <1>3, <3>4, <4>1
      <4> QED BY <1>5, <4>2 DEF n
    <3>6. MessageWriterInv' BY <1>2, <3>2, <3>5 DEF MessageWriterInv
    <3>7. PartialFits'
      <4>1. b' >= Header
        <5> HIDE DEF b
        <5> QED BY <1>3, <3>4
      <4>2. \A k \in 1..Header : Content'[b + k] = LengthBytes(Len(d))[k] BY <1>4, <2>1
      <4>3. LengthAt(Content', Whole', send'.data) BY <3>2, <3>4, <4>2 DEF LengthAt
      <4> QED BY <4>1, <4>3 DEF PartialFits
    <3>8. Follows(Content, Whole, Content', Whole')
      BY <1>3, <1>6, <3>4, FollowsSame DEF IsMessages
    <3> QED BY <3>2, <3>6, <3>7, <3>8
  <2>2. CASE /\ send.chunks = <<d>> /\ Partial /\ chunk = d
             /\ Tail(send.chunks) = <<>> /\ ~(Len(send.chunks) > 1)
    <3>1. <<>> \in Seq(Seq(Bytes)) /\ Len(<<>>) = 0 OBVIOUS
    <3>2. /\ send' \in SendCall /\ send'.at = "complete" /\ send'.chunks = <<>> /\ send'.data = d
      BY <1>1, <1>2, <2>2, <3>1 DEF SendCall, SendPlace
    <3>3. ~Partial' BY <3>2 DEF Partial
    <3>4. b' = b + Len(d) /\ Whole + Header = b /\ Whole' = Whole + RequiredSpace(d)
      <4> DEFINE n == Len(d)
      <4>1. Whole' = b' - 0 /\ b' = b + n BY <1>4, <2>2, <3>3 DEF Whole
      <4>2. n \in Nat /\ RequiredSpace(d) = n + Header BY <1>2
      <4> HIDE DEF b, n
      <4>3. Whole' = Whole + RequiredSpace(d) BY <1>3, <2>2, <4>1, <4>2 DEF b
      <4> QED BY <1>3, <2>2, <4>1, <4>3 DEF b, n
    <3>5. MessageWriterInv' /\ PartialFits'
      BY <1>2, <3>2, <3>3 DEF MessageWriterInv, PartialFits
    <3>6. FrameAt(Content', Whole, d)
      <4>1. LengthAt(Content, Whole, d) BY <2>2 DEF MessageInv, PartialFits
      <4>2. \A k \in 1..Header : Whole + k \in 1..b
        <5> HIDE DEF b
        <5> QED BY <1>3, <3>4
      <4>3. LengthAt(Content', Whole, d) BY <1>4, <4>1, <4>2 DEF LengthAt
      <4>4. BodyAt(Content', Whole + Header, d) BY <1>4, <2>2, <3>4 DEF BodyAt
      <4> QED BY <4>3, <4>4 DEF FrameAt
    <3>7. Follows(Content, Whole, Content', Whole')
      BY <1>2, <1>3, <1>6, <3>4, <3>6, FollowsAfter DEF IsMessages
    <3> QED BY <3>2, <3>5, <3>7
  <2> QED BY <1>1, <2>1, <2>2, MessageChunk
<1>8. MessageReaderInv' BY <1>1, <1>7, ReaderStays
<1>9. RingTyped' /\ CallsTyped' /\ OthersTyped'
  BY <1>1, <1>4, <1>7 DEF MessageInv, TypeOK, RingTyped, CallsTyped, OthersTyped, handles
<1>10. TypeOK' BY <1>9, TypesTogether
<1> QED BY <1>7, <1>8, <1>9, <1>10 DEF MessageInv

--------------------
\* The reader of a message buffer.

\* The reader's step leaves what the writer counts on.
LEMMA WriterKeeps ==
  ASSUME MessageInv, UNCHANGED <<send, xHead, pucBuffer>>,
         Given \in Int, Given' \in Int, Given' >= Given
  PROVE  MessageWriterInv'
<1>1. MessageWriterInv BY DEF MessageInv
<1>2. /\ send.at # "idle" => send.data \in Payloads
      /\ send.at = "publish" =>
           \A k \in 1..Len(send.chunks[1]) :
             pucBuffer[Advance(xHead, k - 1)] = send.chunks[1][k]
      /\ send.at \in {"idle", "complete", "notify"} => send.chunks = <<>>
  BY <1>1 DEF MessageWriterInv
<1>3. send.at \in {"check", "wait", "woken", "decide"} =>
        send.chunks = <<>> /\ send.xSpace <= Given'
  <2>1. send.xSpace \in Int BY LengthFacts DEF MessageInv, CallsTyped, SendCall, Index
  <2> QED BY <1>1, <2>1 DEF MessageWriterInv
<1>4. send.at \in {"copy", "publish"} =>
        \/ /\ send.chunks = <<LengthBytes(Len(send.data)), send.data>>
           /\ RequiredSpace(send.data) <= Given'
        \/ send.chunks = <<send.data>> /\ Len(send.data) <= Given'
  <2> SUFFICES ASSUME send.at \in {"copy", "publish"}
               PROVE  \/ /\ send.chunks = <<LengthBytes(Len(send.data)), send.data>>
                         /\ RequiredSpace(send.data) <= Given'
                      \/ send.chunks = <<send.data>> /\ Len(send.data) <= Given'
    OBVIOUS
  <2> DEFINE n == Len(send.data)
  <2>1. n \in Int /\ RequiredSpace(send.data) = n + Header /\ Header \in Int
    <3>1. send.data \in Payloads BY <1>2
    <3>2. Len(send.data) \in Nat BY <3>1, PayloadFacts
    <3> QED BY <3>2, StreamBufferAssumption DEF RequiredSpace
  <2>2. \/ /\ send.chunks = <<LengthBytes(n), send.data>>
           /\ RequiredSpace(send.data) <= Given
        \/ send.chunks = <<send.data>> /\ n <= Given
    BY <1>1 DEF MessageWriterInv
  <2> HIDE DEF n
  <2>3. /\ RequiredSpace(send.data) <= Given => RequiredSpace(send.data) <= Given'
        /\ n <= Given => n <= Given'
    BY <2>1
  <2>4. \/ /\ send.chunks = <<LengthBytes(n), send.data>>
           /\ RequiredSpace(send.data) <= Given'
        \/ send.chunks = <<send.data>> /\ n <= Given'
    BY <2>2, <2>3
  <2> QED BY <2>4 DEF n
<1> QED BY <1>2, <1>3, <1>4 DEF MessageWriterInv

\* What is read is what is in the buffer.
LEMMA ReadIs ==
  ASSUME TypeOK, NEW s \in Seq(Bytes), Len(s) <= prvBytesInBuffer,
         \A k \in 1..Len(s) : Content[0 + k] = s[k]
  PROVE  FromTail(Len(s)) = s
<1> DEFINE n == Len(s)
           l == Listed(pucBuffer, xTail, n)
<1>1. n \in Nat /\ prvBytesInBuffer \in Nat /\ prvBytesInBuffer <= Length - 1 /\ Length \in Nat
  BY LenProperties, RingNow, LengthFacts
<1> HIDE DEF n
<1>2. n \in 0..Length /\ \A k \in 1..n : k \in 1..prvBytesInBuffer /\ 0 + k = k
  BY <1>1 DEF n
<1>3. /\ l \in Seq(Bytes) /\ Len(l) = n
      /\ \A k \in 1..n : l[k] = pucBuffer[Advance(xTail, k - 1)]
  <2>1. pucBuffer \in [Index -> Bytes] /\ xTail \in Index BY DEF TypeOK, Index
  <2> QED BY <1>2, <2>1, ListedFacts
<1>4. \A k \in 1..n : Content[k] = pucBuffer[Advance(xTail, k - 1)]
  BY <1>2 DEF Content, FromTail
<1>5. \A k \in 1..n : l[k] = s[k] BY <1>2, <1>3, <1>4 DEF n
<1>6. FromTail(n) = l BY DEF FromTail, Listed
<1> HIDE DEF l
<1>7. l = s BY <1>3, <1>5, SameSequence DEF n
<1> QED BY <1>6, <1>7 DEF n

\* Those that leave the ring.
MessageReaderAside == ReaderAside \/ InvokePeek \/ MessageLength

LEMMA MessageReaderFrame ==
  ASSUME TypeOK, MessageReaderAside
  PROVE  /\ UNCHANGED <<xTail, xHead, pucBuffer, send, xTriggerLevelBytes, interrupt>>
         /\ OthersTyped'
<1>1. CASE ReaderAside BY <1>1, ReaderAsideFrame
<1>2. CASE InvokePeek \/ MessageLength
  <2>1. UNCHANGED <<xTail, xHead, pucBuffer, send, xTriggerLevelBytes, interrupt,
                    xTaskWaitingToReceive, xTaskWaitingToSend, notified>>
    BY <1>2 DEF InvokePeek, MessageLength, ring, handles
  <2> QED BY <2>1 DEF TypeOK, OthersTyped
<1> QED BY <1>1, <1>2 DEF MessageReaderAside

\* Between two messages.
LEMMA ReaderOutside ==
  ASSUME recv' \in ReceiveCall, Outside(recv'), recv'.at # "complete",
         Framed(Content', 0, Whole'),
         recv'.at # "idle" /\ interrupt' # "reader" =>
           ~recv'.peek /\ \A p \in Payloads : Len(p) <= recv'.size
  PROVE  MessageReaderInv'
<1>1. /\ ~AtHeader(recv') /\ ~AtBody(recv') /\ recv'.at # "length" /\ recv'.at # "restore"
  BY DEF Outside, AtHeader, AtBody
<1> QED BY <1>1 DEF MessageReaderInv

LEMMA StartReadingMessage ==
  ASSUME IsMessages, MessageInv, Outside(recv), recv.at # "idle",
         recv' = StartReading(recv, prvBytesInBuffer),
         UNCHANGED interrupt, Whole' = Whole, Content' = Content
  PROVE  /\ recv' \in ReceiveCall /\ MessageReaderInv'
         /\ recv'.at \in {"copy", "empty"}
<1> DEFINE b == prvBytesInBuffer
<1>1. /\ b \in Nat /\ Whole \in Nat /\ Whole <= b /\ Header \in Nat /\ Header >= 1
      /\ (Partial => Whole + Header = b) /\ (~Partial => Whole = b) /\ b \in Index
      /\ Header \in Index
  <2>1. Header \in Index BY HeaderFacts, LengthFacts DEF IsMessages, Index
  <2> QED BY <2>1, MessageNumbers, RingNow DEF IsMessages, MessageInv
<1>2. /\ recv' = [recv EXCEPT !.xBytesAvailable = b,
                              !.at = IF b > Header THEN "copy" ELSE "empty",
                              !.body = FALSE, !.xCount = Header]
  BY DEF StartReading, IsMessages
<1>3. recv \in ReceiveCall BY DEF MessageInv, CallsTyped
<1>4. /\ recv' \in ReceiveCall /\ recv'.at = (IF b > Header THEN "copy" ELSE "empty")
      /\ recv'.xBytesAvailable = b /\ recv'.body = FALSE /\ recv'.xCount = Header
      /\ recv'.peek = recv.peek /\ recv'.size = recv.size
  BY <1>1, <1>2, <1>3 DEF ReceiveCall, ReceivePlace
<1>5. /\ Framed(Content', 0, Whole')
      /\ interrupt' # "reader" => ~recv'.peek /\ \A p \in Payloads : Len(p) <= recv'.size
  BY <1>4 DEF MessageInv, MessageReaderInv
<1>6. CASE b > Header
  <2>1. Whole # 0
    <3> HIDE DEF b
    <3>1. Partial \/ ~Partial OBVIOUS
    <3> QED BY <1>1, <1>6
  <2>2. PICK p \in Payloads : /\ FrameAt(Content, 0, p) /\ 0 + RequiredSpace(p) <= Whole
                              /\ Framed(Content, 0 + RequiredSpace(p), Whole)
    BY <1>1, <1>5, <2>1, FramedFirst DEF IsMessages
  <2>3. 0 + RequiredSpace(p) = RequiredSpace(p) /\ RequiredSpace(p) \in Nat
    BY RequiredFacts DEF IsMessages
  <2>4. RequiredSpace(p) <= b
    <3> HIDE DEF b
    <3> QED BY <1>1, <2>2, <2>3
  <2>5. FrameNext(Content', Whole', p) BY <2>2, <2>3 DEF FrameNext
  <2>6. /\ recv'.at = "copy" /\ AtHeader(recv') /\ ~AtBody(recv') /\ ~Outside(recv')
    BY <1>4, <1>6 DEF AtHeader, AtBody, Outside
  <2> QED BY <1>4, <1>5, <2>4, <2>5, <2>6 DEF MessageReaderInv
<1>7. CASE ~(b > Header)
  <2>1. recv'.at = "empty" /\ Outside(recv') BY <1>4, <1>7 DEF Outside
  <2> QED BY <1>4, <1>5, <2>1, ReaderOutside
<1> QED BY <1>6, <1>7

LEMMA MessageLengthKnown ==
  ASSUME IsMessages, MessageInv, MessageLength, Whole' = Whole, Content' = Content,
         prvBytesInBuffer' = prvBytesInBuffer,
         UNCHANGED <<xTail, pucBuffer, interrupt>>
  PROVE  recv' \in ReceiveCall /\ MessageReaderInv'
<1> DEFINE n == StoredLength(recv.bytes)
           available == recv.xBytesAvailable - Header
<1>1. /\ recv.at = "length" /\ recv \in ReceiveCall
      /\ recv' = IF recv.peek \/ n > recv.size
                 THEN [recv EXCEPT !.at = "restore", !.bytes = <<>>]
                 ELSE [recv EXCEPT !.body = TRUE, !.xBytesAvailable = available,
                                   !.xCount = AtMost(available, n), !.bytes = <<>>,
                                   !.at = IF n = 0 THEN "empty" ELSE "copy"]
  BY DEF MessageLength, ReceiveAt, MessageInv, CallsTyped
<1>2. PICK p \in Payloads : /\ BodyNext(Content, Whole, p) /\ recv.bytes = LengthBytes(Len(p))
                            /\ RequiredSpace(p) <= recv.xBytesAvailable
                            /\ interrupt = "reader" => Held(p)
  BY <1>1 DEF MessageInv, MessageReaderInv
<1>3. /\ Len(p) \in Bytes /\ Len(p) \in Nat /\ Len(p) >= 1 /\ Header \in Nat
      /\ RequiredSpace(p) = Len(p) + Header
  BY RequiredFacts DEF IsMessages
<1>4. n = Len(p) BY <1>2, <1>3, StoredLengthIs DEF IsMessages
<1>5. interrupt # "reader" => ~recv.peek /\ \A s \in Payloads : Len(s) <= recv.size
  BY <1>1 DEF MessageInv, MessageReaderInv
<1>6. /\ recv.xBytesAvailable \in Nat /\ recv.xBytesAvailable <= Length - 1 /\ Length \in Nat
      /\ recv.size \in Nat /\ recv.peek \in BOOLEAN
  BY <1>1, LengthFacts DEF ReceiveCall, Index
<1> HIDE DEF n
<1>7. CASE recv.peek \/ n > recv.size
  <2>1. interrupt = "reader"
    <3> SUFFICES ASSUME interrupt # "reader" PROVE FALSE OBVIOUS
    <3>1. ~recv.peek /\ n <= recv.size BY <1>4, <1>5
    <3>2. ~(n > recv.size) BY <1>3, <1>4, <1>6, <3>1
    <3> QED BY <1>7, <3>1, <3>2
  <2>2. /\ recv' \in ReceiveCall /\ recv'.at = "restore"
        /\ recv'.xOriginalTail = recv.xOriginalTail
    <3>1. <<>> \in Seq(Bytes) OBVIOUS
    <3> QED BY <1>1, <1>7, <3>1 DEF ReceiveCall, ReceivePlace
  <2>3. Held(p)' BY <1>2, <2>1, <2>2 DEF Held
  <2>4. ~Outside(recv') /\ ~AtHeader(recv') /\ ~AtBody(recv') /\ interrupt' = "reader"
    BY <2>1, <2>2 DEF Outside, AtHeader, AtBody
  <2> QED BY <1>2, <2>2, <2>3, <2>4 DEF MessageReaderInv
<1>8. CASE ~(recv.peek \/ n > recv.size)
  <2>1. available \in Nat /\ n <= available /\ available <= Length - 1 /\ n # 0 /\ n \in Nat
    BY <1>2, <1>3, <1>4, <1>6
  <2>2. AtMost(available, n) = n /\ n \in Index /\ available \in Index
    <3> HIDE DEF available
    <3> QED BY <1>6, <2>1 DEF AtMost, Index
  <2> HIDE DEF available
  <2>3. /\ recv' \in ReceiveCall /\ recv'.at = "copy" /\ recv'.body = TRUE
        /\ recv'.xCount = n /\ recv'.peek = recv.peek /\ recv'.size = recv.size
    <3>1. <<>> \in Seq(Bytes) OBVIOUS
    <3> QED BY <1>1, <1>8, <2>1, <2>2, <3>1 DEF ReceiveCall, ReceivePlace
  <2>4. ~Outside(recv') /\ ~AtHeader(recv') BY <2>3 DEF Outside, AtHeader
  <2>5. interrupt' # "reader" => ~recv'.peek /\ \A s \in Payloads : Len(s) <= recv'.size
    BY <1>5, <2>3
  <2>6. BodyNext(Content', Whole', p) /\ recv'.xCount = Len(p) BY <1>2, <1>4, <2>3
  <2> QED BY <2>3, <2>4, <2>5, <2>6 DEF MessageReaderInv
<1> QED BY <1>7, <1>8

LEMMA CopyOutMessage ==
  ASSUME IsMessages, MessageInv, CopyOut, Whole' = Whole, Content' = Content,
         UNCHANGED <<xTail, interrupt>>
  PROVE  recv' \in ReceiveCall /\ MessageReaderInv' /\ recv'.at = "publish"
<1>1. /\ recv.at = "copy" /\ recv \in ReceiveCall /\ recv.body \in BOOLEAN
      /\ recv' = [recv EXCEPT !.bytes = FromTail(recv.xCount), !.at = "publish",
                              !.xOriginalTail = IF recv.body THEN @ ELSE xTail]
  BY DEF CopyOut, ReceiveAt, MessageInv, CallsTyped, ReceiveCall
<1>2. /\ recv.xCount \in 0..Length /\ xTail \in Index /\ pucBuffer \in [Index -> Bytes]
  BY <1>1, LengthFacts DEF MessageInv, TypeOK, ReceiveCall, Index
<1>3. FromTail(recv.xCount) \in Seq(Bytes) BY <1>2, ListedFacts DEF Listed, FromTail
<1>4. /\ recv' \in ReceiveCall /\ recv'.at = "publish" /\ recv'.peek = recv.peek
      /\ recv'.size = recv.size /\ recv'.body = recv.body /\ recv'.xCount = recv.xCount
      /\ recv'.bytes = FromTail(recv.xCount) /\ recv'.xBytesAvailable = recv.xBytesAvailable
      /\ ~recv.body => recv'.xOriginalTail = xTail
  BY <1>1, <1>2, <1>3 DEF ReceiveCall, ReceivePlace
<1>5. interrupt' # "reader" => ~recv'.peek /\ \A s \in Payloads : Len(s) <= recv'.size
  BY <1>1, <1>4 DEF MessageInv, MessageReaderInv
<1>6. ~Outside(recv') /\ Whole \in Nat /\ Whole <= prvBytesInBuffer /\ prvBytesInBuffer \in Nat
      /\ Header \in Nat /\ TypeOK
  BY <1>4, MessageNumbers DEF Outside, IsMessages, MessageInv
<1>7. CASE ~recv.body
  <2>1. AtHeader(recv) /\ AtHeader(recv') /\ ~AtBody(recv')
    BY <1>1, <1>4, <1>7 DEF AtHeader, AtBody
  <2>2. PICK p \in Payloads : /\ FrameNext(Content, Whole, p)
                              /\ RequiredSpace(p) <= recv.xBytesAvailable
    BY <2>1 DEF MessageInv, MessageReaderInv
  <2>3. recv.xCount = Header BY <2>1 DEF MessageInv, MessageReaderInv
  <2> DEFINE h == LengthBytes(Len(p))
             r == RequiredSpace(p)
  <2>4. h \in Seq(Bytes) /\ Len(h) = Header /\ r \in Nat /\ Header <= r
    <3>1. Len(p) \in Bytes /\ Len(p) \in Nat /\ r = Len(p) + Header
      BY RequiredFacts DEF IsMessages
    <3>2. h \in Seq(Bytes) /\ Len(h) = Header BY <3>1, LengthBytesAre DEF IsMessages
    <3> HIDE DEF h, r
    <3>3. r \in Nat /\ Header <= r BY <1>6, <3>1
    <3> QED BY <3>2, <3>3
  <2>5. r <= Whole /\ \A k \in 1..Header : Content[0 + k] = h[k]
    BY <2>2 DEF FrameNext, FrameAt, LengthAt
  <2> HIDE DEF h, r
  <2>6. Header <= prvBytesInBuffer BY <1>6, <2>4, <2>5
  <2>7. FromTail(Header) = h BY <1>6, <2>4, <2>5, <2>6, ReadIs
  <2>8. recv'.bytes = LengthBytes(Len(p)) BY <1>4, <2>3, <2>7 DEF h
  <2>9. recv'.xOriginalTail = xTail' BY <1>4, <1>7
  <2> QED BY <1>4, <1>5, <1>6, <2>1, <2>2, <2>3, <2>8, <2>9 DEF MessageReaderInv
<1>8. CASE recv.body
  <2>1. AtBody(recv) /\ AtBody(recv') /\ ~AtHeader(recv')
    BY <1>1, <1>4, <1>8 DEF AtHeader, AtBody
  <2>2. PICK p \in Payloads : BodyNext(Content, Whole, p) /\ recv.xCount = Len(p)
    BY <2>1 DEF MessageInv, MessageReaderInv
  <2>3. p \in Seq(Bytes) BY PayloadFacts
  <2>4. Len(p) <= prvBytesInBuffer
    <3> DEFINE n == Len(p)
    <3>1. n \in Nat /\ n <= Whole BY <2>2, PayloadFacts DEF BodyNext
    <3> HIDE DEF n
    <3>2. n <= prvBytesInBuffer BY <1>6, <3>1
    <3> QED BY <3>2 DEF n
  <2>5. FromTail(Len(p)) = p BY <1>6, <2>2, <2>3, <2>4, ReadIs DEF BodyNext, BodyAt
  <2>6. recv'.bytes = p BY <1>4, <2>2, <2>5
  <2> QED BY <1>4, <1>5, <1>6, <2>1, <2>2, <2>6 DEF MessageReaderInv
<1> QED BY <1>1, <1>4, <1>7, <1>8

LEMMA MessageReaderAsideStep ==
  ASSUME IsMessages, MessageInv, MessageReaderAside
  PROVE  MessageInv'
<1>1. /\ UNCHANGED <<xTail, xHead, pucBuffer, send, xTriggerLevelBytes, interrupt>>
      /\ OthersTyped'
  BY MessageReaderFrame DEF MessageInv
<1>2. /\ prvBytesInBuffer' = prvBytesInBuffer
      /\ xStreamBufferSpacesAvailable' = xStreamBufferSpacesAvailable
      /\ Partial' = Partial /\ Whole' = Whole /\ Content' = Content
  BY <1>1 DEF prvBytesInBuffer, xStreamBufferSpacesAvailable, Partial, Whole, Content, FromTail
<1>3. /\ recv \in ReceiveCall /\ NoReceive \in ReceiveCall
      /\ NoReceive.at = "idle" /\ ~NoReceive.peek
  BY NoCallsTyped DEF MessageInv, CallsTyped, NoReceive
<1>4. /\ Outside(recv) => Framed(Content', 0, Whole')
      /\ recv.at # "idle" /\ interrupt' # "reader" =>
           ~recv.peek /\ \A p \in Payloads : Len(p) <= recv.size
  BY <1>1, <1>2 DEF MessageInv, MessageReaderInv
<1>5. /\ recv' \in ReceiveCall /\ MessageReaderInv'
      /\ recv'.at \in {"length", "restore"} => recv.at \in {"length", "restore"}
  <2>1. CASE InvokeReceive
    <3>1. PICK n \in Nat \ {0}, w \in Wait :
            /\ (\A p \in Payloads : Len(p) <= n) \/ PutsBackSafely
            /\ recv' = [NoReceive EXCEPT !.at = IF w = "none" THEN "look" ELSE "check",
                                         !.size = n, !.wait = w]
      BY <2>1, StreamBufferAssumption DEF InvokeReceive, Wait
    <3>2. /\ recv' \in ReceiveCall /\ ~recv'.peek /\ recv'.at \in {"look", "check"}
          /\ recv'.size = n
      BY <1>3, <3>1 DEF ReceiveCall, ReceivePlace, NoReceive
    <3>3. recv.at = "idle" /\ Outside(recv) /\ Outside(recv')
      BY <2>1, <3>2 DEF InvokeReceive, ReceiveAt, Outside
    <3>4. interrupt' # "reader" => \A p \in Payloads : Len(p) <= recv'.size
      BY <1>1, <3>1, <3>2 DEF PutsBackSafely, IsMessages
    <3> QED BY <1>4, <3>2, <3>3, <3>4, ReaderOutside
  <2>2. CASE InvokePeek
    <3>1. /\ recv.at = "idle" /\ interrupt' = "reader"
          /\ recv' = [NoReceive EXCEPT !.at = "look", !.peek = TRUE]
      BY <1>1, <2>2 DEF InvokePeek, ReceiveAt, PutsBackSafely, IsMessages
    <3>2. recv' \in ReceiveCall /\ recv'.at = "look"
      BY <1>3, <3>1 DEF ReceiveCall, ReceivePlace, NoReceive
    <3>3. Outside(recv) /\ Outside(recv') BY <3>1, <3>2 DEF Outside
    <3> QED BY <1>4, <3>1, <3>2, <3>3, ReaderOutside
  <2>3. CASE CheckBytes \/ Look
    <3>1. /\ recv.at \in {"check", "look"} /\ Outside(recv)
          /\ \/ recv' = [recv EXCEPT !.at = "wait"]
             \/ recv' = StartReading(recv, prvBytesInBuffer)
      BY <2>3 DEF CheckBytes, Look, ReceiveAt, Outside
    <3>2. CASE recv' = [recv EXCEPT !.at = "wait"]
      <4>1. /\ recv' \in ReceiveCall /\ recv'.peek = recv.peek /\ recv'.at = "wait"
            /\ recv'.size = recv.size /\ Outside(recv')
        BY <1>3, <3>2 DEF ReceiveCall, ReceivePlace, Outside
      <4> QED BY <1>4, <3>1, <4>1, ReaderOutside
    <3>3. CASE recv' = StartReading(recv, prvBytesInBuffer)
      BY <1>1, <1>2, <3>1, <3>3, StartReadingMessage
    <3> QED BY <3>1, <3>2, <3>3
  <2>4. CASE WakeReader \/ ReaderAwake \/ ExpireReceive
    <3>1. recv' \in ReceiveCall /\ recv'.peek = recv.peek /\ recv'.size = recv.size
          /\ recv'.at \in {"wait", "woken", "look"} /\ recv.at \in {"wait", "woken"}
      BY <1>3, <2>4 DEF WakeReader, ReaderAwake, ExpireReceive, ReceiveAt, ReceiveCall,
                        ReceivePlace
    <3>2. Outside(recv) /\ Outside(recv') BY <3>1 DEF Outside
    <3> QED BY <1>4, <3>1, <3>2, ReaderOutside
  <2>5. CASE ReturnNothing \/ sbRECEIVE_COMPLETED
    <3>1. recv' = NoReceive /\ recv.at \in {"empty", "complete"}
      BY <2>5 DEF ReturnNothing, sbRECEIVE_COMPLETED, ReceiveAt
    <3>2. Outside(recv) /\ Outside(recv') BY <1>3, <3>1 DEF Outside
    <3> QED BY <1>3, <1>4, <3>1, <3>2, ReaderOutside
  <2>6. CASE CopyOut BY <1>1, <1>2, <2>6, CopyOutMessage
  <2>7. CASE MessageLength
    <3>1. recv.at = "length" BY <2>7 DEF MessageLength, ReceiveAt
    <3> QED BY <1>1, <1>2, <2>7, <3>1, MessageLengthKnown
  <2> QED BY <2>1, <2>2, <2>3, <2>4, <2>5, <2>6, <2>7 DEF MessageReaderAside, ReaderAside
<1>6. Given \in Int /\ Given' \in Int /\ Given' >= Given
  <2> DEFINE s == xStreamBufferSpacesAvailable
             back == interrupt = "reader" /\ recv.at \in {"length", "restore"}
  <2>1. /\ Given = s - (IF back THEN Header ELSE 0)
        /\ Given' = s - (IF back' THEN Header ELSE 0)
    BY <1>2 DEF Given
  <2>2. s \in Nat /\ Header \in Nat BY MessageNumbers DEF IsMessages
  <2>3. back' => back BY <1>1, <1>5
  <2> HIDE DEF s, back
  <2> QED BY <2>1, <2>2, <2>3
<1>7. MessageWriterInv' BY <1>1, <1>6, WriterKeeps
<1>8. PartialFits' BY <1>1, <1>2 DEF MessageInv, PartialFits
<1>9. RingTyped' /\ CallsTyped'
  BY <1>1, <1>5 DEF MessageInv, TypeOK, RingTyped, CallsTyped
<1>10. TypeOK' BY <1>1, <1>9, TypesTogether
<1> QED BY <1>5, <1>7, <1>8, <1>9, <1>10 DEF MessageInv

\* What moving the tail does to the bytes: n of them are gone.
LEMMA TailGone ==
  ASSUME TypeOK, NEW n \in Nat, n <= prvBytesInBuffer,
         xTail' = Advance(xTail, n), UNCHANGED <<xHead, pucBuffer>>
  PROVE  /\ xTail' \in Index
         /\ prvBytesInBuffer' = prvBytesInBuffer - n
         /\ xStreamBufferSpacesAvailable' = xStreamBufferSpacesAvailable + n
         /\ \A i \in (n + 1)..prvBytesInBuffer : Content'[i - n] = Content[i]
<1> DEFINE b == prvBytesInBuffer
           s == xStreamBufferSpacesAvailable
<1>1. /\ xTail \in Index /\ xHead \in Index /\ b = Between(xTail, xHead) /\ b \in Nat
      /\ b <= Length - 1 /\ s = Length - 1 - b /\ Length \in Nat
  BY RingNow, LengthFacts DEF Room
<1>2. n \in 0..Between(xTail, xHead)
  <2> HIDE DEF b
  <2> QED BY <1>1 DEF b
<1>3. xTail' \in Index /\ Between(xTail', xHead) = b - n BY <1>1, <1>2, TailMoves
<1>4. b' = b - n /\ s' = Length - 1 - (b - n)
  <2>1. b' = Between(xTail', xHead) BY DEF prvBytesInBuffer, Between
  <2>2. s' = Room(xTail', xHead)
    <3>1. s' = LET c == Length + xTail' - xHead - 1 IN IF c >= Length THEN c - Length ELSE c
      BY DEF xStreamBufferSpacesAvailable
    <3> QED BY <1>1, <1>3, <3>1, SpaceIs
  <2> QED BY <1>3, <2>1, <2>2 DEF Room
<1>5. /\ Content = [k \in 1..b |-> pucBuffer[Advance(xTail, k - 1)]]
      /\ Content' = [k \in 1..(b - n) |-> pucBuffer[Advance(xTail', k - 1)]]
  BY <1>4 DEF Content, FromTail
<1> HIDE DEF b, s
<1>6. ASSUME NEW i \in (n + 1)..b PROVE Content'[i - n] = Content[i]
  <2>1. /\ i \in 1..b /\ i - n \in 1..(b - n) /\ (i - n) - 1 \in Nat
        /\ n + ((i - n) - 1) = i - 1 /\ n + ((i - n) - 1) <= Length
    BY <1>1 DEF b
  <2>2. Advance(xTail', (i - n) - 1) = Advance(xTail, i - 1) BY <1>1, <2>1, AdvanceTwice
  <2> QED BY <1>5, <2>1, <2>2
<1>7. s' = s + n BY <1>1, <1>4
<1> QED BY <1>3, <1>4, <1>6, <1>7 DEF b, s

\* And what putting it back does.
LEMMA TailBack ==
  ASSUME TypeOK, NEW n \in Nat, NEW old \in Index, Advance(old, n) = xTail,
         prvBytesInBuffer + n <= Length - 1, xTail' = old, UNCHANGED <<xHead, pucBuffer>>
  PROVE  /\ prvBytesInBuffer' = prvBytesInBuffer + n
         /\ xStreamBufferSpacesAvailable' = xStreamBufferSpacesAvailable - n
         /\ \A i \in 1..prvBytesInBuffer : Content'[i + n] = Content[i]
         /\ \A k \in 1..n : Content'[k] = pucBuffer[Advance(old, k - 1)]
<1> DEFINE b == prvBytesInBuffer
           s == xStreamBufferSpacesAvailable
<1>1. /\ xTail \in Index /\ xHead \in Index /\ b = Between(xTail, xHead) /\ b \in Nat
      /\ b + n <= Length - 1 /\ s = Length - 1 - b /\ Length \in Nat
  BY RingNow, LengthFacts DEF Room
<1> HIDE DEF b, s
<1>2. Between(old, xHead) = b + n BY <1>1, LengthFacts DEF Index, Between, Advance
<1>3. b' = b + n /\ s' = Length - 1 - (b + n)
  <2>1. b' = Between(xTail', xHead) BY DEF b, prvBytesInBuffer, Between
  <2>2. s' = Room(xTail', xHead)
    <3>1. s' = LET c == Length + xTail' - xHead - 1 IN IF c >= Length THEN c - Length ELSE c
      BY DEF s, xStreamBufferSpacesAvailable
    <3> QED BY <1>1, <3>1, SpaceIs
  <2> QED BY <1>2, <2>1, <2>2 DEF Room
<1>4. /\ Content = [k \in 1..b |-> pucBuffer[Advance(xTail, k - 1)]]
      /\ Content' = [k \in 1..(b + n) |-> pucBuffer[Advance(old, k - 1)]]
  <2>1. /\ Content = FromTail(b) /\ Content' = [k \in 1..b' |-> pucBuffer[Advance(old, k - 1)]]
    BY DEF b, Content, FromTail
  <2> QED BY <1>3, <2>1 DEF FromTail
<1>5. ASSUME NEW i \in 1..b PROVE Content'[i + n] = Content[i]
  <2>1. /\ i + n \in 1..(b + n) /\ i - 1 \in Nat /\ n + (i - 1) = (i + n) - 1
        /\ n + (i - 1) <= Length
    BY <1>1
  <2>2. Advance(xTail, i - 1) = Advance(old, (i + n) - 1) BY <2>1, AdvanceTwice
  <2> QED BY <1>4, <2>1, <2>2
<1>6. \A k \in 1..n : Content'[k] = pucBuffer[Advance(old, k - 1)]
  <2>1. \A k \in 1..n : k \in 1..(b + n) BY <1>1
  <2> QED BY <1>4, <2>1
<1>7. s' = s - n BY <1>1, <1>3
<1> QED BY <1>3, <1>5, <1>6, <1>7 DEF b, s

LEMMA PublishTailMessage ==
  ASSUME IsMessages, MessageInv, PublishTail
  PROVE  MessageInv'
<1> DEFINE b == prvBytesInBuffer
           s == xStreamBufferSpacesAvailable
           n == recv.xCount
<1>1. /\ recv.at = "publish" /\ recv \in ReceiveCall /\ recv.body \in BOOLEAN /\ n \in Nat
      /\ xTail' = Advance(xTail, n)
      /\ recv' = [recv EXCEPT !.at = IF recv.body THEN "complete" ELSE "length"]
      /\ UNCHANGED <<interrupt, xHead, pucBuffer, xTriggerLevelBytes, handles, notified, send>>
  BY LengthFacts DEF PublishTail, ReceiveAt, MessageInv, CallsTyped, ReceiveCall, Index
<1>2. /\ b \in Nat /\ s \in Nat /\ b + s = Length - 1 /\ Length \in Nat
      /\ Whole \in Nat /\ Whole <= b /\ Header \in Nat /\ Header >= 1
      /\ (Partial => Whole + Header = b) /\ (~Partial => Whole = b)
      /\ Given \in Int /\ Given <= s
  BY MessageNumbers, LengthFacts DEF IsMessages
<1>3. /\ recv' \in ReceiveCall /\ recv'.at = (IF recv.body THEN "complete" ELSE "length")
      /\ recv'.peek = recv.peek /\ recv'.size = recv.size /\ recv'.bytes = recv.bytes
      /\ recv'.xBytesAvailable = recv.xBytesAvailable
      /\ recv'.xOriginalTail = recv.xOriginalTail
  BY <1>1 DEF ReceiveCall, ReceivePlace
<1>4. interrupt' # "reader" => ~recv'.peek /\ \A p \in Payloads : Len(p) <= recv'.size
  BY <1>1, <1>3 DEF MessageInv, MessageReaderInv
<1>5. n <= Whole
  <2>1. CASE ~recv.body
    <3>1. AtHeader(recv) BY <1>1, <2>1 DEF AtHeader
    <3>2. PICK p \in Payloads : FrameNext(Content, Whole, p)
      BY <3>1 DEF MessageInv, MessageReaderInv
    <3>3. n = Header /\ RequiredSpace(p) <= Whole
      BY <3>1, <3>2 DEF MessageInv, MessageReaderInv, FrameNext
    <3>4. RequiredSpace(p) = Len(p) + Header /\ Len(p) \in Nat
      BY RequiredFacts DEF IsMessages
    <3> DEFINE l == Len(p)
    <3> HIDE DEF l, n
    <3> QED BY <1>2, <3>3, <3>4 DEF l
  <2>2. CASE recv.body
    <3>1. AtBody(recv) BY <1>1, <2>2 DEF AtBody
    <3> QED BY <3>1 DEF MessageInv, MessageReaderInv, BodyNext
  <2> QED BY <1>1, <2>1, <2>2
<1>6. n <= b
  <2> HIDE DEF b, n
  <2> QED BY <1>1, <1>2, <1>5 DEF n
<1>7. /\ xTail' \in Index /\ b' = b - n /\ s' = s + n
      /\ \A i \in (n + 1)..b : Content'[i - n] = Content[i]
  BY <1>1, <1>6, TailGone DEF MessageInv
<1>8. (Partial' <=> Partial) /\ Whole' = Whole - n
  <2>1. Partial' <=> Partial BY <1>1 DEF Partial
  <2>2. Whole' = b' - (IF Partial THEN Header ELSE 0) /\ Whole = b - (IF Partial THEN Header ELSE 0)
    BY <2>1 DEF Whole
  <2> HIDE DEF b, n
  <2> QED BY <1>1, <1>2, <1>7, <2>1, <2>2 DEF n
<1>9. \A i \in (n + 1)..Whole : Content'[i - n] = Content[i]
  <2>1. \A i \in (n + 1)..Whole : i \in (n + 1)..b
    <3> HIDE DEF b, n
    <3> QED BY <1>1, <1>2 DEF n
  <2> QED BY <1>7, <2>1
<1>10. /\ Framed(Content, n, Whole) => Framed(Content', 0, Whole')
       /\ n = Header => \A p \in Payloads :
            FrameNext(Content, Whole, p) => BodyNext(Content', Whole', p)
  BY <1>1, <1>2, <1>5, <1>8, <1>9, GoneFrom DEF IsMessages
<1>11. MessageReaderInv'
  <2>1. CASE ~recv.body
    <3>1. AtHeader(recv) /\ recv'.at = "length" /\ ~Outside(recv') /\ ~AtHeader(recv')
          /\ ~AtBody(recv')
      BY <1>1, <1>3, <2>1 DEF AtHeader, AtBody, Outside
    <3>2. PICK p \in Payloads : /\ FrameNext(Content, Whole, p)
                                /\ RequiredSpace(p) <= recv.xBytesAvailable
                                /\ recv.bytes = LengthBytes(Len(p))
      BY <1>1, <3>1 DEF MessageInv, MessageReaderInv
    <3>3. n = Header /\ recv.xOriginalTail = xTail
      BY <1>1, <3>1 DEF MessageInv, MessageReaderInv
    <3>4. BodyNext(Content', Whole', p) BY <1>10, <3>2, <3>3
    <3>5. Held(p)'
      <4>1. Advance(recv'.xOriginalTail, Header) = xTail' BY <1>1, <1>3, <3>3
      <4>2. b' + Header <= Length - 1
        <5> HIDE DEF b, s, n
        <5> QED BY <1>2, <1>7, <3>3
      <4>3. \A k \in 1..Header : Content[0 + k] = LengthBytes(Len(p))[k]
        BY <3>2 DEF FrameNext, FrameAt, LengthAt
      <4>4. \A k \in 1..Header : 0 + k = k /\ k \in 1..b
        <5> HIDE DEF b, n
        <5> QED BY <1>2, <1>6, <3>3
      <4>5. \A k \in 1..Header :
              pucBuffer'[Advance(recv'.xOriginalTail, k - 1)] = LengthBytes(Len(p))[k]
        <5>1. Content = [k \in 1..b |-> pucBuffer[Advance(xTail, k - 1)]]
          BY DEF Content, FromTail
        <5> QED BY <1>1, <1>3, <3>3, <4>3, <4>4, <5>1
      <4> QED BY <4>1, <4>2, <4>5 DEF Held
    <3> QED BY <1>3, <1>4, <3>1, <3>2, <3>4, <3>5 DEF MessageReaderInv
  <2>2. CASE recv.body
    <3>1. AtBody(recv) /\ recv'.at = "complete" /\ Outside(recv') /\ ~AtHeader(recv')
          /\ ~AtBody(recv')
      BY <1>1, <1>3, <2>2 DEF AtHeader, AtBody, Outside
    <3>2. PICK p \in Payloads : BodyNext(Content, Whole, p) /\ n = Len(p) /\ recv.bytes = p
      BY <1>1, <3>1 DEF MessageInv, MessageReaderInv
    <3>3. Framed(Content', 0, Whole') BY <1>10, <3>2 DEF BodyNext
    <3> QED BY <1>3, <1>4, <3>1, <3>2, <3>3 DEF MessageReaderInv
  <2> QED BY <1>1, <2>1, <2>2
<1>12. Given' \in Int /\ Given' >= Given
  <2> DEFINE back == interrupt = "reader" /\ recv.at \in {"length", "restore"}
  <2>1. /\ Given = s - (IF back THEN Header ELSE 0)
        /\ Given' = s' - (IF back' THEN Header ELSE 0)
    BY DEF Given
  <2>2. ~back /\ (back' => n = Header)
    <3>1. back' => AtHeader(recv) BY <1>1, <1>3 DEF AtHeader
    <3>2. AtHeader(recv) => n = Header BY DEF MessageInv, MessageReaderInv
    <3> QED BY <1>1, <3>1, <3>2
  <2> HIDE DEF back, n, s
  <2> QED BY <1>1, <1>2, <1>7, <2>1, <2>2 DEF n
<1>13. MessageWriterInv' BY <1>1, <1>2, <1>12, WriterKeeps
<1>14. PartialFits'
  <2> SUFFICES ASSUME Partial PROVE b' >= Header /\ LengthAt(Content', Whole', send'.data)
    BY <1>8 DEF PartialFits
  <2>1. LengthAt(Content, Whole, send.data) /\ Whole + Header = b
    BY <1>2 DEF MessageInv, PartialFits
  <2>2. b' >= Header /\ \A k \in 1..Header : /\ Whole + k \in (n + 1)..b
                                             /\ (Whole + k) - n = Whole' + k
    <3> HIDE DEF b, n
    <3> QED BY <1>1, <1>2, <1>5, <1>7, <1>8, <2>1 DEF n
  <2>3. \A k \in 1..Header : Content'[Whole' + k] = LengthBytes(Len(send.data))[k]
    BY <1>7, <2>1, <2>2 DEF LengthAt
  <2> QED BY <1>1, <2>2, <2>3 DEF LengthAt
<1>15. RingTyped' /\ CallsTyped' /\ OthersTyped'
  BY <1>1, <1>3, <1>7 DEF MessageInv, TypeOK, RingTyped, CallsTyped, OthersTyped, handles
<1>16. TypeOK' BY <1>15, TypesTogether
<1> QED BY <1>11, <1>13, <1>14, <1>15, <1>16 DEF MessageInv

LEMMA RestoreTailMessage ==
  ASSUME IsMessages, MessageInv, RestoreTail
  PROVE  MessageInv'
<1> DEFINE b == prvBytesInBuffer
           s == xStreamBufferSpacesAvailable
           old == recv.xOriginalTail
<1>1. /\ recv.at = "restore" /\ recv \in ReceiveCall /\ old \in Index /\ interrupt = "reader"
      /\ xTail' = old /\ recv' = NoReceive
      /\ UNCHANGED <<interrupt, xHead, pucBuffer, xTriggerLevelBytes, handles, notified, send>>
  BY DEF RestoreTail, ReceiveAt, MessageInv, CallsTyped, ReceiveCall, MessageReaderInv
<1>2. /\ b \in Nat /\ s \in Nat /\ b + s = Length - 1 /\ Length \in Nat
      /\ Whole \in Nat /\ Whole <= b /\ Header \in Nat /\ Header >= 1
      /\ (Partial => Whole + Header = b) /\ (~Partial => Whole = b)
      /\ Given \in Int
  BY MessageNumbers, LengthFacts DEF IsMessages
<1>3. PICK p \in Payloads : BodyNext(Content, Whole, p) /\ Held(p)
  BY <1>1 DEF MessageInv, MessageReaderInv
<1>4. /\ b' = b + Header /\ s' = s - Header
      /\ \A i \in 1..b : Content'[i + Header] = Content[i]
      /\ \A k \in 1..Header : Content'[k] = pucBuffer[Advance(old, k - 1)]
  BY <1>1, <1>2, <1>3, TailBack DEF Held, MessageInv
<1>5. (Partial' <=> Partial) /\ Whole' = Whole + Header
  <2>1. Partial' <=> Partial BY <1>1 DEF Partial
  <2>2. Whole' = b' - (IF Partial THEN Header ELSE 0) /\ Whole = b - (IF Partial THEN Header ELSE 0)
    BY <2>1 DEF Whole
  <2> HIDE DEF b
  <2> QED BY <1>2, <1>4, <2>1, <2>2
<1>6. LengthAt(Content', 0, p)
  <2>1. \A k \in 1..Header : 0 + k = k BY <1>2
  <2> QED BY <1>3, <1>4, <2>1 DEF Held, LengthAt
<1>7. \A i \in 1..Whole : Content'[i + Header] = Content[i]
  <2>1. \A i \in 1..Whole : i \in 1..b
    <3> HIDE DEF b
    <3> QED BY <1>2
  <2> QED BY <1>4, <2>1
<1>8. Framed(Content', 0, Whole') BY <1>2, <1>3, <1>5, <1>6, <1>7, PutBack DEF IsMessages
<1>9. /\ NoReceive \in ReceiveCall /\ NoReceive.at = "idle" /\ Outside(NoReceive)
  BY NoCallsTyped DEF NoReceive, Outside
<1>10. MessageReaderInv' BY <1>1, <1>8, <1>9, ReaderOutside
<1>11. Given' \in Int /\ Given' >= Given
  <2>1. Given = s - Header BY <1>1 DEF Given
  <2>2. Given' = s' - 0 BY <1>1, <1>9 DEF Given
  <2> HIDE DEF s
  <2> QED BY <1>2, <1>4, <2>1, <2>2
<1>12. MessageWriterInv' BY <1>1, <1>2, <1>11, WriterKeeps
<1>13. PartialFits'
  <2> SUFFICES ASSUME Partial PROVE b' >= Header /\ LengthAt(Content', Whole', send'.data)
    BY <1>5 DEF PartialFits
  <2>1. LengthAt(Content, Whole, send.data) /\ Whole + Header = b
    BY <1>2 DEF MessageInv, PartialFits
  <2>2. b' >= Header /\ \A k \in 1..Header : /\ Whole + k \in 1..b
                                             /\ (Whole + k) + Header = Whole' + k
    <3> HIDE DEF b
    <3> QED BY <1>2, <1>4, <1>5, <2>1
  <2>3. \A k \in 1..Header : Content'[Whole' + k] = LengthBytes(Len(send.data))[k]
    BY <1>4, <2>1, <2>2 DEF LengthAt
  <2> QED BY <1>1, <2>2, <2>3 DEF LengthAt
<1>14. RingTyped' /\ CallsTyped' /\ OthersTyped'
  BY <1>1, <1>9 DEF MessageInv, TypeOK, RingTyped, CallsTyped, OthersTyped, handles
<1>15. TypeOK' BY <1>14, TypesTogether
<1> QED BY <1>10, <1>12, <1>13, <1>14, <1>15 DEF MessageInv

--------------------
\* All steps of a message buffer.

\* Steps of others leave the ring and the calls.
LEMMA MessageStays ==
  ASSUME MessageInv, UNCHANGED <<interrupt, xTail, xHead, pucBuffer, send, recv>>, OthersTyped'
  PROVE  MessageInv'
<1>1. /\ prvBytesInBuffer' = prvBytesInBuffer
      /\ xStreamBufferSpacesAvailable' = xStreamBufferSpacesAvailable
  BY DEF prvBytesInBuffer, xStreamBufferSpacesAvailable
<1>2. /\ (Partial' <=> Partial) /\ Content' = Content /\ Given' = Given
  BY <1>1 DEF Partial, Content, FromTail, Given
<1>3. Whole' = Whole BY <1>1, <1>2 DEF Whole
<1>4. MessageWriterInv' BY <1>2 DEF MessageInv, MessageWriterInv
<1>5. PartialFits' BY <1>1, <1>2, <1>3 DEF MessageInv, PartialFits
<1>6. MessageReaderInv'
  <2>1. Follows(Content, Whole, Content', Whole') BY <1>2, <1>3 DEF Follows
  <2> QED BY <2>1, ReaderStays
<1>7. RingTyped' /\ CallsTyped' BY DEF MessageInv, TypeOK, RingTyped, CallsTyped
<1>8. TypeOK' BY <1>7, TypesTogether
<1> QED BY <1>4, <1>5, <1>6, <1>7, <1>8 DEF MessageInv

\* Nothing is in the buffer, and nobody is there.
LEMMA NoMessages ==
  ASSUME IsMessages, TypeOK, CallsTyped, xTail = 0, xHead = 0, send.at = "idle",
         send.chunks = <<>>, recv.at = "idle"
  PROVE  MessageInv
<1>1. prvBytesInBuffer = 0 BY LengthFacts DEF prvBytesInBuffer
<1>2. ~Partial /\ Whole = 0
  <2>1. ~Partial BY DEF Partial
  <2> QED BY <1>1, <2>1 DEF Whole
<1>3. Framed(Content, 0, Whole) BY <1>2, FramedNone
<1> QED BY <1>2, <1>3 DEF MessageInv, MessageWriterInv, PartialFits, MessageReaderInv,
                    AtHeader, AtBody

LEMMA InitMessage == ASSUME IsMessages, Init PROVE MessageInv
  BY InitTypes, NoMessages DEF Init, NoSend, NoReceive

LEMMA ResetMessage ==
  ASSUME IsMessages, MessageInv, xStreamBufferReset
  PROVE  MessageInv'
<1>1. /\ TypeOK' /\ CallsTyped' /\ send.at = "idle" /\ recv.at = "idle"
      /\ UNCHANGED <<send, recv, interrupt>>
  BY ResetTypes DEF MessageInv
<1>2. xTail' = 0 /\ xHead' = 0 /\ send.chunks = <<>>
  BY <1>1 DEF xStreamBufferReset, MessageInv, MessageWriterInv
<1>3. prvBytesInBuffer' = 0 BY <1>2, LengthFacts DEF prvBytesInBuffer
<1>4. ~Partial' /\ Whole' = 0
  <2>1. ~Partial' BY <1>1 DEF Partial
  <2> QED BY <1>3, <2>1 DEF Whole
<1>5. Framed(Content', 0, Whole') BY <1>4, FramedNone
<1> QED
  BY <1>1, <1>2, <1>4, <1>5 DEF MessageInv, MessageWriterInv, PartialFits, MessageReaderInv,
                                AtHeader, AtBody

\* The cases of a step.
LEMMA MessageCases ==
  ASSUME Next
  PROVE  \/ WriterAside \/ CopyIn \/ PublishHead
         \/ MessageReaderAside \/ PublishTail \/ RestoreTail
         \/ Notify \/ xStreamBufferReset \/ xStreamBufferSetTriggerLevel
  BY DEF Next, WriterStep, ReaderStep, WriterAside, ReaderAside, MessageReaderAside

LEMMA NextMessage == ASSUME IsMessages, MessageInv, [Next]_vars PROVE MessageInv'
<1>1. CASE Next
  <2>1. CASE Notify \/ xStreamBufferSetTriggerLevel
    <3>1. UNCHANGED <<interrupt, xTail, xHead, pucBuffer, send, recv>> /\ OthersTyped'
      BY <2>1, OthersFrame DEF MessageInv
    <3> QED BY <3>1, MessageStays
  <2>2. CASE ~(Notify \/ xStreamBufferSetTriggerLevel)
    BY <1>1, <2>2, MessageCases, WriterAsideMessage, CopyInMessage, PublishHeadMessage,
       MessageReaderAsideStep, PublishTailMessage, RestoreTailMessage, ResetMessage
  <2> QED BY <2>1, <2>2
<1>2. CASE UNCHANGED vars
  <2>1. UNCHANGED <<interrupt, xTail, xHead, pucBuffer, xTriggerLevelBytes,
                    xTaskWaitingToReceive, xTaskWaitingToSend, notified, send, recv>>
    BY <1>2 DEF vars, ring, handles
  <2>2. OthersTyped' BY <2>1 DEF MessageInv, TypeOK, OthersTyped
  <2> QED BY <2>1, <2>2, MessageStays
<1> QED BY <1>1, <1>2

LEMMA MessageInvariance == ASSUME IsMessages PROVE Spec => []MessageInv
<1>1. Init => MessageInv BY InitMessage
<1>2. MessageInv /\ [Next]_vars => MessageInv' BY NextMessage
<1> QED BY <1>1, <1>2, PTL DEF Spec

\* What a task receives from a message buffer is one message that was sent, whole,
\* however the steps of a send and a receive mix, with an interrupt on either side;
\* and no index leaves the buffer.
THEOREM MessagesAreWhole ==
  ASSUME IsMessages
  PROVE  Spec => [](TypeOK /\ RightMessage)
<1>1. MessageInv => TypeOK /\ RightMessage
  BY DEF MessageInv, MessageReaderInv, RightMessage
<1> QED BY <1>1, MessageInvariance, PTL
--------------------
\* Nobody is left asleep: streams and messages alike.

\* A stream, or messages nobody reads what it would have to put back of.
RingInv == (IsStream /\ IInv) \/ (IsMessages /\ MessageInv)

LEMMA RingInvariance == ASSUME IsStream \/ IsMessages PROVE Spec => []RingInv
<1>1. ASSUME IsStream PROVE Spec => []RingInv
  <2>1. IInv => RingInv BY <1>1 DEF RingInv
  <2> QED BY <1>1, <2>1, Invariance, PTL
<1>2. ASSUME IsMessages PROVE Spec => []RingInv
  <2>1. MessageInv => RingInv BY <1>2 DEF RingInv
  <2> QED BY <1>2, <2>1, MessageInvariance, PTL
<1> QED BY <1>1, <1>2

LEMMA RingTypes ==
  ASSUME RingInv
  PROVE  TypeOK /\ CallsTyped /\ send \in SendCall /\ recv \in ReceiveCall
  BY DEF RingInv, IInv, MessageInv, CallsTyped

\* Every step keeps the types, and both indices inside the buffer.
THEOREM TypeCorrect ==
  ASSUME IsStream \/ IsMessages
  PROVE  Spec => []TypeOK
<1>1. RingInv => TypeOK BY RingTypes
<1> QED BY <1>1, RingInvariance, PTL

\* The trigger level is set before the reader waits: who lowers it wakes nobody.
LevelIsFixed == NewTriggers = {}

\* What a step does to a side's notification and to its handle.
LEMMA NotifiedFacts ==
  ASSUME TypeOK
  PROVE  /\ notified \in [{"writer", "reader"} -> BOOLEAN]
         /\ xTaskWaitingToReceive \in BOOLEAN /\ xTaskWaitingToSend \in BOOLEAN
         /\ prvBytesInBuffer \in Int /\ xStreamBufferSpacesAvailable \in Int
         /\ prvBytesInBuffer >= 0 /\ xTriggerLevelBytes \in Int /\ xTriggerLevelBytes >= 1
  BY RingNow, LengthFacts DEF TypeOK, Index

\* What is too short to read is nothing, or a length without its message.
LEMMA NothingToRead ==
  ASSUME RingInv, recv.at = "check", prvBytesInBuffer <= Header
  PROVE  prvBytesInBuffer = 0 \/ send.at \in {"copy", "publish"}
<1>1. CASE IsStream /\ IInv BY <1>1, RingNow, LengthFacts DEF IInv, IsStream, Index
<1>2. CASE IsMessages /\ MessageInv
  <2> DEFINE b == prvBytesInBuffer
  <2>1. /\ b \in Nat /\ Whole \in Nat /\ (~Partial => Whole = b) /\ Header \in Nat
    BY <1>2, MessageNumbers DEF IsMessages
  <2>2. Framed(Content, 0, Whole) BY <1>2 DEF MessageInv, MessageReaderInv, Outside
  <2>3. Partial => send.at \in {"copy", "publish"} BY DEF Partial
  <2>4. ASSUME ~Partial, Whole # 0 PROVE FALSE
    <3>1. PICK p \in Payloads : 0 + RequiredSpace(p) <= Whole
      BY <1>2, <2>1, <2>2, <2>4, FramedFirst DEF IsMessages
    <3>2. RequiredSpace(p) = Len(p) + Header /\ Len(p) \in Nat /\ Len(p) >= 1
      BY <1>2, RequiredFacts DEF IsMessages
    <3> DEFINE n == Len(p)
    <3>3. n \in Nat /\ n >= 1 /\ 0 + (n + Header) <= b /\ b <= Header
      BY <2>1, <2>4, <3>1, <3>2
    <3> HIDE DEF b, n
    <3> QED BY <2>1, <3>3
  <2> QED BY <2>1, <2>3, <2>4
<1> QED BY <1>1, <1>2 DEF RingInv

\* A sleeping reader is left as it is, or notified, by the writer.
LEMMA ReaderWokenByWriter ==
  ASSUME RingInv, NoReaderLeftAsleep, WriterAside, recv.at = "wait", ~notified'["reader"]
  PROVE  /\ xTaskWaitingToReceive'
         /\ \/ prvBytesInBuffer < xTriggerLevelBytes
            \/ send'.at \in {"copy", "publish", "complete", "notify"}
<1>1. /\ notified \in [{"writer", "reader"} -> BOOLEAN] /\ xTaskWaitingToReceive \in BOOLEAN
      /\ send \in SendCall
  BY NotifiedFacts, RingTypes
<1>2. CASE InvokeSend \/ WakeWriter \/ WriterAwake \/ ExpireSend \/ CheckSpace
  <2>1. /\ notified'["reader"] = notified["reader"]
        /\ xTaskWaitingToReceive' = xTaskWaitingToReceive
    BY <1>1, <1>2, Zenon DEF InvokeSend, WakeWriter, WriterAwake, ExpireSend, CheckSpace,
                             handles
  <2>2. send.at \notin {"copy", "publish", "complete", "notify"}
    BY <1>2 DEF InvokeSend, WakeWriter, WriterAwake, ExpireSend, CheckSpace, SendAt
  <2> QED BY <2>1, <2>2 DEF NoReaderLeftAsleep
<1>3. CASE Decide
  <2>1. UNCHANGED <<notified, handles>> /\ send.at = "decide" BY <1>3 DEF Decide, SendAt
  <2> QED BY <2>1 DEF NoReaderLeftAsleep, handles
<1>4. CASE SendComplete
  <2>1. UNCHANGED <<notified, handles>> BY <1>4 DEF SendComplete
  <2>2. prvBytesInBuffer < xTriggerLevelBytes \/ send' = [send EXCEPT !.at = "notify"]
    BY <1>4, NotifiedFacts, RingTypes DEF SendComplete
  <2>3. send' = [send EXCEPT !.at = "notify"] => send'.at = "notify" BY <1>1 DEF SendCall
  <2> QED BY <2>1, <2>2, <2>3 DEF NoReaderLeftAsleep, handles
<1>5. CASE sbSEND_COMPLETED
  <2>1. notified'["reader"] = (notified["reader"] \/ xTaskWaitingToReceive)
    BY <1>1, <1>5, Zenon DEF sbSEND_COMPLETED
  <2> QED BY <2>1 DEF NoReaderLeftAsleep
<1> QED BY <1>2, <1>3, <1>4, <1>5 DEF WriterAside

\* Where the calls are after a step that moves an index or reads a length.
LEMMA MovedTo ==
  ASSUME RingInv
  PROVE  /\ PublishHead => send'.at \in {"copy", "complete"}
         /\ PublishTail => recv'.at = IF recv.body THEN "complete" ELSE "length"
         /\ RestoreTail => recv.at = "restore" /\ recv'.at = "idle"
         /\ MessageLength => \/ recv'.at = "copy" /\ recv'.body
                             \/ recv'.at = "restore" /\ interrupt = "reader"
<1>1. send \in SendCall /\ recv \in ReceiveCall BY RingTypes
<1>2. PublishHead => send'.at \in {"copy", "complete"} BY <1>1 DEF PublishHead, SendCall
<1>3. PublishTail => recv'.at = IF recv.body THEN "complete" ELSE "length"
  BY <1>1 DEF PublishTail, ReceiveCall
<1>4. RestoreTail => recv.at = "restore" /\ recv'.at = "idle"
  BY DEF RestoreTail, ReceiveAt, NoReceive
<1>5. ASSUME MessageLength
      PROVE  \/ recv'.at = "copy" /\ recv'.body
             \/ recv'.at = "restore" /\ interrupt = "reader"
  <2>1. IsMessages /\ MessageInv /\ recv.at = "length"
    BY <1>5 DEF MessageLength, ReceiveAt, RingInv, IInv, ReaderInv
  <2>2. MessageInv' BY <1>5, <2>1, MessageReaderAsideStep DEF MessageReaderAside
  <2>3. /\ recv'.at \in {"restore", "empty", "copy"}
        /\ recv'.at = "copy" => recv'.body
        /\ interrupt' = interrupt
    BY <1>1, <1>5 DEF MessageLength, ReceiveCall
  <2>4. recv'.at = "restore" => interrupt = "reader"
    BY <2>2, <2>3 DEF MessageInv, MessageReaderInv
  <2>5. recv'.at # "empty"
    <3>1. PICK p \in Payloads : recv.bytes = LengthBytes(Len(p))
      BY <2>1 DEF MessageInv, MessageReaderInv
    <3>2. Len(p) \in Bytes /\ Len(p) >= 1 BY <2>1, RequiredFacts DEF IsMessages
    <3>3. StoredLength(recv.bytes) # 0
      <4> DEFINE n == Len(p)
      <4>1. StoredLength(recv.bytes) = n
        BY <2>1, <3>1, <3>2, StoredLengthIs DEF IsMessages
      <4>2. n \in Bytes /\ n >= 1 BY <3>2
      <4> HIDE DEF n
      <4>3. n # 0 BY <4>2 DEF Bytes
      <4> QED BY <4>1, <4>3
    <3> QED BY <1>1, <1>5, <3>3 DEF MessageLength, ReceiveCall
  <2> QED BY <2>3, <2>4, <2>5
<1> QED BY <1>2, <1>3, <1>4, <1>5

LEMMA NoReaderStep ==
  ASSUME LevelIsFixed, RingInv, NoReaderLeftAsleep, Next
  PROVE  NoReaderLeftAsleep'
<1> SUFFICES ASSUME recv'.at = "wait", ~notified'["reader"]
             PROVE  /\ xTaskWaitingToReceive'
                    /\ \/ prvBytesInBuffer' < xTriggerLevelBytes'
                       \/ send'.at \in {"copy", "publish", "complete", "notify"}
  BY DEF NoReaderLeftAsleep
<1>1. /\ notified \in [{"writer", "reader"} -> BOOLEAN] /\ xTaskWaitingToReceive \in BOOLEAN
      /\ TypeOK /\ send \in SendCall /\ recv \in ReceiveCall
  BY NotifiedFacts, RingTypes
<1>2. CASE WriterAside
  <2>1. /\ prvBytesInBuffer' = prvBytesInBuffer /\ xTriggerLevelBytes' = xTriggerLevelBytes
        /\ recv' = recv
    BY <1>1, <1>2, WriterAsideFrame DEF prvBytesInBuffer
  <2> QED BY <1>2, <2>1, ReaderWokenByWriter
<1>3. CASE CopyIn \/ PublishHead
  <2>1. send'.at \in {"copy", "publish", "complete"}
    BY <1>1, <1>3, MovedTo DEF CopyIn, SendCall
  <2>2. UNCHANGED <<notified, handles, recv>> BY <1>3 DEF CopyIn, PublishHead
  <2> QED BY <2>1, <2>2 DEF NoReaderLeftAsleep, handles
<1>4. CASE MessageReaderAside
  <2>1. /\ prvBytesInBuffer' = prvBytesInBuffer /\ xTriggerLevelBytes' = xTriggerLevelBytes
        /\ send' = send
    BY <1>1, <1>4, MessageReaderFrame DEF prvBytesInBuffer
  <2>2. StartReading(recv, prvBytesInBuffer).at # "wait"
    BY <1>1 DEF StartReading, ReceiveCall
  <2>3. CASE CheckBytes
    <3>1. prvBytesInBuffer <= Header BY <2>2, <2>3 DEF CheckBytes
    <3>2. xTaskWaitingToReceive' /\ recv.at = "check"
      BY <2>3, <3>1 DEF CheckBytes, ReceiveAt
    <3>3. prvBytesInBuffer < xTriggerLevelBytes \/ send.at \in {"copy", "publish"}
      BY <1>1, <3>1, <3>2, NothingToRead, NotifiedFacts
    <3> QED BY <2>1, <3>2, <3>3
  <2>4. CASE ExpireReceive
    <3>1. UNCHANGED <<notified, handles>> /\ recv.at = "wait" BY <2>4 DEF ExpireReceive
    <3> QED BY <2>1, <3>1 DEF NoReaderLeftAsleep, handles
  <2>5. CASE ~CheckBytes /\ ~ExpireReceive
    <3>1. CASE InvokeReceive \/ InvokePeek
      <4>1. recv'.at \in {"look", "check"}
        BY <3>1 DEF InvokeReceive, InvokePeek, NoReceive
      <4> QED BY <4>1
    <3>2. CASE Look BY <2>2, <3>2 DEF Look
    <3>3. CASE WakeReader \/ ReaderAwake \/ CopyOut
      <4>1. recv'.at \in {"woken", "look", "publish"}
        BY <1>1, <3>3 DEF WakeReader, ReaderAwake, CopyOut, ReceiveCall
      <4> QED BY <4>1
    <3>4. CASE ReturnNothing \/ sbRECEIVE_COMPLETED
      BY <3>4 DEF ReturnNothing, sbRECEIVE_COMPLETED, NoReceive
    <3>5. CASE MessageLength BY <3>5, MovedTo
    <3> QED
      BY <1>4, <2>5, <3>1, <3>2, <3>3, <3>4, <3>5 DEF MessageReaderAside, ReaderAside
  <2> QED BY <2>3, <2>4, <2>5
<1>5. CASE PublishTail \/ RestoreTail
  <2>1. recv'.at \in {"complete", "length", "idle"} BY <1>5, MovedTo
  <2> QED BY <2>1
<1>6. CASE Notify
  <2>1. UNCHANGED <<xTail, xHead, xTriggerLevelBytes, send, recv>>
    BY <1>6 DEF Notify, ring
  <2>2. ~notified["reader"] /\ xTaskWaitingToReceive' = xTaskWaitingToReceive
    BY <1>1, <1>6, Zenon DEF Notify, handles
  <2> QED BY <2>1, <2>2 DEF NoReaderLeftAsleep, prvBytesInBuffer
<1>7. CASE xStreamBufferReset BY <1>7 DEF xStreamBufferReset
<1>8. ~xStreamBufferSetTriggerLevel BY DEF LevelIsFixed, xStreamBufferSetTriggerLevel
<1> QED BY <1>2, <1>3, <1>4, <1>5, <1>6, <1>7, <1>8, MessageCases


\* A reader that frees space and then says so: not an interrupt with only a length.
OnItsWay(r) ==
  \/ r.at \in {"copy", "publish", "complete"} /\ (interrupt = "reader" => r.body)
  \/ r.at = "length" /\ interrupt # "reader"

\* Of a sleeping writer: the space a look at a length frees, and takes back, does
\* not count, and an interrupt that looks is not on its way.
NoWriterMissed ==
  send.at = "wait" /\ ~notified["writer"] =>
    xTaskWaitingToSend /\ (Given < RequiredSpace(send.data) \/ OnItsWay(recv))

LEMMA GivenNow ==
  ASSUME RingInv
  PROVE  /\ Given \in Int /\ Given <= xStreamBufferSpacesAvailable
         /\ recv.at \notin {"length", "restore"} => Given = xStreamBufferSpacesAvailable
<1>1. recv.at \notin {"length", "restore"} => Given = xStreamBufferSpacesAvailable - 0
  BY DEF Given
<1>2. CASE IsStream /\ IInv BY <1>1, <1>2, NotifiedFacts DEF IInv, ReaderInv
<1>3. CASE IsMessages /\ MessageInv BY <1>1, <1>3, MessageNumbers DEF IsMessages
<1> QED BY <1>2, <1>3 DEF RingInv

\* A length that is read and put back gives nothing.
LEMMA GivenByTail ==
  ASSUME RingInv, PublishTail \/ RestoreTail
  PROVE  Given' = Given \/ OnItsWay(recv)'
<1> DEFINE s == xStreamBufferSpacesAvailable
           b == prvBytesInBuffer
<1>1. recv \in ReceiveCall /\ TypeOK BY RingTypes
<1>2. CASE PublishTail /\ recv.body
  <2>1. recv'.at = "complete" /\ recv'.body BY <1>1, <1>2 DEF PublishTail, ReceiveCall
  <2> QED BY <2>1 DEF OnItsWay
<1>3. CASE PublishTail /\ ~recv.body
  <2>1. /\ recv.at = "publish" /\ recv'.at = "length" /\ interrupt' = interrupt
        /\ xTail' = Advance(xTail, recv.xCount) /\ UNCHANGED <<xHead, pucBuffer>>
    BY <1>1, <1>3 DEF PublishTail, ReceiveAt, ReceiveCall
  <2>2. CASE interrupt # "reader" BY <2>1, <2>2 DEF OnItsWay
  <2>3. CASE interrupt = "reader"
    <3>1. IsMessages /\ MessageInv BY <1>3, <2>1 DEF RingInv, IInv, ReaderInv
    <3>2. /\ Whole \in Nat /\ Whole <= b /\ b \in Nat /\ Header \in Nat /\ s \in Nat
      BY <3>1, MessageNumbers DEF IsMessages
    <3>3. recv.xCount = Header
      BY <1>3, <2>1, <3>1 DEF MessageInv, MessageReaderInv, AtHeader
    <3>4. PICK p \in Payloads : RequiredSpace(p) <= Whole
      BY <1>3, <2>1, <3>1 DEF MessageInv, MessageReaderInv, AtHeader, FrameNext
    <3>5. RequiredSpace(p) = Len(p) + Header /\ Len(p) \in Nat
      BY <3>1, RequiredFacts DEF IsMessages
    <3> DEFINE n == Len(p)
               w == Whole
    <3>6. Header <= b
      <4>1. n \in Nat /\ n + Header <= w /\ w <= b /\ w \in Nat /\ b \in Nat /\ Header \in Nat
        BY <3>2, <3>4, <3>5
      <4> HIDE DEF n, w, b
      <4> QED BY <4>1
    <3>7. s' = s + Header BY <1>1, <2>1, <3>2, <3>3, <3>6, TailGone
    <3>8. Given = s - 0 /\ Given' = s' - Header BY <2>1, <2>3 DEF Given
    <3> HIDE DEF s
    <3> QED BY <3>2, <3>7, <3>8
  <2> QED BY <2>2, <2>3
<1>4. CASE RestoreTail
  <2> DEFINE old == recv.xOriginalTail
  <2>1. /\ recv.at = "restore" /\ recv'.at = "idle" /\ interrupt' = interrupt
        /\ xTail' = old /\ UNCHANGED <<xHead, pucBuffer>> /\ old \in Index
    BY <1>1, <1>4 DEF RestoreTail, ReceiveAt, NoReceive, ReceiveCall
  <2>2. IsMessages /\ MessageInv BY <2>1 DEF RingInv, IInv, ReaderInv
  <2>3. b \in Nat /\ Header \in Nat /\ s \in Nat BY <2>2, MessageNumbers DEF IsMessages
  <2>4. /\ interrupt = "reader" /\ Advance(old, Header) = xTail /\ b + Header <= Length - 1
    BY <2>1, <2>2 DEF MessageInv, MessageReaderInv, Held
  <2>5. s' = s - Header BY <1>1, <2>1, <2>3, <2>4, TailBack
  <2>6. Given = s - Header /\ Given' = s' - 0 BY <2>1, <2>4 DEF Given
  <2> HIDE DEF s
  <2> QED BY <2>3, <2>5, <2>6
<1> QED BY <1>2, <1>3, <1>4

\* What the reader does between its looks and its moves of the tail.
LEMMA ReaderOnItsWay ==
  ASSUME RingInv, MessageReaderAside, ~sbRECEIVE_COMPLETED
  PROVE  /\ Given' = Given \/ OnItsWay(recv)'
         /\ OnItsWay(recv) => OnItsWay(recv)'
<1>1. recv \in ReceiveCall /\ TypeOK BY RingTypes
<1>2. UNCHANGED <<xTail, xHead, interrupt>> BY <1>1, MessageReaderFrame
<1>3. xStreamBufferSpacesAvailable' = xStreamBufferSpacesAvailable
  BY <1>2 DEF xStreamBufferSpacesAvailable
<1>4. CASE MessageLength
  <2>1. recv.at = "length" BY <1>4 DEF MessageLength, ReceiveAt
  <2>2. CASE recv'.at = "copy" /\ recv'.body BY <2>2 DEF OnItsWay
  <2>3. CASE recv'.at = "restore" /\ interrupt = "reader"
    BY <1>2, <1>3, <2>1, <2>3 DEF Given, OnItsWay
  <2> QED BY <1>4, <2>2, <2>3, MovedTo
<1>5. CASE ~MessageLength
  <2>1. recv.at \notin {"length", "restore"} /\ recv'.at \notin {"length", "restore"}
    <3>1. CASE InvokeReceive \/ InvokePeek \/ ReturnNothing
      <4>1. recv.at \in {"idle", "empty"}
        BY <3>1 DEF InvokeReceive, InvokePeek, ReturnNothing, ReceiveAt
      <4>2. recv'.at \in {"look", "check", "idle"}
        <5>1. InvokeReceive => recv'.at \in {"look", "check"}
          BY DEF InvokeReceive, NoReceive
        <5>2. InvokePeek => recv'.at = "look" BY DEF InvokePeek, NoReceive
        <5> QED BY <3>1, <5>1, <5>2 DEF ReturnNothing, NoReceive
      <4> QED BY <4>1, <4>2
    <3>2. CASE CheckBytes \/ Look
      <4>1. StartReading(recv, prvBytesInBuffer).at \in {"copy", "empty"}
        BY <1>1 DEF StartReading, ReceiveCall
      <4> QED BY <1>1, <3>2, <4>1 DEF CheckBytes, Look, ReceiveAt, ReceiveCall
    <3>3. CASE WakeReader \/ ReaderAwake \/ CopyOut \/ ExpireReceive
      BY <1>1, <3>3 DEF WakeReader, ReaderAwake, CopyOut, ExpireReceive, ReceiveAt, ReceiveCall
    <3> QED BY <1>5, <3>1, <3>2, <3>3 DEF MessageReaderAside, ReaderAside
  <2>2. Given' = Given BY <1>2, <1>3, <2>1 DEF Given
  <2>3. CASE CopyOut
    <3>1. recv'.at = "publish" /\ recv'.body = recv.body /\ recv.at = "copy"
      BY <1>1, <2>3 DEF CopyOut, ReceiveAt, ReceiveCall
    <3> QED BY <1>2, <2>2, <3>1 DEF OnItsWay
  <2>4. CASE ~CopyOut
    <3>1. recv.at \notin {"copy", "publish", "complete", "length"}
      BY <1>1, <1>5, <2>4 DEF MessageReaderAside, ReaderAside, InvokeReceive, InvokePeek,
         CheckBytes, WakeReader, ReaderAwake, Look, ReturnNothing, ExpireReceive, ReceiveAt
    <3> QED BY <2>2, <3>1 DEF OnItsWay
  <2> QED BY <2>3, <2>4
<1> QED BY <1>4, <1>5

\* A step of the tail takes nobody off its way.
LEMMA LostItsWay ==
  ASSUME RingInv, PublishTail \/ RestoreTail, ~OnItsWay(recv)'
  PROVE  ~OnItsWay(recv)
<1>1. recv \in ReceiveCall BY RingTypes
<1>2. CASE PublishTail
  <2>1. /\ recv.at = "publish" /\ interrupt' = interrupt /\ recv'.body = recv.body
        /\ recv'.at = IF recv.body THEN "complete" ELSE "length"
    BY <1>1, <1>2 DEF PublishTail, ReceiveAt, ReceiveCall
  <2> QED BY <2>1 DEF OnItsWay
<1>3. CASE RestoreTail BY <1>3 DEF RestoreTail, ReceiveAt, OnItsWay
<1> QED BY <1>2, <1>3

LEMMA RequiredType ==
  ASSUME RingInv, send.at # "idle"
  PROVE  RequiredSpace(send.data) \in Int
<1>1. CASE IsStream /\ IInv
  <2>1. Len(send.data) \in Nat /\ Header = 0
    BY <1>1, PayloadFacts DEF IInv, WriterInv, IsStream
  <2> QED BY <2>1 DEF RequiredSpace
<1>2. CASE IsMessages /\ MessageInv
  <2>1. send.data \in Payloads BY <1>2 DEF MessageInv, MessageWriterInv
  <2> QED BY <1>2, <2>1, RequiredFacts DEF IsMessages
<1> QED BY <1>1, <1>2 DEF RingInv

\* A sleeping writer is left as it is, or notified, by the reader.
LEMMA WriterWokenByReader ==
  ASSUME RingInv, NoWriterMissed, MessageReaderAside, send.at = "wait", ~notified'["writer"]
  PROVE  xTaskWaitingToSend' /\ (Given' < RequiredSpace(send.data) \/ OnItsWay(recv)')
<1>1. /\ notified \in [{"writer", "reader"} -> BOOLEAN] /\ xTaskWaitingToSend \in BOOLEAN
      /\ recv \in ReceiveCall
  BY NotifiedFacts, RingTypes
<1>2. CASE sbRECEIVE_COMPLETED
  <2>1. notified'["writer"] = (notified["writer"] \/ xTaskWaitingToSend)
    BY <1>1, <1>2, Zenon DEF sbRECEIVE_COMPLETED
  <2> QED BY <2>1 DEF NoWriterMissed
<1>3. CASE ~sbRECEIVE_COMPLETED
  <2>1. /\ notified'["writer"] = notified["writer"]
        /\ xTaskWaitingToSend' = xTaskWaitingToSend
    BY <1>1, <1>3, Zenon DEF MessageReaderAside, ReaderAside, InvokeReceive, InvokePeek,
          CheckBytes, WakeReader, ReaderAwake, Look, ReturnNothing, MessageLength, CopyOut,
          ExpireReceive, handles
  <2> QED BY <1>3, <2>1, ReaderOnItsWay DEF NoWriterMissed
<1> QED BY <1>2, <1>3

LEMMA NoWriterStep ==
  ASSUME RingInv, NoWriterMissed, Next
  PROVE  NoWriterMissed'
<1> SUFFICES ASSUME send'.at = "wait", ~notified'["writer"]
             PROVE  /\ xTaskWaitingToSend'
                    /\ Given' < RequiredSpace(send'.data) \/ OnItsWay(recv)'
  BY DEF NoWriterMissed, RequiredSpace
<1>1. /\ notified \in [{"writer", "reader"} -> BOOLEAN] /\ xTaskWaitingToSend \in BOOLEAN
      /\ TypeOK /\ send \in SendCall
  BY NotifiedFacts, RingTypes
<1>2. CASE WriterAside
  <2>1. UNCHANGED <<xTail, xHead, interrupt, recv>> BY <1>1, <1>2, WriterAsideFrame
  <2>2. Given' = Given /\ OnItsWay(recv)' = OnItsWay(recv)
    BY <2>1 DEF Given, xStreamBufferSpacesAvailable, OnItsWay
  <2>3. CASE CheckSpace
    <3> DEFINE short == xStreamBufferSpacesAvailable < RequiredSpace(send.data)
    <3>1. short
      <4>1. ~short => send'.at = "decide" BY <1>1, <2>3 DEF CheckSpace, SendCall
      <4> QED BY <4>1
    <3>2. xTaskWaitingToSend' BY <2>3, <3>1 DEF CheckSpace
    <3>3. send'.data = send.data /\ send.at = "check"
      BY <1>1, <2>3 DEF CheckSpace, SendCall, SendAt
    <3>4. Given < RequiredSpace(send.data)
      <4>1. RequiredSpace(send.data) \in Int BY <3>3, RequiredType
      <4>2. Given \in Int /\ Given <= xStreamBufferSpacesAvailable
            /\ xStreamBufferSpacesAvailable \in Int
        BY <1>1, GivenNow, NotifiedFacts
      <4> QED BY <3>1, <4>1, <4>2
    <3> QED BY <2>2, <3>2, <3>3, <3>4
  <2>4. CASE ExpireSend
    <3>1. UNCHANGED <<notified, handles>> /\ send.at = "wait" /\ send'.data = send.data
      BY <1>1, <2>4 DEF ExpireSend, SendCall
    <3> QED BY <2>2, <3>1 DEF NoWriterMissed, handles
  <2>5. CASE ~CheckSpace /\ ~ExpireSend
    <3>1. CASE InvokeSend BY <3>1 DEF InvokeSend, NoSend
    <3>2. CASE WakeWriter \/ WriterAwake
      <4>1. send'.at \in {"woken", "decide", "check"}
        BY <1>1, <3>2 DEF WakeWriter, WriterAwake, SendCall
      <4> QED BY <4>1
    <3>3. CASE Decide
      <4>1. send'.at \in {"idle", "copy"} BY <1>1, <3>3 DEF Decide, SendCall, NoSend
      <4> QED BY <4>1
    <3>4. CASE SendComplete \/ sbSEND_COMPLETED
      <4>1. send'.at \in {"idle", "notify"}
        BY <1>1, <3>4 DEF SendComplete, sbSEND_COMPLETED, SendCall, NoSend
      <4> QED BY <4>1
    <3> QED BY <1>2, <2>5, <3>1, <3>2, <3>3, <3>4 DEF WriterAside
  <2> QED BY <2>3, <2>4, <2>5
<1>3. CASE CopyIn \/ PublishHead
  <2>1. send'.at \in {"copy", "publish", "complete"}
    BY <1>1, <1>3, MovedTo DEF CopyIn, SendCall
  <2> QED BY <2>1
<1>4. CASE MessageReaderAside
  <2>1. send' = send BY <1>1, <1>4, MessageReaderFrame
  <2> QED BY <1>4, <2>1, WriterWokenByReader
<1>5. CASE PublishTail \/ RestoreTail
  <2>1. UNCHANGED <<notified, handles, send, interrupt>>
    BY <1>5 DEF PublishTail, RestoreTail
  <2>2. CASE OnItsWay(recv)' BY <2>1, <2>2 DEF NoWriterMissed, handles
  <2>3. CASE ~OnItsWay(recv)'
    <3>1. Given' = Given BY <1>5, <2>3, GivenByTail
    <3>2. ~OnItsWay(recv) BY <1>1, <1>5, <2>1, <2>3, LostItsWay
    <3> QED BY <2>1, <3>1, <3>2 DEF NoWriterMissed, handles
  <2> QED BY <2>2, <2>3
<1>6. CASE Notify
  <2>1. UNCHANGED <<xTail, xHead, send, recv, interrupt>> BY <1>6 DEF Notify, ring
  <2>2. ~notified["writer"] /\ xTaskWaitingToSend' = xTaskWaitingToSend
    BY <1>1, <1>6, Zenon DEF Notify, handles
  <2>3. Given' = Given /\ OnItsWay(recv)' = OnItsWay(recv)
    BY <2>1 DEF Given, xStreamBufferSpacesAvailable, OnItsWay
  <2> QED BY <2>1, <2>2, <2>3 DEF NoWriterMissed
<1>7. CASE xStreamBufferReset BY <1>7 DEF xStreamBufferReset
<1>8. CASE xStreamBufferSetTriggerLevel
  <2>1. UNCHANGED <<xTail, xHead, handles, notified, send, recv, interrupt>>
    BY <1>8 DEF xStreamBufferSetTriggerLevel, ring
  <2>2. Given' = Given /\ OnItsWay(recv)' = OnItsWay(recv)
    BY <2>1 DEF Given, xStreamBufferSpacesAvailable, OnItsWay
  <2> QED BY <2>1, <2>2 DEF NoWriterMissed, handles
<1> QED BY <1>2, <1>3, <1>4, <1>5, <1>6, <1>7, <1>8, MessageCases

LEMMA Forgotten ==
  ASSUME RingInv, NoWriterMissed
  PROVE  NoWriterLeftAsleep
  BY GivenNow DEF NoWriterMissed, NoWriterLeftAsleep, OnItsWay

LEMMA AsleepInvariance ==
  ASSUME IsStream \/ IsMessages, LevelIsFixed
  PROVE  Spec => [](RingInv /\ NoReaderLeftAsleep /\ NoWriterMissed)
<1>1. Init => NoReaderLeftAsleep /\ NoWriterMissed
  BY DEF Init, NoReaderLeftAsleep, NoWriterMissed, NoSend, NoReceive
<1>2. RingInv /\ NoReaderLeftAsleep /\ NoWriterMissed /\ [Next]_vars =>
        NoReaderLeftAsleep' /\ NoWriterMissed'
  <2>1. CASE Next BY <2>1, NoReaderStep, NoWriterStep
  <2>2. ASSUME UNCHANGED vars, NoReaderLeftAsleep, NoWriterMissed
        PROVE  NoReaderLeftAsleep' /\ NoWriterMissed'
    <3>1. UNCHANGED <<xTail, xHead, xTriggerLevelBytes, xTaskWaitingToReceive,
                      xTaskWaitingToSend, notified, send, recv, interrupt>>
      BY <2>2 DEF vars, ring, handles
    <3> QED BY <2>2, <3>1 DEF NoReaderLeftAsleep, NoWriterMissed, Given, OnItsWay,
                   prvBytesInBuffer, xStreamBufferSpacesAvailable
  <2> QED BY <2>1, <2>2
<1> QED BY <1>1, <1>2, RingInvariance, PTL DEF Spec

\* No wake-up is lost, of streams and of messages: the reader does not sleep over
\* bytes that reach its trigger level, nor the writer over space for its data, unless
\* the other is on its way to wake it (stream_buffer.c:545-564, 745-768).
THEOREM NoLostWakeUp ==
  ASSUME IsStream \/ IsMessages, LevelIsFixed
  PROVE  Spec => []NobodyLeftAsleep
<1>1. RingInv /\ NoReaderLeftAsleep /\ NoWriterMissed => NobodyLeftAsleep
  BY Forgotten DEF NobodyLeftAsleep
<1> QED BY <1>1, AsleepInvariance, PTL

\* Reader and writer wait for each other only if the data, with its length, does
\* not fit above a buffer that is one byte short of the trigger level.
THEOREM MutualWaitIsConfigured ==
  ASSUME IsStream \/ IsMessages, LevelIsFixed
  PROVE  Spec => []MutualWaitNeedsHighTrigger
<1>1. RingInv /\ NoReaderLeftAsleep /\ NoWriterMissed => MutualWaitNeedsHighTrigger
  <2> SUFFICES ASSUME RingInv, NoReaderLeftAsleep, NoWriterMissed,
                      recv.at = "wait", ~notified["reader"],
                      send.at = "wait", ~notified["writer"]
               PROVE  xTriggerLevelBytes + RequiredSpace(send.data) > Length
    BY DEF MutualWaitNeedsHighTrigger
  <2>1. /\ prvBytesInBuffer < xTriggerLevelBytes
        /\ xStreamBufferSpacesAvailable < RequiredSpace(send.data)
    BY Forgotten DEF NoReaderLeftAsleep, NoWriterLeftAsleep
  <2>2. prvBytesInBuffer + xStreamBufferSpacesAvailable = Length - 1 BY RingNow, RingTypes
  <2>3. RequiredSpace(send.data) \in Int BY RequiredType
  <2> QED BY <2>1, <2>2, <2>3, NotifiedFacts, RingTypes, LengthFacts
<1> QED BY <1>1, AsleepInvariance, PTL

--------------------
\* The ring is a stream of bytes.

\* What the call has still to move in, and what a receive has taken.
OfferedOf(s) == IF s.at \in {"check", "wait", "woken", "decide"}
                THEN LengthBytes(Len(s.data)) \o s.data
                ELSE FlattenSeq(s.chunks)
DeliveredOf(r) == IF r.at \in {"length", "complete"} THEN r.bytes ELSE <<>>

LEMMA FlattenNone == FlattenSeq(<<>>) = <<>>
  BY DEF FlattenSeq

LEMMA FlattenOne ==
  ASSUME NEW c \in Seq(Bytes)
  PROVE  FlattenSeq(<<c>>) = c
<1> DEFINE seqs == <<c>>
           def(flatten) == [i \in 1..Len(seqs) |-> IF i = 1 THEN seqs[i]
                                                   ELSE flatten[i - 1] \o seqs[i]]
           flat == CHOOSE flatten : flatten = def(flatten)
<1>1. Len(seqs) = 1 /\ seqs[1] = c OBVIOUS
<1>2. FlattenSeq(seqs) = flat[1] BY <1>1 DEF FlattenSeq
<1>3. \E flatten : flatten = def(flatten)
  <2> DEFINE one == [i \in 1..1 |-> c]
  <2>1. def(one) = [i \in 1..1 |-> IF i = 1 THEN c ELSE one[i - 1] \o seqs[i]] BY <1>1
  <2>2. \A i \in 1..1 : (IF i = 1 THEN c ELSE one[i - 1] \o seqs[i]) = c OBVIOUS
  <2>3. one = def(one) BY <2>1, <2>2
  <2> QED BY <2>3
<1>4. flat = def(flat) BY <1>3
<1> HIDE DEF flat
<1>5. flat[1] = c BY <1>1, <1>4
<1> QED BY <1>2, <1>5

LEMMA NoLength ==
  ASSUME IsStream, NEW p \in Seq(Bytes)
  PROVE  LengthBytes(Len(p)) \o p = p
<1>1. LengthBytes(Len(p)) = [k \in 1..0 |-> IF k = 1 THEN Len(p) ELSE 0]
  BY DEF LengthBytes, IsStream
<1>2. LengthBytes(Len(p)) \in [1..0 -> Bytes] BY <1>1
<1>3. LengthBytes(Len(p)) \in Seq(Bytes) BY <1>2, SeqDef
<1> HIDE DEF LengthBytes
<1> DEFINE l == LengthBytes(Len(p))
<1>4. Len(l) = 0 BY <1>2, <1>3
<1>5. l = <<>> BY <1>3, <1>4, EmptySeq
<1> QED BY <1>5, ConcatEmptySeq

LEMMA OfferedFacts ==
  ASSUME IsStream, NEW s
  PROVE  /\ s.at \in {"check", "wait", "woken", "decide"} /\ s.data \in Payloads =>
              OfferedOf(s) = s.data
         /\ s.at \notin {"check", "wait", "woken", "decide"} /\ s.chunks = <<>> =>
              OfferedOf(s) = <<>>
         /\ \A c \in Seq(Bytes) :
              s.at \notin {"check", "wait", "woken", "decide"} /\ s.chunks = <<c>> =>
                OfferedOf(s) = c
  BY PayloadFacts, NoLength, FlattenNone, FlattenOne DEF OfferedOf

\* The bytes of the buffer.
LEMMA ContentFacts ==
  ASSUME IInv
  PROVE  /\ FromTail(prvBytesInBuffer) \in Seq(Bytes)
         /\ Len(FromTail(prvBytesInBuffer)) = prvBytesInBuffer
<1>1. /\ xTail \in Index /\ pucBuffer \in [Index -> Bytes]
      /\ prvBytesInBuffer \in 0..Length
  BY RingNow, LengthFacts DEF IInv, TypeOK, Index
<1> QED BY <1>1, ListedFacts DEF Listed, FromTail

\* The steps of the stream, in these words.
LEMMA StreamSteps ==
  LET queue == FromTail(prvBytesInBuffer)
      offered == OfferedOf(send)
      delivered == DeliveredOf(recv)
  IN  /\ UNCHANGED <<queue, delivered>> =>
           /\ UNCHANGED offered => UNCHANGED Stream!vars
           /\ offered = <<>> /\ offered' # <<>> => Stream!Offer
           /\ IsPrefix(offered', offered) => Stream!GiveUp
      /\ UNCHANGED delivered =>
           /\ (\E n \in 1..Len(offered) :
                 /\ Len(queue) + n <= Length - 1
                 /\ queue' = queue \o SubSeq(offered, 1, n)
                 /\ offered' = SubSeq(offered, n + 1, Len(offered))) => Stream!Send
           /\ UNCHANGED offered /\ queue' = <<>> => Stream!Reset
      /\ UNCHANGED offered =>
           /\ delivered = <<>> /\ delivered' # <<>> /\ queue = delivered' \o queue'
                => Stream!Receive
           /\ UNCHANGED queue /\ delivered' = <<>> => Stream!Return
  BY DEF Stream!Offer, Stream!Send, Stream!GiveUp, Stream!Receive, Stream!Return,
         Stream!Reset, Stream!vars, Stream!IsPrefix, IsPrefix, OfferedOf, DeliveredOf

\* What the writer gives up, it gives up from the back.
LEMMA PrefixFacts ==
  ASSUME NEW p \in Seq(Bytes), NEW c \in Seq(Bytes), Len(c) <= Len(p),
         \A k \in 1..Len(c) : c[k] = p[k]
  PROVE  IsPrefix(c, p)
<1> DEFINE n == Len(c)
           part == SubSeq(p, 1, n)
<1>1. n \in Nat /\ Len(p) \in Nat BY LenProperties
<1>2. SubSeq(c, 1, n) = c BY SubSeqFull
<1>3. \A k \in 1..n : p[k] \in Bytes
  <2>1. \A k \in 1..n : c[k] \in Bytes BY ElementOfSeq
  <2> QED BY <2>1
<1>4. part = c
  <2>1. CASE n = 0
    <3>1. c = <<>> BY <2>1, EmptySeq
    <3>2. part = <<>> BY <2>1, SubSeqEmpty
    <3> QED BY <3>1, <3>2
  <2>2. CASE n # 0
    <3>1. n \in Int /\ 1 <= n /\ n - 1 + 1 = n BY <1>1, <2>2
    <3>2. part \in Seq(Bytes) /\ Len(part) = n /\ \A k \in 1..n : part[k] = p[k]
      <4> HIDE DEF n
      <4> QED BY <1>3, <3>1, SubSeqProperties
    <3> QED BY <3>2, SeqEqual
  <2> QED BY <2>1, <2>2
<1> QED BY <1>2, <1>4 DEF IsPrefix

LEMMA WriterAsideStreams ==
  ASSUME IsStream, IInv, WriterAside
  PROVE  [Stream!Next]_(Stream!vars)
<1> DEFINE offered == OfferedOf(send)
           queue == FromTail(prvBytesInBuffer)
           delivered == DeliveredOf(recv)
<1>1. /\ send \in SendCall /\ NoSend.at = "idle" /\ NoSend.chunks = <<>>
      /\ NoSend \in SendCall
  BY NoCallsTyped DEF IInv, CallsTyped, NoSend
<1>2. UNCHANGED <<queue, delivered>>
  BY WriterAsideFrame DEF IInv, FromTail, prvBytesInBuffer, DeliveredOf
<1>3. offered' = OfferedOf(send') BY DEF OfferedOf, LengthBytes
<1>4. \/ UNCHANGED offered
      \/ offered = <<>> /\ offered' # <<>>
      \/ IsPrefix(offered', offered)
  <2>1. CASE InvokeSend
    <3>1. PICK p \in Payloads, w \in Wait :
            send' = [NoSend EXCEPT !.at = IF w = "none" THEN "decide" ELSE "check",
                                   !.data = p, !.wait = w]
      BY <2>1, StreamBufferAssumption DEF InvokeSend, Wait
    <3>2. send'.data = p /\ send'.at \in {"decide", "check"} BY <3>1 DEF NoSend
    <3>3. offered' = p BY <1>3, <3>2, OfferedFacts
    <3>4. send.at = "idle" /\ send.chunks = <<>>
      BY <2>1 DEF InvokeSend, SendAt, IInv, WriterInv
    <3>5. offered = <<>> BY <3>4, OfferedFacts
    <3>6. p # <<>>
      <4>1. Len(p) \in Nat /\ Len(p) >= 1 /\ Len(<<>>) = 0 BY PayloadFacts
      <4> QED BY <4>1
    <3> QED BY <3>3, <3>5, <3>6
  <2>2. CASE CheckSpace \/ WakeWriter \/ WriterAwake \/ ExpireSend
    <3>1. /\ send.at \in {"check", "wait", "woken"} /\ send'.data = send.data
          /\ send'.at \in {"check", "wait", "woken", "decide"}
      BY <1>1, <2>2 DEF CheckSpace, WakeWriter, WriterAwake, ExpireSend, SendAt, SendCall
    <3>2. send.data \in Payloads BY <3>1 DEF IInv, WriterInv
    <3> QED BY <1>3, <3>1, <3>2, OfferedFacts
  <2>3. CASE Decide
    <3> DEFINE space == IF send.xSpace = 0 THEN xStreamBufferSpacesAvailable
                        ELSE send.xSpace
               chunks == Chunks(send.data, space)
    <3>1. /\ send.at = "decide" /\ send.data \in Payloads /\ space \in Index
          /\ send' = IF chunks = <<>> THEN NoSend
                     ELSE [send EXCEPT !.at = "copy", !.chunks = chunks, !.xSpace = 0]
      BY <1>1, <2>3, RingNow DEF Decide, SendAt, SendCall, IInv, WriterInv
    <3> HIDE DEF space
    <3>2. offered = send.data /\ send.data \in Seq(Bytes)
      BY <3>1, OfferedFacts, PayloadFacts
    <3>3. CASE chunks = <<>>
      <4>1. offered' = <<>> BY <1>1, <1>3, <3>1, <3>3, OfferedFacts
      <4>2. <<>> \in Seq(Bytes) /\ Len(<<>>) <= Len(send.data)
            /\ \A k \in 1..Len(<<>>) : <<>>[k] = send.data[k]
        BY <3>1, PayloadFacts
      <4>3. IsPrefix(<<>>, send.data) BY <3>2, <4>2, PrefixFacts
      <4> QED BY <3>2, <4>1, <4>3
    <3>4. CASE chunks # <<>>
      <4>1. /\ chunks \in Seq(Seq(Bytes)) /\ Len(chunks) = 1 /\ chunks[1] \in Seq(Bytes)
            /\ Len(chunks[1]) <= Len(send.data)
            /\ \A k \in 1..Len(chunks[1]) : chunks[1][k] = send.data[k]
        BY <3>1, <3>4, ChunksFit, LengthFacts DEF Index
      <4> HIDE DEF chunks
      <4>2. chunks = <<chunks[1]>>
        <5>1. /\ <<chunks[1]>> \in Seq(Seq(Bytes)) /\ Len(<<chunks[1]>>) = 1
              /\ <<chunks[1]>>[1] = chunks[1]
          BY <4>1
        <5> QED BY <4>1, <5>1, SeqEqual
      <4>3. send'.at = "copy" /\ send'.chunks = chunks BY <1>1, <3>1, <3>4 DEF SendCall
      <4>4. offered' = chunks[1] BY <1>3, <4>1, <4>2, <4>3, OfferedFacts
      <4>5. IsPrefix(chunks[1], send.data) BY <3>2, <4>1, PrefixFacts
      <4> QED BY <3>2, <4>4, <4>5
    <3> QED BY <3>3, <3>4
  <2>4. CASE SendComplete \/ sbSEND_COMPLETED
    <3>1. send.at \in {"complete", "notify"} /\ send.chunks = <<>>
      BY <2>4 DEF SendComplete, sbSEND_COMPLETED, SendAt, IInv, WriterInv
    <3>2. send'.at \in {"notify", "idle"} /\ send'.chunks = <<>>
      BY <1>1, <2>4, <3>1 DEF SendComplete, sbSEND_COMPLETED, SendCall
    <3> QED BY <1>3, <3>1, <3>2, OfferedFacts
  <2> QED BY <2>1, <2>2, <2>3, <2>4 DEF WriterAside
<1> HIDE DEF offered, queue, delivered
<1> QED BY <1>2, <1>4, StreamSteps DEF Stream!Next, offered, queue, delivered

LEMMA RingStreams ==
  ASSUME IsStream, IInv, CopyIn \/ PublishHead
  PROVE  [Stream!Next]_(Stream!vars)
<1> DEFINE offered == OfferedOf(send)
           queue == FromTail(prvBytesInBuffer)
           chunk == send.chunks[1]
           n == Len(chunk)
<1>1. /\ send \in SendCall /\ send.at \in {"copy", "publish"}
      /\ recv' = recv /\ offered' = OfferedOf(send')
  BY DEF CopyIn, PublishHead, SendAt, IInv, CallsTyped, OfferedOf, LengthBytes
<1>2. /\ chunk \in Seq(Bytes) /\ n \in 1..Room(xTail, xHead) /\ n \in Nat
      /\ send.chunks = <<chunk>>
  BY <1>1, ChunkFacts
<1>3. offered = chunk BY <1>1, <1>2, OfferedFacts
<1>4. UNCHANGED DeliveredOf(recv) BY <1>1 DEF DeliveredOf
<1>5. CASE CopyIn
  <2>1. send'.chunks = send.chunks /\ send'.at = "publish"
    BY <1>1, <1>5 DEF CopyIn, SendCall
  <2>2. offered' = chunk BY <1>1, <1>2, <2>1, OfferedFacts
  <2>3. UNCHANGED <<queue, offered>> BY <1>3, <1>5, <2>2, CopyInStep
  <2> QED BY <1>4, <2>3, StreamSteps
<1>6. CASE PublishHead
  <2>1. /\ queue' = queue \o chunk /\ send'.at = "complete" /\ send'.chunks = <<>>
    BY <1>6, PublishHeadStep
  <2>2. offered' = <<>> BY <1>1, <2>1, OfferedFacts
  <2>3. Len(queue) + n <= Length - 1 /\ n \in 1..n
    <3> DEFINE q == Len(queue)
    <3>1. /\ q + Room(xTail, xHead) = Length - 1 /\ q \in Int
          /\ Room(xTail, xHead) \in Int
      BY ContentFacts, RingNow DEF IInv
    <3> HIDE DEF q, n
    <3>2. q + n <= Length - 1 /\ n \in 1..n BY <1>2, <3>1, LengthFacts
    <3> QED BY <3>2 DEF q
  <2>4. SubSeq(chunk, 1, n) = chunk BY <1>2, SubSeqFull
  <2>5. SubSeq(chunk, n + 1, n) = <<>>
    <3>1. n + 1 > n BY <1>2
    <3> HIDE DEF n
    <3> QED BY <1>2, <3>1, SubSeqEmpty
  <2> QED BY <1>3, <1>4, <2>1, <2>2, <2>3, <2>4, <2>5, StreamSteps DEF Stream!Next
<1> QED BY <1>5, <1>6

LEMMA ReaderStreams ==
  ASSUME IsStream, IInv, ReaderAside \/ PublishTail
  PROVE  [Stream!Next]_(Stream!vars)
<1> DEFINE offered == OfferedOf(send)
           queue == FromTail(prvBytesInBuffer)
           delivered == DeliveredOf(recv)
<1>1. recv \in ReceiveCall /\ recv.at \notin {"length", "restore"}
  BY DEF IInv, CallsTyped, ReaderInv
<1>2. UNCHANGED offered BY ReaderAsideFrame DEF IInv, PublishTail, OfferedOf, LengthBytes
<1>3. CASE ReaderAside
  <2>1. UNCHANGED queue BY <1>3, ReaderAsideFrame DEF IInv, FromTail, prvBytesInBuffer
  <2>2. recv'.at \notin {"length", "complete"}
    <3>1. CASE CheckBytes \/ Look
      <4>1. StartReading(recv, prvBytesInBuffer).at \in {"copy", "empty"}
        BY <1>1, RingNow, StartReadingFacts DEF IInv
      <4> QED BY <1>1, <3>1, <4>1 DEF CheckBytes, Look, ReceiveCall
    <3>2. CASE InvokeReceive
      <4>1. recv'.at \in {"look", "check"} BY <3>2 DEF InvokeReceive, NoReceive
      <4> QED BY <4>1
    <3>3. CASE ReturnNothing \/ sbRECEIVE_COMPLETED
      BY <3>3 DEF ReturnNothing, sbRECEIVE_COMPLETED, NoReceive
    <3>4. CASE WakeReader \/ ReaderAwake \/ CopyOut \/ ExpireReceive
      BY <1>1, <3>4 DEF WakeReader, ReaderAwake, CopyOut, ExpireReceive, ReceiveCall
    <3> QED BY <1>3, <3>1, <3>2, <3>3, <3>4 DEF ReaderAside
  <2>3. delivered' = <<>> BY <2>2 DEF DeliveredOf
  <2> QED BY <1>2, <2>1, <2>3, StreamSteps DEF Stream!Next
<1>4. CASE PublishTail
  <2>1. /\ queue = recv.bytes \o queue' /\ recv.bytes # <<>>
        /\ recv' = [recv EXCEPT !.at = "complete"]
    BY <1>4, PublishTailStep
  <2>2. delivered' = recv.bytes BY <1>1, <2>1 DEF DeliveredOf, ReceiveCall
  <2>3. delivered = <<>> BY <1>4 DEF PublishTail, ReceiveAt, DeliveredOf
  <2> QED BY <1>2, <2>1, <2>2, <2>3, StreamSteps DEF Stream!Next
<1> QED BY <1>3, <1>4

LEMMA OthersStream ==
  ASSUME IsStream, IInv,
         \/ Notify \/ xStreamBufferReset \/ xStreamBufferSetTriggerLevel \/ UNCHANGED vars
  PROVE  [Stream!Next]_(Stream!vars)
<1> DEFINE offered == OfferedOf(send)
           queue == FromTail(prvBytesInBuffer)
           delivered == DeliveredOf(recv)
<1>1. send' = send /\ recv' = recv
  BY DEF Notify, xStreamBufferReset, xStreamBufferSetTriggerLevel, vars
<1>2. UNCHANGED <<offered, delivered>> BY <1>1 DEF OfferedOf, DeliveredOf, LengthBytes
<1>3. CASE xStreamBufferReset
  <2>1. xTail' = 0 /\ xHead' = 0 BY <1>3 DEF xStreamBufferReset
  <2>2. prvBytesInBuffer' = 0 BY <2>1, LengthFacts DEF prvBytesInBuffer
  <2>3. queue' = [k \in 1..0 |-> pucBuffer'[Advance(xTail', k - 1)]] BY <2>2 DEF FromTail
  <2>4. queue' = <<>> BY <2>3
  <2> QED BY <1>2, <2>4, StreamSteps DEF Stream!Next
<1>4. CASE Notify \/ xStreamBufferSetTriggerLevel \/ UNCHANGED vars
  <2>1. UNCHANGED <<xTail, xHead, pucBuffer>>
    BY <1>4 DEF Notify, xStreamBufferSetTriggerLevel, vars, ring
  <2>2. UNCHANGED queue BY <2>1 DEF FromTail, prvBytesInBuffer
  <2> QED BY <1>2, <2>2, StreamSteps
<1> QED BY <1>3, <1>4

LEMMA InitStreams ==
  ASSUME IsStream, Init
  PROVE  Stream!Init
<1>1. send.at = "idle" /\ send.chunks = <<>> /\ recv.at = "idle"
  BY DEF Init, NoSend, NoReceive
<1>2. OfferedOf(send) = <<>> /\ DeliveredOf(recv) = <<>>
  BY <1>1, OfferedFacts DEF DeliveredOf
<1>3. prvBytesInBuffer = 0 BY LengthFacts DEF Init, prvBytesInBuffer
<1>4. FromTail(prvBytesInBuffer) = [k \in 1..0 |-> pucBuffer[Advance(xTail, k - 1)]]
  BY <1>3 DEF FromTail
<1>5. FromTail(prvBytesInBuffer) = <<>> BY <1>4
<1> QED BY <1>2, <1>5 DEF Stream!Init, OfferedOf, DeliveredOf

\* Whatever a writer and a reader that take no lock do at once, the ring is a
\* stream: what is received is what was sent, in order, none lost, none repeated
\* and none read before it was written (prvWriteBytesToBuffer,
\* prvReadBytesFromBuffer, stream_buffer.c:1091-1189).
THEOREM RingIsAStream ==
  ASSUME IsStream
  PROVE  Spec => ImplementsByteStream
<1>1. Init => Stream!Init BY InitStreams
<1>2. IInv /\ [Next]_vars => [Stream!Next]_(Stream!vars)
  BY Cases, WriterAsideStreams, RingStreams, ReaderStreams, OthersStream
<1> QED BY <1>1, <1>2, Invariance, PTL DEF Spec, ImplementsByteStream, Stream!Spec

--------------------
\* Co-routines, for any number of them, any length of the queue and any range
\* of the tick counts.

CONSTANTS CoRoutine, uxPriority, Calls, uxLength, TickMod, Delays, LagBound
VARIABLES list, wake, event, uxState, uxTopCoRoutineReadyPriority,
          xCoRoutineTickCount, xLastTickCount, xPassedTicks, xTickCount,
          uxMessagesWaiting, at, pxCurrentCoRoutine, isr, left, passedOver

Cr == INSTANCE CoRoutine

\* The instance has Cardinality and IsFiniteSet as symbols of its own.
LEMMA SameFinite == ASSUME NEW S PROVE Cr!IsFiniteSet(S) <=> IsFiniteSet(S)
BY DEF Cr!IsFiniteSet, IsFiniteSet

LEMMA SameCardinality == \A S : Cr!Cardinality(S) = Cardinality(S)
BY DEF Cr!Cardinality, Cardinality

\* A tick count k after t.
TicksAfter(t, k) == IF t + k >= TickMod THEN t + k - TickMod ELSE t + k

\* The delayed lists are worked off tick by tick.
TicksBooked ==
  /\ at # "expire" => xCoRoutineTickCount = xLastTickCount
  /\ at = "expire" =>
       \E k \in Cr!Tick : /\ k + xPassedTicks < TickMod
                          /\ xCoRoutineTickCount = TicksAfter(xLastTickCount, k)
  /\ xCoRoutineTickCount = xLastTickCount =>
       \A c \in CoRoutine : list[c] \in Cr!Delayed => left[c] > 0

ListsTyped ==
  /\ list \in [CoRoutine -> {"none", "ready"} \cup Cr!Delayed]
  /\ wake \in [CoRoutine -> Cr!Tick] /\ left \in [CoRoutine -> Cr!Tick]
  /\ uxTopCoRoutineReadyPriority \in Nat
  /\ xCoRoutineTickCount \in Cr!Tick /\ xLastTickCount \in Cr!Tick
  /\ xPassedTicks \in Cr!Tick /\ xTickCount \in Cr!Tick

ListsInv == ListsTyped /\ Cr!DelaysKept /\ Cr!NoneOverlooked /\ TicksBooked

\* The co-routine that runs is ready; before the second critical section of a call
\* it is in that call, for the first or the second time.
CurrentBooked ==
  /\ at # "out" => pxCurrentCoRoutine \in CoRoutine
  /\ at \in {"run", "send", "receive"} => list[pxCurrentCoRoutine] = "ready"
  /\ at \in {"send", "receive"} => uxState[pxCurrentCoRoutine] \in {"op", Cr!Again[at]}

EventBooked(c) ==
  /\ event[c] # "none" => list[c] \in Cr!Delayed
  /\ event[c] \in {"send", "receive"} => uxState[c] = Cr!Again[event[c]]

\* How often a side could go on.
Amount(side) == IF side = "receive" THEN uxMessagesWaiting
                ELSE uxLength - uxMessagesWaiting
Covered(side) ==
  Cr!Waiting(side) # {} => \/ Amount(side) <= Cardinality(Cr!OnItsWay(side))
                           \/ side \in passedOver
Side == {"send", "receive"}

QueueTyped ==
  /\ event \in [CoRoutine -> {"none", "send", "receive", "pending"}]
  /\ uxState \in [CoRoutine -> {"op", "send0", "receive0", "yielded"}]
  /\ uxMessagesWaiting \in 0..uxLength
  /\ at \in {"out", "pending", "delayed", "expire", "choose", "run", "send", "receive"}
  /\ pxCurrentCoRoutine \in CoRoutine \cup {Cr!Nobody}
  /\ isr \in {"none", "fresh", "woken"} /\ passedOver \subseteq Side

EventsBooked == \A c \in CoRoutine : EventBooked(c)
QueueInv == QueueTyped /\ CurrentBooked /\ EventsBooked /\ \A s \in Side : Covered(s)

CrInv == ListsInv /\ QueueInv

--------------------
\* The lists of the co-routines and the tick count they are at.

LEMMA CrModulo ==
  ASSUME Cr!CoRoutinesFit, NEW a \in Cr!Tick, NEW n \in Cr!Tick
  PROVE  (a + n) % TickMod = TicksAfter(a, n) /\ TicksAfter(a, n) \in Cr!Tick
<1>1. PICK m \in Nat \ {0} : m = TickMod BY DEF Cr!CoRoutinesFit
<1>2. a \in 0..m - 1 /\ n \in 0..m - 1 BY <1>1 DEF Cr!Tick
<1>3. CASE a + n >= m
  <2>1. a + n - m \in 0..m - 1 BY <1>2, <1>3
  <2>2. (a + n) % m = a + n - m BY <1>2, <1>3, <2>1
  <2> QED BY <1>1, <1>3, <2>1, <2>2 DEF TicksAfter, Cr!Tick
<1>4. CASE ~(a + n >= m)
  <2>1. a + n \in 0..m - 1 BY <1>2, <1>4
  <2>2. (a + n) % m = a + n BY <2>1
  <2> QED BY <1>1, <1>4, <2>1, <2>2 DEF TicksAfter, Cr!Tick
<1> QED BY <1>3, <1>4

TicksStay == /\ xCoRoutineTickCount' = xCoRoutineTickCount
             /\ xLastTickCount' = xLastTickCount
             /\ xPassedTicks' = xPassedTicks /\ xTickCount' = xTickCount
ListsStay == /\ list' = list /\ wake' = wake /\ left' = left
             /\ uxTopCoRoutineReadyPriority' = uxTopCoRoutineReadyPriority

LEMMA StayKeeps ==
  ASSUME ListsInv, ListsStay, TicksStay, at' = at \/ (at # "expire" /\ at' # "expire")
  PROVE  ListsInv'
<1>1. ListsTyped' /\ Cr!NoneOverlooked'
  BY DEF ListsInv, ListsTyped, Cr!NoneOverlooked, Cr!On, ListsStay, TicksStay
<1>2. Cr!DelaysKept' BY DEF ListsInv, Cr!DelaysKept, ListsStay, TicksStay
<1>3. TicksBooked' BY DEF ListsInv, TicksBooked, ListsStay, TicksStay, TicksAfter
<1> QED BY <1>1, <1>2, <1>3 DEF ListsInv

LEMMA ReadyKeeps ==
  ASSUME Cr!CoRoutinesFit, ListsInv, NEW c \in CoRoutine, Cr!AddToReady(c), TicksStay, at' = at
  PROVE  ListsInv' /\ list' = [list EXCEPT ![c] = "ready"]
<1>1. /\ list' = [list EXCEPT ![c] = "ready"] /\ left' = [left EXCEPT ![c] = 0]
      /\ wake' = [wake EXCEPT ![c] = 0]
      /\ uxTopCoRoutineReadyPriority' =
           IF uxPriority[c] > uxTopCoRoutineReadyPriority
             THEN uxPriority[c] ELSE uxTopCoRoutineReadyPriority
  BY DEF Cr!AddToReady
<1>2. /\ list \in [CoRoutine -> {"none", "ready"} \cup Cr!Delayed]
      /\ wake \in [CoRoutine -> Cr!Tick] /\ left \in [CoRoutine -> Cr!Tick]
      /\ uxPriority \in [CoRoutine -> Nat] /\ uxTopCoRoutineReadyPriority \in Nat
  BY DEF ListsInv, ListsTyped, Cr!CoRoutinesFit
<1>3. 0 \in Cr!Tick BY DEF Cr!Tick, Cr!CoRoutinesFit
<1>4. ListsTyped' BY <1>1, <1>2, <1>3 DEF ListsInv, ListsTyped, TicksStay
<1>5. /\ list'[c] = "ready"
      /\ \A d \in CoRoutine \ {c} : /\ list'[d] = list[d] /\ wake'[d] = wake[d]
                                    /\ left'[d] = left[d]
  BY <1>1, <1>2
<1>6. "ready" \notin Cr!Delayed /\ "ready" # "delayed" /\ "ready" # "overflow"
  BY DEF Cr!Delayed
<1>7. Cr!DelaysKept' BY <1>5, <1>6 DEF ListsInv, Cr!DelaysKept, TicksStay
<1>8. Cr!NoneOverlooked' BY <1>1, <1>2, <1>5 DEF ListsInv, Cr!NoneOverlooked, Cr!On
<1>9. TicksBooked'
  <2>1. xCoRoutineTickCount' = xLastTickCount' =>
          \A d \in CoRoutine : list'[d] \in Cr!Delayed => left'[d] > 0
    BY <1>5, <1>6 DEF ListsInv, TicksBooked, TicksStay
  <2> QED BY <2>1 DEF ListsInv, TicksBooked, TicksStay, TicksAfter
<1> QED BY <1>1, <1>4, <1>7, <1>8, <1>9 DEF ListsInv

LEMMA DelayedKeeps ==
  ASSUME Cr!CoRoutinesFit, ListsInv, NEW n \in Delays, n > 0, Cr!AddToDelayedList(n), TicksStay,
         pxCurrentCoRoutine \in CoRoutine, at # "expire", at' # "expire"
  PROVE  /\ ListsInv' /\ list'[pxCurrentCoRoutine] \in Cr!Delayed
         /\ \A d \in CoRoutine \ {pxCurrentCoRoutine} : list'[d] = list[d]
<1>1. PICK c, t, x : /\ c = pxCurrentCoRoutine /\ t = TicksAfter(xCoRoutineTickCount, n)
                     /\ x = xCoRoutineTickCount
  OBVIOUS
<1>2. x \in Cr!Tick /\ n \in Cr!Tick /\ c \in CoRoutine /\ TickMod \in Nat
  BY <1>1 DEF ListsInv, ListsTyped, Cr!CoRoutinesFit
<1>3. (x + n) % TickMod = t /\ t \in Cr!Tick BY <1>1, <1>2, CrModulo
<1>4. /\ wake' = [wake EXCEPT ![c] = t] /\ left' = [left EXCEPT ![c] = n]
      /\ list' = [list EXCEPT ![c] = IF t < x THEN "overflow" ELSE "delayed"]
      /\ uxTopCoRoutineReadyPriority' = uxTopCoRoutineReadyPriority
  BY <1>1, <1>3 DEF Cr!AddToDelayedList
<1>5. /\ list \in [CoRoutine -> {"none", "ready"} \cup Cr!Delayed]
      /\ wake \in [CoRoutine -> Cr!Tick] /\ left \in [CoRoutine -> Cr!Tick]
  BY DEF ListsInv, ListsTyped
<1>6. /\ wake'[c] = t /\ left'[c] = n
      /\ list'[c] = IF t < x THEN "overflow" ELSE "delayed"
      /\ \A d \in CoRoutine \ {c} : /\ list'[d] = list[d] /\ wake'[d] = wake[d]
                                    /\ left'[d] = left[d]
  BY <1>2, <1>4, <1>5
<1>7. list'[c] \in Cr!Delayed /\ list'[c] # "ready" BY <1>6 DEF Cr!Delayed
<1>8. ListsTyped'
  BY <1>2, <1>3, <1>4, <1>5 DEF ListsInv, ListsTyped, TicksStay, Cr!Delayed
<1>9. Cr!DelaysKept'
  <2>1. /\ t < x => t + TickMod = x + n
        /\ ~(t < x) => t = x + n
    BY <1>1, <1>2 DEF TicksAfter, Cr!Tick
  <2>2. ASSUME NEW d \in CoRoutine
        PROVE  /\ list'[d] = "delayed" => wake'[d] = xCoRoutineTickCount' + left'[d]
               /\ list'[d] = "overflow" => wake'[d] + TickMod = xCoRoutineTickCount' + left'[d]
               /\ list'[d] \in Cr!Delayed => left'[d] # 0
    <3>1. CASE d = c BY <1>1, <1>2, <1>6, <2>1, <3>1 DEF TicksStay
    <3>2. CASE d # c
      <4>1. list'[d] = list[d] /\ wake'[d] = wake[d] /\ left'[d] = left[d] BY <1>6, <3>2
      <4> QED BY <4>1 DEF ListsInv, Cr!DelaysKept, TicksStay
    <3> QED BY <3>1, <3>2
  <2> QED BY <2>2 DEF Cr!DelaysKept
<1>10. Cr!NoneOverlooked' BY <1>4, <1>6, <1>7 DEF ListsInv, Cr!NoneOverlooked, Cr!On
<1>11. TicksBooked'
  <2>1. \A d \in CoRoutine : list'[d] \in Cr!Delayed => left'[d] > 0
    BY <1>6 DEF ListsInv, TicksBooked
  <2> QED BY <2>1 DEF ListsInv, TicksBooked, TicksStay
<1> QED BY <1>1, <1>6, <1>7, <1>8, <1>9, <1>10, <1>11 DEF ListsInv

LEMMA CheckKeeps == ASSUME Cr!CoRoutinesFit, ListsInv, Cr!prvCheckDelayedList PROVE ListsInv'
<1>1. /\ at = "delayed" /\ at' = "expire" /\ ListsStay
      /\ xCoRoutineTickCount' = xCoRoutineTickCount /\ xLastTickCount' = xLastTickCount
      /\ xTickCount' = xTickCount
      /\ xPassedTicks' = (TickMod + xTickCount - xLastTickCount) % TickMod
  BY DEF Cr!prvCheckDelayedList, Cr!Step, ListsStay, Cr!lists
<1>2. xPassedTicks' \in Cr!Tick
  <2>1. PICK m \in Nat \ {0}, x \in Nat : /\ m = TickMod
                                         /\ x = TickMod + xTickCount - xLastTickCount
    BY DEF Cr!CoRoutinesFit, ListsInv, ListsTyped, Cr!Tick
  <2>2. x % m \in 0..m - 1 OBVIOUS
  <2> QED BY <1>1, <2>1, <2>2 DEF Cr!Tick
<1>3. ListsTyped' /\ Cr!NoneOverlooked'
  BY <1>1, <1>2 DEF ListsInv, ListsTyped, Cr!NoneOverlooked, Cr!On, ListsStay
<1>4. Cr!DelaysKept' BY <1>1 DEF ListsInv, Cr!DelaysKept, ListsStay
<1>5. TicksBooked'
  <2>1. xLastTickCount \in Cr!Tick /\ TickMod \in Nat \ {0} /\ xPassedTicks' \in Cr!Tick
    BY <1>2 DEF ListsInv, ListsTyped, Cr!CoRoutinesFit
  <2>2. /\ 0 \in Cr!Tick /\ 0 + xPassedTicks' < TickMod
        /\ TicksAfter(xLastTickCount, 0) = xLastTickCount
    <3>1. PICK m, z, x : /\ m = TickMod /\ z = xLastTickCount /\ x = xPassedTicks'
                         /\ m \in Nat \ {0} /\ z \in 0..m - 1 /\ x \in 0..m - 1
      BY <2>1 DEF Cr!Tick
    <3>2. m \in Nat /\ m > 0 /\ z \in Nat /\ z < m /\ x \in Nat /\ x < m BY <3>1
    <3>3. 0 \in 0..m - 1 /\ 0 + x < m BY <3>2
    <3>4. z + 0 = z /\ ~(z + 0 >= m) BY <3>2
    <3> QED BY <3>1, <3>3, <3>4 DEF Cr!Tick, TicksAfter
  <2>3. xCoRoutineTickCount = xLastTickCount BY <1>1 DEF ListsInv, TicksBooked
  <2>4. \E k \in Cr!Tick : /\ k + xPassedTicks' < TickMod
                           /\ xCoRoutineTickCount' = TicksAfter(xLastTickCount, k)
    BY <1>1, <2>2, <2>3
  <2> QED BY <1>1, <2>3, <2>4 DEF ListsInv, TicksBooked, ListsStay, TicksAfter
<1> QED BY <1>3, <1>4, <1>5 DEF ListsInv

\* Nobody who is delayed has waited enough when a tick is counted.
LEMMA AllStillWait ==
  ASSUME Cr!CoRoutinesFit, ListsInv, Cr!Expired = {} \/ xCoRoutineTickCount = xLastTickCount,
         NEW c \in CoRoutine, list[c] \in Cr!Delayed
  PROVE  left[c] > 0
<1>1. left[c] \in Nat /\ wake[c] \in Nat /\ xCoRoutineTickCount \in 0..TickMod - 1
      /\ TickMod \in Nat
  BY DEF ListsInv, ListsTyped, Cr!Tick, Cr!CoRoutinesFit
<1>2. CASE xCoRoutineTickCount = xLastTickCount BY <1>2 DEF ListsInv, TicksBooked
<1>3. CASE Cr!Expired = {}
  <2>1. CASE list[c] = "delayed"
    <3>1. ~(wake[c] <= xCoRoutineTickCount) BY <1>3, <2>1 DEF Cr!Expired, Cr!On
    <3>2. wake[c] = xCoRoutineTickCount + left[c] BY <2>1 DEF ListsInv, Cr!DelaysKept
    <3> QED BY <1>1, <3>1, <3>2
  <2>2. CASE list[c] = "overflow"
    <3>1. wake[c] + TickMod = xCoRoutineTickCount + left[c]
      BY <2>2 DEF ListsInv, Cr!DelaysKept
    <3> QED BY <1>1, <3>1
  <2> QED BY <2>1, <2>2 DEF Cr!Delayed
<1> QED BY <1>2, <1>3

LEMMA CountKeeps == ASSUME Cr!CoRoutinesFit, ListsInv, Cr!CountTick PROVE ListsInv'
<1>1. PICK x, y, z : /\ x = xCoRoutineTickCount /\ y = xCoRoutineTickCount'
                     /\ z = xLastTickCount
  OBVIOUS
<1>2. /\ at = "expire" /\ at' = at /\ xPassedTicks > 0 /\ xPassedTicks' = xPassedTicks - 1
      /\ xLastTickCount' = z /\ xTickCount' = xTickCount /\ wake' = wake
      /\ uxTopCoRoutineReadyPriority' = uxTopCoRoutineReadyPriority
      /\ y = (x + 1) % TickMod /\ (Cr!Expired = {} \/ x = z)
      /\ list' = IF y = 0
                   THEN [c \in CoRoutine |-> CASE list[c] = "delayed" -> "overflow"
                                               [] list[c] = "overflow" -> "delayed"
                                               [] OTHER -> list[c]]
                   ELSE list
      /\ left' = [c \in CoRoutine |-> IF list[c] \in Cr!Delayed /\ left[c] > 0
                                        THEN left[c] - 1 ELSE left[c]]
  BY <1>1 DEF Cr!CountTick, Cr!Step
<1>3. /\ x \in Cr!Tick /\ z \in Cr!Tick /\ xPassedTicks \in Cr!Tick /\ TickMod \in Nat \ {0}
      /\ list \in [CoRoutine -> {"none", "ready"} \cup Cr!Delayed]
      /\ wake \in [CoRoutine -> Cr!Tick] /\ left \in [CoRoutine -> Cr!Tick]
  BY <1>1 DEF ListsInv, ListsTyped, Cr!CoRoutinesFit
<1>4. TickMod > 1 BY <1>2, <1>3 DEF Cr!Tick
<1>5. 1 \in Cr!Tick BY <1>3, <1>4 DEF Cr!Tick
<1>6. y = TicksAfter(x, 1) /\ y \in Cr!Tick BY <1>2, <1>3, <1>5, CrModulo
<1>7. /\ y = 0 => x = TickMod - 1
      /\ y # 0 => y = x + 1
  BY <1>3, <1>6 DEF Cr!Tick, TicksAfter
<1>8. \A c \in CoRoutine : list[c] \in Cr!Delayed => left[c] > 0
  BY <1>1, <1>2, AllStillWait
<1>9. ASSUME NEW c \in CoRoutine
      PROVE  /\ list'[c] \in {"none", "ready"} \cup Cr!Delayed /\ left'[c] \in Cr!Tick
             /\ list'[c] \in Cr!Delayed <=> list[c] \in Cr!Delayed
             /\ list'[c] = "ready" <=> list[c] = "ready"
             /\ y = 0 => /\ list'[c] = "delayed" <=> list[c] = "overflow"
                         /\ list'[c] = "overflow" <=> list[c] = "delayed"
             /\ y # 0 => list'[c] = list[c]
  <2>1. list[c] \in {"none", "ready", "delayed", "overflow"} /\ left[c] \in Cr!Tick
    BY <1>3 DEF Cr!Delayed
  <2>2. left'[c] \in Cr!Tick BY <1>2, <1>3, <2>1 DEF Cr!Tick
  <2>3. CASE y # 0 BY <1>2, <2>1, <2>2, <2>3 DEF Cr!Delayed
  <2>4. CASE y = 0
    <3>1. list'[c] = CASE list[c] = "delayed" -> "overflow"
                       [] list[c] = "overflow" -> "delayed"
                       [] OTHER -> list[c]
      BY <1>2, <2>4
    <3> QED BY <2>1, <2>2, <2>4, <3>1 DEF Cr!Delayed
  <2> QED BY <2>3, <2>4
<1>10. ASSUME NEW c \in CoRoutine, list[c] \in Cr!Delayed PROVE left'[c] = left[c] - 1
  BY <1>2, <1>8, <1>10
<1>11. ListsTyped'
  <2>1. list' \in [CoRoutine -> {"none", "ready"} \cup Cr!Delayed]
    <3>1. CASE y = 0
      <4>1. PICK f : f = [c \in CoRoutine |-> CASE list[c] = "delayed" -> "overflow"
                                                [] list[c] = "overflow" -> "delayed"
                                                [] OTHER -> list[c]]
        OBVIOUS
      <4>2. list' = f BY <1>2, <3>1, <4>1, Zenon
      <4>3. DOMAIN f = CoRoutine /\ f = [c \in CoRoutine |-> f[c]] BY <4>1
      <4> QED BY <1>9, <4>2, <4>3
    <3>2. CASE y # 0 BY <1>2, <1>3, <3>2
    <3> QED BY <3>1, <3>2
  <2>2. left' \in [CoRoutine -> Cr!Tick] BY <1>2, <1>9
  <2>3. xPassedTicks' \in Cr!Tick BY <1>2, <1>3 DEF Cr!Tick
  <2> QED BY <1>1, <1>2, <1>3, <1>6, <2>1, <2>2, <2>3 DEF ListsInv, ListsTyped
<1>12. Cr!NoneOverlooked' BY <1>2, <1>9 DEF ListsInv, Cr!NoneOverlooked, Cr!On
<1>13. ASSUME NEW c \in CoRoutine
       PROVE  /\ list'[c] = "delayed" => wake[c] = y + left'[c]
              /\ list'[c] = "overflow" => wake[c] + TickMod = y + left'[c]
  <2>1. /\ wake[c] \in Nat /\ left[c] \in Nat /\ wake[c] < TickMod /\ x \in Nat
    BY <1>3 DEF Cr!Tick
  <2>2. /\ list[c] = "delayed" => wake[c] = x + left[c] /\ left'[c] = left[c] - 1 /\ left[c] > 0
        /\ list[c] = "overflow" => wake[c] + TickMod = x + left[c] /\ left'[c] = left[c] - 1
    BY <1>1, <1>8, <1>10 DEF ListsInv, Cr!DelaysKept, Cr!Delayed
  <2>3. CASE y # 0 BY <1>7, <1>9, <2>1, <2>2, <2>3
  <2>4. CASE y = 0
    <3>1. list[c] # "delayed" BY <1>3, <1>7, <2>1, <2>2, <2>4
    <3> QED BY <1>3, <1>7, <1>9, <2>1, <2>2, <2>4, <3>1
  <2> QED BY <2>3, <2>4
<1>14. Cr!DelaysKept' BY <1>1, <1>2, <1>13 DEF Cr!DelaysKept
<1>15. TicksBooked'
  <2>1. PICK k \in Cr!Tick : k + xPassedTicks < TickMod /\ x = TicksAfter(z, k)
    BY <1>1, <1>2 DEF ListsInv, TicksBooked
  <2>2. /\ k + 1 \in Cr!Tick /\ (k + 1) + (xPassedTicks - 1) < TickMod
    BY <1>2, <1>3, <2>1 DEF Cr!Tick
  <2>3. y = TicksAfter(z, k + 1) BY <1>3, <1>6, <2>1, <2>2 DEF Cr!Tick, TicksAfter
  <2>4. y # z BY <1>3, <2>2, <2>3, <2>1 DEF Cr!Tick, TicksAfter
  <2>5. \E j \in Cr!Tick : j + xPassedTicks' < TickMod /\ y = TicksAfter(z, j)
    BY <1>2, <2>2, <2>3
  <2> QED BY <1>1, <1>2, <2>4, <2>5 DEF TicksBooked, TicksAfter
<1> QED BY <1>11, <1>12, <1>14, <1>15 DEF ListsInv

LEMMA CheckedKeeps == ASSUME Cr!CoRoutinesFit, ListsInv, Cr!ListChecked PROVE ListsInv'
<1>1. /\ ListsStay /\ at' = "choose" /\ xLastTickCount' = xCoRoutineTickCount
      /\ xCoRoutineTickCount' = xCoRoutineTickCount /\ xPassedTicks' = xPassedTicks
      /\ xTickCount' = xTickCount /\ Cr!Expired = {}
  BY DEF Cr!ListChecked, ListsStay, Cr!lists
<1>2. \A c \in CoRoutine : list[c] \in Cr!Delayed => left[c] > 0 BY <1>1, AllStillWait
<1>3. ListsTyped' /\ Cr!NoneOverlooked'
  BY <1>1 DEF ListsInv, ListsTyped, Cr!NoneOverlooked, Cr!On, ListsStay
<1>4. Cr!DelaysKept' BY <1>1, <1>2 DEF ListsInv, Cr!DelaysKept, ListsStay
<1>5. TicksBooked' BY <1>1, <1>2 DEF TicksBooked, ListsStay
<1> QED BY <1>3, <1>4, <1>5 DEF ListsInv

LEMMA ChooseKeeps ==
  ASSUME Cr!CoRoutinesFit, ListsInv, Cr!Choose
  PROVE  /\ ListsInv'
         /\ \/ at' = "out" /\ pxCurrentCoRoutine' = pxCurrentCoRoutine
            \/ /\ at' = "run" /\ pxCurrentCoRoutine' \in CoRoutine
               /\ list'[pxCurrentCoRoutine'] = "ready"
<1>1. PICK found : found = {p \in 0..uxTopCoRoutineReadyPriority :
                              \E c \in Cr!On("ready") : uxPriority[c] = p}
  OBVIOUS
<1>2. /\ at = "choose" /\ list' = list /\ wake' = wake /\ left' = left /\ TicksStay
      /\ \/ /\ found = {} /\ at' = "out" /\ pxCurrentCoRoutine' = pxCurrentCoRoutine
            /\ uxTopCoRoutineReadyPriority' = 0
         \/ \E p \in found, c \in Cr!On("ready") :
              /\ \A q \in found : q <= p
              /\ uxTopCoRoutineReadyPriority' = p
              /\ pxCurrentCoRoutine' = c /\ at' = "run"
  BY <1>1 DEF Cr!Choose, Cr!Step, TicksStay, Cr!ticks
<1>3. \A c \in Cr!On("ready") : uxPriority[c] \in found
  BY <1>1 DEF ListsInv, ListsTyped, Cr!NoneOverlooked, Cr!CoRoutinesFit, Cr!On
<1>4. /\ uxTopCoRoutineReadyPriority' \in Nat
      /\ \A c \in Cr!On("ready") : uxPriority[c] <= uxTopCoRoutineReadyPriority'
  BY <1>1, <1>2, <1>3 DEF ListsInv, ListsTyped
<1>5. ListsTyped' /\ Cr!NoneOverlooked'
  BY <1>2, <1>4 DEF ListsInv, ListsTyped, Cr!NoneOverlooked, Cr!On, TicksStay
<1>6. at' # "expire" /\ at # "expire" BY <1>2
<1>7. Cr!DelaysKept' BY <1>2, <1>6 DEF ListsInv, Cr!DelaysKept, TicksStay
<1>8. TicksBooked' BY <1>2, <1>6 DEF ListsInv, TicksBooked, TicksStay
<1> QED BY <1>2, <1>5, <1>7, <1>8 DEF ListsInv, Cr!On

LEMMA TickKeeps == ASSUME Cr!CoRoutinesFit, ListsInv, Cr!TickInterrupt PROVE ListsInv'
<1>1. /\ ListsStay /\ at' = at /\ xCoRoutineTickCount' = xCoRoutineTickCount
      /\ xLastTickCount' = xLastTickCount /\ xPassedTicks' = xPassedTicks
      /\ xTickCount' = (xTickCount + 1) % TickMod
  BY DEF Cr!TickInterrupt, ListsStay, Cr!lists
<1>2. xTickCount' \in Cr!Tick
  <2>1. PICK m \in Nat \ {0}, x \in Nat : m = TickMod /\ x = xTickCount + 1
    BY DEF Cr!CoRoutinesFit, ListsInv, ListsTyped, Cr!Tick
  <2>2. x % m \in 0..m - 1 OBVIOUS
  <2> QED BY <1>1, <2>1, <2>2 DEF Cr!Tick
<1>3. ListsTyped' /\ Cr!NoneOverlooked'
  BY <1>1, <1>2 DEF ListsInv, ListsTyped, Cr!NoneOverlooked, Cr!On, ListsStay
<1>4. Cr!DelaysKept' BY <1>1 DEF ListsInv, Cr!DelaysKept, ListsStay
<1>5. TicksBooked' BY <1>1 DEF ListsInv, TicksBooked, ListsStay, TicksAfter
<1> QED BY <1>3, <1>4, <1>5 DEF ListsInv

--------------------
\* The queue and those that wait for it.

LEMMA Finite ==
  ASSUME Cr!CoRoutinesFit, NEW S \in SUBSET CoRoutine
  PROVE  IsFiniteSet(S) /\ Cardinality(S) \in Nat
BY SameFinite, FS_Subset, FS_CardinalityType DEF Cr!CoRoutinesFit

LEMMA Sides ==
  /\ "send" \in Side /\ "receive" \in Side
  /\ \A s \in Side : /\ Cr!Again[s] \in {"send0", "receive0"} /\ Cr!Opposite(s) \in Side
                     /\ Cr!Opposite(s) # s
                     /\ \A u \in Side : u # s => u = Cr!Opposite(s) /\ Cr!Again[u] # Cr!Again[s]
BY DEF Side, Cr!Again, Cr!Opposite

\* Who was passed over is noted as long as somebody waits.
PassedNoted(s) == Cr!Waiting(s)' # {} /\ s \in passedOver => s \in passedOver'

LEMMA AmountType ==
  ASSUME Cr!CoRoutinesFit, QueueTyped, NEW s \in Side
  PROVE  Amount(s) \in Nat
BY DEF Cr!CoRoutinesFit, QueueTyped, Amount

LEMMA AmountNext ==
  ASSUME Cr!CoRoutinesFit, QueueTyped', NEW s \in Side
  PROVE  Amount(s)' \in Nat
<1>1. uxMessagesWaiting' \in 0..uxLength /\ uxLength \in Nat
  BY DEF Cr!CoRoutinesFit, QueueTyped
<1>2. uxMessagesWaiting' \in Nat /\ uxLength - uxMessagesWaiting' \in Nat
  <2>1. PICK n : n = uxMessagesWaiting' OBVIOUS
  <2>2. n \in 0..uxLength /\ uxLength \in Nat BY <1>1, <2>1
  <2>3. n \in Nat /\ uxLength - n \in Nat BY <2>2
  <2> QED BY <2>1, <2>3, Zenon
<1>3. Amount(s)' = IF s = "receive" THEN uxMessagesWaiting'
                   ELSE uxLength - uxMessagesWaiting'
  BY DEF Amount
<1> QED BY <1>2, <1>3, Zenon

\* It is enough that not more is left than were before for whom it is.
LEMMA CoverStays ==
  ASSUME Cr!CoRoutinesFit, QueueTyped, QueueTyped', NEW s \in Side, Covered(s),
         Amount(s)' <= Amount(s), Cr!OnItsWay(s) \subseteq Cr!OnItsWay(s)',
         Cr!Waiting(s)' \subseteq Cr!Waiting(s), PassedNoted(s)
  PROVE  Covered(s)'
<1>1. PICK A, B, m, n : A = Cr!OnItsWay(s) /\ B = Cr!OnItsWay(s)' /\ m = Amount(s) /\ n = Amount(s)'
  OBVIOUS
<1>2. A \in SUBSET CoRoutine /\ B \in SUBSET CoRoutine /\ A \subseteq B
  BY <1>1 DEF Cr!OnItsWay
<1>3. IsFiniteSet(B) /\ Cardinality(A) \in Nat /\ Cardinality(B) \in Nat BY <1>2, Finite
<1>4. Cardinality(A) <= Cardinality(B) BY <1>2, <1>3, FS_Subset
<1>5. m \in Nat /\ n \in Nat /\ n <= m
  <2>1. Amount(s) \in Nat BY AmountType
  <2>2. Amount(s)' \in Nat BY AmountNext
  <2> QED BY <1>1, <2>1, <2>2
<1>6. ASSUME Cr!Waiting(s)' # {}, s \notin passedOver' PROVE n <= Cardinality(B)
  <2>1. Cr!Waiting(s) # {} /\ s \notin passedOver BY <1>6 DEF PassedNoted
  <2>2. m <= Cardinality(A) BY <1>1, <2>1 DEF Covered
  <2> QED BY <1>3, <1>4, <1>5, <2>2
<1> QED BY <1>1, <1>6 DEF Covered

\* One more, and one more to whom it goes.
LEMMA CoverGrows ==
  ASSUME Cr!CoRoutinesFit, QueueTyped, QueueTyped', NEW s \in Side, Covered(s),
         Amount(s)' = Amount(s) + 1, NEW d \in CoRoutine, d \notin Cr!OnItsWay(s),
         Cr!OnItsWay(s) \cup {d} \subseteq Cr!OnItsWay(s)',
         Cr!Waiting(s)' \subseteq Cr!Waiting(s), PassedNoted(s)
  PROVE  Covered(s)'
<1>1. PICK A, B, m, n : A = Cr!OnItsWay(s) /\ B = Cr!OnItsWay(s)' /\ m = Amount(s) /\ n = Amount(s)'
  OBVIOUS
<1>2. A \in SUBSET CoRoutine /\ B \in SUBSET CoRoutine /\ A \cup {d} \in SUBSET B /\ d \notin A
  BY <1>1 DEF Cr!OnItsWay
<1>3. IsFiniteSet(A) /\ IsFiniteSet(B) /\ Cardinality(A) \in Nat /\ Cardinality(B) \in Nat
  BY <1>2, Finite
<1>4. Cardinality(A \cup {d}) = Cardinality(A) + 1 BY <1>2, <1>3, FS_AddElement
<1>5. Cardinality(A \cup {d}) <= Cardinality(B) BY <1>2, <1>3, FS_Subset
<1>6. m \in Nat /\ n = m + 1 BY <1>1, AmountType
<1>7. ASSUME Cr!Waiting(s)' # {}, s \notin passedOver' PROVE n <= Cardinality(B)
  <2>1. Cr!Waiting(s) # {} /\ s \notin passedOver BY <1>7 DEF PassedNoted
  <2>2. m <= Cardinality(A) BY <1>1, <2>1 DEF Covered
  <2> QED BY <1>3, <1>4, <1>5, <1>6, <2>2
<1> QED BY <1>1, <1>7 DEF Covered

\* One less, taken by one for whom it may have been.
LEMMA CoverShrinks ==
  ASSUME Cr!CoRoutinesFit, QueueTyped, QueueTyped', NEW s \in Side, Covered(s),
         Amount(s)' = Amount(s) - 1, NEW d \in CoRoutine,
         Cr!OnItsWay(s) \ {d} \subseteq Cr!OnItsWay(s)',
         Cr!Waiting(s)' \subseteq Cr!Waiting(s), PassedNoted(s)
  PROVE  Covered(s)'
<1>1. PICK A, B, m, n : A = Cr!OnItsWay(s) /\ B = Cr!OnItsWay(s)' /\ m = Amount(s) /\ n = Amount(s)'
  OBVIOUS
<1>2. A \in SUBSET CoRoutine /\ B \in SUBSET CoRoutine /\ A \ {d} \in SUBSET B
  BY <1>1 DEF Cr!OnItsWay
<1>3. IsFiniteSet(A) /\ IsFiniteSet(B) /\ Cardinality(A) \in Nat /\ Cardinality(B) \in Nat
  BY <1>2, Finite
<1>4. Cardinality(A \ {d}) = IF d \in A THEN Cardinality(A) - 1 ELSE Cardinality(A)
  BY <1>3, FS_RemoveElement
<1>5. Cardinality(A \ {d}) <= Cardinality(B) BY <1>2, <1>3, FS_Subset
<1>6. m \in Nat /\ n = m - 1 BY <1>1, AmountType
<1>7. ASSUME Cr!Waiting(s)' # {}, s \notin passedOver' PROVE n <= Cardinality(B)
  <2>1. Cr!Waiting(s) # {} /\ s \notin passedOver BY <1>7 DEF PassedNoted
  <2>2. m <= Cardinality(A) BY <1>1, <2>1 DEF Covered
  <2> QED BY <1>3, <1>4, <1>5, <1>6, <2>2
<1> QED BY <1>1, <1>7 DEF Covered

\* Nothing is left.
LEMMA CoverOfNone ==
  ASSUME Cr!CoRoutinesFit, NEW s \in Side, Amount(s)' = 0
  PROVE  Covered(s)'
<1>1. PICK B : B = Cr!OnItsWay(s)' OBVIOUS
<1>2. B \in SUBSET CoRoutine BY <1>1 DEF Cr!OnItsWay
<1>3. Cardinality(B) \in Nat BY <1>2, Finite
<1> QED BY <1>1, <1>3 DEF Covered

\* Who waits, and for what there is, stays.
QueueStays == /\ uxMessagesWaiting' = uxMessagesWaiting /\ event' = event
              /\ passedOver' = passedOver

LEMMA CoverSame ==
  ASSUME QueueInv, QueueStays, NEW s \in Side,
         \A c \in CoRoutine : uxState[c] = Cr!Again[s] => uxState'[c] = Cr!Again[s]
  PROVE  Cr!CoRoutinesFit /\ QueueTyped' => Covered(s)'
<1>1. Covered(s) /\ QueueTyped BY DEF QueueInv
<1>2. Amount(s)' = Amount(s) /\ Cr!Waiting(s)' = Cr!Waiting(s) /\ PassedNoted(s)
  BY DEF QueueStays, Amount, Cr!Waiting, PassedNoted
<1>3. Cr!OnItsWay(s) \subseteq Cr!OnItsWay(s)' BY DEF QueueStays, Cr!OnItsWay
<1>4. ASSUME Cr!CoRoutinesFit, QueueTyped' PROVE Covered(s)'
  <2>1. Amount(s) \in Nat BY <1>1, <1>4, AmountType
  <2>2. Amount(s)' <= Amount(s) BY <1>2, <2>1
  <2> QED BY <1>1, <1>2, <1>3, <1>4, <2>2, CoverStays
<1> QED BY <1>4

LEMMA QueueKeeps ==
  ASSUME Cr!CoRoutinesFit, QueueInv, QueueStays, uxState' = uxState, QueueTyped', CurrentBooked',
         \A c \in CoRoutine : event[c] # "none" => list'[c] \in Cr!Delayed
  PROVE  QueueInv'
<1>1. EventsBooked' BY DEF QueueInv, EventsBooked, EventBooked, QueueStays
<1>2. ASSUME NEW s \in Side PROVE Covered(s)' BY <1>2, CoverSame
<1> QED BY <1>1, <1>2 DEF QueueInv

--------------------
\* What each step does to it.

LEMMA CreateKeeps ==
  ASSUME Cr!CoRoutinesFit, CrInv, NEW c \in CoRoutine, Cr!xCoRoutineCreate(c)
  PROVE  CrInv'
<1>1. /\ at = "out" /\ at' = at /\ list[c] = "none" /\ Cr!AddToReady(c) /\ TicksStay
      /\ QueueStays /\ uxState' = uxState /\ isr' = isr
      /\ pxCurrentCoRoutine' = IF pxCurrentCoRoutine = Cr!Nobody THEN c ELSE pxCurrentCoRoutine
  BY DEF Cr!xCoRoutineCreate, Cr!Step, TicksStay, QueueStays, Cr!ticks, Cr!queue
<1>2. ListsInv' /\ list' = [list EXCEPT ![c] = "ready"] BY <1>1, ReadyKeeps DEF CrInv
<1>3. QueueTyped' BY <1>1 DEF CrInv, QueueInv, QueueTyped, QueueStays
<1>4. CurrentBooked' BY <1>1 DEF CurrentBooked
<1>5. \A d \in CoRoutine : event[d] # "none" => list'[d] \in Cr!Delayed
  <2>1. list \in [CoRoutine -> {"none", "ready"} \cup Cr!Delayed] /\ "none" \notin Cr!Delayed
    BY DEF CrInv, ListsInv, ListsTyped, Cr!Delayed
  <2>2. \A d \in CoRoutine : event[d] # "none" => list[d] \in Cr!Delayed
    BY DEF CrInv, QueueInv, EventsBooked, EventBooked
  <2> QED BY <1>1, <1>2, <2>1, <2>2
<1> QED BY <1>1, <1>2, <1>3, <1>4, <1>5, QueueKeeps DEF CrInv

\* Steps of the scheduler, and of the tick, that concern the lists only.
LEMMA ScheduleKeeps ==
  ASSUME Cr!CoRoutinesFit, CrInv,
         \/ Cr!vCoRoutineSchedule \/ Cr!prvCheckDelayedList \/ Cr!CountTick \/ Cr!ListChecked
         \/ Cr!Choose \/ Cr!Interrupt \/ Cr!InterruptEnds \/ Cr!TickInterrupt
  PROVE  CrInv'
<1>1. ListsInv' /\ \A d \in CoRoutine : list[d] \in Cr!Delayed => list'[d] \in Cr!Delayed
  <2>1. CASE Cr!vCoRoutineSchedule \/ Cr!Interrupt \/ Cr!InterruptEnds
    <3>1. /\ ListsStay /\ TicksStay
          /\ at' = at \/ (at # "expire" /\ at' # "expire")
      BY <2>1 DEF Cr!vCoRoutineSchedule, Cr!Interrupt, Cr!InterruptEnds, Cr!Step,
         ListsStay, TicksStay, Cr!lists, Cr!ticks
    <3> QED BY <3>1, StayKeeps DEF CrInv, ListsStay
  <2>2. CASE Cr!prvCheckDelayedList
    BY <2>2, CheckKeeps DEF CrInv, Cr!prvCheckDelayedList, Cr!lists
  <2>3. CASE Cr!CountTick
    <3>1. ListsInv' BY <2>3, CountKeeps DEF CrInv
    <3>2. ASSUME NEW d \in CoRoutine, list[d] \in Cr!Delayed PROVE list'[d] \in Cr!Delayed
      <4>1. CASE xCoRoutineTickCount' = 0
        <5>1. list'[d] = CASE list[d] = "delayed" -> "overflow"
                           [] list[d] = "overflow" -> "delayed"
                           [] OTHER -> list[d]
          BY <2>3, <4>1 DEF Cr!CountTick
        <5> QED BY <3>2, <5>1 DEF Cr!Delayed
      <4>2. CASE xCoRoutineTickCount' # 0 BY <2>3, <3>2, <4>2 DEF Cr!CountTick
      <4> QED BY <4>1, <4>2
    <3> QED BY <3>1, <3>2
  <2>4. CASE Cr!ListChecked BY <2>4, CheckedKeeps DEF CrInv, Cr!ListChecked, Cr!lists
  <2>5. CASE Cr!Choose BY <2>5, ChooseKeeps DEF CrInv, Cr!Choose
  <2>6. CASE Cr!TickInterrupt BY <2>6, TickKeeps DEF CrInv, Cr!TickInterrupt, Cr!lists
  <2> QED BY <2>1, <2>2, <2>3, <2>4, <2>5, <2>6
<1>2. QueueStays /\ uxState' = uxState
  BY DEF Cr!vCoRoutineSchedule, Cr!prvCheckDelayedList, Cr!CountTick,
     Cr!ListChecked, Cr!Choose, Cr!Interrupt, Cr!InterruptEnds, Cr!TickInterrupt,
     QueueStays, Cr!queue
<1>3. \A d \in CoRoutine : event[d] # "none" => list'[d] \in Cr!Delayed
  BY <1>1 DEF CrInv, QueueInv, EventsBooked, EventBooked
<1>4. QueueTyped' /\ CurrentBooked'
  <2>1. QueueTyped /\ CurrentBooked BY DEF CrInv, QueueInv
  <2>2. CASE Cr!Choose
    <3>1. /\ at = "choose" /\ isr' = isr
          /\ \/ at' = "out" /\ pxCurrentCoRoutine' = pxCurrentCoRoutine
             \/ /\ at' = "run" /\ pxCurrentCoRoutine' \in CoRoutine
                /\ list'[pxCurrentCoRoutine'] = "ready"
      BY <2>2, ChooseKeeps DEF CrInv, Cr!Choose, Cr!Step
    <3>2. QueueTyped' BY <1>2, <2>1, <3>1 DEF QueueTyped, QueueStays
    <3>3. CurrentBooked' BY <3>1 DEF CurrentBooked
    <3> QED BY <3>2, <3>3
  <2>3. CASE Cr!vCoRoutineSchedule
    <3>1. /\ at' = "pending" /\ isr' = isr /\ pxCurrentCoRoutine' = pxCurrentCoRoutine
          /\ pxCurrentCoRoutine # Cr!Nobody
      BY <2>3 DEF Cr!vCoRoutineSchedule
    <3> QED BY <1>2, <2>1, <3>1 DEF QueueTyped, QueueStays, CurrentBooked
  <2>4. CASE Cr!prvCheckDelayedList \/ Cr!CountTick \/ Cr!ListChecked
    <3>1. /\ at \in {"delayed", "expire"} /\ at' \in {"expire", "choose"} /\ isr' = isr
          /\ pxCurrentCoRoutine' = pxCurrentCoRoutine
      BY <2>4 DEF Cr!prvCheckDelayedList, Cr!CountTick, Cr!ListChecked, Cr!Step
    <3> QED BY <1>2, <2>1, <3>1 DEF QueueTyped, QueueStays, CurrentBooked
  <2>5. CASE Cr!Interrupt \/ Cr!InterruptEnds \/ Cr!TickInterrupt
    <3>1. /\ at' = at /\ isr' \in {"none", "fresh", "woken"} /\ list' = list
          /\ pxCurrentCoRoutine' = pxCurrentCoRoutine
      BY <2>1, <2>5 DEF Cr!Interrupt, Cr!InterruptEnds, Cr!TickInterrupt,
         QueueTyped, Cr!lists
    <3> QED BY <1>2, <2>1, <3>1 DEF QueueTyped, QueueStays, CurrentBooked
  <2> QED BY <2>2, <2>3, <2>4, <2>5
<1> QED BY <1>1, <1>2, <1>3, <1>4, QueueKeeps DEF CrInv

\* One that was woken, or whose time is over, becomes ready.
LEMMA LeaveKeeps ==
  ASSUME Cr!CoRoutinesFit, CrInv, NEW c \in CoRoutine, Cr!AddToReady(c), TicksStay,
         event' = [event EXCEPT ![c] = "none"],
         (passedOver' = passedOver) \/ Cr!NoteOverlooked,
         at \in {"pending", "expire"}, at' = at, uxMessagesWaiting' = uxMessagesWaiting,
         uxState' = uxState, pxCurrentCoRoutine' = pxCurrentCoRoutine, isr' = isr
  PROVE  CrInv'
<1>1. ListsInv' /\ list' = [list EXCEPT ![c] = "ready"] BY ReadyKeeps DEF CrInv
<1>2. QueueTyped /\ CurrentBooked /\ EventsBooked BY DEF CrInv, QueueInv
<1>3. /\ event \in [CoRoutine -> {"none", "send", "receive", "pending"}]
      /\ list \in [CoRoutine -> {"none", "ready"} \cup Cr!Delayed]
  BY <1>2 DEF QueueTyped, CrInv, ListsInv, ListsTyped
<1>4. /\ event'[c] = "none" /\ \A d \in CoRoutine \ {c} : event'[d] = event[d]
      /\ event' \in [CoRoutine -> {"none", "send", "receive", "pending"}]
      /\ list'[c] = "ready" /\ \A d \in CoRoutine \ {c} : list'[d] = list[d]
  BY <1>1, <1>3
<1>5. passedOver' \subseteq Side BY <1>2 DEF QueueTyped, Cr!NoteOverlooked
<1>6. QueueTyped' BY <1>2, <1>4, <1>5 DEF QueueTyped
<1>7. CurrentBooked' BY <1>2 DEF CurrentBooked
<1>8. EventsBooked' BY <1>2, <1>4 DEF EventsBooked, EventBooked
<1>9. ASSUME NEW s \in Side PROVE Covered(s)'
  <2>1. Covered(s) /\ Amount(s) \in Nat /\ s # "none"
    BY <1>2, AmountType DEF CrInv, QueueInv, Side
  <2>2. Amount(s)' <= Amount(s) BY <2>1 DEF Amount
  <2>3. Cr!OnItsWay(s) \subseteq Cr!OnItsWay(s)' BY <1>4, <2>1 DEF Cr!OnItsWay
  <2>4. Cr!Waiting(s)' \subseteq Cr!Waiting(s) BY <1>4, <2>1 DEF Cr!Waiting
  <2>5. PassedNoted(s) BY DEF PassedNoted, Cr!NoteOverlooked, Cr!Waiting
  <2> QED BY <1>2, <1>6, <2>1, <2>2, <2>3, <2>4, <2>5, CoverStays
<1> QED BY <1>1, <1>6, <1>7, <1>8, <1>9 DEF CrInv, QueueInv

--------------------
\* What the co-routine that runs does.

\* A step of one that goes on, in which nobody is woken and nothing moves.
LEMMA RunKeeps ==
  ASSUME Cr!CoRoutinesFit, CrInv, at \in {"run", "send", "receive"}, QueueStays, ListsInv', isr' = isr,
         NEW state \in {"op", "yielded"},
         \/ uxState' = uxState
         \/ uxState' = [uxState EXCEPT ![pxCurrentCoRoutine] = state],
         at' \in {"out", "run"} \/ (at' \in Side /\ uxState' = uxState
                                    /\ uxState[pxCurrentCoRoutine] \in {"op", Cr!Again[at']}),
         at' # "out" => list' = list,
         \A d \in CoRoutine \ {pxCurrentCoRoutine} : list'[d] = list[d],
         pxCurrentCoRoutine' = pxCurrentCoRoutine,
         \A s \in Side : uxState[pxCurrentCoRoutine] = Cr!Again[s] =>
                           uxState' = uxState \/ Amount(s) = 0
  PROVE  CrInv'
<1>1. PICK p \in CoRoutine : p = pxCurrentCoRoutine BY DEF CrInv, QueueInv, CurrentBooked
<1>2. /\ QueueTyped /\ CurrentBooked /\ EventsBooked /\ list[p] = "ready" /\ event[p] = "none"
  BY <1>1 DEF CrInv, QueueInv, CurrentBooked, EventsBooked, EventBooked, Cr!Delayed
<1>3. /\ uxState \in [CoRoutine -> {"op", "send0", "receive0", "yielded"}]
      /\ uxState' \in [CoRoutine -> {"op", "send0", "receive0", "yielded"}]
      /\ \A d \in CoRoutine \ {p} : uxState'[d] = uxState[d]
  BY <1>1, <1>2 DEF QueueTyped
<1>4. QueueTyped' BY <1>2, <1>3 DEF QueueTyped, QueueStays, Side
<1>5. CurrentBooked' BY <1>1, <1>2 DEF CurrentBooked, Side
<1>6. EventsBooked' BY <1>1, <1>2, <1>3 DEF EventsBooked, EventBooked, QueueStays
<1>7. ASSUME NEW s \in Side PROVE Covered(s)'
  <2>1. CASE \A c \in CoRoutine : uxState[c] = Cr!Again[s] => uxState'[c] = Cr!Again[s]
    BY <1>4, <2>1, CoverSame DEF CrInv
  <2>2. CASE uxState[p] = Cr!Again[s] /\ uxState' # uxState
    <3>1. Amount(s)' = 0 BY <1>1, <2>2 DEF Amount, QueueStays
    <3> QED BY <3>1, CoverOfNone
  <2> QED BY <1>3, <2>1, <2>2
<1> QED BY <1>4, <1>5, <1>6, <1>7 DEF CrInv, QueueInv

LEMMA DelayKeeps ==
  ASSUME Cr!CoRoutinesFit, CrInv, NEW n \in Delays \cup {0}, Cr!crDELAY(n)
  PROVE  CrInv'
<1>1. /\ at = "run" /\ at' = "out" /\ QueueStays /\ TicksStay /\ isr' = isr
      /\ pxCurrentCoRoutine' = pxCurrentCoRoutine
      /\ uxState[pxCurrentCoRoutine] = "op"
      /\ uxState' = [uxState EXCEPT ![pxCurrentCoRoutine] = "op"]
  BY DEF Cr!crDELAY, Cr!Step, Cr!Returns, QueueStays, TicksStay, Cr!queue, Cr!ticks
<1>2. pxCurrentCoRoutine \in CoRoutine BY <1>1 DEF CrInv, QueueInv, CurrentBooked
<1>3. ListsInv' /\ \A d \in CoRoutine \ {pxCurrentCoRoutine} : list'[d] = list[d]
  <2>1. CASE n > 0
    <3>1. n \in Delays /\ Cr!AddToDelayedList(n) BY <2>1 DEF Cr!crDELAY
    <3> QED BY <1>1, <1>2, <2>1, <3>1, DelayedKeeps DEF CrInv
  <2>2. CASE ~(n > 0)
    <3>1. ListsStay BY <2>2 DEF Cr!crDELAY, ListsStay, Cr!lists
    <3> QED BY <1>1, <3>1, StayKeeps DEF CrInv, ListsStay
  <2> QED BY <2>1, <2>2
<1>4. \A s \in Side : uxState[pxCurrentCoRoutine] # Cr!Again[s] BY <1>1, Sides
<1> QED BY <1>1, <1>3, <1>4, RunKeeps

LEMMA GoesOnKeeps == ASSUME Cr!CoRoutinesFit, CrInv, Cr!GoesOn PROVE CrInv'
<1>1. /\ at = "run" /\ at' = "run" /\ QueueStays /\ TicksStay /\ ListsStay /\ isr' = isr
      /\ pxCurrentCoRoutine' = pxCurrentCoRoutine
      /\ uxState[pxCurrentCoRoutine] = "yielded"
      /\ uxState' = [uxState EXCEPT ![pxCurrentCoRoutine] = "op"]
  BY DEF Cr!GoesOn, Cr!Step, QueueStays, TicksStay, ListsStay, Cr!queue, Cr!ticks,
     Cr!lists
<1>2. ListsInv' /\ list' = list BY <1>1, StayKeeps DEF CrInv, ListsStay
<1>3. \A s \in Side : uxState[pxCurrentCoRoutine] # Cr!Again[s] BY <1>1, Sides
<1> QED BY <1>1, <1>2, <1>3, RunKeeps

\* Nothing left for a side is that it is not ready.
LEMMA NotReady ==
  ASSUME Cr!CoRoutinesFit, QueueTyped, NEW s \in Side
  PROVE  Cr!Ready(s) <=> Amount(s) > 0
BY DEF Cr!CoRoutinesFit, QueueTyped, Side, Cr!Ready, Amount

\* It waits: nothing is left for its side.
LEMMA WaitKeeps ==
  ASSUME Cr!CoRoutinesFit, CrInv, NEW s \in Side, NEW n \in Delays, n > 0, ~Cr!Ready(s),
         at = "run", uxState[pxCurrentCoRoutine] = "op", TicksStay, isr' = isr,
         Cr!AddToDelayedList(n), event' = [event EXCEPT ![pxCurrentCoRoutine] = s],
         uxState' = [uxState EXCEPT ![pxCurrentCoRoutine] = Cr!Again[s]], at' = "out",
         uxMessagesWaiting' = uxMessagesWaiting, passedOver' = passedOver,
         pxCurrentCoRoutine' = pxCurrentCoRoutine
  PROVE  CrInv'
<1>1. PICK p \in CoRoutine : p = pxCurrentCoRoutine BY DEF CrInv, QueueInv, CurrentBooked
<1>2. QueueTyped /\ CurrentBooked /\ EventsBooked BY DEF CrInv, QueueInv
<1>3. /\ ListsInv' /\ list'[p] \in Cr!Delayed
      /\ \A d \in CoRoutine \ {p} : list'[d] = list[d]
  BY <1>1, DelayedKeeps DEF CrInv
<1>4. /\ uxState \in [CoRoutine -> {"op", "send0", "receive0", "yielded"}]
      /\ event \in [CoRoutine -> {"none", "send", "receive", "pending"}]
      /\ Cr!Again[s] \in {"send0", "receive0"} /\ s \in {"send", "receive"}
  BY <1>2, Sides DEF QueueTyped, Side
<1>5. /\ uxState' \in [CoRoutine -> {"op", "send0", "receive0", "yielded"}]
      /\ event' \in [CoRoutine -> {"none", "send", "receive", "pending"}]
      /\ uxState'[p] = Cr!Again[s] /\ event'[p] = s
      /\ \A d \in CoRoutine \ {p} : uxState'[d] = uxState[d] /\ event'[d] = event[d]
  BY <1>1, <1>4
<1>6. QueueTyped' BY <1>2, <1>5 DEF QueueTyped
<1>7. CurrentBooked' BY <1>1 DEF CurrentBooked
<1>8. EventsBooked' BY <1>2, <1>3, <1>5 DEF EventsBooked, EventBooked
<1>9. Covered(s)'
  <2>1. Amount(s) = 0 BY <1>2, NotReady, AmountType
  <2>2. Amount(s)' = 0 BY <2>1 DEF Amount
  <2> QED BY <2>2, CoverOfNone
<1>10. ASSUME NEW u \in Side, u # s PROVE Covered(u)'
  <2>1. Covered(u) /\ Amount(u) \in Nat BY <1>2, AmountType DEF CrInv, QueueInv
  <2>2. Amount(u)' <= Amount(u) BY <2>1 DEF Amount
  <2>3. Cr!Again[u] # "op" BY Sides
  <2>4. Cr!OnItsWay(u) \subseteq Cr!OnItsWay(u)'
    BY <1>1, <1>5, <1>10, <2>3 DEF Cr!OnItsWay
  <2>5. Cr!Waiting(u)' \subseteq Cr!Waiting(u) BY <1>5, <1>10 DEF Cr!Waiting
  <2>6. PassedNoted(u) BY DEF PassedNoted
  <2> QED BY <1>2, <1>6, <2>1, <2>2, <2>4, <2>5, <2>6, CoverStays
<1> QED BY <1>3, <1>6, <1>7, <1>8, <1>9, <1>10 DEF CrInv, QueueInv

LEMMA BeginKeeps ==
  ASSUME Cr!CoRoutinesFit, CrInv, NEW n \in Delays \cup {0}, NEW s \in Side, Cr!Begin(s, n)
  PROVE  CrInv'
<1>1. /\ at = "run" /\ TicksStay /\ isr' = isr /\ pxCurrentCoRoutine' = pxCurrentCoRoutine
      /\ uxMessagesWaiting' = uxMessagesWaiting /\ passedOver' = passedOver
      /\ \/ uxState[pxCurrentCoRoutine] = "op"
         \/ uxState[pxCurrentCoRoutine] = Cr!Again[s] /\ n = 0
  BY DEF Cr!Begin, Cr!Step, TicksStay, Cr!ticks
<1>2. CASE Cr!Ready(s) /\ at' = s /\ UNCHANGED <<Cr!lists, event, uxState>>
  <2>1. ListsStay /\ QueueStays /\ at # "expire" /\ at' # "expire"
    BY <1>1, <1>2 DEF ListsStay, QueueStays, Cr!lists, Side
  <2>2. ListsInv' /\ list' = list BY <1>1, <2>1, StayKeeps DEF CrInv, ListsStay
  <2> QED BY <1>1, <1>2, <2>1, <2>2, RunKeeps
<1>3. CASE /\ ~Cr!Ready(s) /\ n > 0 /\ Cr!AddToDelayedList(n)
           /\ event' = [event EXCEPT ![pxCurrentCoRoutine] = s] /\ Cr!Returns(Cr!Again[s])
  <2>1. n \in Delays /\ uxState[pxCurrentCoRoutine] = "op" BY <1>1, <1>3
  <2> QED BY <1>1, <1>3, <2>1, WaitKeeps DEF Cr!Returns
<1>4. CASE /\ ~Cr!Ready(s) /\ uxState' = [uxState EXCEPT ![pxCurrentCoRoutine] = "op"]
           /\ UNCHANGED <<Cr!lists, event, at>>
  <2>1. ListsStay /\ QueueStays /\ at' = "run"
    BY <1>1, <1>4 DEF ListsStay, QueueStays, Cr!lists
  <2>2. ListsInv' /\ list' = list BY <1>1, <2>1, StayKeeps DEF CrInv, ListsStay
  <2>3. Amount(s) = 0 BY <1>4, NotReady, AmountType DEF CrInv, QueueInv
  <2>4. ASSUME NEW u \in Side, uxState[pxCurrentCoRoutine] = Cr!Again[u] PROVE Amount(u) = 0
    <3>1. u = s BY <1>1, <2>4, Sides
    <3> QED BY <2>3, <3>1
  <2> QED BY <1>1, <1>4, <2>1, <2>2, <2>4, RunKeeps
<1> QED BY <1>2, <1>3, <1>4 DEF Cr!Begin

--------------------
\* What goes through the queue, and who is woken.

LEMMA MovesAmount ==
  ASSUME Cr!CoRoutinesFit, QueueTyped, NEW s \in Side, Cr!Ready(s), Cr!Moves(s)
  PROVE  /\ uxMessagesWaiting' \in 0..uxLength
         /\ Amount(s)' = Amount(s) - 1
         /\ Amount(Cr!Opposite(s))' = Amount(Cr!Opposite(s)) + 1
<1>1. PICK m, n, l : m = uxMessagesWaiting /\ n = uxMessagesWaiting' /\ l = uxLength
  OBVIOUS
<1>2. m \in 0..l /\ l \in Nat BY <1>1 DEF Cr!CoRoutinesFit, QueueTyped
<1>3. CASE s = "send"
  <2>1. m < l /\ n = m + 1 /\ Cr!Opposite(s) = "receive"
    BY <1>1, <1>3 DEF Cr!Ready, Cr!Moves, Cr!Opposite
  <2>2. n \in 0..l /\ l - n = (l - m) - 1 BY <1>2, <2>1
  <2>3. /\ Amount(s) = l - m /\ Amount(s)' = l - n
        /\ Amount("receive") = m /\ Amount("receive")' = n
    BY <1>1, <1>3 DEF Amount
  <2> QED BY <1>1, <2>1, <2>2, <2>3
<1>4. CASE s = "receive"
  <2>1. m > 0 /\ n = m - 1 /\ Cr!Opposite(s) = "send"
    BY <1>1, <1>4 DEF Cr!Ready, Cr!Moves, Cr!Opposite
  <2>2. n \in 0..l /\ l - n = (l - m) + 1 BY <1>2, <2>1
  <2>3. /\ Amount(s) = m /\ Amount(s)' = n
        /\ Amount("send") = l - m /\ Amount("send")' = l - n
    BY <1>1, <1>4 DEF Amount
  <2> QED BY <1>1, <2>1, <2>2, <2>3
<1> QED BY <1>3, <1>4 DEF Side

\* Who is told: one that waits for the other side, if any, or it is passed over.
Told(s) ==
  \/ event' = event /\ Cr!Waiting(Cr!Opposite(s)) = {} /\ passedOver' = passedOver
  \/ \E c \in CoRoutine : Cr!Wakes(s, c)
  \/ event' = event /\ passedOver' = passedOver \cup {Cr!Opposite(s)}

\* Of those that changed where they go on there is at most one, which did not wait.
OneWentOn(s) ==
  \/ uxState' = uxState
  \/ \E p \in CoRoutine : /\ event[p] = "none" /\ uxState[p] # Cr!Again[Cr!Opposite(s)]
                          /\ \A d \in CoRoutine \ {p} : uxState'[d] = uxState[d]

LEMMA ToldFacts ==
  ASSUME Cr!CoRoutinesFit, QueueTyped, EventsBooked, NEW s \in Side, Told(s)
  PROVE  /\ event' \in [CoRoutine -> {"none", "send", "receive", "pending"}]
         /\ passedOver' \subseteq Side
         /\ \A c \in CoRoutine : event'[c] = event[c] \/ (event'[c] = "pending" /\ event[c] # "none")
         /\ \A u \in Side : PassedNoted(u)
<1>1. /\ event \in [CoRoutine -> {"none", "send", "receive", "pending"}]
      /\ passedOver \subseteq Side /\ Cr!Opposite(s) \in Side /\ "none" \notin Side
  BY Sides DEF QueueTyped, Side
<1>2. CASE event' = event
  <2>1. passedOver' \subseteq Side /\ passedOver \subseteq passedOver'
    <3>1. CASE \E c \in CoRoutine : Cr!Wakes(s, c)
      <4>1. PICK c \in CoRoutine : Cr!Wakes(s, c) BY <3>1
      <4>2. event[c] = Cr!Opposite(s) /\ event' = [event EXCEPT ![c] = "pending"]
        BY <4>1 DEF Cr!Wakes, Cr!Foremost, Cr!Waiting
      <4>3. event[c] = "pending" BY <1>1, <1>2, <4>2
      <4> QED BY <1>1, <4>2, <4>3 DEF Side
    <3>2. CASE ~\E c \in CoRoutine : Cr!Wakes(s, c) BY <1>1, <3>2 DEF Told
    <3> QED BY <3>1, <3>2
  <2> QED BY <1>1, <1>2, <2>1 DEF PassedNoted
<1>3. CASE event' # event
  <2>1. PICK c \in CoRoutine : Cr!Wakes(s, c) BY <1>3 DEF Told
  <2>2. /\ event[c] = Cr!Opposite(s) /\ event' = [event EXCEPT ![c] = "pending"] /\ Cr!NoteOverlooked
    BY <2>1 DEF Cr!Wakes, Cr!Foremost, Cr!Waiting
  <2>3. passedOver' \subseteq Side /\ \A u \in Side : PassedNoted(u)
    BY <1>1, <2>2 DEF Cr!NoteOverlooked, PassedNoted, Cr!Waiting
  <2> QED BY <1>1, <2>2, <2>3
<1> QED BY <1>2, <1>3

LEMMA ToldCovers ==
  ASSUME Cr!CoRoutinesFit, QueueInv, QueueTyped', NEW s \in Side, Cr!Ready(s), Cr!Moves(s), Told(s),
         OneWentOn(s)
  PROVE  \A u \in Side : Covered(u)'
<1>1. QueueTyped /\ EventsBooked /\ \A u \in Side : Covered(u) BY DEF QueueInv
<1>2. PICK o : o = Cr!Opposite(s) OBVIOUS
<1>3. /\ o \in Side /\ o # s /\ Cr!Again[o] # Cr!Again[s] /\ \A u \in Side : u = s \/ u = o
      /\ o # "pending" /\ s # "pending" /\ o # "none" /\ s # "none"
  BY <1>2, Sides DEF Side
<1>4. Amount(s)' = Amount(s) - 1 /\ Amount(o)' = Amount(o) + 1
  <2>1. Amount(Cr!Opposite(s))' = Amount(Cr!Opposite(s)) + 1 /\ Amount(s)' = Amount(s) - 1
    BY <1>1, MovesAmount
  <2> QED BY <1>2, <2>1 DEF Amount
<1>5. /\ \A c \in CoRoutine : event'[c] = event[c] \/ (event'[c] = "pending" /\ event[c] # "none")
      /\ PassedNoted(s) /\ PassedNoted(o)
  BY <1>1, <1>3, ToldFacts
<1>6. Cr!Waiting(s)' \subseteq Cr!Waiting(s) /\ Cr!Waiting(o)' \subseteq Cr!Waiting(o)
  BY <1>3, <1>5 DEF Cr!Waiting
<1>7. Covered(s)'
  <2>1. CASE uxState' = uxState
    <3>1. Cr!OnItsWay(s) \subseteq Cr!OnItsWay(s)' BY <1>3, <1>5, <2>1 DEF Cr!OnItsWay
    <3>2. Amount(s)' <= Amount(s)
      <4>1. Amount(s) \in Nat BY <1>1, AmountType
      <4> QED BY <1>4, <4>1
    <3> QED BY <1>1, <1>5, <1>6, <3>1, <3>2, CoverStays
  <2>2. CASE uxState' # uxState
    <3>1. PICK p \in CoRoutine : \A d \in CoRoutine \ {p} : uxState'[d] = uxState[d]
      BY <2>2 DEF OneWentOn
    <3>2. Cr!OnItsWay(s) \ {p} \subseteq Cr!OnItsWay(s)'
      BY <1>3, <1>5, <3>1 DEF Cr!OnItsWay
    <3> QED BY <1>1, <1>4, <1>5, <1>6, <3>2, CoverShrinks
  <2> QED BY <2>1, <2>2
<1>8. \A c \in CoRoutine : uxState[c] = Cr!Again[o] => uxState'[c] = Cr!Again[o]
  BY <1>2 DEF OneWentOn
<1>9. Cr!OnItsWay(o) \subseteq Cr!OnItsWay(o)' BY <1>3, <1>5, <1>8 DEF Cr!OnItsWay
<1>10. Covered(o)'
  <2>1. CASE Cr!Waiting(o) = {} BY <1>6, <2>1 DEF Covered
  <2>2. CASE passedOver' = passedOver \cup {o} BY <2>2 DEF Covered
  <2>3. ASSUME NEW c \in CoRoutine, Cr!Wakes(s, c) PROVE Covered(o)'
    <3>1. event[c] = o /\ event' = [event EXCEPT ![c] = "pending"]
      BY <1>2, <2>3 DEF Cr!Wakes, Cr!Foremost, Cr!Waiting
    <3>2. uxState[c] = Cr!Again[o] /\ event'[c] = "pending"
      BY <1>1, <1>3, <3>1 DEF EventsBooked, EventBooked, QueueTyped, Side
    <3>3. c \notin Cr!OnItsWay(o) BY <3>1 DEF Cr!OnItsWay
    <3>4. Cr!OnItsWay(o) \cup {c} \subseteq Cr!OnItsWay(o)'
      BY <1>3, <1>8, <1>9, <3>2 DEF Cr!OnItsWay
    <3> QED BY <1>1, <1>3, <1>4, <1>5, <1>6, <3>3, <3>4, CoverGrows
  <2> QED BY <1>2, <2>1, <2>2, <2>3 DEF Told
<1> QED BY <1>3, <1>7, <1>10

LEMMA FinishKeeps ==
  ASSUME Cr!CoRoutinesFit, CrInv, NEW s \in Side, Cr!Finish(s)
  PROVE  CrInv'
<1>1. /\ at = s /\ TicksStay /\ ListsStay /\ isr' = isr
      /\ pxCurrentCoRoutine' = pxCurrentCoRoutine
  BY DEF Cr!Finish, Cr!Step, TicksStay, ListsStay, Cr!ticks, Cr!lists
<1>2. PICK p \in CoRoutine : p = pxCurrentCoRoutine
  BY <1>1 DEF CrInv, QueueInv, CurrentBooked, Side
<1>3. /\ QueueTyped /\ CurrentBooked /\ EventsBooked /\ QueueInv /\ list[p] = "ready"
      /\ event[p] = "none" /\ uxState[p] \in {"op", Cr!Again[s]}
  BY <1>1, <1>2 DEF CrInv, QueueInv, CurrentBooked, EventsBooked, EventBooked,
     Cr!Delayed, Side
<1>4. PICK state \in {"op", "yielded"} :
        /\ uxState' = [uxState EXCEPT ![p] = state] /\ at' \in {"out", "run"}
        /\ \/ ~Cr!Ready(s) /\ QueueStays
           \/ Cr!Ready(s) /\ Cr!Moves(s) /\ Told(s)
  <2>1. CASE ~Cr!Ready(s) BY <1>2, <2>1 DEF Cr!Finish, QueueStays, Cr!queue
  <2>2. CASE Cr!Ready(s) /\ Cr!Moves(s) /\ Cr!Waiting(Cr!Opposite(s)) = {} /\ event' = event
             /\ passedOver' = passedOver /\ at' = "run"
             /\ uxState' = [uxState EXCEPT ![p] = "op"]
    BY <2>2 DEF Told
  <2>3. ASSUME NEW c \in CoRoutine, Cr!Ready(s), Cr!Moves(s), Cr!Wakes(s, c),
               IF Cr!Urgent(c) THEN Cr!Returns("yielded")
               ELSE at' = "run" /\ uxState' = [uxState EXCEPT ![p] = "op"]
        PROVE  \E state \in {"op", "yielded"} :
                 /\ uxState' = [uxState EXCEPT ![p] = state] /\ at' \in {"out", "run"}
                 /\ Cr!Ready(s) /\ Cr!Moves(s) /\ Told(s)
    BY <1>2, <2>3 DEF Told, Cr!Returns
  <2> QED BY <1>2, <2>1, <2>2, <2>3 DEF Cr!Finish
<1>5. ListsInv' /\ list' = list
  <2>1. at # "expire" /\ at' # "expire" BY <1>1, <1>4 DEF Side
  <2> QED BY <1>1, <2>1, StayKeeps DEF CrInv, ListsStay
<1>6. CASE ~Cr!Ready(s) /\ QueueStays
  <2>1. Amount(s) = 0 BY <1>3, <1>6, NotReady, AmountType
  <2>2. ASSUME NEW u \in Side, uxState[pxCurrentCoRoutine] = Cr!Again[u] PROVE Amount(u) = 0
    <3>1. u = s BY <1>2, <1>3, <2>2, Sides
    <3> QED BY <2>1, <3>1
  <2>3. at \in {"run", "send", "receive"} BY <1>1 DEF Side
  <2> QED BY <1>1, <1>2, <1>4, <1>5, <1>6, <2>2, <2>3, RunKeeps
<1>7. CASE Cr!Ready(s) /\ Cr!Moves(s) /\ Told(s)
  <2>1. /\ uxState \in [CoRoutine -> {"op", "send0", "receive0", "yielded"}]
        /\ uxState' \in [CoRoutine -> {"op", "send0", "receive0", "yielded"}]
        /\ \A d \in CoRoutine \ {p} : uxState'[d] = uxState[d]
    BY <1>3, <1>4 DEF QueueTyped
  <2>2. /\ event' \in [CoRoutine -> {"none", "send", "receive", "pending"}]
        /\ passedOver' \subseteq Side
        /\ \A c \in CoRoutine : event'[c] = event[c] \/ (event'[c] = "pending" /\ event[c] # "none")
    BY <1>3, <1>7, ToldFacts
  <2>3. uxMessagesWaiting' \in 0..uxLength BY <1>3, <1>7, MovesAmount
  <2>4. QueueTyped' BY <1>1, <1>3, <1>4, <2>1, <2>2, <2>3 DEF QueueTyped
  <2>5. CurrentBooked' BY <1>1, <1>2, <1>3, <1>4, <1>5 DEF CurrentBooked
  <2>6. EventsBooked' BY <1>3, <1>5, <2>1, <2>2 DEF EventsBooked, EventBooked
  <2>7. OneWentOn(s)
    <3>1. uxState[p] # Cr!Again[Cr!Opposite(s)] BY <1>3, Sides
    <3> QED BY <1>3, <2>1, <3>1 DEF OneWentOn
  <2>8. \A u \in Side : Covered(u)' BY <1>3, <1>7, <2>4, <2>7, ToldCovers
  <2> QED BY <1>5, <2>4, <2>5, <2>6, <2>8 DEF CrInv, QueueInv
<1> QED BY <1>4, <1>6, <1>7

LEMMA FromIsrKeeps ==
  ASSUME Cr!CoRoutinesFit, CrInv, NEW s \in Side, Cr!FromISR(s)
  PROVE  CrInv'
<1>1. /\ Cr!Ready(s) /\ Cr!Moves(s) /\ TicksStay /\ ListsStay /\ uxState' = uxState /\ at' = at
      /\ pxCurrentCoRoutine' = pxCurrentCoRoutine
  BY DEF Cr!FromISR, TicksStay, ListsStay, Cr!ticks, Cr!lists
<1>2. isr' \in {"none", "fresh", "woken"} /\ Told(s)
  BY DEF Cr!FromISR, Told, CrInv, QueueInv, QueueTyped
<1>3. QueueInv /\ QueueTyped /\ CurrentBooked /\ EventsBooked BY DEF CrInv, QueueInv
<1>4. ListsInv' /\ list' = list BY <1>1, StayKeeps DEF CrInv, ListsStay
<1>5. /\ event' \in [CoRoutine -> {"none", "send", "receive", "pending"}]
      /\ passedOver' \subseteq Side
      /\ \A c \in CoRoutine : event'[c] = event[c] \/ (event'[c] = "pending" /\ event[c] # "none")
  BY <1>2, <1>3, ToldFacts
<1>6. uxMessagesWaiting' \in 0..uxLength BY <1>1, <1>3, MovesAmount
<1>7. QueueTyped' BY <1>1, <1>2, <1>3, <1>5, <1>6 DEF QueueTyped
<1>8. CurrentBooked' BY <1>1, <1>3, <1>4 DEF CurrentBooked
<1>9. EventsBooked' BY <1>1, <1>3, <1>4, <1>5 DEF EventsBooked, EventBooked
<1>10. OneWentOn(s) BY <1>1 DEF OneWentOn
<1>11. \A u \in Side : Covered(u)' BY <1>1, <1>2, <1>3, <1>7, <1>10, ToldCovers
<1> QED BY <1>4, <1>7, <1>8, <1>9, <1>11 DEF CrInv, QueueInv

--------------------

LEMMA CrInit == ASSUME Cr!CoRoutinesFit, Cr!Init PROVE CrInv
<1>1. 0 \in Cr!Tick /\ 0 \in 0..uxLength BY DEF Cr!CoRoutinesFit, Cr!Tick
<1>2. ListsTyped /\ QueueTyped BY <1>1 DEF Cr!Init, ListsTyped, QueueTyped
<1>3. Cr!DelaysKept /\ Cr!NoneOverlooked /\ TicksBooked
  BY DEF Cr!Init, Cr!DelaysKept, Cr!NoneOverlooked, TicksBooked, Cr!On, Cr!Delayed
<1>4. CurrentBooked /\ EventsBooked
  BY DEF Cr!Init, CurrentBooked, EventsBooked, EventBooked
<1>5. \A s \in Side : Covered(s) BY DEF Cr!Init, Covered, Cr!Waiting, Side
<1> QED BY <1>2, <1>3, <1>4, <1>5 DEF CrInv, ListsInv, QueueInv

LEMMA CrStep == ASSUME Cr!CoRoutinesFit, CrInv, [Cr!Next]_(Cr!vars) PROVE CrInv'
<1>1. CASE UNCHANGED Cr!vars
  <2>1. /\ QueueStays /\ TicksStay /\ ListsStay /\ uxState' = uxState /\ at' = at
        /\ pxCurrentCoRoutine' = pxCurrentCoRoutine /\ isr' = isr
    BY <1>1 DEF Cr!vars, Cr!queue, Cr!ticks, Cr!lists, QueueStays, TicksStay,
       ListsStay
  <2>2. ListsInv' /\ list' = list BY <2>1, StayKeeps DEF CrInv, ListsStay
  <2>3. QueueTyped' BY <2>1 DEF CrInv, QueueInv, QueueTyped, QueueStays
  <2>4. CurrentBooked' BY <2>1, <2>2 DEF CrInv, QueueInv, CurrentBooked
  <2>5. \A c \in CoRoutine : event[c] # "none" => list'[c] \in Cr!Delayed
    BY <2>2 DEF CrInv, QueueInv, EventsBooked, EventBooked
  <2> QED BY <2>1, <2>2, <2>3, <2>4, <2>5, QueueKeeps DEF CrInv
<1>2. ASSUME Cr!prvCheckPendingReadyList PROVE CrInv'
  <2>1. /\ at = "pending" /\ TicksStay /\ uxState' = uxState /\ isr' = isr
        /\ pxCurrentCoRoutine' = pxCurrentCoRoutine /\ passedOver' = passedOver
        /\ uxMessagesWaiting' = uxMessagesWaiting
    BY <1>2 DEF Cr!prvCheckPendingReadyList, Cr!Step, TicksStay, Cr!ticks
  <2>2. CASE Cr!Waiting("pending") = {} /\ at' = "delayed" /\ UNCHANGED <<Cr!lists, event>>
    <3>1. ListsStay /\ QueueStays BY <2>1, <2>2 DEF ListsStay, QueueStays, Cr!lists
    <3>2. ListsInv' /\ list' = list BY <2>1, <2>2, <3>1, StayKeeps DEF CrInv, ListsStay
    <3>3. QueueTyped' BY <2>1, <2>2, <3>1 DEF CrInv, QueueInv, QueueTyped, QueueStays
    <3>4. CurrentBooked' BY <2>1, <2>2 DEF CrInv, QueueInv, CurrentBooked
    <3>5. \A c \in CoRoutine : event[c] # "none" => list'[c] \in Cr!Delayed
      BY <3>2 DEF CrInv, QueueInv, EventsBooked, EventBooked
    <3> QED BY <2>1, <3>1, <3>2, <3>3, <3>4, <3>5, QueueKeeps DEF CrInv
  <2>3. ASSUME NEW c \in CoRoutine, event' = [event EXCEPT ![c] = "none"], Cr!AddToReady(c),
               at' = at
        PROVE  CrInv'
    BY <2>1, <2>3, LeaveKeeps
  <2> QED BY <1>2, <2>2, <2>3 DEF Cr!prvCheckPendingReadyList, Cr!Waiting
<1>3. ASSUME NEW c \in CoRoutine, Cr!Expire(c) PROVE CrInv'
  <2>1. /\ at = "expire" /\ at' = at /\ TicksStay /\ uxState' = uxState /\ isr' = isr
        /\ pxCurrentCoRoutine' = pxCurrentCoRoutine /\ Cr!NoteOverlooked
        /\ uxMessagesWaiting' = uxMessagesWaiting /\ Cr!AddToReady(c)
        /\ event' = [event EXCEPT ![c] = "none"]
    BY <1>3 DEF Cr!Expire, Cr!Step, TicksStay, Cr!ticks
  <2> QED BY <2>1, LeaveKeeps
<1>4. CASE Cr!Next
  BY <1>2, <1>3, <1>4, CreateKeeps, ScheduleKeeps, DelayKeeps, BeginKeeps,
     GoesOnKeeps, FinishKeeps, FromIsrKeeps DEF Cr!Next, Side
<1> QED BY <1>1, <1>4

\* Whenever interrupts come and whoever they wake: nobody is left waiting for the queue
\* when there is something for it, but for one that was passed over; each wait ends by the
\* tick count of the co-routines, also at its overflow; and no ready co-routine is above
\* where the scheduler looks (croutine.c:262, queue.c:2387-2655).
THEOREM CoRoutinesStayServed == ASSUME Cr!CoRoutinesFit PROVE Cr!Spec => []Cr!CoRoutinesServed
<1>1. Cr!Init => CrInv BY CrInit
<1>2. CrInv /\ [Cr!Next]_(Cr!vars) => CrInv' BY CrStep
<1>3. ASSUME CrInv PROVE Cr!CoRoutinesServed
  <2>1. Cr!DelaysKept /\ Cr!NoneOverlooked /\ \A c \in CoRoutine : event[c] # "none" => list[c] \in Cr!Delayed
    BY <1>3 DEF CrInv, ListsInv, QueueInv, EventsBooked, EventBooked
  <2>2. Covered("send") /\ Covered("receive") BY <1>3 DEF CrInv, QueueInv, Side
  <2>3. Amount("send") = uxLength - uxMessagesWaiting /\ Amount("receive") = uxMessagesWaiting
    BY DEF Amount
  <2>4. Cr!NobodyLeftBehind
    BY <2>2, <2>3, SameCardinality DEF Covered, Cr!NobodyLeftBehind
  <2> QED BY <2>1, <2>4 DEF Cr!CoRoutinesServed
<1> QED BY <1>1, <1>2, <1>3, PTL DEF Cr!Spec

--------------------
\* The idle task that stops the tick, for any tasks and any range of the tick
\* count.

CONSTANTS Task, PendedBound
VARIABLES xNextTaskUnblockTime, xPendedTicks, xYieldPending, pended, idle

Tl == INSTANCE Tickless

Lists == {"ready", "delayed", "overflow", "suspended"}

\* m is the next time to unblock, of lists l.
NextOf(l, m) ==
  /\ m \in Tl!Tick
  /\ \A t \in Task : l[t] = "delayed" => m <= wake[t]
  /\ m = Tl!LastTick \/ \E t \in Task : l[t] = "delayed" /\ m = wake[t]

LEMMA NextUnblockIs ==
  ASSUME Tl!TicklessFits, wake \in [Task -> Tl!Tick], NEW l \in [Task -> Lists]
  PROVE  NextOf(l, Tl!NextUnblock(l))
<1> DEFINE wakes == {wake[t] : t \in {u \in Task : l[u] = "delayed"}}
<1>1. Tl!LastTick \in Tl!Tick /\ Tl!LastTick \in Nat
  BY DEF Tl!TicklessFits, Tl!LastTick, Tl!Tick
<1>2. wakes \subseteq Tl!Tick /\ wakes \in SUBSET Nat BY DEF Tl!Tick
<1>3. \A t \in Task : l[t] = "delayed" => wake[t] \in wakes OBVIOUS
<1>4. \A m \in wakes : \E t \in Task : l[t] = "delayed" /\ m = wake[t] OBVIOUS
<1>5. Tl!NextUnblock(l) = IF wakes = {} THEN Tl!LastTick
                         ELSE CHOOSE w \in wakes : \A v \in wakes : w <= v
  BY DEF Tl!NextUnblock
<1> HIDE DEF wakes
<1>6. CASE wakes = {} BY <1>1, <1>3, <1>5, <1>6 DEF NextOf
<1>7. CASE wakes # {}
  <2>1. \E w \in wakes : \A v \in wakes : w <= v BY <1>2, <1>7, LeastOf
  <2> DEFINE m == CHOOSE w \in wakes : \A v \in wakes : w <= v
  <2>2. m \in wakes /\ \A v \in wakes : m <= v BY <2>1
  <2>3. Tl!NextUnblock(l) = m BY <1>5, <1>7
  <2> HIDE DEF m
  <2> QED BY <2>2, <2>3, <1>2, <1>3, <1>4 DEF NextOf
<1> QED BY <1>6, <1>7

\* Who is on a list of those that wait was put there in time, and nobody is due.
Good(s) ==
  /\ s.count \in Tl!Tick /\ s.next \in Tl!Tick /\ s.list \in [Task -> Lists]
  /\ s.count < s.next \/ (s.count = s.next /\ s.count = Tl!LastTick)
  /\ \A t \in Task : s.list[t] = "delayed" => wake[t] > s.count /\ s.next <= wake[t]
  /\ \A t \in Task : s.list[t] = "overflow" => wake[t] < s.count

Waits(s, t) == s.list[t] \in {"delayed", "overflow"}
Rest(s, t) == IF s.list[t] = "delayed" THEN wake[t] - s.count
              ELSE wake[t] + TickMod - s.count

\* Whoever still waits in clock u, n ticks after s, waits n ticks less.
Later(s, u, n) ==
  \A t \in Task : Waits(u, t) => Waits(s, t) /\ Rest(u, t) = Rest(s, t) - n

LEMMA ClockTicks ==
  ASSUME Tl!TicklessFits, wake \in [Task -> Tl!Tick], NEW s, Good(s)
  PROVE  Good(Tl!xTaskIncrementTick(s)) /\ Later(s, Tl!xTaskIncrementTick(s), 1)
<1> DEFINE count == (s.count + 1) % TickMod
           lists == IF count # 0 THEN s.list
                    ELSE [t \in Task |-> IF s.list[t] = "overflow" THEN "delayed"
                                         ELSE s.list[t]]
           next == IF count # 0 THEN s.next ELSE Tl!NextUnblock(lists)
           readied == IF count < next THEN lists
                      ELSE [t \in Task |-> IF lists[t] = "delayed" /\ wake[t] <= count
                                             THEN "ready" ELSE lists[t]]
           then == IF count < next THEN next ELSE Tl!NextUnblock(readied)
           u == [count |-> count, list |-> readied, next |-> then]
<1>1. Tl!xTaskIncrementTick(s) = u BY DEF Tl!xTaskIncrementTick
<1>2. /\ TickMod \in Nat /\ TickMod > 0 /\ Tl!LastTick = TickMod - 1
      /\ \A x : x \in Tl!Tick <=> x \in Nat /\ x < TickMod
      /\ s.count \in Tl!Tick /\ s.next \in Tl!Tick /\ s.list \in [Task -> Lists]
  BY DEF Tl!TicklessFits, Good, Tl!LastTick, Tl!Tick
<1>3. /\ count \in Tl!Tick
      /\ s.count < TickMod - 1 => count = s.count + 1
      /\ s.count = TickMod - 1 => count = 0
  BY <1>2
<1>4. \A t \in Task : wake[t] \in Tl!Tick /\ wake[t] \in Nat /\ wake[t] < TickMod BY <1>2
<1> HIDE DEF count
<1>5. lists \in [Task -> Lists] BY <1>2 DEF Lists
<1>6. \A t \in Task :
        /\ lists[t] = "delayed" => /\ wake[t] >= count
                                   /\ s.list[t] \in {"delayed", "overflow"}
                                   /\ wake[t] - count = Rest(s, t) - 1
        /\ lists[t] = "overflow" => /\ wake[t] < count /\ s.list[t] = "overflow"
                                    /\ wake[t] + TickMod - count = Rest(s, t) - 1
  <2> SUFFICES ASSUME NEW t \in Task
               PROVE  /\ lists[t] = "delayed" => /\ wake[t] >= count
                                                 /\ s.list[t] \in {"delayed", "overflow"}
                                                 /\ wake[t] - count = Rest(s, t) - 1
                      /\ lists[t] = "overflow" => /\ wake[t] < count /\ s.list[t] = "overflow"
                                                  /\ wake[t] + TickMod - count = Rest(s, t) - 1
    OBVIOUS
  <2>1. /\ s.list[t] = "delayed" => wake[t] > s.count /\ s.next <= wake[t]
        /\ s.list[t] = "overflow" => wake[t] < s.count
        /\ s.count \in Nat /\ s.count < TickMod
    BY <1>2 DEF Good
  <2>2. CASE s.count < TickMod - 1
    <3>1. count = s.count + 1 /\ lists = s.list BY <1>3, <2>1, <2>2
    <3> HIDE DEF lists
    <3> QED BY <3>1, <2>1, <1>2, <1>4 DEF Rest
  <2>3. CASE s.count = TickMod - 1
    <3>1. /\ count = 0
          /\ lists[t] = IF s.list[t] = "overflow" THEN "delayed" ELSE s.list[t]
      BY <1>3, <2>3
    <3>2. s.list[t] # "delayed" BY <2>1, <2>3, <1>4, <1>2
    <3> HIDE DEF lists
    <3> QED BY <3>1, <3>2, <2>1, <2>3, <1>2, <1>4 DEF Rest
  <2> QED BY <2>1, <2>2, <2>3, <1>2
<1>7. next \in Tl!Tick /\ \A t \in Task : lists[t] = "delayed" => next <= wake[t]
  <2>1. CASE count # 0
    <3>1. lists = s.list /\ next = s.next BY <2>1
    <3> QED BY <3>1, <1>2 DEF Good
  <2>2. CASE count = 0
    <3>1. next = Tl!NextUnblock(lists) BY <2>2
    <3> HIDE DEF lists, next
    <3> QED BY <3>1, <1>5, NextUnblockIs DEF NextOf
  <2> QED BY <2>1, <2>2
<1> HIDE DEF lists, next
<1>8. readied \in [Task -> Lists] BY <1>5 DEF Lists
<1>9. \A t \in Task :
        /\ readied[t] = "delayed" => lists[t] = "delayed" /\ wake[t] > count
        /\ readied[t] = "overflow" => lists[t] = "overflow"
  <2>1. CASE count < next
    <3>1. readied = lists BY <2>1
    <3> QED BY <3>1, <2>1, <1>2, <1>3, <1>4, <1>7
  <2>2. CASE ~ (count < next)
    <3>1. \A t \in Task : readied[t] = IF lists[t] = "delayed" /\ wake[t] <= count
                                         THEN "ready" ELSE lists[t]
      BY <2>2
    <3> HIDE DEF readied
    <3> QED BY <3>1, <1>2, <1>3, <1>4
  <2> QED BY <2>1, <2>2
<1>10. /\ then \in Tl!Tick
       /\ count < then \/ (count = then /\ count = Tl!LastTick)
       /\ \A t \in Task : readied[t] = "delayed" => then <= wake[t]
  <2>1. CASE count < next
    <3>1. readied = lists /\ then = next BY <2>1
    <3> QED BY <3>1, <2>1, <1>7
  <2>2. CASE ~ (count < next)
    <3>1. then = Tl!NextUnblock(readied) BY <2>2
    <3> HIDE DEF readied, then
    <3>2. NextOf(readied, then) BY <3>1, <1>8, NextUnblockIs
    <3>3. count < then \/ (count = then /\ count = Tl!LastTick)
      BY <3>2, <1>2, <1>3, <1>4, <1>9 DEF NextOf
    <3> QED BY <3>2, <3>3 DEF NextOf
  <2> QED BY <2>1, <2>2
<1>11. u.count = count /\ u.next = then /\ u.list = readied OBVIOUS
<1> HIDE DEF readied, then, u
<1>12. Good(u)
  <2>1. \A t \in Task : u.list[t] = "overflow" => wake[t] < u.count BY <1>11, <1>9, <1>6
  <2>2. \A t \in Task : u.list[t] = "delayed" => wake[t] > u.count /\ u.next <= wake[t]
    BY <1>11, <1>9, <1>10
  <2> QED BY <2>1, <2>2, <1>3, <1>8, <1>10, <1>11 DEF Good
<1>13. Later(s, u, 1)
  <2> SUFFICES ASSUME NEW t \in Task, Waits(u, t)
               PROVE  Waits(s, t) /\ Rest(u, t) = Rest(s, t) - 1
    BY DEF Later
  <2>1. CASE readied[t] = "delayed" BY <2>1, <1>11, <1>9, <1>6 DEF Waits, Rest
  <2>2. CASE readied[t] = "overflow" BY <2>2, <1>11, <1>9, <1>6 DEF Waits, Rest
  <2> QED BY <2>1, <2>2, <1>11 DEF Waits
<1> QED BY <1>1, <1>12, <1>13

\* The clock after each of n ticks.
Trace(f, s, n) ==
  f = [k \in 0..n |-> IF k = 0 THEN s ELSE Tl!xTaskIncrementTick(f[k - 1])]

LEMMA TraceExists ==
  ASSUME NEW s, NEW n \in Nat
  PROVE  \E f : Trace(f, s, n)
<1> DEFINE D == {m \in Nat : ~ \E f : Trace(f, s, m)}
<1>1. ASSUME NEW p \in D, \A q \in D : p <= q PROVE FALSE
  <2>1. p \in Nat /\ ~ \E f : Trace(f, s, p) OBVIOUS
  <2>2. CASE p = 0
    <3> DEFINE g == [k \in 0..0 |-> s]
    <3>1. g = [k \in 0..0 |-> IF k = 0 THEN s ELSE Tl!xTaskIncrementTick(g[k - 1])]
      OBVIOUS
    <3>2. Trace(g, s, p) BY <3>1, <2>2 DEF Trace
    <3> QED BY <3>2, <2>1
  <2>3. CASE p # 0
    <3>1. p - 1 \in Nat /\ ~ (p <= p - 1) BY <2>1, <2>3
    <3>2. \E f : Trace(f, s, p - 1) BY <3>1, <1>1
    <3>3. PICK f : Trace(f, s, p - 1) BY <3>2
    <3> DEFINE g == [k \in 0..p |-> IF k = p THEN Tl!xTaskIncrementTick(f[p - 1]) ELSE f[k]]
    <3>4. \A k \in 0..p - 1 : f[k] = IF k = 0 THEN s ELSE Tl!xTaskIncrementTick(f[k - 1])
      BY <3>3 DEF Trace
    <3>5. ASSUME NEW k \in 0..p
          PROVE  g[k] = IF k = 0 THEN s ELSE Tl!xTaskIncrementTick(g[k - 1])
      <4>1. CASE k = p
        <5>1. g[k] = Tl!xTaskIncrementTick(f[p - 1]) /\ k # 0 BY <4>1, <2>3
        <5>2. g[k - 1] = f[p - 1] BY <4>1, <2>1, <3>1
        <5> QED BY <5>1, <5>2
      <4>2. CASE k # p
        <5>1. k \in 0..p - 1 /\ g[k] = f[k] BY <4>2, <2>1
        <5>2. k # 0 => g[k - 1] = f[k - 1] BY <4>2, <2>1
        <5> HIDE DEF g
        <5> QED BY <5>1, <5>2, <3>4
      <4> QED BY <4>1, <4>2
    <3>6. g = [k \in 0..p |-> g[k]] OBVIOUS
    <3> HIDE DEF g
    <3>7. g = [k \in 0..p |-> IF k = 0 THEN s ELSE Tl!xTaskIncrementTick(g[k - 1])]
      BY <3>5, <3>6
    <3>8. Trace(g, s, p) BY <3>7 DEF Trace
    <3> QED BY <3>8, <2>1
  <2> QED BY <2>2, <2>3
<1>2. D = {}
  <2>1. D \in SUBSET Nat OBVIOUS
  <2> HIDE DEF D
  <2> QED BY <2>1, <1>1, LeastOf
<1> QED BY <1>2

LEMMA TicksKeep ==
  ASSUME Tl!TicklessFits, wake \in [Task -> Tl!Tick], NEW s, Good(s), NEW n \in Nat
  PROVE  Good(Tl!Increment(s, n)) /\ Later(s, Tl!Increment(s, n), n)
<1> DEFINE a == CHOOSE f : Trace(f, s, n)
<1>1. Tl!Increment(s, n) = a[n] BY DEF Tl!Increment, Trace
<1>2. Trace(a, s, n) BY TraceExists
<1> HIDE DEF a
<1>3. \A k \in 0..n : a[k] = IF k = 0 THEN s ELSE Tl!xTaskIncrementTick(a[k - 1])
  BY <1>2 DEF Trace
<1> DEFINE D == {k \in 0..n : ~ (Good(a[k]) /\ Later(s, a[k], k))}
<1>4. ASSUME NEW p \in D, \A q \in D : p <= q PROVE FALSE
  <2>1. p \in 0..n /\ ~ (Good(a[p]) /\ Later(s, a[p], p)) OBVIOUS
  <2>2. CASE p = 0
    <3>1. a[p] = s BY <2>1, <2>2, <1>3
    <3>2. \A t \in Task : Rest(s, t) \in Int
      <4> SUFFICES ASSUME NEW t \in Task PROVE Rest(s, t) \in Int OBVIOUS
      <4>1. wake[t] \in Int /\ s.count \in Int /\ TickMod \in Int
        BY DEF Tl!TicklessFits, Good, Tl!Tick
      <4> QED BY <4>1 DEF Rest
    <3>3. Later(s, s, 0) BY <3>2 DEF Later
    <3> QED BY <3>1, <3>3, <2>1, <2>2
  <2>3. CASE p # 0
    <3>1. p - 1 \in 0..n /\ ~ (p <= p - 1) BY <2>1, <2>3
    <3>2. Good(a[p - 1]) /\ Later(s, a[p - 1], p - 1) BY <3>1, <1>4
    <3>3. a[p] = Tl!xTaskIncrementTick(a[p - 1]) BY <2>1, <2>3, <1>3
    <3> DEFINE b == a[p - 1]
    <3>4. Good(a[p]) /\ Later(b, a[p], 1) BY <3>2, <3>3, ClockTicks
    <3>5. Later(s, a[p], p)
      <4> SUFFICES ASSUME NEW t \in Task, Waits(a[p], t)
                   PROVE  Waits(s, t) /\ Rest(a[p], t) = Rest(s, t) - p
        BY DEF Later
      <4>1. Waits(b, t) /\ Rest(a[p], t) = Rest(b, t) - 1 BY <3>4 DEF Later
      <4>2. Waits(s, t) /\ Rest(b, t) = Rest(s, t) - (p - 1) BY <3>2, <4>1 DEF Later
      <4>3. Rest(s, t) \in Int
        <5>1. wake[t] \in Int /\ s.count \in Int /\ TickMod \in Int
          BY DEF Tl!TicklessFits, Good, Tl!Tick
        <5> QED BY <5>1 DEF Rest
      <4> QED BY <4>1, <4>2, <4>3, <2>1
    <3> QED BY <3>4, <3>5, <2>1
  <2> QED BY <2>2, <2>3
<1>5. D = {}
  <2>1. D \in SUBSET Nat OBVIOUS
  <2> HIDE DEF D
  <2> QED BY <2>1, <1>4, LeastOf
<1> QED BY <1>1, <1>5

--------------------
\* The inductive invariant.

Clock == [count |-> xTickCount, list |-> list, next |-> xNextTaskUnblockTime]

IdleTyped == /\ idle.at \in {"loop", "checked", "locked", "asleep", "off", "resume"}
             /\ idle.expected \in Tl!Tick /\ idle.elapsed \in Tl!Tick /\ idle.stale \in Nat
             /\ idle = [at |-> idle.at, expected |-> idle.expected,
                        elapsed |-> idle.elapsed, stale |-> idle.stale]

ClockTyped == /\ xPendedTicks \in Nat /\ xYieldPending \in BOOLEAN /\ pended \subseteq Task
              /\ wake \in [Task -> Tl!Tick] /\ left \in [Task -> Int] /\ IdleTyped

\* What is left of a delay is what the tick count says, less what it does not
\* count yet.
LeftExact ==
  \A t \in Task :
    left[t] = IF t \in Tl!Delayed \ pended
                THEN Rest(Clock, t) - xPendedTicks - idle.elapsed ELSE 0

\* What the idle task goes by.
Planned == /\ Tl!Ready = {} /\ idle.expected >= 2
           /\ idle.expected = xNextTaskUnblockTime - xTickCount

Phases ==
  /\ ~Tl!SchedulerSuspended => /\ xPendedTicks = 0 /\ pended = {} /\ xYieldPending = FALSE
                              /\ idle.expected = 0
  /\ idle.at # "asleep" => idle.elapsed = 0
  /\ idle.at # "resume" => xPendedTicks <= PendedBound
  /\ idle.at = "resume" => xPendedTicks <= PendedBound + 1
  /\ idle.at \in {"locked", "asleep", "off"} /\ idle.expected > 0 => Planned
  /\ Tl!Sleeping => idle.expected > 0 /\ pended = {} /\ xYieldPending = FALSE
  /\ idle.at = "off" => \A t \in Task : list[t] = "suspended"
  /\ idle.at = "asleep" => idle.elapsed <= idle.expected - 1 /\ idle.stale = xPendedTicks

IdleInv == Good(Clock) /\ ClockTyped /\ LeftExact /\ Phases

Owed(t) == Rest(Clock, t) - xPendedTicks - idle.elapsed

LEMMA ClockIs ==
  /\ Clock.count = xTickCount /\ Clock.next = xNextTaskUnblockTime /\ Clock.list = list
  /\ Clock'.count = xTickCount' /\ Clock'.next = xNextTaskUnblockTime' /\ Clock'.list = list'
BY DEF Clock

LEMMA SameClock ==
  ASSUME Good(Clock), UNCHANGED <<xTickCount, xNextTaskUnblockTime, list, wake>>
  PROVE  /\ Good(Clock)' /\ Tl!Delayed' = Tl!Delayed /\ Tl!Ready' = Tl!Ready
         /\ \A t \in Task : Rest(Clock, t)' = Rest(Clock, t)
<1>1. Clock' = Clock BY DEF Clock
<1>2. Good(Clock)' BY <1>1 DEF Good
<1>3. \A t \in Task : Rest(Clock, t)' = Rest(Clock, t) BY <1>1 DEF Rest
<1> QED BY <1>2, <1>3 DEF Tl!Delayed, Tl!Ready

\* Rests are numbers.
LEMMA RestType ==
  ASSUME Tl!TicklessFits, Good(Clock), ClockTyped
  PROVE  \A t \in Task : Rest(Clock, t) \in Int /\ Owed(t) \in Int
<1> SUFFICES ASSUME NEW t \in Task PROVE Rest(Clock, t) \in Int /\ Owed(t) \in Int OBVIOUS
<1>1. /\ wake[t] \in Int /\ Clock.count \in Int /\ TickMod \in Int
      /\ xPendedTicks \in Int /\ idle.elapsed \in Int
  BY DEF Tl!TicklessFits, Good, Tl!Tick, ClockTyped, IdleTyped
<1>2. Rest(Clock, t) \in Int BY <1>1 DEF Rest
<1> QED BY <1>1, <1>2 DEF Owed

LEMMA PassKeeps ==
  ASSUME Tl!TicklessFits, Good(Clock), ClockTyped, LeftExact, NEW n \in Nat, Tl!Pass(n),
         \A t \in Task : t \in Tl!Delayed' \ pended'
           => t \in Tl!Delayed \ pended /\ Owed(t)' = Owed(t) - n
  PROVE  LeftExact' /\ left' \in [Task -> Int]
<1>1. \A t \in Task : left[t] \in Int /\ left'[t] = IF t \in Tl!Delayed' \ pended'
                                                      THEN left[t] - n ELSE 0
  BY DEF Tl!Pass, ClockTyped
<1>2. \A t \in Task : t \in Tl!Delayed \ pended => left[t] = Owed(t)
  BY DEF LeftExact, Owed
<1>3. left' = [t \in Task |-> IF t \in Tl!Delayed' \ pended' THEN left[t] - n ELSE 0]
  BY DEF Tl!Pass
<1>4. left' \in [Task -> Int] BY <1>1, <1>3
<1>5. \A t \in Task : left'[t] = IF t \in Tl!Delayed' \ pended' THEN Owed(t)' ELSE 0
  BY <1>1, <1>2
<1>6. LeftExact' BY <1>5 DEF LeftExact, Owed
<1> QED BY <1>4, <1>6

LEMMA DelayKeepsClock ==
  ASSUME Tl!TicklessFits, IdleInv, NEW t \in Task, NEW n \in Delays, Tl!vTaskDelay(t, n)
  PROVE  IdleInv'
<1> DEFINE time == (xTickCount + n) % TickMod
<1>1. /\ TickMod \in Nat /\ TickMod > 0 /\ Tl!LastTick = TickMod - 1
      /\ \A x : x \in Tl!Tick <=> x \in Nat /\ x < TickMod
      /\ n \in Nat /\ n >= 1 /\ n <= TickMod - 1
      /\ xTickCount \in Tl!Tick /\ xNextTaskUnblockTime \in Tl!Tick /\ list \in [Task -> Lists]
  BY ClockIs DEF Tl!TicklessFits, Tl!LastTick, Tl!Tick, IdleInv, Good
<1>2. /\ time \in Tl!Tick
      /\ xTickCount + n < TickMod => time = xTickCount + n
      /\ xTickCount + n >= TickMod => time = xTickCount + n - TickMod
  BY <1>1
<1> HIDE DEF time
<1>3. /\ wake' = [wake EXCEPT ![t] = time]
      /\ list' = [list EXCEPT ![t] = IF time < xTickCount THEN "overflow" ELSE "delayed"]
      /\ xNextTaskUnblockTime' =
           IF time >= xTickCount /\ time < xNextTaskUnblockTime THEN time
           ELSE xNextTaskUnblockTime
      /\ left' = [left EXCEPT ![t] = n]
      /\ UNCHANGED <<xTickCount, xPendedTicks, xYieldPending, pended, idle>>
      /\ ~Tl!SchedulerSuspended
  BY DEF Tl!vTaskDelay, time, Tl!Runs
<1>4. xPendedTicks = 0 /\ pended = {} /\ idle.elapsed = 0
  BY <1>3 DEF IdleInv, Phases, Tl!SchedulerSuspended
<1>5. wake \in [Task -> Tl!Tick] /\ left \in [Task -> Int] BY DEF IdleInv, ClockTyped
<1>6. \A u \in Task :
        /\ wake'[u] = IF u = t THEN time ELSE wake[u]
        /\ list'[u] = IF u = t THEN (IF time < xTickCount THEN "overflow" ELSE "delayed")
                      ELSE list[u]
        /\ left'[u] = IF u = t THEN n ELSE left[u]
  BY <1>1, <1>3, <1>5
<1>7. Good(Clock)'
  <2>1. /\ xTickCount < xNextTaskUnblockTime \/ (xTickCount = xNextTaskUnblockTime /\ xTickCount = Tl!LastTick)
        /\ \A u \in Task : list[u] = "delayed" => wake[u] > xTickCount /\ xNextTaskUnblockTime <= wake[u]
        /\ \A u \in Task : list[u] = "overflow" => wake[u] < xTickCount
    BY ClockIs DEF IdleInv, Good
  <2>2. list' \in [Task -> Lists] /\ xNextTaskUnblockTime' \in Tl!Tick
    BY <1>1, <1>2, <1>3 DEF Lists
  <2>3. time # xTickCount BY <1>1, <1>2
  <2>4. \/ xTickCount' < xNextTaskUnblockTime'
        \/ xTickCount' = xNextTaskUnblockTime' /\ xTickCount' = Tl!LastTick
    BY <2>1, <2>3, <1>1, <1>2, <1>3
  <2>5. \A u \in Task : list'[u] = "delayed" => wake'[u] > xTickCount' /\ xNextTaskUnblockTime' <= wake'[u]
    <3> SUFFICES ASSUME NEW u \in Task, list'[u] = "delayed"
                 PROVE  wake'[u] > xTickCount' /\ xNextTaskUnblockTime' <= wake'[u]
      OBVIOUS
    <3>1. CASE u = t BY <3>1, <1>1, <1>2, <1>3, <1>6, <2>3
    <3>2. CASE u # t
      <4>1. wake[u] \in Nat /\ wake[u] > xTickCount /\ xNextTaskUnblockTime <= wake[u]
        BY <3>2, <1>1, <1>5, <1>6, <2>1
      <4> QED BY <3>2, <4>1, <1>1, <1>2, <1>3, <1>6
    <3> QED BY <3>1, <3>2
  <2>6. \A u \in Task : list'[u] = "overflow" => wake'[u] < xTickCount'
    BY <2>1, <1>3, <1>6
  <2> QED BY <2>2, <2>4, <2>5, <2>6, <1>1, <1>3, ClockIs DEF Good
<1>8. ClockTyped'
  <2>1. wake' \in [Task -> Tl!Tick] /\ left' \in [Task -> Int] BY <1>1, <1>2, <1>3, <1>5
  <2> QED BY <2>1, <1>3 DEF IdleInv, ClockTyped, IdleTyped
<1>9. LeftExact'
  <2> SUFFICES ASSUME NEW u \in Task
               PROVE  left'[u] = IF u \in Tl!Delayed' \ pended'
                                   THEN Rest(Clock, u)' - xPendedTicks' - idle'.elapsed ELSE 0
    BY DEF LeftExact
  <2>1. CASE u = t
    <3>1. u \in Tl!Delayed' \ pended' BY <2>1, <1>3, <1>4, <1>6 DEF Tl!Delayed
    <3>2. Rest(Clock, u)' = n BY <2>1, <1>1, <1>2, <1>3, <1>6, ClockIs DEF Rest
    <3> QED BY <3>1, <3>2, <2>1, <1>1, <1>3, <1>4, <1>6
  <2>2. CASE u # t
    <3>1. Rest(Clock, u)' = Rest(Clock, u) BY <2>2, <1>3, <1>6, ClockIs DEF Rest
    <3>2. u \in Tl!Delayed' \ pended' <=> u \in Tl!Delayed \ pended
      BY <2>2, <1>3, <1>6 DEF Tl!Delayed
    <3> QED BY <3>1, <3>2, <2>2, <1>3, <1>6 DEF IdleInv, LeftExact
  <2> QED BY <2>1, <2>2
<1>10. Phases' BY <1>3 DEF IdleInv, Phases, Tl!SchedulerSuspended, Tl!Sleeping
<1> QED BY <1>7, <1>8, <1>9, <1>10 DEF IdleInv

LEMMA WaitKeepsClock ==
  ASSUME Tl!TicklessFits, IdleInv, NEW t \in Task, Tl!WaitsForever(t)
  PROVE  IdleInv'
<1>1. /\ list' = [list EXCEPT ![t] = "suspended"] /\ left' = [left EXCEPT ![t] = 0]
      /\ UNCHANGED <<xTickCount, xNextTaskUnblockTime, xPendedTicks, xYieldPending, wake,
                     pended, idle>>
      /\ ~Tl!SchedulerSuspended
  BY DEF Tl!WaitsForever, Tl!Runs
<1>2. /\ list \in [Task -> Lists] /\ left \in [Task -> Int]
  BY ClockIs DEF IdleInv, ClockTyped, Good
<1>3. \A u \in Task : /\ list'[u] = IF u = t THEN "suspended" ELSE list[u]
                      /\ left'[u] = IF u = t THEN 0 ELSE left[u]
  BY <1>1, <1>2
<1>4. Good(Clock)'
  <2>1. list' \in [Task -> Lists] BY <1>1, <1>2 DEF Lists
  <2> QED BY <2>1, <1>1, <1>3, ClockIs DEF IdleInv, Good
<1>5. ClockTyped' BY <1>1, <1>2 DEF IdleInv, ClockTyped, IdleTyped
<1>6. LeftExact'
  <2> SUFFICES ASSUME NEW u \in Task
               PROVE  left'[u] = IF u \in Tl!Delayed' \ pended'
                                   THEN Rest(Clock, u)' - xPendedTicks' - idle'.elapsed ELSE 0
    BY DEF LeftExact
  <2>1. CASE u = t BY <2>1, <1>3 DEF Tl!Delayed
  <2>2. CASE u # t
    <3>1. Rest(Clock, u)' = Rest(Clock, u) BY <2>2, <1>1, <1>3, ClockIs DEF Rest
    <3>2. u \in Tl!Delayed' \ pended' <=> u \in Tl!Delayed \ pended
      BY <2>2, <1>1, <1>3 DEF Tl!Delayed
    <3> QED BY <3>1, <3>2, <2>2, <1>1, <1>3 DEF IdleInv, LeftExact
  <2> QED BY <2>1, <2>2
<1>7. Phases' BY <1>1 DEF IdleInv, Phases, Tl!SchedulerSuspended, Tl!Sleeping
<1> QED BY <1>4, <1>5, <1>6, <1>7 DEF IdleInv

LEMMA TickKeepsClock ==
  ASSUME Tl!TicklessFits, IdleInv, Tl!TickInterrupt
  PROVE  IdleInv'
<1>1. /\ ~Tl!Sleeping /\ Tl!Pass(1) /\ UNCHANGED <<xYieldPending, wake, pended, idle>>
      /\ Good(Clock) /\ ClockTyped /\ LeftExact /\ Phases
  BY DEF Tl!TickInterrupt, IdleInv
<1>2. \A t \in Task : Owed(t) \in Int /\ Rest(Clock, t) \in Int BY <1>1, RestType
<1>3. xPendedTicks \in Nat /\ idle.elapsed \in Int /\ PendedBound \in Nat
  BY <1>1 DEF ClockTyped, IdleTyped, Tl!Tick, Tl!TicklessFits
<1>4. CASE Tl!SchedulerSuspended
  <2>1. /\ xPendedTicks < PendedBound /\ xPendedTicks' = xPendedTicks + 1
        /\ UNCHANGED <<xTickCount, xNextTaskUnblockTime, list>>
    BY <1>4 DEF Tl!TickInterrupt
  <2>2. /\ Good(Clock)' /\ Tl!Delayed' = Tl!Delayed
        /\ \A t \in Task : Rest(Clock, t)' = Rest(Clock, t)
    BY <1>1, <2>1, SameClock
  <2>3. \A t \in Task : Owed(t)' = Owed(t) - 1 BY <2>1, <2>2, <1>1, <1>2, <1>3 DEF Owed
  <2>4. LeftExact' /\ left' \in [Task -> Int] BY <1>1, <2>2, <2>3, PassKeeps
  <2>5. ClockTyped' BY <1>1, <1>3, <2>1, <2>4 DEF ClockTyped, IdleTyped
  <2>6. Phases'
    BY <1>1, <1>3, <1>4, <2>1 DEF Phases, Tl!SchedulerSuspended, Tl!Sleeping, Planned, Tl!Ready
  <2> QED BY <2>2, <2>4, <2>5, <2>6 DEF IdleInv
<1>5. CASE ~Tl!SchedulerSuspended
  <2>1. xPendedTicks' = xPendedTicks /\ Clock' = Tl!xTaskIncrementTick(Clock)
    <3>1. /\ xTickCount' = Tl!xTaskIncrementTick(Clock).count
          /\ xNextTaskUnblockTime' = Tl!xTaskIncrementTick(Clock).next
          /\ list' = Tl!xTaskIncrementTick(Clock).list /\ UNCHANGED xPendedTicks
      BY <1>5 DEF Tl!TickInterrupt, Clock
    <3>2. Tl!xTaskIncrementTick(Clock)
            = [count |-> Tl!xTaskIncrementTick(Clock).count,
               list |-> Tl!xTaskIncrementTick(Clock).list,
               next |-> Tl!xTaskIncrementTick(Clock).next]
      BY DEF Tl!xTaskIncrementTick
    <3> QED BY <3>1, <3>2 DEF Clock
  <2>2. wake \in [Task -> Tl!Tick] BY <1>1 DEF ClockTyped
  <2>3. Good(Clock') /\ Later(Clock, Clock', 1) BY <1>1, <2>1, <2>2, ClockTicks
  <2>4. Good(Clock)' BY <2>3, <1>1 DEF Good
  <2>5. \A t \in Task : Rest(Clock, t)' = Rest(Clock', t) BY <1>1 DEF Rest
  <2>6. \A t \in Task : t \in Tl!Delayed' => t \in Tl!Delayed /\ Rest(Clock, t)' = Rest(Clock, t) - 1
    BY <2>3, <2>5, ClockIs DEF Later, Waits, Tl!Delayed
  <2>7. \A t \in Task : t \in Tl!Delayed' \ pended' => t \in Tl!Delayed \ pended /\ Owed(t)' = Owed(t) - 1
    BY <2>6, <2>1, <1>1, <1>2, <1>3 DEF Owed
  <2>8. LeftExact' /\ left' \in [Task -> Int] BY <1>1, <2>7, PassKeeps
  <2>9. ClockTyped' BY <1>1, <1>3, <2>1, <2>8 DEF ClockTyped, IdleTyped
  <2>10. Phases' BY <1>1, <1>5, <2>1 DEF Phases, Tl!SchedulerSuspended, Tl!Sleeping
  <2> QED BY <2>4, <2>8, <2>9, <2>10 DEF IdleInv
<1> QED BY <1>4, <1>5

LEMMA InterruptKeepsClock ==
  ASSUME Tl!TicklessFits, IdleInv, NEW t \in Task, NEW resets \in BOOLEAN,
         Tl!Interrupt(t, resets)
  PROVE  IdleInv'
<1>1. /\ ~Tl!Sleeping /\ Tl!Pass(0) /\ UNCHANGED <<xTickCount, xPendedTicks, wake, idle>>
      /\ Good(Clock) /\ ClockTyped /\ LeftExact /\ Phases
  BY DEF Tl!Interrupt, IdleInv
<1>2. \A u \in Task : Owed(u) \in Int /\ Rest(Clock, u) \in Int BY <1>1, RestType
<1>3. xPendedTicks \in Nat /\ idle.elapsed \in Int
  BY <1>1 DEF ClockTyped, IdleTyped, Tl!Tick
<1>4. CASE Tl!SchedulerSuspended
  <2>1. /\ pended' = pended \cup {t} /\ xYieldPending' = (xYieldPending \/ uxPriority[t] > 0)
        /\ UNCHANGED <<list, xNextTaskUnblockTime>>
    BY <1>4 DEF Tl!Interrupt, Tl!Pend
  <2>2. /\ Good(Clock)' /\ Tl!Delayed' = Tl!Delayed
        /\ \A u \in Task : Rest(Clock, u)' = Rest(Clock, u)
    BY <1>1, <2>1, SameClock
  <2>3. \A u \in Task : Owed(u)' = Owed(u) - 0 BY <2>1, <2>2, <1>1, <1>2, <1>3 DEF Owed
  <2>4. LeftExact' /\ left' \in [Task -> Int] BY <1>1, <2>1, <2>2, <2>3, PassKeeps
  <2>5. ClockTyped'
    <3>1. xYieldPending' \in BOOLEAN BY <2>1
    <3>2. pended' \subseteq Task BY <2>1, <1>1 DEF ClockTyped
    <3> QED BY <3>1, <3>2, <1>1, <2>1, <2>4 DEF ClockTyped, IdleTyped
  <2>6. Phases'
    BY <1>1, <1>3, <1>4, <2>1 DEF Phases, Tl!SchedulerSuspended, Tl!Sleeping, Planned, Tl!Ready
  <2> QED BY <2>2, <2>4, <2>5, <2>6 DEF IdleInv
<1>5. CASE ~Tl!SchedulerSuspended
  <2>1. /\ list' = [list EXCEPT ![t] = "ready"]
        /\ xNextTaskUnblockTime' = IF resets THEN Tl!NextUnblock(list')
                                   ELSE xNextTaskUnblockTime
        /\ UNCHANGED <<pended, xYieldPending>>
    BY <1>5 DEF Tl!Interrupt
  <2>2. wake \in [Task -> Tl!Tick] /\ list \in [Task -> Lists]
    BY <1>1, ClockIs DEF ClockTyped, Good
  <2>3. list' \in [Task -> Lists] /\ \A u \in Task : list'[u] = IF u = t THEN "ready" ELSE list[u]
    BY <2>1, <2>2 DEF Lists
  <2>4. NextOf(list', Tl!NextUnblock(list')) BY <2>2, <2>3, NextUnblockIs
  <2>5. /\ xTickCount \in Tl!Tick /\ xNextTaskUnblockTime \in Tl!Tick
        /\ xTickCount < xNextTaskUnblockTime \/ (xTickCount = xNextTaskUnblockTime /\ xTickCount = Tl!LastTick)
        /\ \A u \in Task : list[u] = "delayed" => wake[u] > xTickCount /\ xNextTaskUnblockTime <= wake[u]
        /\ \A u \in Task : list[u] = "overflow" => wake[u] < xTickCount
    BY <1>1, ClockIs DEF Good
  <2>6. Good(Clock)'
    <3>1. CASE resets
      <4> DEFINE m == Tl!NextUnblock(list')
      <4>1. xNextTaskUnblockTime' = m /\ NextOf(list', m) BY <3>1, <2>1, <2>4
      <4> HIDE DEF m
      <4>2. xTickCount < m \/ (xTickCount = m /\ xTickCount = Tl!LastTick)
        <5>1. \A x : x \in Tl!Tick => x \in Int /\ x <= Tl!LastTick
          BY DEF Tl!Tick, Tl!LastTick, Tl!TicklessFits
        <5>2. m = Tl!LastTick \/ \E u \in Task : list[u] = "delayed" /\ m = wake[u]
          BY <4>1, <2>3 DEF NextOf
        <5>3. m \in Tl!Tick BY <4>1 DEF NextOf
        <5> QED BY <5>1, <5>2, <5>3, <2>5
      <4>3. \A u \in Task : list'[u] = "delayed" => wake[u] > xTickCount /\ m <= wake[u]
        BY <4>1, <2>3, <2>5 DEF NextOf
      <4>4. m \in Tl!Tick BY <4>1 DEF NextOf
      <4> QED BY <4>1, <4>2, <4>3, <4>4, <2>3, <2>5, <1>1, ClockIs DEF Good
    <3>2. CASE ~resets BY <3>2, <2>1, <2>3, <2>5, <1>1, ClockIs DEF Good
    <3> QED BY <3>1, <3>2
  <2>7. \A u \in Task : u \in Tl!Delayed' \ pended'
                          => u \in Tl!Delayed \ pended /\ Owed(u)' = Owed(u) - 0
    <3> SUFFICES ASSUME NEW u \in Task, u \in Tl!Delayed' \ pended'
                 PROVE  u \in Tl!Delayed \ pended /\ Owed(u)' = Owed(u) - 0
      OBVIOUS
    <3>1. u # t /\ list'[u] = list[u] /\ u \in Tl!Delayed \ pended
      BY <2>1, <2>3 DEF Tl!Delayed
    <3>2. Rest(Clock, u)' = Rest(Clock, u) BY <3>1, <1>1, ClockIs DEF Rest
    <3> QED BY <3>1, <3>2, <1>1, <1>2 DEF Owed
  <2>8. LeftExact' /\ left' \in [Task -> Int] BY <1>1, <2>7, PassKeeps
  <2>9. ClockTyped' BY <1>1, <2>1, <2>8 DEF ClockTyped, IdleTyped
  <2>10. Phases' BY <1>1, <1>5, <2>1 DEF Phases, Tl!SchedulerSuspended, Tl!Sleeping
  <2> QED BY <2>6, <2>8, <2>9, <2>10 DEF IdleInv
<1> QED BY <1>4, <1>5

\* Steps of the idle task that only it can see.
LEMMA QuietKeepsClock ==
  ASSUME IdleInv, idle'.elapsed = idle.elapsed,
         UNCHANGED <<xTickCount, xNextTaskUnblockTime, xPendedTicks, xYieldPending, list,
                     wake, pended, left>>
  PROVE  Good(Clock)' /\ LeftExact' /\ (IdleTyped' => ClockTyped')
<1>1. /\ Good(Clock)' /\ Tl!Delayed' = Tl!Delayed
      /\ \A t \in Task : Rest(Clock, t)' = Rest(Clock, t)
  BY SameClock DEF IdleInv
<1>2. LeftExact' BY <1>1 DEF IdleInv, LeftExact
<1>3. IdleTyped' => ClockTyped' BY DEF IdleInv, ClockTyped
<1> QED BY <1>1, <1>2, <1>3

LEMMA IdleKeepsClock ==
  ASSUME Tl!TicklessFits, IdleInv,
         Tl!IdleChecks \/ Tl!IdleSuspendsAll \/ Tl!IdleSamples \/ Tl!FallsAsleep
  PROVE  IdleInv'
<1>1. /\ UNCHANGED <<xTickCount, xNextTaskUnblockTime, xPendedTicks, xYieldPending, list,
                     wake, pended, left>>
      /\ ClockTyped /\ Phases /\ IdleTyped
  BY DEF Tl!IdleChecks, Tl!IdleSuspendsAll, Tl!IdleSamples, Tl!FallsAsleep, IdleInv,
         ClockTyped
<1>2. /\ xTickCount \in Nat /\ xNextTaskUnblockTime \in Tl!Tick /\ xTickCount <= xNextTaskUnblockTime
      /\ xNextTaskUnblockTime \in Nat /\ xPendedTicks \in Nat /\ 0 \in Tl!Tick
      /\ \A n \in Nat : n <= xNextTaskUnblockTime => n \in Tl!Tick
  BY <1>1, ClockIs DEF IdleInv, Good, Tl!Tick, Tl!LastTick, ClockTyped, Tl!TicklessFits
<1>3. CASE Tl!IdleChecks
  <2>1. idle.at = "loop" /\ idle' = [idle EXCEPT !.at = "checked"]
    BY <1>3 DEF Tl!IdleChecks
  <2>2. IdleTyped' /\ idle'.elapsed = idle.elapsed BY <1>1, <2>1 DEF IdleTyped
  <2>3. Phases' BY <1>1, <2>1 DEF Phases, IdleTyped, Tl!SchedulerSuspended, Tl!Sleeping
  <2> QED BY <1>1, <2>2, <2>3, QuietKeepsClock DEF IdleInv
<1>4. CASE Tl!IdleSuspendsAll
  <2>1. idle.at = "checked" /\ idle' = [idle EXCEPT !.at = "locked"]
    BY <1>4 DEF Tl!IdleSuspendsAll
  <2>2. IdleTyped' /\ idle'.elapsed = idle.elapsed BY <1>1, <2>1 DEF IdleTyped
  <2>3. Phases' BY <1>1, <2>1 DEF Phases, IdleTyped, Tl!SchedulerSuspended, Tl!Sleeping
  <2> QED BY <1>1, <2>2, <2>3, QuietKeepsClock DEF IdleInv
<1>5. CASE Tl!IdleSamples
  <2> DEFINE expected == Tl!prvGetExpectedIdleTime
  <2>1. /\ idle.at = "locked" /\ idle.expected = 0
        /\ idle' = IF expected >= 2 THEN [idle EXCEPT !.expected = expected]
                   ELSE [idle EXCEPT !.at = "resume"]
    BY <1>5 DEF Tl!IdleSamples, Tl!configEXPECTED_IDLE_TIME_BEFORE_SLEEP
  <2>2. /\ expected \in Tl!Tick
        /\ expected >= 2 => Tl!Ready = {} /\ expected = xNextTaskUnblockTime - xTickCount
    BY <1>2 DEF Tl!prvGetExpectedIdleTime
  <2> HIDE DEF expected
  <2>3. IdleTyped' /\ idle'.elapsed = idle.elapsed
    <3>1. CASE expected >= 2 BY <3>1, <1>1, <2>1, <2>2 DEF IdleTyped
    <3>2. CASE ~ (expected >= 2) BY <3>2, <1>1, <2>1, <2>2 DEF IdleTyped
    <3> QED BY <3>1, <3>2
  <2>4. Phases'
    <3>1. CASE expected >= 2
      <4>1. /\ idle'.at = "locked" /\ idle'.elapsed = idle.elapsed /\ idle'.expected = expected
        BY <3>1, <1>1, <2>1 DEF IdleTyped
      <4>2. Planned' BY <4>1, <3>1, <2>2, <1>1 DEF Planned, Tl!Ready
      <4> QED BY <4>1, <4>2, <2>1, <1>1 DEF Phases, Tl!SchedulerSuspended, Tl!Sleeping
    <3>2. CASE ~ (expected >= 2)
      <4>1. /\ idle'.at = "resume" /\ idle'.elapsed = idle.elapsed /\ idle'.expected = 0
        BY <3>2, <1>1, <2>1 DEF IdleTyped
      <4>2. xPendedTicks <= PendedBound + 1
        BY <1>1, <1>2, <2>1 DEF Phases, Tl!TicklessFits
      <4> QED BY <4>1, <4>2, <2>1, <1>1 DEF Phases, Tl!SchedulerSuspended, Tl!Sleeping
    <3> QED BY <3>1, <3>2
  <2> QED BY <1>1, <2>3, <2>4, QuietKeepsClock DEF IdleInv
<1>6. CASE Tl!FallsAsleep
  <2> DEFINE mode == Tl!eTaskConfirmSleepModeStatus
  <2>1. /\ idle.at = "locked" /\ idle.expected > 0
        /\ idle' = [idle EXCEPT !.stale = xPendedTicks,
                      !.at = CASE mode = "eAbortSleep" -> "resume"
                               [] mode = "eStandardSleep" -> "asleep"
                               [] OTHER -> "off"]
    BY <1>6 DEF Tl!FallsAsleep
  <2>2. /\ mode \in {"eAbortSleep", "eStandardSleep", "eNoTasksWaitingTimeout"}
        /\ mode # "eAbortSleep" => pended = {} /\ xYieldPending = FALSE
        /\ mode = "eNoTasksWaitingTimeout" => \A t \in Task : list[t] = "suspended"
    BY <1>1 DEF Tl!eTaskConfirmSleepModeStatus, ClockTyped
  <2> HIDE DEF mode
  <2>3. /\ idle'.expected = idle.expected /\ idle'.elapsed = idle.elapsed
        /\ idle'.stale = xPendedTicks
        /\ mode = "eAbortSleep" => idle'.at = "resume"
        /\ mode = "eStandardSleep" => idle'.at = "asleep"
        /\ mode = "eNoTasksWaitingTimeout" => idle'.at = "off"
        /\ idle' = [at |-> idle'.at, expected |-> idle'.expected,
                    elapsed |-> idle'.elapsed, stale |-> idle'.stale]
    BY <1>1, <2>1, <2>2 DEF IdleTyped
  <2>4. IdleTyped' BY <1>1, <1>2, <2>2, <2>3 DEF IdleTyped
  <2>5. /\ idle.elapsed = 0 /\ Planned /\ xPendedTicks <= PendedBound
        /\ xPendedTicks <= PendedBound + 1
    BY <1>1, <1>2, <2>1 DEF Phases, Tl!TicklessFits
  <2>6. Planned' /\ idle.expected >= 2 BY <1>1, <2>3, <2>5 DEF Planned, Tl!Ready
  <2>7. Phases'
    <3>1. CASE mode = "eAbortSleep"
      BY <3>1, <1>1, <2>3, <2>5, <2>6 DEF Phases, Tl!SchedulerSuspended, Tl!Sleeping
    <3>2. CASE mode = "eStandardSleep"
      <4>1. 0 <= idle.expected - 1 /\ idle.expected > 0
        BY <1>1, <2>6 DEF IdleTyped, Tl!Tick
      <4> QED BY <3>2, <4>1, <1>1, <2>2, <2>3, <2>5, <2>6
        DEF Phases, Tl!SchedulerSuspended, Tl!Sleeping
    <3>3. CASE mode = "eNoTasksWaitingTimeout" BY <3>3, <1>1, <2>1, <2>2, <2>3, <2>5, <2>6
      DEF Phases, Tl!SchedulerSuspended, Tl!Sleeping
    <3> QED BY <3>1, <3>2, <3>3, <2>2
  <2> QED BY <1>1, <2>3, <2>4, <2>7, QuietKeepsClock DEF IdleInv
<1> QED BY <1>3, <1>4, <1>5, <1>6

\* vTaskStepTick over less than the time to the next unblock.
LEMMA JumpKeepsClock ==
  ASSUME Tl!TicklessFits, Good(Clock), ClockTyped, NEW n \in Nat,
         xTickCount + n < xNextTaskUnblockTime, Tl!vTaskStepTick(n),
         UNCHANGED <<xNextTaskUnblockTime, list, wake>>
  PROVE  /\ Good(Clock)' /\ Tl!Delayed' = Tl!Delayed
         /\ \A t \in Task : t \in Tl!Delayed => Rest(Clock, t)' = Rest(Clock, t) - n
<1>1. /\ TickMod \in Nat /\ TickMod > 0
      /\ \A x : x \in Tl!Tick <=> x \in Nat /\ x < TickMod
      /\ xTickCount \in Tl!Tick /\ xNextTaskUnblockTime \in Tl!Tick
      /\ list \in [Task -> Lists] /\ wake \in [Task -> Tl!Tick]
      /\ \A t \in Task : list[t] = "delayed" => wake[t] > xTickCount /\ xNextTaskUnblockTime <= wake[t]
      /\ \A t \in Task : list[t] = "overflow" => wake[t] < xTickCount
  BY ClockIs DEF Tl!TicklessFits, Tl!LastTick, Tl!Tick, Good, ClockTyped
<1>2. xTickCount' = xTickCount + n /\ xTickCount' \in Tl!Tick /\ xTickCount' < xNextTaskUnblockTime
  BY <1>1 DEF Tl!vTaskStepTick
<1>3. \A t \in Task : wake[t] \in Nat BY <1>1
<1>4. \A t \in Task : /\ list[t] = "delayed" => wake[t] > xTickCount'
                      /\ list[t] = "overflow" => wake[t] < xTickCount'
  BY <1>1, <1>2, <1>3
<1>5. Good(Clock)' BY <1>1, <1>2, <1>4, ClockIs DEF Good
<1>6. \A t \in Task : t \in Tl!Delayed => Rest(Clock, t)' = Rest(Clock, t) - n
  BY <1>1, <1>2, <1>3, ClockIs DEF Rest
<1> QED BY <1>5, <1>6 DEF Tl!Delayed

LEMMA SleepKeepsClock ==
  ASSUME Tl!TicklessFits, IdleInv,
         Tl!TimePassesAsleep \/ Tl!WokenByInterrupt \/ Tl!WokenByTick
  PROVE  IdleInv'
<1>1. Good(Clock) /\ ClockTyped /\ LeftExact /\ Phases /\ IdleTyped
  BY DEF IdleInv, ClockTyped
<1>2. \A t \in Task : Owed(t) \in Int /\ Rest(Clock, t) \in Int BY <1>1, RestType
<1>3. /\ xPendedTicks \in Nat /\ idle.elapsed \in Nat /\ idle.expected \in Nat
      /\ idle.expected \in Tl!Tick /\ 0 \in Tl!Tick /\ PendedBound \in Nat
      /\ \A n \in Nat : n <= idle.expected => n \in Tl!Tick
      /\ xTickCount \in Nat /\ xNextTaskUnblockTime \in Nat
  BY <1>1, ClockIs DEF ClockTyped, IdleTyped, Good, Tl!Tick, Tl!LastTick, Tl!TicklessFits
<1>4. /\ Tl!Sleeping /\ UNCHANGED <<xNextTaskUnblockTime, list, wake>>
  BY DEF Tl!TimePassesAsleep, Tl!WokenByInterrupt, Tl!WokenByTick, Tl!Sleeping
<1>5. /\ pended = {} /\ xYieldPending = FALSE /\ Planned /\ xPendedTicks <= PendedBound
      /\ idle.elapsed <= idle.expected - 1
  <2>1. idle.at \in {"asleep", "off"} BY <1>4 DEF Tl!Sleeping
  <2>2. /\ pended = {} /\ xYieldPending = FALSE /\ Planned /\ xPendedTicks <= PendedBound
    BY <1>1, <1>4, <2>1 DEF Phases
  <2>3. idle.elapsed <= idle.expected - 1
    <3>1. CASE idle.at = "asleep" BY <3>1, <1>1 DEF Phases
    <3>2. CASE idle.at = "off"
      <4>1. idle.elapsed = 0 /\ idle.expected >= 2 BY <3>2, <2>2, <1>1 DEF Phases, Planned
      <4> QED BY <4>1, <1>3
    <3> QED BY <3>1, <3>2, <2>1
  <2> QED BY <2>2, <2>3
<1>6. xTickCount + idle.elapsed < xNextTaskUnblockTime BY <1>3, <1>5 DEF Planned
<1>7. CASE Tl!TimePassesAsleep
  <2>1. /\ idle.at = "asleep" /\ idle.elapsed < idle.expected - 1
        /\ idle' = [idle EXCEPT !.elapsed = @ + 1]
        /\ UNCHANGED <<xTickCount, xPendedTicks, xYieldPending, pended>> /\ Tl!Pass(1)
    BY <1>7 DEF Tl!TimePassesAsleep
  <2>2. /\ idle'.at = "asleep" /\ idle'.elapsed = idle.elapsed + 1
        /\ idle'.expected = idle.expected /\ idle'.stale = idle.stale
        /\ idle' = [at |-> idle'.at, expected |-> idle'.expected,
                    elapsed |-> idle'.elapsed, stale |-> idle'.stale]
    BY <1>1, <2>1 DEF IdleTyped
  <2>3. idle'.elapsed \in Tl!Tick /\ idle'.elapsed <= idle.expected - 1
    <3>1. idle.elapsed + 1 \in Nat /\ idle.elapsed + 1 <= idle.expected - 1
          /\ idle.elapsed + 1 <= idle.expected
      BY <1>3, <2>1
    <3> QED BY <3>1, <2>2, <1>3
  <2>4. /\ Good(Clock)' /\ Tl!Delayed' = Tl!Delayed /\ Tl!Ready' = Tl!Ready
        /\ \A t \in Task : Rest(Clock, t)' = Rest(Clock, t)
    BY <1>1, <1>4, <2>1, SameClock
  <2>5. \A t \in Task : Owed(t)' = Owed(t) - 1 BY <1>2, <1>3, <2>1, <2>2, <2>4 DEF Owed
  <2>6. LeftExact' /\ left' \in [Task -> Int] BY <1>1, <2>1, <2>4, <2>5, PassKeeps
  <2>7. IdleTyped' BY <1>1, <2>2, <2>3 DEF IdleTyped
  <2>8. ClockTyped' BY <1>1, <1>4, <2>1, <2>6, <2>7 DEF ClockTyped
  <2>9. Planned' BY <1>4, <1>5, <2>1, <2>2, <2>4 DEF Planned
  <2>10. Phases' BY <1>1, <1>4, <1>5, <2>1, <2>2, <2>3, <2>9
    DEF Phases, Tl!SchedulerSuspended, Tl!Sleeping
  <2> QED BY <2>4, <2>6, <2>8, <2>10 DEF IdleInv
<1>8. CASE Tl!WokenByInterrupt \/ Tl!WokenByTick
  <2>1. /\ Tl!vTaskStepTick(idle.elapsed)
        /\ idle' = [idle EXCEPT !.at = "resume", !.elapsed = 0]
    BY <1>8 DEF Tl!WokenByInterrupt, Tl!WokenByTick
  <2>2. /\ idle'.at = "resume" /\ idle'.elapsed = 0
        /\ idle'.expected = idle.expected /\ idle'.stale = idle.stale
        /\ idle' = [at |-> idle'.at, expected |-> idle'.expected,
                    elapsed |-> idle'.elapsed, stale |-> idle'.stale]
    BY <1>1, <2>1 DEF IdleTyped
  <2>3. IdleTyped' BY <1>1, <1>3, <2>2 DEF IdleTyped
  <2>4. /\ Good(Clock)' /\ Tl!Delayed' = Tl!Delayed
        /\ \A t \in Task : t \in Tl!Delayed => Rest(Clock, t)' = Rest(Clock, t) - idle.elapsed
    BY <1>1, <1>3, <1>4, <1>6, <2>1, JumpKeepsClock
  <2>5. /\ xYieldPending' \in BOOLEAN /\ pended' \subseteq Task
        /\ xPendedTicks' \in Nat /\ xPendedTicks' <= PendedBound + 1
        /\ LeftExact' /\ left' \in [Task -> Int]
    <3>1. CASE Tl!WokenByInterrupt
      <4>1. UNCHANGED xPendedTicks /\ Tl!Pass(0) BY <3>1 DEF Tl!WokenByInterrupt
      <4>2. xYieldPending' \in BOOLEAN /\ pended' \subseteq Task
        BY <3>1, <1>1 DEF Tl!WokenByInterrupt, Tl!Pend, ClockTyped
      <4>3. xPendedTicks' \in Nat /\ xPendedTicks' <= PendedBound + 1 BY <4>1, <1>3, <1>5
      <4>4. \A t \in Task : t \in Tl!Delayed' \ pended'
                              => t \in Tl!Delayed \ pended /\ Owed(t)' = Owed(t) - 0
        BY <4>1, <1>2, <1>3, <1>5, <2>2, <2>4 DEF Owed
      <4>5. LeftExact' /\ left' \in [Task -> Int] BY <1>1, <4>1, <4>4, PassKeeps
      <4> QED BY <4>2, <4>3, <4>5
    <3>2. CASE Tl!WokenByTick
      <4>1. /\ xPendedTicks' = xPendedTicks + 1 /\ Tl!Pass(1)
            /\ UNCHANGED <<xYieldPending, pended>>
        BY <3>2 DEF Tl!WokenByTick
      <4>2. xYieldPending' \in BOOLEAN /\ pended' \subseteq Task
        BY <4>1, <1>1 DEF ClockTyped
      <4>3. xPendedTicks' \in Nat /\ xPendedTicks' <= PendedBound + 1 BY <4>1, <1>3, <1>5
      <4>4. \A t \in Task : t \in Tl!Delayed' \ pended'
                              => t \in Tl!Delayed \ pended /\ Owed(t)' = Owed(t) - 1
        BY <4>1, <1>2, <1>3, <1>5, <2>2, <2>4 DEF Owed
      <4>5. LeftExact' /\ left' \in [Task -> Int] BY <1>1, <4>1, <4>4, PassKeeps
      <4> QED BY <4>2, <4>3, <4>5
    <3> QED BY <3>1, <3>2, <1>8
  <2>6. ClockTyped' BY <1>1, <1>4, <2>3, <2>5 DEF ClockTyped
  <2>7. Phases' BY <2>2, <2>5 DEF Phases, Tl!SchedulerSuspended, Tl!Sleeping
  <2> QED BY <2>4, <2>5, <2>6, <2>7 DEF IdleInv
<1> QED BY <1>7, <1>8

LEMMA ResumeKeepsClock ==
  ASSUME Tl!TicklessFits, IdleInv, Tl!IdleResumesAll
  PROVE  IdleInv'
<1>1. Good(Clock) /\ ClockTyped /\ LeftExact /\ Phases /\ wake \in [Task -> Tl!Tick]
  BY DEF IdleInv, ClockTyped
<1>2. \A t \in Task : Owed(t) \in Int /\ Rest(Clock, t) \in Int BY <1>1, RestType
<1> DEFINE lists == [t \in Task |-> IF t \in pended THEN "ready" ELSE list[t]]
           next == IF pended = {} THEN xNextTaskUnblockTime ELSE Tl!NextUnblock(lists)
           s == [count |-> xTickCount, next |-> next, list |-> lists]
           u == Tl!Increment(s, xPendedTicks)
<1>3. /\ xTickCount' = u.count /\ xNextTaskUnblockTime' = u.next /\ list' = u.list
      /\ xPendedTicks' = 0 /\ pended' = {} /\ xYieldPending' = FALSE /\ idle' = Tl!Awake
      /\ wake' = wake /\ Tl!Pass(0) /\ idle.at = "resume"
  BY DEF Tl!IdleResumesAll
<1>4. /\ xTickCount \in Tl!Tick /\ xNextTaskUnblockTime \in Tl!Tick /\ list \in [Task -> Lists]
      /\ xTickCount < xNextTaskUnblockTime \/ (xTickCount = xNextTaskUnblockTime /\ xTickCount = Tl!LastTick)
      /\ \A t \in Task : list[t] = "delayed" => wake[t] > xTickCount /\ xNextTaskUnblockTime <= wake[t]
      /\ \A t \in Task : list[t] = "overflow" => wake[t] < xTickCount
  BY <1>1, ClockIs DEF Good
<1>5. /\ lists \in [Task -> Lists]
      /\ \A t \in Task : lists[t] = IF t \in pended THEN "ready" ELSE list[t]
  BY <1>4 DEF Lists
<1> HIDE DEF lists
<1>6. /\ next \in Tl!Tick
      /\ xTickCount < next \/ (xTickCount = next /\ xTickCount = Tl!LastTick)
      /\ \A t \in Task : lists[t] = "delayed" => next <= wake[t]
  <2>1. CASE pended = {} BY <2>1, <1>4, <1>5
  <2>2. CASE pended # {}
    <3>1. next = Tl!NextUnblock(lists) BY <2>2
    <3> HIDE DEF next
    <3>2. NextOf(lists, next) BY <3>1, <1>1, <1>5, NextUnblockIs
    <3>3. \A x : x \in Tl!Tick => x \in Int /\ x <= Tl!LastTick
      BY DEF Tl!Tick, Tl!LastTick, Tl!TicklessFits
    <3>4. xTickCount < next \/ (xTickCount = next /\ xTickCount = Tl!LastTick)
      BY <3>2, <3>3, <1>4, <1>5 DEF NextOf
    <3> QED BY <3>2, <3>4 DEF NextOf
  <2> QED BY <2>1, <2>2
<1> HIDE DEF next
<1>7. s.count = xTickCount /\ s.next = next /\ s.list = lists OBVIOUS
<1> HIDE DEF s
<1>8. Good(s) BY <1>4, <1>5, <1>6, <1>7 DEF Good
<1>9. xPendedTicks \in Nat /\ idle.elapsed = 0 BY <1>1, <1>3 DEF ClockTyped, Phases
<1>10. Good(u) /\ Later(s, u, xPendedTicks) BY <1>1, <1>8, <1>9, TicksKeep
<1> HIDE DEF u
<1>11. Good(Clock)' BY <1>3, <1>10, ClockIs DEF Good
<1>12. /\ idle'.at = "loop" /\ idle'.elapsed = 0 /\ idle'.expected = 0 /\ idle'.stale = 0
       /\ idle' = [at |-> idle'.at, expected |-> idle'.expected,
                   elapsed |-> idle'.elapsed, stale |-> idle'.stale]
  BY <1>3 DEF Tl!Awake
<1>13. ASSUME NEW t \in Task, t \in Tl!Delayed' \ pended'
       PROVE  t \in Tl!Delayed \ pended /\ Owed(t)' = Owed(t) - 0
  <2>1. Waits(u, t) BY <1>3, <1>13 DEF Waits, Tl!Delayed
  <2>2. Waits(s, t) /\ Rest(u, t) = Rest(s, t) - xPendedTicks BY <2>1, <1>10 DEF Later
  <2>3. t \notin pended /\ lists[t] = list[t] /\ t \in Tl!Delayed
    BY <2>2, <1>5, <1>7 DEF Waits, Tl!Delayed
  <2>4. Rest(s, t) = Rest(Clock, t) BY <2>3, <1>7, ClockIs DEF Rest
  <2>5. Rest(Clock, t)' = Rest(u, t) BY <1>3, ClockIs DEF Rest
  <2> QED BY <2>2, <2>3, <2>4, <2>5, <1>2, <1>3, <1>9, <1>12 DEF Owed
<1>14. LeftExact' /\ left' \in [Task -> Int] BY <1>1, <1>3, <1>13, PassKeeps
<1>15. ClockTyped'
  <2>1. 0 \in Tl!Tick /\ 0 \in Nat BY DEF Tl!Tick, Tl!LastTick, Tl!TicklessFits
  <2>2. IdleTyped' BY <1>12, <2>1 DEF IdleTyped
  <2> QED BY <2>1, <2>2, <1>1, <1>3, <1>14 DEF ClockTyped
<1>16. Phases'
  <2>1. 0 <= PendedBound BY DEF Tl!TicklessFits
  <2> QED BY <2>1, <1>3, <1>12 DEF Phases, Tl!SchedulerSuspended, Tl!Sleeping
<1> QED BY <1>11, <1>14, <1>15, <1>16 DEF IdleInv

LEMMA InitClock == ASSUME Tl!TicklessFits, Tl!Init PROVE IdleInv
<1>1. /\ xTickCount = 0 /\ xNextTaskUnblockTime = Tl!LastTick
      /\ xPendedTicks = 0 /\ xYieldPending = FALSE
      /\ list = [t \in Task |-> "ready"] /\ wake = [t \in Task |-> 0]
      /\ pended = {} /\ idle = Tl!Awake /\ left = [t \in Task |-> 0]
  BY DEF Tl!Init
<1>2. 0 \in Tl!Tick /\ Tl!LastTick \in Tl!Tick /\ Tl!LastTick \in Nat /\ 0 <= PendedBound
  BY DEF Tl!Tick, Tl!LastTick, Tl!TicklessFits
<1>3. Good(Clock) BY <1>1, <1>2, ClockIs DEF Good, Lists
<1>4. /\ idle.at = "loop" /\ idle.elapsed = 0 /\ idle.expected = 0 /\ idle.stale = 0
      /\ idle = [at |-> idle.at, expected |-> idle.expected,
                 elapsed |-> idle.elapsed, stale |-> idle.stale]
  BY <1>1 DEF Tl!Awake
<1>5. ClockTyped
  <2>1. wake \in [Task -> Tl!Tick] /\ left \in [Task -> Int] BY <1>1, <1>2
  <2>2. IdleTyped BY <1>2, <1>4 DEF IdleTyped
  <2> QED BY <2>1, <2>2, <1>1 DEF ClockTyped
<1>6. LeftExact BY <1>1 DEF LeftExact, Tl!Delayed
<1>7. Phases BY <1>1, <1>2, <1>4 DEF Phases, Tl!Sleeping
<1> QED BY <1>3, <1>5, <1>6, <1>7 DEF IdleInv

LEMMA StepClock ==
  ASSUME Tl!TicklessFits, IdleInv, [Tl!Next]_(Tl!vars)
  PROVE  IdleInv'
<1>1. CASE UNCHANGED Tl!vars
  <2>1. /\ UNCHANGED <<xTickCount, xNextTaskUnblockTime, xPendedTicks, xYieldPending, list,
                       wake, pended, left>>
        /\ idle' = idle
    BY <1>1 DEF Tl!vars
  <2>2. Good(Clock)' /\ LeftExact' /\ (IdleTyped' => ClockTyped') BY <2>1, QuietKeepsClock
  <2>3. IdleTyped' BY <2>1 DEF IdleInv, ClockTyped, IdleTyped
  <2>4. Phases'
    BY <2>1 DEF IdleInv, Phases, Tl!SchedulerSuspended, Tl!Sleeping, Planned, Tl!Ready
  <2> QED BY <2>2, <2>3, <2>4 DEF IdleInv
<1>2. CASE Tl!Next
  BY <1>2, DelayKeepsClock, WaitKeepsClock, InterruptKeepsClock, TickKeepsClock,
     IdleKeepsClock, SleepKeepsClock, ResumeKeepsClock DEF Tl!Next
<1> QED BY <1>1, <1>2

\* What the invariant says of the properties.
LEMMA ClockServes ==
  ASSUME Tl!TicklessFits, IdleInv
  PROVE  Tl!TypeOK /\ Tl!TimeKept /\ Tl!SleepsInTime /\ Tl!StepsInBounds
<1>1. /\ Good(Clock) /\ ClockTyped /\ LeftExact /\ Phases
      /\ wake \in [Task -> Tl!Tick] /\ left \in [Task -> Int]
  BY DEF IdleInv, ClockTyped
<1>2. /\ TickMod \in Nat /\ TickMod > 0 /\ Tl!LastTick = TickMod - 1
      /\ \A x : x \in Tl!Tick <=> x \in Nat /\ x < TickMod
      /\ xTickCount \in Nat /\ xNextTaskUnblockTime \in Nat /\ list \in [Task -> Lists]
      /\ xTickCount < TickMod /\ xNextTaskUnblockTime < TickMod
      /\ xPendedTicks \in Nat /\ idle.elapsed \in Nat /\ idle.expected \in Nat
      /\ PendedBound \in Nat /\ PendedBound <= TickMod
  BY <1>1, ClockIs DEF Tl!TicklessFits, Tl!LastTick, Tl!Tick, Good, ClockTyped, IdleTyped
<1>3. xTickCount <= xNextTaskUnblockTime BY <1>1, <1>2, ClockIs DEF Good
<1>4. \A t \in Task : wake[t] \in Nat /\ wake[t] < TickMod /\ left[t] \in Int
  BY <1>1, <1>2
<1>5. idle.at \in {"loop", "checked", "locked", "asleep", "off", "resume"}
  BY <1>1 DEF ClockTyped, IdleTyped
<1>6. idle.at = "asleep" => /\ xTickCount + idle.elapsed < xNextTaskUnblockTime
                            /\ idle.stale = xPendedTicks /\ Tl!Ready = {} /\ pended = {}
                            /\ xPendedTicks <= PendedBound
  <2> SUFFICES ASSUME idle.at = "asleep"
               PROVE  /\ xTickCount + idle.elapsed < xNextTaskUnblockTime
                      /\ idle.stale = xPendedTicks /\ Tl!Ready = {} /\ pended = {}
                      /\ xPendedTicks <= PendedBound
    OBVIOUS
  <2>1. /\ idle.elapsed <= idle.expected - 1 /\ idle.stale = xPendedTicks
        /\ pended = {} /\ Planned /\ xPendedTicks <= PendedBound
    BY <1>1 DEF Phases, Tl!Sleeping
  <2> QED BY <2>1, <1>2 DEF Planned
<1>7. ASSUME NEW t \in Task, t \in Tl!Delayed
      PROVE  /\ Rest(Clock, t) \in Int /\ Rest(Clock, t) > 0 /\ Rest(Clock, t) < TickMod
             /\ idle.at = "asleep" => Rest(Clock, t) > idle.elapsed
             /\ Rest(Clock, t) = wake[t] - xTickCount
                \/ Rest(Clock, t) = wake[t] - xTickCount + TickMod
  <2>1. CASE list[t] = "delayed"
    <3>1. Rest(Clock, t) = wake[t] - xTickCount BY <2>1, ClockIs DEF Rest
    <3>2. wake[t] > xTickCount /\ xNextTaskUnblockTime <= wake[t]
      BY <2>1, <1>1, ClockIs DEF Good
    <3> QED BY <3>1, <3>2, <1>2, <1>4, <1>6
  <2>2. CASE list[t] = "overflow"
    <3>1. Rest(Clock, t) = wake[t] + TickMod - xTickCount BY <2>2, ClockIs DEF Rest
    <3>2. wake[t] < xTickCount BY <2>2, <1>1, ClockIs DEF Good
    <3> QED BY <3>1, <3>2, <1>2, <1>4, <1>6
  <2> QED BY <1>7, <2>1, <2>2 DEF Tl!Delayed
<1>8. \A t \in Task : t \in Tl!Delayed \ pended
                        => left[t] = Rest(Clock, t) - xPendedTicks - idle.elapsed
  BY <1>1 DEF LeftExact
<1>9. Tl!TypeOK
  <2>1. \A t \in Task : left[t] \in -TickMod..TickMod
    <3> SUFFICES ASSUME NEW t \in Task PROVE left[t] \in -TickMod..TickMod OBVIOUS
    <3>1. CASE t \in Tl!Delayed \ pended
      <4>1. left[t] = Rest(Clock, t) - xPendedTicks - idle.elapsed BY <3>1, <1>8
      <4>2. /\ Rest(Clock, t) \in Int /\ Rest(Clock, t) > 0 /\ Rest(Clock, t) < TickMod
            /\ idle.at = "asleep" => Rest(Clock, t) > idle.elapsed
        BY <3>1, <1>7
      <4>3. idle.at # "asleep" => idle.elapsed = 0 BY <1>1 DEF Phases
      <4>4. xPendedTicks <= PendedBound + 1 /\ (idle.at = "asleep" => xPendedTicks <= PendedBound)
        BY <1>1, <1>2 DEF Phases
      <4> QED BY <4>1, <4>2, <4>3, <4>4, <1>2
    <3>2. CASE t \notin Tl!Delayed \ pended
      <4>1. left[t] = 0 BY <3>2, <1>1 DEF LeftExact
      <4> QED BY <4>1, <1>2
    <3> QED BY <3>1, <3>2
  <2>2. left \in [Task -> -TickMod..TickMod] BY <2>1, <1>1
  <2>3. xPendedTicks \in 0..PendedBound + 1 BY <1>1, <1>2 DEF Phases
  <2>4. xTickCount \in Tl!Tick /\ xNextTaskUnblockTime \in Tl!Tick BY <1>2
  <2> QED BY <2>2, <2>3, <2>4, <1>1, <1>2 DEF Tl!TypeOK, ClockTyped, IdleTyped, Lists
<1>10. Tl!TimeKept
  <2> SUFFICES ASSUME NEW t \in Task, t \in Tl!Delayed \ pended
               PROVE  (wake[t] - xTickCount - xPendedTicks - idle.elapsed - left[t]) % TickMod = 0
    BY DEF Tl!TimeKept, Tl!Delayed
  <2>1. \/ Rest(Clock, t) = wake[t] - xTickCount
        \/ Rest(Clock, t) = wake[t] - xTickCount + TickMod
    BY <1>7
  <2>2. left[t] = Rest(Clock, t) - xPendedTicks - idle.elapsed BY <1>8
  <2> DEFINE d == wake[t] - xTickCount - xPendedTicks - idle.elapsed - left[t]
  <2>3. d = 0 \/ d = -TickMod BY <2>1, <2>2, <1>2, <1>4
  <2> HIDE DEF d
  <2>4. 0 % TickMod = 0 /\ (-TickMod) % TickMod = 0 BY <1>2
  <2>5. d % TickMod = 0 BY <2>3, <2>4
  <2> QED BY <2>5 DEF d
<1>11. Tl!SleepsInTime
  <2>1. Tl!Sleeping => Tl!Ready \cup pended = {} BY <1>1 DEF Phases, Tl!Sleeping, Planned
  <2>2. idle.at = "off" => Tl!Delayed = {} BY <1>1 DEF Phases, Tl!Delayed
  <2>3. idle.at = "asleep" => \A t \in Tl!Delayed : left[t] + idle.stale > 0
    <3> SUFFICES ASSUME idle.at = "asleep", NEW t \in Tl!Delayed PROVE left[t] + idle.stale > 0
      OBVIOUS
    <3>1. t \in Task /\ t \in Tl!Delayed \ pended BY <1>6 DEF Tl!Delayed
    <3>2. Rest(Clock, t) \in Int /\ Rest(Clock, t) > idle.elapsed BY <3>1, <1>7
    <3>3. left[t] = Rest(Clock, t) - xPendedTicks - idle.elapsed BY <3>1, <1>8
    <3> QED BY <3>2, <3>3, <1>2, <1>6
  <2>4. ~Tl!SchedulerSuspended => \A t \in Tl!Delayed : left[t] > 0
    <3> SUFFICES ASSUME ~Tl!SchedulerSuspended, NEW t \in Tl!Delayed PROVE left[t] > 0
      OBVIOUS
    <3>1. xPendedTicks = 0 /\ pended = {} /\ idle.elapsed = 0
      BY <1>1 DEF Phases, Tl!SchedulerSuspended
    <3>2. t \in Task /\ t \in Tl!Delayed \ pended BY <3>1 DEF Tl!Delayed
    <3>3. Rest(Clock, t) \in Int /\ Rest(Clock, t) > 0 BY <3>2, <1>7
    <3>4. left[t] = Rest(Clock, t) - xPendedTicks - idle.elapsed BY <3>2, <1>8
    <3> QED BY <3>1, <3>3, <3>4
  <2> QED BY <2>1, <2>2, <2>3, <2>4 DEF Tl!SleepsInTime
<1>12. Tl!StepsInBounds BY <1>2, <1>3, <1>6 DEF Tl!StepsInBounds
<1> QED BY <1>9, <1>10, <1>11, <1>12

\* However long the processor sleeps and whatever wakes it: every tick slept through is
\* counted, nobody who is ready or will be due is slept through but for the ticks that
\* were pended when the sleep was planned, and the assertions of vTaskStepTick and of the
\* idle task hold (tasks.c:2141, 2605, 3474, 3523).
THEOREM SleepKeepsTime ==
  ASSUME Tl!TicklessFits
  PROVE  Tl!Spec => [](Tl!TypeOK /\ Tl!TimeKept /\ Tl!SleepsInTime /\ Tl!StepsInBounds)
<1>1. Tl!Init => IdleInv BY InitClock
<1>2. IdleInv /\ [Tl!Next]_(Tl!vars) => IdleInv' BY StepClock
<1>3. IdleInv => Tl!TypeOK /\ Tl!TimeKept /\ Tl!SleepsInTime /\ Tl!StepsInBounds
  BY ClockServes
<1> QED BY <1>1, <1>2, <1>3, PTL DEF Tl!Spec
=============================================================================
