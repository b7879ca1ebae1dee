------------------------------- MODULE HalFile -------------------------------
(* hal_file.c over the file system: one file, of which only the length counts,  *)
(* and tasks that may share a descriptor of it.  A call of the file system is   *)
(* one step; HalFileStat and HalFileSeek take several.                          *)
EXTENDS Integers, FiniteSets

CONSTANTS Task,
          FdMax,     \* descriptors of the file system are 0..FdMax - 1
          LengthMax  \* bound on the length of the file

VARIABLES length,
          position,  \* of each descriptor, or Closed
          handles,   \* what HalFileOpen returned and was not closed
          call,      \* per task, the function it is in and what it has read
          answer     \* of the last seek, with what it did to the position

vars == <<length, position, handles, call, answer>>

OFFSET_FD == 3
Fd == 0..FdMax - 1
Closed == -1
Whence == {"SEEK_SET_FS", "SEEK_CUR_FS", "SEEK_END_FS"}
Offset == -LengthMax..LengthMax
NoCall == [fn |-> "none"]

FileFits == FdMax \in Nat /\ LengthMax \in Nat

TypeOK ==
  /\ length \in 0..LengthMax
  /\ position \in [Fd -> 0..LengthMax \cup {Closed}]
  /\ handles \subseteq {fd + OFFSET_FD : fd \in Fd}
  /\ DOMAIN call = Task

Init ==
  /\ length = 0 /\ position = [fd \in Fd |-> Closed] /\ handles = {}
  /\ call = [t \in Task |-> NoCall] /\ answer = NoCall

--------------------
(* The file system: each returns -1 when it fails, and then does nothing.     *)

Free == {fd \in Fd : position[fd] = Closed}
Open(fd) == fd \in Fd /\ position[fd] # Closed

\* Where _lseek goes, from the position at.
Target(at, offset, whence) ==
  offset + (CASE whence = "SEEK_SET" -> 0 [] whence = "SEEK_CUR" -> at
              [] whence = "SEEK_END" -> length)

Seeks(fd, offset, whence) ==
  LET to == Target(position[fd], offset, whence) IN
  position' = IF to \in 0..LengthMax THEN [position EXCEPT ![fd] = to] ELSE position

\* Another task that uses the descriptor, which a seek in progress may notice.
Used(fd) == call' = [t \in Task |-> IF call[t].fn = "HalFileSeek" /\ call[t].fd = fd
                                      THEN [call[t] EXCEPT !.alone = FALSE] ELSE call[t]]

--------------------

Calls(t) == call[t] = NoCall
Silent == answer' = NoCall

HalFileOpen(t, truncates) ==
  /\ Calls(t) /\ Silent
  /\ \E fd \in Free : /\ position' = [position EXCEPT ![fd] = 0]
                      /\ handles' = handles \cup {fd + OFFSET_FD}
  /\ length' = IF truncates THEN 0 ELSE length
  /\ UNCHANGED call

\* A handle is closed when nobody is in a call with it.
HalFileClose(t, fd) ==
  /\ Calls(t) /\ Silent /\ fd + OFFSET_FD \in handles
  /\ \A u \in Task : call[u].fn = "HalFileSeek" => call[u].fd # fd
  /\ position' = [position EXCEPT ![fd] = Closed]
  /\ handles' = handles \ {fd + OFFSET_FD}
  /\ UNCHANGED <<length, call>>

HalFileRead(t, fd) ==
  /\ Calls(t) /\ Silent /\ fd + OFFSET_FD \in handles
  /\ position[fd] < length
  /\ position' = [position EXCEPT ![fd] = @ + 1]
  /\ Used(fd) /\ UNCHANGED <<length, handles>>

HalFileWrite(t, fd) ==
  /\ Calls(t) /\ Silent /\ fd + OFFSET_FD \in handles
  /\ position[fd] < LengthMax
  /\ position' = [position EXCEPT ![fd] = @ + 1]
  /\ length' = IF position[fd] >= length THEN position[fd] + 1 ELSE length
  /\ Used(fd) /\ UNCHANGED handles

\* _open, _lseek and _close.
HalFileStat(t) ==
  /\ Calls(t) /\ Silent
  /\ \E fd \in Free : /\ position' = [position EXCEPT ![fd] = 0]
                      /\ call' = [call EXCEPT ![t] = [fn |-> "HalFileStat", fd |-> fd,
                                                      at |-> "seek"]]
  /\ UNCHANGED <<length, handles>>

StatSeeks(t) ==
  /\ call[t].fn = "HalFileStat" /\ call[t].at = "seek" /\ Silent
  /\ Seeks(call[t].fd, 0, "SEEK_END")
  /\ call' = [call EXCEPT ![t].at = "close"]
  /\ UNCHANGED <<length, handles>>

\* Mutant: the descriptor stays open.
StatReturns(t) ==
  /\ call[t].fn = "HalFileStat" /\ call[t].at = "close" /\ Silent
  /\ call' = [call EXCEPT ![t] = NoCall]
  /\ UNCHANGED <<length, position, handles>>

StatCloses(t) ==
  /\ call[t].fn = "HalFileStat" /\ call[t].at = "close" /\ Silent
  /\ position' = [position EXCEPT ![call[t].fd] = Closed]
  /\ call' = [call EXCEPT ![t] = NoCall]
  /\ UNCHANGED <<length, handles>>

--------------------
(* HalFileSeek.                                                               *)

\* An invalid descriptor or whence is refused; then the position is asked for.
HalFileSeek(t, fd, offset, whence) ==
  /\ Calls(t) /\ Silent /\ fd + OFFSET_FD \in handles
  /\ call' = [call EXCEPT ![t] =
       [fn |-> "HalFileSeek", fd |-> fd, offset |-> offset, whence |-> whence,
        at |-> IF whence = "SEEK_END_FS" THEN "seek" ELSE "end",
        len |-> position[fd], len2 |-> 0, alone |-> TRUE,
        target |-> offset + (IF whence = "SEEK_CUR_FS" THEN position[fd] ELSE 0)]]
  /\ UNCHANGED <<length, position, handles>>

\* Then the end, by going there.
SeekEnd(t) ==
  /\ call[t].fn = "HalFileSeek" /\ call[t].at = "end" /\ Silent
  /\ Seeks(call[t].fd, 0, "SEEK_END")
  /\ call' = [call EXCEPT ![t].at = "seek", ![t].len2 = length,
                ![t].offset = IF call[t].whence = "SEEK_CUR_FS" THEN @ + call[t].len ELSE @]
  /\ UNCHANGED <<length, handles>>

Beyond(c) == c.whence # "SEEK_END_FS" /\ c.offset > c.len2

\* Where the seek was to go, past the end nowhere, and where it went.
Verdict(c, to) ==
  IF c.whence = "SEEK_END_FS" \/ c.target < 0 THEN NoCall
  ELSE [fn |-> "HalFileSeek", to |-> to,
        expected |-> IF c.target > c.len2 THEN c.len ELSE c.target]

\* Mutant: a seek past the end leaves the position there.
SeekStays(t) ==
  LET c == call[t] IN
  /\ c.fn = "HalFileSeek" /\ c.at = "seek"
  /\ IF Beyond(c) THEN UNCHANGED position
     ELSE Seeks(c.fd, c.offset, IF c.whence = "SEEK_END_FS" THEN "SEEK_END" ELSE "SEEK_SET")
  /\ answer' = IF c.alone THEN Verdict(c, position'[c.fd]) ELSE NoCall
  /\ call' = [call EXCEPT ![t] = NoCall]
  /\ UNCHANGED <<length, handles>>

\* Past the end it goes back and fails.
SeekReturns(t) ==
  LET c == call[t] IN
  /\ c.fn = "HalFileSeek" /\ c.at = "seek"
  /\ IF Beyond(c) THEN Seeks(c.fd, c.len, "SEEK_SET")
     ELSE Seeks(c.fd, c.offset, IF c.whence = "SEEK_END_FS" THEN "SEEK_END" ELSE "SEEK_SET")
  /\ answer' = IF c.alone THEN Verdict(c, position'[c.fd]) ELSE NoCall
  /\ call' = [call EXCEPT ![t] = NoCall]
  /\ UNCHANGED <<length, handles>>

Next ==
  \E t \in Task :
    \/ \E truncates \in BOOLEAN : HalFileOpen(t, truncates)
    \/ \E fd \in Fd :
         \/ HalFileClose(t, fd) \/ HalFileRead(t, fd) \/ HalFileWrite(t, fd)
         \/ \E offset \in Offset, whence \in Whence : HalFileSeek(t, fd, offset, whence)
    \/ HalFileStat(t) \/ StatSeeks(t) \/ StatCloses(t)
    \/ SeekEnd(t) \/ SeekReturns(t)

Spec == Init /\ [][Next]_vars

--------------------

\* Every descriptor that is open is one the application has, or one HalFileStat
\* will close: hal_file.c:131-152.
DescriptorsBalanced ==
  {fd \in Fd : Open(fd)} =
    {h - OFFSET_FD : h \in handles} \cup {call[t].fd : t \in {u \in Task :
                                            call[u].fn = "HalFileStat"}}

\* A seek that nobody disturbed goes where it was told, or past the end nowhere,
\* although it goes to the end in between.  A target before the start is left
\* out: then the position is lost.  hal_file.c:154-188.
SeekExact == answer # NoCall => answer.to = answer.expected
=============================================================================
