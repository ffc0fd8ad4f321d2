---------------------------- MODULE ServerReader ----------------------------
(***************************************************************************)
(* The server's cb_bufferevent_will_read (SLConnection.cpp) as a reader of *)
(* frames: it peeks at the header, waits for the whole frame, takes one    *)
(* frame and handles it.  libevent runs it once after every read from the  *)
(* socket and not otherwise.                                               *)
(***************************************************************************)
EXTENDS FrameStream

serverVars == <<ends, received, consumed, handled, freed>>

\* evbuffer_copyout of the header at an offset: a header there is read as it
\* is, other bytes spell any length.
PeekLength(off) ==
  IF FramesAt(off) # {} THEN {LengthOf(i) : i \in FramesAt(off)} ELSE Stray

\* Mutant: the header is drained, not peeked at, before the wait.
WaitDrainsHeader(buffered) ==
  \/ buffered < HdrLen /\ UNCHANGED <<consumed, handled>>
  \/ /\ buffered >= HdrLen
     /\ \E length \in PeekLength(consumed) : length + HdrLen > buffered
     /\ consumed' = consumed + HdrLen
     /\ UNCHANGED handled

\* Mutant: a frame that is just complete is waited for.
WaitForMore(buffered) ==
  /\ \/ buffered < HdrLen
     \/ /\ buffered >= HdrLen
        /\ \E length \in PeekLength(consumed) : length + HdrLen >= buffered
  /\ UNCHANGED <<consumed, handled>>

\* Less than a header, or less than the frame, is buffered: return, draining
\* nothing.
Wait(buffered) ==
  /\ \/ buffered < HdrLen
     \/ /\ buffered >= HdrLen
        /\ \E length \in PeekLength(consumed) : length + HdrLen > buffered
  /\ UNCHANGED <<consumed, handled>>

\* Mutant: the header is left out of the comparison.
TakeWithoutHeader(buffered) ==
  /\ buffered >= HdrLen
  /\ \E length \in PeekLength(consumed) :
       /\ length <= buffered
       /\ consumed' = consumed + HdrLen + length
       /\ handled' = Append(handled, Body(consumed, length))

\* One whole frame, and one only, is drained and handled.
Take(buffered) ==
  /\ buffered >= HdrLen
  /\ \E length \in PeekLength(consumed) :
       /\ length + HdrLen <= buffered
       /\ consumed' = consumed + HdrLen + length
       /\ handled' = Append(handled, Body(consumed, length))

ServerCallback(n) ==
  /\ ~freed
  /\ Arrive(n)
  /\ Wait(received' - consumed) \/ Take(received' - consumed)
  /\ UNCHANGED freed

\* The peer is gone (end of stream, or an error before all bytes came):
\* cb_event frees the bufferevent with whatever its input still holds.
HangUp ==
  /\ ~freed
  /\ freed' = TRUE
  /\ UNCHANGED <<ends, received, consumed, handled>>

ServerNext == WritePacket \/ (\E n \in 1..MaxRead : ServerCallback(n)) \/ HangUp

ServerSpec == StreamInit /\ [][ServerNext]_serverVars

-----------------------------------------------------------------------------
(***************************************************************************)
(* However the stream is cut, the handler gets the peer's frames, whole    *)
(* and in order: framing implements a FIFO of frames.                      *)
(***************************************************************************)
Channel == INSTANCE FrameChannel WITH
  written <- Bodies,
  handed  <- handled

ImplementsChannel == Channel!FCSpec

(***************************************************************************)
(* A read from the socket hands over exactly one frame if a complete one   *)
(* is waiting and none otherwise.  Frames that arrive together are         *)
(* therefore left waiting: each later read works off one of them.          *)
(***************************************************************************)
OneFramePerRead ==
  [][received' # received =>
       LET waiting == Cardinality(Complete') - Len(handled)
       IN  Len(handled') = Len(handled) + (IF waiting > 0 THEN 1 ELSE 0)]_serverVars

-----------------------------------------------------------------------------
\* What makes both inductive: between callbacks everything before the next
\* frame's header has been drained and handed over, and nothing after it.
ServerAtFrame ==
  /\ Len(handled) <= Len(ends)
  /\ consumed = StartOf(Len(handled) + 1)
  /\ \A i \in 1..Len(handled) : handled[i] = BodyOf(i)

ServerInv == StreamTypeOK /\ FramesApart /\ ServerAtFrame
=============================================================================
