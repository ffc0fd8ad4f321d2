---------------------------- MODULE ClientReader ----------------------------
(***************************************************************************)
(* The client's cb_bufferevent_will_read (SLClient.cpp) as a reader of     *)
(* frames.  Unlike the server's it never looks at how much is buffered: it *)
(* drains up to a header and up to a body, zero-fills what is missing and  *)
(* parses the result.  A message that does not parse as a RESPONSE frees   *)
(* the bufferevent: one that was cut, or the server's DATA message, whose  *)
(* body is memory that nobody wrote a message to (SLConnection.cpp:110).   *)
(***************************************************************************)
EXTENDS FrameStream

VARIABLES short,     \* some callback found less than one whole frame
          blank      \* the frames whose body was never serialised

clientVars == <<ends, received, consumed, handled, freed, short, blank>>

\* A message built from anything but one whole body.
Damaged == <<0, 0>>

Least(a, b) == IF a <= b THEN a ELSE b

\* Mutant: the length is read into a signed variable.
ReadLengthSigned(off, h) ==
  IF FramesAt(off) # {} THEN {LengthOf(i) - Radix ^ h : i \in FramesAt(off)} ELSE Stray

\* Mutant: the length is read into one byte.
ReadLengthByte(off, h) ==
  IF FramesAt(off) # {} THEN {LengthOf(i) % Radix : i \in FramesAt(off)} ELSE Stray

\* bufferevent_read of a header of which only h bytes are there, into a zeroed
\* uint32_t: the low bytes of the length are read, or what strays there.
ReadLength(off, h) ==
  IF FramesAt(off) # {}
  THEN {LengthOf(i) % (Radix ^ h) : i \in FramesAt(off)}
  ELSE {s % (Radix ^ h) : s \in Stray}

\* The frame the buffered bytes begin with is all there.
WholeFrame(buffered) == \E i \in FramesAt(consumed) : HdrLen + LengthOf(i) <= buffered

ClientInit == StreamInit /\ short = FALSE /\ blank = {}

\* The server serialises the body, or sends the buffer as it was allocated.
ClientWrite ==
  /\ WritePacket
  /\ blank' \in {blank, blank \cup (Frames' \ Frames)}
  /\ UNCHANGED short

\* The type test and the switch.  A whole body that was serialised is one of
\* the server's messages, all of them RESPONSEs; one that was not may say
\* anything.  A body of which only some bytes are there may have lost its type
\* field, and one without a byte has, which then reads as REQUEST.
Dispatch(message, bytes) ==
  \/ /\ message # Damaged \/ bytes > 0
     /\ handled' = Append(handled, message)
     /\ UNCHANGED freed
  \/ /\ message = Damaged \/ FramesAt(consumed) \cap blank # {}
     /\ freed' = TRUE
     /\ UNCHANGED handled

ClientCallback(n) ==
  /\ ~freed
  /\ Arrive(n)
  /\ UNCHANGED blank
  /\ LET buffered == received' - consumed
         h == Least(HdrLen, buffered)
     IN  /\ short' = (short \/ ~WholeFrame(buffered))
         /\ \E length \in ReadLength(consumed, h) :
              LET bytes == Least(length, buffered - h)
                  body == IF WholeFrame(buffered) THEN Body(consumed, length) ELSE Damaged
              IN  consumed' = consumed + h + bytes /\ Dispatch(body, bytes)

ClientNext == ClientWrite \/ \E n \in 1..MaxRead : ClientCallback(n)

ClientSpec == ClientInit /\ [][ClientNext]_clientVars

-----------------------------------------------------------------------------
ClientTypeOK == StreamTypeOK /\ short \in BOOLEAN /\ blank \subseteq Frames

(***************************************************************************)
(* As long as no callback ran with less than a whole frame buffered, what  *)
(* the tunnel was handed are the server's bodies, whole and in order, and  *)
(* the connection is up unless the body after them is the one that nobody  *)
(* serialised: frames that arrive together do no damage.                   *)
(***************************************************************************)
IntactUntilShort ==
  ~short => /\ Len(handled) <= Len(ends)
            /\ \A i \in 1..Len(handled) : handled[i] = BodyOf(i)
            /\ freed => Len(handled) + 1 \in blank

-----------------------------------------------------------------------------
\* What makes it inductive: till then the callbacks stop at frames' ends.
ClientAtFrame == ~short /\ ~freed => consumed = StartOf(Len(handled) + 1)

ClientInv == ClientTypeOK /\ FramesApart /\ ClientAtFrame /\ IntactUntilShort
=============================================================================
