----------------------------- MODULE FrameStream -----------------------------
(***************************************************************************)
(* One direction of the tunnel's TCP stream as both read callbacks see it. *)
(* A frame is a header of HdrLen bytes holding the body's length, low byte *)
(* first (the raw uint32_t of SLClient::writePacket and                    *)
(* SLConnection::writePacket), then the body.  Bytes are only counted: the *)
(* stream is the sequence of the offsets at which its frames end.  What    *)
(* the reader makes of it, ServerReader and ClientReader say.              *)
(***************************************************************************)
EXTENDS Integers, Sequences, FiniteSets

CONSTANTS HdrLen,    \* sizeof(uint32_t)
          Radix,     \* values of a byte
          Lens,      \* the lengths a serialized message may have
          MaxFrames, \* bound: frames the peer writes
          MaxRead,   \* most bytes one evbuffer_read takes from the socket
          Stray      \* lengths that misplaced bytes may spell

ASSUME FrameAssumption ==
  /\ HdrLen \in Nat \ {0}
  /\ Radix \in Nat \ {0}
  /\ Lens \subseteq Nat
  /\ MaxFrames \in Nat
  /\ MaxRead \in Nat
  /\ Stray \subseteq Nat

\* A header can hold every length: it is a uint32_t on both sides.
ASSUME HeaderAssumption ==
  /\ \A h \in 0..HdrLen : Radix ^ h \in Nat \ {0}
  /\ \A l \in Lens : l < Radix ^ HdrLen

VARIABLES ends,      \* ends[i]: where the i-th frame ends in the stream
          received,  \* bytes the socket has given to the bufferevent
          consumed,  \* bytes drained from its input evbuffer
          handled,   \* the bodies the reader handed on, in order
          freed      \* the reader's side freed the bufferevent

Frames == 1..Len(ends)

Total == IF ends = <<>> THEN 0 ELSE ends[Len(ends)]

StartOf(i) == IF i = 1 THEN 0 ELSE ends[i - 1]

\* The bytes of a body, as the pair of offsets around it.
Body(from, length) == <<from + HdrLen, from + HdrLen + length>>

BodyOf(i) == <<StartOf(i) + HdrLen, ends[i]>>

\* What a reader should be handed.
Bodies == [i \in Frames |-> BodyOf(i)]

LengthOf(i) == ends[i] - StartOf(i) - HdrLen

\* The frames that begin at an offset: one, or none.
FramesAt(off) == {i \in Frames : StartOf(i) = off}

\* The frames received to their last byte.
Complete == {i \in Frames : ends[i] <= received}

StreamInit ==
  /\ ends = <<>> /\ received = 0 /\ consumed = 0
  /\ handled = <<>>
  /\ freed = FALSE

\* The peer's writePacket: two bufferevent_writes, the header and the body.
\* The stream may be cut anywhere on its way, so one step loses no behaviour.
WritePacket ==
  /\ Len(ends) < MaxFrames
  /\ \E l \in Lens : ends' = Append(ends, Total + HdrLen + l)
  /\ UNCHANGED <<received, consumed, handled, freed>>

\* bufferevent_readcb: one evbuffer_read of whatever part has arrived.
Arrive(n) ==
  /\ received + n <= Total
  /\ received' = received + n
  /\ UNCHANGED ends

StreamTypeOK ==
  /\ ends \in Seq(Nat)
  /\ received \in 0..Total
  /\ consumed \in 0..received
  /\ handled \in Seq(Nat \X Nat)
  /\ freed \in BOOLEAN

\* Frames follow one another, each with a header and a serialized body.
FramesApart ==
  /\ \A i \in Frames : LengthOf(i) \in Lens
  /\ \A i, j \in Frames : i < j => ends[i] <= StartOf(j)
=============================================================================
