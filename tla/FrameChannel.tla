---------------------------- MODULE FrameChannel ----------------------------
(***************************************************************************)
(* What length-prefixed framing is for: a FIFO of whole frames.  The peer  *)
(* writes frames, the reader is handed the same frames in the same order,  *)
(* each once and none invented.  Nothing here knows of bytes.              *)
(***************************************************************************)
EXTENDS Naturals, Sequences

VARIABLES written,   \* the frames the peer has written
          handed     \* the frames handed to the message handler

fcVars == <<written, handed>>

FCInit == written = <<>> /\ handed = <<>>

\* Any one frame is added at the end.
WriteFrame ==
  /\ Len(written') = Len(written) + 1
  /\ written' = Append(written, written'[Len(written) + 1])
  /\ UNCHANGED handed

HandFrame ==
  /\ Len(handed) < Len(written)
  /\ handed' = Append(handed, written[Len(handed) + 1])
  /\ UNCHANGED written

FCNext == WriteFrame \/ HandFrame

FCSpec == FCInit /\ [][FCNext]_fcVars
=============================================================================
