---------------------------- MODULE FramingProofs ----------------------------
(***************************************************************************)
(* Proofs about the two readers of frames.  First the stream: where frames *)
(* are, and that writing one more leaves the others where they are.  Then  *)
(* ServerReader: its callback stops at a frame's end after every read, so  *)
(* that it implements a FIFO of frames and hands over one at each read.    *)
(* Then ClientReader: it drains only what is buffered, and until a         *)
(* callback finds less than a whole frame it hands over the server's       *)
(* bodies intact, and frees its end only on one that nobody serialised.    *)
(***************************************************************************)
EXTENDS ServerReader, ClientReader, SequenceTheorems, FiniteSetTheorems, TLAPS

Stream == ends \in Seq(Nat) /\ FramesApart

\* The offsets around a frame, in terms of its neighbours.
LEMMA FramePlace ==
  ASSUME Stream, NEW i \in Frames
  PROVE  /\ StartOf(i) \in Nat /\ ends[i] \in Nat
         /\ LengthOf(i) \in Lens /\ LengthOf(i) \in Nat
         /\ ends[i] = StartOf(i) + HdrLen + LengthOf(i)
         /\ StartOf(i + 1) = ends[i]
<1>1. Len(ends) \in Nat /\ i \in Nat /\ i >= 1
  BY LenProperties DEF Stream, Frames
<1>2. \A j \in 1..Len(ends) : ends[j] \in Nat
  BY LenProperties DEF Stream
<1>3. StartOf(i) \in Nat /\ ends[i] \in Nat
  BY <1>1, <1>2 DEF StartOf, Frames
<1>4. StartOf(i + 1) = ends[i]
  BY <1>1 DEF StartOf
<1>5. LengthOf(i) \in Lens
  BY DEF Stream, FramesApart
<1>6. LengthOf(i) \in Nat /\ HdrLen \in Nat
  BY <1>5, FrameAssumption
<1> QED BY <1>3, <1>4, <1>5, <1>6 DEF LengthOf

\* One frame begins where it begins.
LEMMA OneFrameAt ==
  ASSUME Stream, NEW k \in Frames
  PROVE  FramesAt(StartOf(k)) = {k}
<1>1. ASSUME NEW i \in Frames, NEW j \in Frames, i < j
      PROVE  StartOf(i) < StartOf(j)
  <2>1. ends[i] <= StartOf(j)
    BY <1>1 DEF Stream, FramesApart
  <2>2. StartOf(i) < ends[i] /\ StartOf(i) \in Nat /\ ends[i] \in Nat /\ StartOf(j) \in Nat
    BY FramePlace, FrameAssumption
  <2> QED BY <2>1, <2>2
<1>2. ASSUME NEW i \in Frames, StartOf(i) = StartOf(k) PROVE i = k
  <2>1. i \in Int /\ k \in Int /\ StartOf(i) \in Nat /\ StartOf(k) \in Nat
    BY FramePlace DEF Frames
  <2>2. ~(i < k) /\ ~(k < i)
    BY <1>1, <1>2, <2>1
  <2> QED BY <2>1, <2>2
<1> QED BY <1>2 DEF FramesAt

\* After the last frame comes the end of the stream.
LEMMA EndOfStream ==
  ASSUME Stream
  PROVE  Total \in Nat /\ StartOf(Len(ends) + 1) = Total
<1>1. Len(ends) \in Nat /\ \A j \in 1..Len(ends) : ends[j] \in Nat
  BY LenProperties DEF Stream
<1>2. (ends = <<>>) <=> (Len(ends) = 0)
  BY EmptySeq DEF Stream
<1>3. CASE Len(ends) = 0
  BY <1>2, <1>3 DEF Total, StartOf
<1>4. CASE Len(ends) # 0
  BY <1>1, <1>2, <1>4 DEF Total, StartOf
<1> QED BY <1>3, <1>4

\* No frame ends after the stream.
LEMMA WithinStream ==
  ASSUME Stream, NEW i \in Frames
  PROVE  ends[i] <= Total
<1>1. Len(ends) \in Nat /\ i \in Nat /\ i <= Len(ends)
  BY LenProperties DEF Stream, Frames
<1>2. CASE i = Len(ends)
  BY <1>1, <1>2, EndOfStream, FramePlace
<1>3. CASE i < Len(ends)
  <2> DEFINE last == Len(ends)
  <2>1. last \in Frames
    BY <1>1, <1>3 DEF Frames
  <2>2. ends[i] <= StartOf(last)
    BY <1>3, <2>1 DEF Stream, FramesApart
  <2>3. StartOf(last) <= ends[last] /\ StartOf(last) \in Nat /\ ends[last] \in Nat /\ ends[i] \in Nat
    BY <2>1, FramePlace, FrameAssumption
  <2>4. ends[last] = Total
    BY <2>1, FramePlace, EndOfStream
  <2> QED BY <2>2, <2>3, <2>4
<1> QED BY <1>1, <1>2, <1>3

\* The peer's write adds a frame at the end of the stream.
LEMMA Written ==
  ASSUME Stream, WritePacket
  PROVE  /\ Stream' /\ Len(ends') = Len(ends) + 1
         /\ Total <= Total'
         /\ \A i \in Frames : i \in Frames' /\ ends'[i] = ends[i]
         /\ \A i \in 1..Len(ends) + 1 : StartOf(i)' = StartOf(i)
<1>1. PICK l \in Lens : ends' = Append(ends, Total + HdrLen + l)
  BY DEF WritePacket
<1>2. DEFINE e == Total + HdrLen + l
             n == Len(ends)
<1>3. Total \in Nat /\ HdrLen \in Nat /\ l \in Nat /\ e \in Nat /\ n \in Nat
  BY EndOfStream, FrameAssumption, LenProperties DEF Stream
<1>4. ends' \in Seq(Nat) /\ Len(ends') = n + 1 /\ ends'[n + 1] = e
      /\ \A i \in 1..n : ends'[i] = ends[i]
  BY <1>1, <1>3, AppendProperties DEF Stream
<1> HIDE DEF n
<1>5. \A i \in 1..n + 1 : StartOf(i)' = StartOf(i)
  BY <1>3, <1>4 DEF StartOf
<1>6. StartOf(n + 1) = Total
  BY EndOfStream DEF n
<1>7. Frames = 1..n /\ Frames' = 1..n + 1
  BY <1>4 DEF Frames, n
<1>8. ASSUME NEW i \in Frames' PROVE (LengthOf(i))' \in Lens
  <2>1. CASE i \in Frames
    <3>1. (LengthOf(i))' = LengthOf(i)
      BY <1>3, <1>4, <1>5, <1>7, <2>1 DEF LengthOf
    <3> QED BY <2>1, <3>1, FramePlace
  <2>2. CASE i = n + 1
    <3>1. (LengthOf(i))' = ends'[n + 1] - StartOf(n + 1) - HdrLen
      BY <1>3, <1>5, <2>2 DEF LengthOf
    <3> QED BY <1>3, <1>4, <1>6, <3>1
  <2> QED BY <1>3, <1>7, <2>1, <2>2
<1>9. ASSUME NEW i \in Frames', NEW j \in Frames', i < j PROVE ends'[i] <= (StartOf(j))'
  <2>1. i \in Frames /\ (StartOf(j))' = StartOf(j) /\ ends'[i] = ends[i]
    BY <1>3, <1>4, <1>5, <1>7, <1>9
  <2>2. CASE j \in Frames
    BY <1>9, <2>1, <2>2 DEF Stream, FramesApart
  <2>3. CASE j = n + 1
    BY <1>6, <2>1, <2>3, WithinStream
  <2> QED BY <1>3, <1>7, <2>2, <2>3
<1>10. Stream'
  BY <1>4, <1>8, <1>9 DEF Stream, FramesApart
<1>11. Total' = e
  <2>1. ends' # <<>>
    BY <1>3, <1>4, EmptySeq
  <2> QED BY <1>4, <2>1 DEF Total
<1> QED BY <1>3, <1>4, <1>5, <1>7, <1>10, <1>11 DEF n

\* The bodies a reader should be handed are a sequence, one for each frame.
BodiesFit ==
  /\ Bodies \in Seq(Nat \X Nat) /\ Len(Bodies) = Len(ends)
  /\ \A i \in Frames : Bodies[i] = BodyOf(i)

LEMMA BodiesSequence == Stream => BodiesFit
<1> SUFFICES ASSUME Stream PROVE BodiesFit
  OBVIOUS
<1>1. Len(ends) \in Nat
  BY LenProperties DEF Stream
<1>2. \A i \in Frames : BodyOf(i) \in Nat \X Nat
  BY FramePlace, FrameAssumption DEF BodyOf
<1>3. Bodies \in [1..Len(ends) -> Nat \X Nat]
  BY <1>2 DEF Bodies, Frames
<1>4. Bodies \in Seq(Nat \X Nat)
  BY <1>1, <1>3
<1>5. DOMAIN Bodies = 1..Len(Bodies) /\ DOMAIN Bodies = 1..Len(ends) /\ Len(Bodies) \in Nat
  BY <1>3, <1>4, LenProperties
<1>6. Len(Bodies) = Len(ends)
  BY <1>1, <1>5
<1> QED BY <1>4, <1>6 DEF Bodies, BodiesFit

LEMMA BodiesSequenceNext == Stream' => BodiesFit'
<1>1. Stream => BodiesFit
  BY BodiesSequence
<1> QED BY <1>1, PTL

\* Counting the frames that are complete: with the first m of them complete,
\* there are more than m exactly if the next one is complete too.
CompleteCounted ==
  \A m \in Nat :
    m <= Len(ends) /\ received \in Nat /\ (\A i \in 1..m : ends[i] <= received) =>
      /\ Cardinality(Complete) \in Nat
      /\ m + 1 \in Complete => Cardinality(Complete) > m
      /\ m + 1 \notin Complete => Cardinality(Complete) = m

LEMMA CompleteCount == Stream => CompleteCounted
<1> SUFFICES
      ASSUME Stream, received \in Nat, NEW m \in Nat, m <= Len(ends),
             \A i \in 1..m : ends[i] <= received
      PROVE  /\ Cardinality(Complete) \in Nat
             /\ m + 1 \in Complete => Cardinality(Complete) > m
             /\ m + 1 \notin Complete => Cardinality(Complete) = m
  BY DEF CompleteCounted
<1>1. Len(ends) \in Nat
  BY LenProperties DEF Stream
<1>2. \A n \in Nat : IsFiniteSet(1..n) /\ Cardinality(1..n) = n
  BY FS_Interval
<1>3. IsFiniteSet(Complete)
  BY <1>1, <1>2, FS_Subset DEF Complete, Frames
<1>4. Cardinality(Complete) \in Nat
  BY <1>3, FS_CardinalityType
<1>5. 1..m \subseteq Complete
  BY <1>1 DEF Complete, Frames
<1>6. CASE m + 1 \in Complete
  <2>1. 1..m + 1 \subseteq Complete
    BY <1>5, <1>6
  <2>2. Cardinality(1..m + 1) <= Cardinality(Complete)
    BY <1>3, <2>1, FS_Subset
  <2>3. Cardinality(1..m + 1) = m + 1
    BY <1>2
  <2> QED BY <1>4, <1>6, <2>2, <2>3
<1>7. CASE m + 1 \notin Complete
  <2>1. ASSUME NEW i \in Complete PROVE i <= m
    <3> SUFFICES ASSUME i > m PROVE FALSE
      BY <1>1, <2>1 DEF Complete, Frames
    <3>1. i \in Frames /\ ends[i] <= received /\ i \in Nat /\ i <= Len(ends)
      BY <1>1 DEF Complete, Frames
    <3>2. m + 1 \in Frames
      BY <1>1, <3>1 DEF Frames
    <3>3. i # m + 1
      BY <1>7
    <3>4. ends[m + 1] <= StartOf(i)
      BY <3>1, <3>2, <3>3 DEF Stream, FramesApart
    <3>5. StartOf(i) <= ends[i] /\ StartOf(i) \in Nat /\ ends[i] \in Nat /\ ends[m + 1] \in Nat
      BY <3>1, <3>2, FramePlace, FrameAssumption
    <3>6. ends[m + 1] <= received
      BY <3>1, <3>4, <3>5
    <3> QED BY <1>7, <3>2, <3>6 DEF Complete
  <2>2. Complete = 1..m
    BY <1>1, <1>5, <2>1 DEF Complete, Frames
  <2> QED BY <1>2, <1>4, <1>7, <2>2
<1> QED BY <1>4, <1>6, <1>7

LEMMA CompleteCountNext == Stream' => CompleteCounted'
<1>1. Stream => CompleteCounted
  BY CompleteCount
<1> QED BY <1>1, PTL

-----------------------------------------------------------------------------
\* What a callback finds when the last one stopped at a frame's end: with a
\* whole frame buffered it takes that frame, otherwise it waits.
LEMMA CallbackTakes ==
  ASSUME ServerInv, NEW n \in Nat, ServerCallback(n)
  PROVE  LET k == Len(handled) + 1
         IN  /\ k \in Frames /\ ends[k] <= received' =>
                  consumed' = ends[k] /\ handled' = Append(handled, BodyOf(k))
             /\ ~(k \in Frames /\ ends[k] <= received') =>
                  consumed' = consumed /\ handled' = handled
<1> DEFINE k == Len(handled) + 1
           buffered == received' - consumed
<1>1. /\ Stream /\ consumed = StartOf(k)
      /\ received \in Nat /\ consumed \in Nat /\ received' = received + n /\ received' <= Total
      /\ k \in Nat \ {0} /\ k <= Len(ends) + 1 /\ Len(ends) \in Nat /\ Total \in Nat
  BY LenProperties, EndOfStream
  DEF ServerInv, StreamTypeOK, Stream, ServerAtFrame, ServerCallback, Arrive
<1>2. HdrLen \in Nat \ {0}
  BY FrameAssumption
<1>3. Wait(buffered) \/ Take(buffered)
  BY DEF ServerCallback
<1> HIDE DEF k
<1>4. CASE k \in Frames
  <2>1. /\ PeekLength(consumed) = {LengthOf(k)} /\ LengthOf(k) \in Nat
        /\ ends[k] = consumed + HdrLen + LengthOf(k) /\ ends[k] \in Nat
    BY <1>1, <1>4, OneFrameAt, FramePlace DEF PeekLength
  <2>2. (ends[k] <= received') <=> (LengthOf(k) + HdrLen <= buffered)
    BY <1>1, <1>2, <2>1
  <2>3. Take(buffered) => LengthOf(k) + HdrLen <= buffered
    BY <2>1 DEF Take
  <2>4. Wait(buffered) => ~(LengthOf(k) + HdrLen <= buffered)
    BY <1>1, <1>2, <2>1 DEF Wait
  <2>5. Take(buffered) => consumed' = ends[k] /\ handled' = Append(handled, BodyOf(k))
    BY <1>1, <2>1 DEF Take, Body, BodyOf
  <2>6. Wait(buffered) => consumed' = consumed /\ handled' = handled
    BY DEF Wait
  <2>7. CASE ends[k] <= received'
    <3>1. Take(buffered)
      BY <1>3, <2>2, <2>4, <2>7
    <3> QED BY <1>4, <2>5, <2>7, <3>1 DEF k
  <2>8. CASE ~(ends[k] <= received')
    <3>1. Wait(buffered)
      BY <1>3, <2>2, <2>3, <2>8
    <3> QED BY <1>4, <2>6, <2>8, <3>1 DEF k
  <2> QED BY <2>7, <2>8
<1>5. CASE k \notin Frames
  <2>1. k = Len(ends) + 1
    BY <1>1, <1>5 DEF Frames
  <2>2. consumed = Total
    BY <1>1, <2>1, EndOfStream
  <2>3. buffered < HdrLen
    BY <1>1, <1>2, <2>2
  <2>4. ~Take(buffered)
    BY <1>1, <1>2, <2>3 DEF Take
  <2>5. Wait(buffered) => consumed' = consumed /\ handled' = handled
    BY DEF Wait
  <2> QED BY <1>3, <1>5, <2>4, <2>5 DEF k
<1> QED BY <1>4, <1>5

LEMMA ServerInductive == ServerSpec => []ServerInv
<1>1. StreamInit => ServerInv
  <2> SUFFICES ASSUME StreamInit PROVE ServerInv
    OBVIOUS
  <2>1. ends = <<>> /\ received = 0 /\ consumed = 0 /\ handled = <<>> /\ freed = FALSE
    BY DEF StreamInit
  <2>2. Len(ends) = 0 /\ Len(handled) = 0 /\ ends \in Seq(Nat) /\ handled \in Seq(Nat \X Nat)
    BY <2>1, EmptySeq
  <2>3. StreamTypeOK
    <3>1. Total = 0 /\ 0 \in 0..0
      BY <2>1 DEF Total
    <3> QED BY <2>1, <2>2, <3>1 DEF StreamTypeOK
  <2>4. FramesApart
    BY <2>2 DEF FramesApart, Frames
  <2>5. ServerAtFrame
    BY <2>1, <2>2 DEF ServerAtFrame, StartOf
  <2> QED BY <2>3, <2>4, <2>5 DEF ServerInv
<1>2. ServerInv /\ [ServerNext]_serverVars => ServerInv'
  <2> SUFFICES ASSUME ServerInv, [ServerNext]_serverVars PROVE ServerInv'
    OBVIOUS
  <2> DEFINE k == Len(handled) + 1
  <2>1. /\ Stream /\ Len(ends) \in Nat /\ Len(handled) \in Nat
        /\ received \in Nat /\ consumed \in Nat /\ consumed <= received /\ received <= Total
        /\ Total \in Nat /\ handled \in Seq(Nat \X Nat) /\ freed \in BOOLEAN
    BY LenProperties, EndOfStream DEF ServerInv, StreamTypeOK, Stream
  <2>2. CASE WritePacket
    <3>1. /\ Stream' /\ Len(ends') = Len(ends) + 1 /\ Total <= Total'
          /\ \A i \in Frames : i \in Frames' /\ ends'[i] = ends[i]
          /\ \A i \in 1..Len(ends) + 1 : StartOf(i)' = StartOf(i)
      BY <2>1, <2>2, Written DEF WritePacket
    <3>2. UNCHANGED <<received, consumed, handled, freed>>
      BY <2>2 DEF WritePacket
    <3>3. Total' \in Nat
      BY <3>1, EndOfStream, LenProperties DEF Stream, Total
    <3>4. StreamTypeOK'
      <4>1. received' \in 0..Total' /\ consumed' \in 0..received' /\ freed' \in BOOLEAN
        BY <2>1, <3>1, <3>2, <3>3
      <4> QED BY <2>1, <3>1, <3>2, <4>1 DEF StreamTypeOK, Stream
    <3>5. ASSUME NEW i \in 1..Len(handled) PROVE BodyOf(i)' = BodyOf(i)
      <4>1. i \in 1..Len(ends)
        BY <2>1 DEF ServerInv, ServerAtFrame
      <4>2. ends'[i] = ends[i] /\ StartOf(i)' = StartOf(i)
        BY <2>1, <3>1, <4>1 DEF Frames
      <4> QED BY <4>2 DEF BodyOf
    <3>6. consumed = StartOf(k) /\ k \in 1..Len(ends) + 1 /\ StartOf(k)' = StartOf(k)
      BY <2>1, <3>1, <3>2 DEF ServerInv, ServerAtFrame
    <3>7. ServerAtFrame'
      BY <2>1, <3>1, <3>2, <3>5, <3>6 DEF ServerInv, ServerAtFrame
    <3> QED BY <3>1, <3>4, <3>7 DEF ServerInv, Stream
  <2>3. ASSUME NEW n \in 1..MaxRead, ServerCallback(n) PROVE ServerInv'
    <3>1. /\ ends' = ends /\ received' = received + n /\ received' <= Total /\ freed' = freed
          /\ n \in Nat
      BY <2>3, FrameAssumption DEF ServerCallback, Arrive
    <3>2. Total' = Total /\ FramesApart' /\ \A i : BodyOf(i)' = BodyOf(i) /\ StartOf(i)' = StartOf(i)
      BY <3>1 DEF ServerInv, FramesApart, Frames, LengthOf, BodyOf, StartOf, Total
    <3>3. CASE k \in Frames /\ ends[k] <= received'
      <4>1. consumed' = ends[k] /\ handled' = Append(handled, BodyOf(k))
        BY <2>3, <3>1, <3>3, CallbackTakes
      <4>2. ends[k] \in Nat /\ StartOf(k + 1) = ends[k] /\ BodyOf(k) \in Nat \X Nat
        BY <2>1, <3>3, FramePlace, FrameAssumption DEF BodyOf
      <4>3. /\ handled' \in Seq(Nat \X Nat) /\ Len(handled') = k
            /\ handled'[k] = BodyOf(k) /\ \A i \in 1..Len(handled) : handled'[i] = handled[i]
        BY <2>1, <4>1, <4>2, AppendProperties
      <4>4. ServerAtFrame'
        <5>1. Len(handled') <= Len(ends')
          BY <2>1, <3>1, <3>3, <4>3 DEF Frames
        <5>2. consumed' = StartOf(Len(handled') + 1)
          BY <4>1, <4>2, <4>3
        <5>3. ASSUME NEW i \in 1..Len(handled') PROVE handled'[i] = BodyOf(i)'
          <6>1. i \in 1..Len(handled) \/ i = k
            BY <2>1, <4>3
          <6> QED BY <3>2, <4>3, <6>1 DEF ServerInv, ServerAtFrame
        <5>4. consumed' = StartOf(Len(handled) + 1)'
          BY <3>1, <5>2 DEF StartOf
        <5> QED BY <5>1, <5>3, <5>4 DEF ServerAtFrame
      <4>5. StreamTypeOK'
        <5>1. received' \in 0..Total' /\ consumed' \in 0..received' /\ freed' \in BOOLEAN
          BY <2>1, <3>1, <3>2, <3>3, <4>1, <4>2
        <5> QED BY <2>1, <3>1, <4>3, <5>1 DEF StreamTypeOK, Stream
      <4> QED BY <3>2, <4>4, <4>5 DEF ServerInv
    <3>4. CASE ~(k \in Frames /\ ends[k] <= received')
      <4>1. consumed' = consumed /\ handled' = handled
        BY <2>3, <3>1, <3>4, CallbackTakes
      <4>2. ServerAtFrame'
        BY <3>1, <3>2, <4>1 DEF ServerInv, ServerAtFrame
      <4>3. StreamTypeOK'
        BY <2>1, <3>1, <3>2, <4>1 DEF StreamTypeOK, Stream
      <4> QED BY <3>2, <4>2, <4>3 DEF ServerInv
    <3> QED BY <3>3, <3>4
  <2>4. CASE HangUp \/ UNCHANGED serverVars
    <3>1. UNCHANGED <<ends, received, consumed, handled>> /\ freed' \in BOOLEAN
      BY <2>1, <2>4 DEF HangUp, serverVars
    <3> QED BY <3>1 DEF ServerInv, StreamTypeOK, FramesApart, ServerAtFrame, Frames, LengthOf,
              BodyOf, StartOf, Total
  <2> QED BY <2>2, <2>3, <2>4 DEF ServerNext
<1> QED BY <1>1, <1>2, PTL DEF ServerSpec

(***************************************************************************)
(* Every variable of the server's reader has its type in every reachable   *)
(* state; in particular no more is drained than was received.              *)
(***************************************************************************)
THEOREM ServerTypeCorrect == ServerSpec => []StreamTypeOK
<1>1. ServerInv => StreamTypeOK
  BY DEF ServerInv
<1> QED BY <1>1, ServerInductive, PTL

\* A step of the reader is a step of the channel, or a stutter.
LEMMA ChannelStep ==
  ASSUME ServerInv, ServerInv', [ServerNext]_serverVars
  PROVE  [Channel!FCNext]_<<Bodies, handled>>
<1>1. /\ Stream /\ Stream' /\ Len(ends) \in Nat /\ Len(handled) \in Nat
      /\ handled \in Seq(Nat \X Nat)
  BY LenProperties DEF ServerInv, StreamTypeOK, Stream
<1>2. CASE WritePacket
  <2>1. /\ Len(ends') = Len(ends) + 1 /\ handled' = handled
        /\ \A i \in Frames : i \in Frames' /\ ends'[i] = ends[i]
        /\ \A i \in 1..Len(ends) + 1 : StartOf(i)' = StartOf(i)
    BY <1>1, <1>2, Written DEF WritePacket
  <2>2. /\ Bodies \in Seq(Nat \X Nat) /\ Len(Bodies) = Len(ends)
        /\ \A i \in Frames : Bodies[i] = BodyOf(i)
    BY <1>1, BodiesSequence DEF BodiesFit
  <2>3. /\ Bodies' \in Seq(Nat \X Nat) /\ Len(Bodies') = Len(ends')
        /\ \A i \in Frames' : Bodies'[i] = BodyOf(i)'
    BY <1>1, BodiesSequenceNext DEF BodiesFit
  <2>4. \A i \in 1..Len(ends) : Bodies'[i] = Bodies[i]
    <3> SUFFICES ASSUME NEW i \in 1..Len(ends) PROVE Bodies'[i] = Bodies[i]
      OBVIOUS
    <3>1. i \in Frames /\ i \in Frames' /\ BodyOf(i)' = BodyOf(i)
      BY <1>1, <2>1 DEF Frames, BodyOf
    <3> QED BY <2>2, <2>3, <3>1
  <2> DEFINE n == Len(ends)
             new == Bodies'[n + 1]
  <2>5. new \in Nat \X Nat
    BY <1>1, <2>1, <2>3, LenProperties
  <2>6. /\ Append(Bodies, new) \in Seq(Nat \X Nat) /\ Len(Append(Bodies, new)) = n + 1
        /\ \A i \in 1..n : Append(Bodies, new)[i] = Bodies[i]
        /\ Append(Bodies, new)[n + 1] = new
    BY <2>2, <2>5, AppendProperties
  <2>7. Bodies' = Append(Bodies, new)
    <3>1. ASSUME NEW i \in 1..n + 1 PROVE Bodies'[i] = Append(Bodies, new)[i]
      BY <1>1, <2>4, <2>6
    <3> HIDE DEF new
    <3>2. Len(Bodies') = n + 1
      BY <2>1, <2>3
    <3> QED BY <2>3, <2>6, <3>1, <3>2, SeqEqual
  <2>8. Channel!WriteFrame
    BY <2>1, <2>2, <2>3, <2>7 DEF Channel!WriteFrame
  <2> QED BY <2>8 DEF Channel!FCNext
<1>3. ASSUME NEW n \in 1..MaxRead, ServerCallback(n)
      PROVE  [Channel!FCNext]_<<Bodies, handled>>
  <2> DEFINE k == Len(handled) + 1
  <2>1. ends' = ends /\ n \in Nat
    BY <1>3, FrameAssumption DEF ServerCallback, Arrive
  <2>2. Bodies' = Bodies
    BY <2>1 DEF Bodies, Frames, BodyOf, StartOf
  <2>3. CASE k \in Frames /\ ends[k] <= received'
    <3>1. handled' = Append(handled, BodyOf(k))
      BY <1>3, <2>1, <2>3, CallbackTakes
    <3>2. BodyOf(k) = Bodies[k] /\ Len(handled) < Len(Bodies)
      BY <1>1, <2>3, BodiesSequence DEF Frames, BodiesFit
    <3>3. Channel!HandFrame
      BY <2>2, <3>1, <3>2 DEF Channel!HandFrame
    <3> QED BY <3>3 DEF Channel!FCNext
  <2>4. CASE ~(k \in Frames /\ ends[k] <= received')
    <3>1. handled' = handled
      BY <1>3, <2>1, <2>4, CallbackTakes
    <3> QED BY <2>2, <3>1
  <2> QED BY <2>3, <2>4
<1>4. CASE HangUp \/ UNCHANGED serverVars
  <2>1. ends' = ends /\ handled' = handled
    BY <1>4 DEF HangUp, serverVars
  <2> QED BY <2>1 DEF Bodies, Frames, BodyOf, StartOf
<1> QED BY <1>2, <1>3, <1>4 DEF ServerNext

(***************************************************************************)
(* The server's reader implements a FIFO of frames: whatever the lengths   *)
(* and however the stream is cut, the handler is handed the bodies that    *)
(* the peer wrote, in their order, and bytes out of place are never read   *)
(* as a header.                                                            *)
(***************************************************************************)
THEOREM ReaderImplementsChannel == ServerSpec => ImplementsChannel
<1>1. StreamInit => Channel!FCInit
  <2> SUFFICES ASSUME StreamInit PROVE Bodies = <<>> /\ handled = <<>>
    BY DEF Channel!FCInit
  <2>1. ends = <<>> /\ handled = <<>>
    BY DEF StreamInit
  <2>2. Len(ends) = 0 /\ Stream
    BY <2>1, EmptySeq DEF Stream, FramesApart, Frames
  <2>3. Bodies \in Seq(Nat \X Nat) /\ Len(Bodies) = 0
    BY <2>2, BodiesSequence DEF BodiesFit
  <2> QED BY <2>1, <2>3, EmptySeq
<1>2. ServerInv /\ ServerInv' /\ [ServerNext]_serverVars => [Channel!FCNext]_(Channel!fcVars)
  BY ChannelStep DEF Channel!fcVars
<1> QED BY <1>1, <1>2, ServerInductive, PTL DEF ServerSpec, ImplementsChannel, Channel!FCSpec

(***************************************************************************)
(* Each read from the socket hands over one frame if one is complete and   *)
(* none otherwise, however many frames it completed.                       *)
(***************************************************************************)
THEOREM OneFrameEachRead == ServerSpec => OneFramePerRead
<1> DEFINE WaitingBefore == Cardinality(Complete') - Len(handled)
           OneFrame == received' # received =>
             Len(handled') = Len(handled) + (IF WaitingBefore > 0 THEN 1 ELSE 0)
<1>1. ServerInv /\ ServerInv' /\ [ServerNext]_serverVars => [OneFrame]_serverVars
  <2> SUFFICES ASSUME ServerInv, ServerInv', ServerNext, received' # received PROVE OneFrame
    BY DEF serverVars
  <2>1. PICK n \in 1..MaxRead : ServerCallback(n)
    BY DEF ServerNext, WritePacket, WritePacket, HangUp
  <2> DEFINE k == Len(handled) + 1
  <2>2. /\ n \in Nat /\ ends' = ends /\ received' = received + n
        /\ Len(handled) \in Nat /\ Len(handled) <= Len(ends)
        /\ handled \in Seq(Nat \X Nat) /\ Stream /\ Stream' /\ Len(ends) \in Nat
        /\ received' \in Nat /\ received \in Nat /\ consumed \in Nat /\ consumed <= received
    BY <2>1, FrameAssumption, LenProperties, EndOfStream
    DEF ServerCallback, Arrive, ServerInv, StreamTypeOK, Stream, ServerAtFrame
  <2>3. ASSUME NEW i \in 1..Len(handled) PROVE ends'[i] <= received'
    <3>1. consumed = StartOf(k) /\ k # 1 /\ consumed = ends[Len(handled)]
      BY <2>2 DEF ServerInv, ServerAtFrame, StartOf
    <3>2. i \in Frames /\ Len(handled) \in Frames
      BY <2>2 DEF Frames
    <3>3. ends[i] <= ends[Len(handled)]
      <4>1. CASE i = Len(handled)
        BY <4>1, <2>2, <3>2, FramePlace
      <4>2. CASE i < Len(handled)
        <5> DEFINE l == Len(handled)
        <5>1. l \in Frames /\ i < l
          BY <3>2, <4>2
        <5> HIDE DEF l
        <5>2. ends[i] <= StartOf(l)
          BY <2>2, <3>2, <5>1 DEF Stream, FramesApart
        <5>3. StartOf(l) <= ends[l] /\ StartOf(l) \in Nat /\ ends[l] \in Nat
          BY <2>2, <5>1, FramePlace, FrameAssumption
        <5>4. ends[i] \in Nat
          BY <2>2, <3>2, FramePlace
        <5>5. ends[i] <= ends[l]
          BY <5>2, <5>3, <5>4
        <5> QED BY <5>5 DEF l
      <4> QED BY <2>2, <4>1, <4>2
    <3>4. ends[i] \in Nat
      BY <2>2, <3>2, FramePlace
    <3> QED BY <2>2, <3>1, <3>3, <3>4
  <2>4. /\ Cardinality(Complete') \in Nat
        /\ k \in Complete' => Cardinality(Complete') > Len(handled)
        /\ k \notin Complete' => Cardinality(Complete') = Len(handled)
    <3>1. CompleteCounted' /\ Len(ends') = Len(ends)
      BY <2>2, CompleteCountNext
    <3> QED BY <2>2, <2>3, <3>1 DEF CompleteCounted
  <2>5. (k \in Complete') <=> (k \in Frames /\ ends[k] <= received')
    BY <2>2 DEF Complete, Frames
  <2>6. CASE k \in Complete'
    <3>1. handled' = Append(handled, BodyOf(k)) /\ k \in Frames
      BY <2>1, <2>2, <2>5, <2>6, CallbackTakes
    <3>2. BodyOf(k) \in Nat \X Nat
      BY <2>2, <3>1, FramePlace, FrameAssumption DEF BodyOf
    <3>3. Len(handled') = k
      BY <2>2, <3>1, <3>2, AppendProperties
    <3> QED BY <2>2, <2>4, <2>6, <3>3
  <2>7. CASE k \notin Complete'
    <3>1. handled' = handled
      BY <2>1, <2>2, <2>5, <2>7, CallbackTakes
    <3> QED BY <2>2, <2>4, <2>7, <3>1
  <2> QED BY <2>6, <2>7
<1>2. OneFramePerRead <=> [][OneFrame]_serverVars
  BY PTL DEF OneFramePerRead
<1> QED BY <1>1, <1>2, ServerInductive, PTL DEF ServerSpec

-----------------------------------------------------------------------------
\* What holds of a connection, in terms that every step's proof starts from.
LEMMA ClientState ==
  ASSUME ClientInv
  PROVE  /\ Stream /\ Len(ends) \in Nat /\ Len(handled) \in Nat /\ Total \in Nat
         /\ received \in Nat /\ consumed \in Nat /\ consumed <= received /\ received <= Total
         /\ handled \in Seq(Nat \X Nat) /\ freed \in BOOLEAN /\ short \in BOOLEAN
         /\ blank \subseteq Frames
<1>1. Stream /\ handled \in Seq(Nat \X Nat) /\ freed \in BOOLEAN /\ short \in BOOLEAN
      /\ blank \subseteq Frames
  BY DEF ClientInv, ClientTypeOK, StreamTypeOK, Stream
<1>2. Len(ends) \in Nat /\ Len(handled) \in Nat /\ Total \in Nat
  BY <1>1, LenProperties, EndOfStream DEF Stream
<1>3. received \in Nat /\ consumed \in Nat /\ consumed <= received /\ received <= Total
  BY <1>2 DEF ClientInv, ClientTypeOK, StreamTypeOK
<1> QED BY <1>1, <1>2, <1>3

LEMMA LeastOfTwo ==
  ASSUME NEW a \in Nat, NEW b \in Nat
  PROVE  /\ Least(a, b) \in Nat /\ Least(a, b) <= a /\ Least(a, b) <= b
         /\ a <= b => Least(a, b) = a
  BY DEF Least

\* Whatever the header's bytes are, the length read from them is natural.
LEMMA LengthIsNat ==
  ASSUME Stream, NEW h \in 0..HdrLen, NEW length \in ReadLength(consumed, h)
  PROVE  length \in Nat
<1>1. Radix ^ h \in Nat \ {0}
  BY HeaderAssumption
<1>2. PICK l \in Nat : length = l % (Radix ^ h)
  <2>1. CASE FramesAt(consumed) # {}
    <3>1. PICK i \in FramesAt(consumed) : length = LengthOf(i) % (Radix ^ h)
      BY <2>1 DEF ReadLength
    <3>2. LengthOf(i) \in Nat
      BY FramePlace DEF FramesAt
    <3> QED BY <3>1, <3>2
  <2>2. CASE FramesAt(consumed) = {}
    BY <2>2, FrameAssumption DEF ReadLength
  <2> QED BY <2>1, <2>2
<1> DEFINE m == Radix ^ h
<1>3. length = l % m /\ m \in Nat \ {0}
  BY <1>1, <1>2
<1> HIDE DEF m
<1> QED BY <1>3

\* A header that holds the length gives the length back.
LEMMA LengthReadBack ==
  ASSUME Stream, NEW k \in Frames
  PROVE  LengthOf(k) % (Radix ^ HdrLen) = LengthOf(k)
<1> DEFINE m == Radix ^ HdrLen
<1>1. m \in Nat \ {0}
  BY HeaderAssumption, FrameAssumption
<1>2. LengthOf(k) \in Nat /\ LengthOf(k) < m
  BY FramePlace, HeaderAssumption
<1> HIDE DEF m
<1>3. LengthOf(k) % m = LengthOf(k)
  BY <1>1, <1>2
<1> QED BY <1>3 DEF m

\* A callback drains no more than there is.
LEMMA DrainsWithin ==
  ASSUME ClientInv, NEW n \in Nat, ClientCallback(n)
  PROVE  /\ consumed' \in Nat /\ consumed' <= received'
         /\ handled' \in Seq(Nat \X Nat) /\ freed' \in BOOLEAN /\ short' \in BOOLEAN
<1> DEFINE buffered == received' - consumed
           h == Least(HdrLen, buffered)
<1>1. /\ Stream /\ consumed \in Nat /\ received' \in Nat /\ buffered \in Nat
      /\ handled \in Seq(Nat \X Nat) /\ freed \in BOOLEAN /\ short \in BOOLEAN
      /\ consumed + buffered = received'
  BY ClientState DEF ClientCallback, Arrive
<1>2. HdrLen \in Nat /\ h \in 0..HdrLen /\ h <= buffered
  <2> HIDE DEF buffered
  <2>1. HdrLen \in Nat /\ buffered \in Nat
    BY <1>1, FrameAssumption
  <2> QED BY <2>1, LeastOfTwo
<1>3. short' \in BOOLEAN
  BY <1>1 DEF ClientCallback
<1>4. PICK length \in ReadLength(consumed, h) :
        LET bytes == Least(length, buffered - h)
            body == IF WholeFrame(buffered) THEN Body(consumed, length) ELSE Damaged
        IN  consumed' = consumed + h + bytes /\ Dispatch(body, bytes)
  BY DEF ClientCallback
<1> DEFINE bytes == Least(length, buffered - h)
           body == IF WholeFrame(buffered) THEN Body(consumed, length) ELSE Damaged
<1>5. length \in Nat
  BY <1>1, <1>2, LengthIsNat
<1>6. bytes \in Nat /\ h + bytes <= buffered
  <2> DEFINE rest == buffered - h
  <2>1. rest \in Nat /\ h \in Nat /\ buffered \in Nat
    <3> HIDE DEF buffered, h
    <3> QED BY <1>1, <1>2
  <2> HIDE DEF rest
  <2>2. Least(length, rest) \in Nat /\ Least(length, rest) <= rest
    BY <1>5, <2>1, LeastOfTwo
  <2> HIDE DEF buffered, h
  <2>3. h + rest = buffered
    BY <2>1 DEF rest
  <2> QED BY <2>1, <2>2, <2>3 DEF rest
<1>7. body \in Nat \X Nat
  BY <1>1, <1>2, <1>5 DEF Body, Damaged
<1>8. consumed' = consumed + h + bytes /\ Dispatch(body, bytes)
  BY <1>4
<1> HIDE DEF body, bytes, h
<1>9. handled' \in Seq(Nat \X Nat) /\ freed' \in BOOLEAN
  <2>1. CASE handled' = Append(handled, body) /\ UNCHANGED freed
    BY <1>1, <1>7, <2>1, AppendProperties
  <2>2. CASE freed' = TRUE /\ UNCHANGED handled
    BY <1>1, <2>2
  <2> QED BY <1>8, <2>1, <2>2 DEF Dispatch
<1>10. consumed' \in Nat /\ consumed' <= received'
  <2> HIDE DEF buffered
  <2>1. h \in Nat
    BY <1>2
  <2> QED BY <1>1, <1>2, <1>6, <1>8, <2>1
<1> QED BY <1>3, <1>9, <1>10

\* With a whole frame buffered where the last callback stopped at a frame's
\* end, that frame is handed over, or is one that nobody serialised.
LEMMA WholeFrameTaken ==
  ASSUME ClientInv, NEW n \in Nat, ClientCallback(n), ~short'
  PROVE  LET k == Len(handled) + 1
         IN  /\ ~short /\ k \in Frames /\ consumed' = ends[k]
             /\ \/ handled' = Append(handled, BodyOf(k)) /\ freed' = freed
                \/ handled' = handled /\ freed' = TRUE /\ k \in blank
<1> DEFINE k == Len(handled) + 1
           buffered == received' - consumed
           h == Least(HdrLen, buffered)
<1>1. /\ Stream /\ consumed \in Nat /\ received' \in Nat /\ buffered \in Nat
      /\ Len(handled) \in Nat /\ Len(ends) \in Nat /\ Total \in Nat /\ HdrLen \in Nat \ {0}
  BY ClientState, FrameAssumption DEF ClientCallback, Arrive
<1>2. ~short /\ ~freed /\ WholeFrame(buffered)
  BY DEF ClientCallback
<1>3. consumed = StartOf(k) /\ Len(handled) <= Len(ends)
  BY <1>2 DEF ClientInv, ClientAtFrame, IntactUntilShort
<1> HIDE DEF k
<1>4. PICK i \in FramesAt(consumed) : HdrLen + LengthOf(i) <= buffered
  BY <1>2 DEF WholeFrame
<1>5. k \in Frames
  <2> SUFFICES ASSUME k = Len(ends) + 1 PROVE FALSE
    BY <1>1, <1>3 DEF k, Frames
  <2>1. i \in Frames /\ StartOf(i) = Total
    BY <1>1, <1>3, EndOfStream DEF FramesAt
  <2>2. ends[i] = StartOf(i) + HdrLen + LengthOf(i) /\ LengthOf(i) \in Nat /\ ends[i] <= Total
    BY <1>1, <2>1, FramePlace, WithinStream
  <2> QED BY <1>1, <2>1, <2>2
<1>6. FramesAt(consumed) = {k} /\ i = k
  BY <1>1, <1>3, <1>4, <1>5, OneFrameAt
<1>7. /\ LengthOf(k) \in Nat /\ ends[k] = consumed + HdrLen + LengthOf(k)
      /\ HdrLen + LengthOf(k) <= buffered
  BY <1>1, <1>3, <1>4, <1>5, <1>6, FramePlace
<1>8. h = HdrLen
  <2> HIDE DEF buffered
  <2>1. HdrLen <= buffered
    BY <1>1, <1>7
  <2> QED BY <1>1, <2>1, LeastOfTwo
<1>9. ReadLength(consumed, h) = {LengthOf(k)}
  BY <1>1, <1>5, <1>6, <1>8, LengthReadBack DEF ReadLength
<1>10. Least(LengthOf(k), buffered - h) = LengthOf(k)
  <2> DEFINE rest == buffered - h
  <2> HIDE DEF buffered, h
  <2>1. rest \in Nat /\ LengthOf(k) <= rest
    BY <1>1, <1>7, <1>8
  <2> HIDE DEF rest
  <2>2. Least(LengthOf(k), rest) = LengthOf(k)
    BY <1>7, <2>1, LeastOfTwo
  <2> QED BY <2>2 DEF rest
<1>11. consumed' = consumed + h + LengthOf(k) /\ Dispatch(Body(consumed, LengthOf(k)), LengthOf(k))
  BY <1>2, <1>9, <1>10 DEF ClientCallback
<1>12. Body(consumed, LengthOf(k)) = BodyOf(k)
  BY <1>3, <1>7 DEF Body, BodyOf
<1>13. BodyOf(k) # Damaged
  BY <1>1, <1>3 DEF BodyOf, Damaged
<1>14. \/ handled' = Append(handled, BodyOf(k)) /\ freed' = freed
       \/ handled' = handled /\ freed' = TRUE /\ k \in blank
  BY <1>6, <1>11, <1>12, <1>13 DEF Dispatch
<1>15. consumed' = ends[k]
  BY <1>7, <1>8, <1>11
<1> QED BY <1>2, <1>5, <1>14, <1>15 DEF k

LEMMA ClientInductive == ClientSpec => []ClientInv
<1>1. ClientInit => ClientInv
  <2> SUFFICES ASSUME ClientInit PROVE ClientInv
    OBVIOUS
  <2>1. /\ ends = <<>> /\ received = 0 /\ consumed = 0 /\ handled = <<>>
        /\ freed = FALSE /\ short = FALSE /\ blank = {}
    BY DEF ClientInit, StreamInit
  <2>2. Len(ends) = 0 /\ Len(handled) = 0 /\ ends \in Seq(Nat) /\ handled \in Seq(Nat \X Nat)
    BY <2>1, EmptySeq
  <2>3. ClientTypeOK
    <3>1. Total = 0 /\ 0 \in 0..0
      BY <2>1 DEF Total
    <3> QED BY <2>1, <2>2, <3>1 DEF ClientTypeOK, StreamTypeOK
  <2>4. FramesApart
    BY <2>2 DEF FramesApart, Frames
  <2>5. ClientAtFrame /\ IntactUntilShort
    BY <2>1, <2>2 DEF ClientAtFrame, StartOf, IntactUntilShort
  <2> QED BY <2>3, <2>4, <2>5 DEF ClientInv
<1>2. ClientInv /\ [ClientNext]_clientVars => ClientInv'
  <2> SUFFICES ASSUME ClientInv, [ClientNext]_clientVars PROVE ClientInv'
    OBVIOUS
  <2> DEFINE k == Len(handled) + 1
  <2>1. /\ Stream /\ Len(ends) \in Nat /\ Len(handled) \in Nat /\ Total \in Nat
        /\ received \in Nat /\ consumed \in Nat /\ consumed <= received /\ received <= Total
        /\ handled \in Seq(Nat \X Nat) /\ freed \in BOOLEAN /\ short \in BOOLEAN
        /\ blank \subseteq Frames
    BY ClientState
  <2>2. CASE ClientWrite
    <3>1. /\ Stream' /\ Len(ends') = Len(ends) + 1 /\ Total <= Total'
          /\ \A i \in Frames : i \in Frames' /\ ends'[i] = ends[i]
          /\ \A i \in 1..Len(ends) + 1 : StartOf(i)' = StartOf(i)
      BY <2>1, <2>2, Written DEF ClientWrite
    <3>2. UNCHANGED <<received, consumed, handled, freed, short>>
      BY <2>2 DEF ClientWrite, WritePacket
    <3>3. Total' \in Nat
      BY <3>1, EndOfStream, LenProperties DEF Stream, Total
    <3>4. blank \subseteq blank' /\ ClientTypeOK'
      <4>1. received' \in 0..Total' /\ consumed' \in 0..received'
        BY <2>1, <3>1, <3>2, <3>3
      <4>2. blank \subseteq blank' /\ blank' \subseteq Frames'
        BY <2>1, <2>2, <3>1 DEF ClientWrite
      <4> QED BY <2>1, <3>1, <3>2, <4>1, <4>2 DEF ClientTypeOK, StreamTypeOK, Stream
    <3>5. CASE short
      BY <3>1, <3>2, <3>4, <3>5 DEF ClientInv, Stream, ClientAtFrame, IntactUntilShort
    <3>6. CASE ~short
      <4>1. /\ Len(handled) <= Len(ends)
            /\ ~freed => consumed = StartOf(k)
            /\ freed => k \in blank
            /\ \A i \in 1..Len(handled) : handled[i] = BodyOf(i)
        BY <3>6 DEF ClientInv, ClientAtFrame, IntactUntilShort
      <4>2. ASSUME NEW i \in 1..Len(handled) PROVE BodyOf(i)' = BodyOf(i)
        BY <2>1, <3>1, <4>1 DEF BodyOf, Frames
      <4>3. StartOf(k)' = StartOf(k)
        BY <2>1, <3>1, <3>2, <4>1
      <4>4. ClientAtFrame'
        BY <3>2, <4>1, <4>3 DEF ClientAtFrame
      <4>5. IntactUntilShort'
        <5>1. Len(handled') <= Len(ends') /\ (freed' => Len(handled') + 1 \in blank')
          BY <2>1, <3>1, <3>2, <3>4, <4>1
        <5>2. \A i \in 1..Len(handled') : handled'[i] = BodyOf(i)'
          BY <3>2, <4>1, <4>2
        <5> QED BY <5>1, <5>2 DEF IntactUntilShort
      <4> QED BY <3>1, <3>4, <4>4, <4>5 DEF ClientInv, Stream
    <3> QED BY <2>1, <3>5, <3>6
  <2>3. ASSUME NEW n \in 1..MaxRead, ClientCallback(n) PROVE ClientInv'
    <3>1. ends' = ends /\ received' = received + n /\ received' <= Total /\ n \in Nat
      BY <2>3, FrameAssumption DEF ClientCallback, Arrive
    <3>2. Total' = Total /\ FramesApart' /\ \A i : BodyOf(i)' = BodyOf(i)
      BY <3>1 DEF ClientInv, FramesApart, Frames, LengthOf, BodyOf, StartOf, Total
    <3>3. ClientTypeOK'
      <4>1. /\ consumed' \in Nat /\ consumed' <= received'
            /\ handled' \in Seq(Nat \X Nat) /\ freed' \in BOOLEAN /\ short' \in BOOLEAN
        BY <2>3, <3>1, DrainsWithin
      <4>2. received' \in 0..Total' /\ consumed' \in 0..received'
        BY <2>1, <3>1, <3>2, <4>1
      <4>3. blank' \subseteq Frames'
        BY <2>1, <2>3, <3>1 DEF ClientCallback, Frames
      <4> QED BY <2>1, <3>1, <4>1, <4>2, <4>3 DEF ClientTypeOK, StreamTypeOK, Stream
    <3>4. CASE short'
      BY <3>2, <3>3, <3>4 DEF ClientInv, ClientAtFrame, IntactUntilShort
    <3>5. CASE ~short'
      <4>1. /\ ~short /\ k \in Frames /\ consumed' = ends[k]
            /\ \/ handled' = Append(handled, BodyOf(k)) /\ freed' = freed
               \/ handled' = handled /\ freed' = TRUE /\ k \in blank
        BY <2>3, <3>1, <3>5, WholeFrameTaken
      <4>2. /\ ~freed /\ blank' = blank /\ Len(handled) <= Len(ends)
            /\ \A i \in 1..Len(handled) : handled[i] = BodyOf(i)
        BY <2>3, <4>1 DEF ClientCallback, ClientInv, IntactUntilShort
      <4>3. CASE handled' = handled /\ freed' = TRUE /\ k \in blank
        BY <3>1, <3>2, <3>3, <4>2, <4>3 DEF ClientInv, ClientAtFrame, IntactUntilShort
      <4>4. CASE handled' = Append(handled, BodyOf(k)) /\ freed' = freed
        <5>1. StartOf(k + 1) = ends[k] /\ BodyOf(k) \in Nat \X Nat
          BY <2>1, <4>1, FramePlace, FrameAssumption DEF BodyOf
        <5>2. /\ Len(handled') = k /\ handled'[k] = BodyOf(k)
              /\ \A i \in 1..Len(handled) : handled'[i] = handled[i]
          BY <2>1, <4>4, <5>1, AppendProperties
        <5>3. ClientAtFrame'
          <6>1. consumed' = StartOf(Len(handled') + 1)
            BY <4>1, <5>1, <5>2
          <6>2. consumed' = StartOf(Len(handled) + 1)'
            BY <3>1, <6>1 DEF StartOf
          <6> QED BY <6>2 DEF ClientAtFrame
        <5>4. IntactUntilShort'
          <6>1. Len(handled') <= Len(ends') /\ ~freed'
            BY <2>1, <3>1, <4>1, <4>2, <4>4, <5>2 DEF Frames
          <6>2. ASSUME NEW i \in 1..Len(handled') PROVE handled'[i] = BodyOf(i)'
            <7>1. i \in 1..Len(handled) \/ i = k
              BY <2>1, <5>2
            <7> QED BY <3>2, <4>2, <5>2, <7>1
          <6> QED BY <6>1, <6>2 DEF IntactUntilShort
        <5> QED BY <3>2, <3>3, <5>3, <5>4 DEF ClientInv
      <4> QED BY <4>1, <4>3, <4>4
    <3> QED BY <3>4, <3>5
  <2>4. CASE UNCHANGED clientVars
    BY <2>4 DEF clientVars, ClientInv, ClientTypeOK, StreamTypeOK, FramesApart, ClientAtFrame,
       IntactUntilShort, Frames, LengthOf, BodyOf, StartOf, Total
  <2> QED BY <2>2, <2>3, <2>4 DEF ClientNext
<1> QED BY <1>1, <1>2, PTL DEF ClientSpec

(***************************************************************************)
(* Every variable of the client's reader has its type in every reachable   *)
(* state: even a length spelled by stray bytes drains no more than there   *)
(* is.                                                                     *)
(***************************************************************************)
THEOREM ClientTypeCorrect == ClientSpec => []ClientTypeOK
<1>1. ClientInv => ClientTypeOK
  BY DEF ClientInv
<1> QED BY <1>1, ClientInductive, PTL

(***************************************************************************)
(* Until a callback finds less than a whole frame buffered, the tunnel is  *)
(* handed the server's bodies whole and in order, whatever the lengths are *)
(* that a header can hold, and it is only a body that nobody serialised    *)
(* that makes it free its bufferevent.                                     *)
(***************************************************************************)
THEOREM HandedIntact == ClientSpec => []IntactUntilShort
<1>1. ClientInv => IntactUntilShort
  BY DEF ClientInv
<1> QED BY <1>1, ClientInductive, PTL
=============================================================================
