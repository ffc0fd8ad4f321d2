--------------------------- MODULE UtunWriteProofs ---------------------------
(***************************************************************************)
(* Theorems about UtunWrite, for packets of any size and any number of     *)
(* failures.  The inductive invariant keeps count and bytes together       *)
(* (Counted), and says that at any time everything up to the count has     *)
(* been written (Covered), of which NothingSkipped is the last moment.     *)
(***************************************************************************)
EXTENDS UtunWrite, SequenceTheorems, TLAPS

\* A piece's record, so that sequences of them are typed.
Piece == [from : Int, size : Nat \ {0}]

LEMMA InitIInv == Init => IInv
<1> SUFFICES ASSUME Init PROVE IInv
  OBVIOUS
<1> USE WriteAssumption DEF Init
<1>1. TypeOK
  BY EmptySeq DEF TypeOK
<1>2. Counted
  BY DEF Counted
<1>3. Covered /\ InOrder /\ AtLastPiece /\ StrayBounded
  BY DEF Covered, InOrder, AtLastPiece, StrayBounded
<1> QED BY <1>1, <1>2, <1>3 DEF IInv

\* A write appends a piece that begins at the count and moves the count to the
\* piece's end.
LEMMA WriteSomeIInv == IInv /\ WriteSome => IInv'
<1> SUFFICES ASSUME IInv, WriteSome PROVE IInv'
  OBVIOUS
<1> USE WriteAssumption DEF IInv
<1>1. PICK n \in 1..(totalLen - writeLen) :
        /\ pieces' = Append(pieces, [from |-> writeLen, size |-> n])
        /\ writeLen' = writeLen + n
        /\ written' = written + n
  BY DEF WriteSome
<1>2. /\ at = "loop" /\ writeLen < totalLen
      /\ at' = at /\ totalLen' = totalLen /\ fails' = fails
  BY DEF WriteSome, Unfinished
<1> DEFINE p == [from |-> writeLen, size |-> n]
<1>3. /\ writeLen \in Int /\ totalLen \in Nat /\ n \in Nat \ {0} /\ fails \in Nat
      /\ written \in Nat
      /\ pieces \in Seq(Piece) /\ p \in Piece
  BY <1>2 DEF TypeOK, Piece
<1>4. /\ pieces' \in Seq(Piece)
      /\ Len(pieces') = Len(pieces) + 1
      /\ \A i \in 1..Len(pieces) : pieces'[i] = pieces[i]
      /\ pieces'[Len(pieces) + 1] = p
  BY <1>1, <1>3, AppendProperties
<1>5. Len(pieces) \in Nat /\ \A i \in 1..Len(pieces) : pieces[i] \in Piece
  BY <1>3, LenProperties
<1>6. pieces' # <<>>
  BY <1>4, <1>5, EmptySeq
<1>7. TypeOK'
  BY <1>1, <1>2, <1>3, <1>4 DEF TypeOK, Piece
<1>8. Counted'
  BY <1>1, <1>2, <1>3 DEF Counted
<1>9. Covered'
  <2> SUFFICES ASSUME NEW b \in 0..(writeLen' - 1)
               PROVE \E i \in 1..Len(pieces') : Holds(i, b)'
    BY DEF Covered
  <2>1. CASE b < writeLen
    <3>1. PICK i \in 1..Len(pieces) : Holds(i, b)
      BY <2>1, <1>3 DEF Covered
    <3>2. i \in 1..Len(pieces') /\ pieces'[i] = pieces[i]
      BY <1>4, <1>5
    <3> QED BY <3>1, <3>2 DEF Holds
  <2>2. CASE b >= writeLen
    <3>1. Len(pieces) + 1 \in 1..Len(pieces')
      BY <1>4, <1>5
    <3>2. p.from <= b /\ b < p.from + p.size
      BY <2>2, <1>1, <1>3
    <3> QED BY <3>1, <3>2, <1>4 DEF Holds
  <2> QED BY <2>1, <2>2, <1>3, <1>1
<1>10. InOrder'
  <2> SUFFICES ASSUME fails = 0, NEW i \in 1..Len(pieces')
               PROVE pieces'[i].from =
                       (IF i = 1 THEN 0 ELSE pieces'[i - 1].from + pieces'[i - 1].size)
    BY <1>2 DEF InOrder
  <2>1. CASE i \in 1..Len(pieces)
    BY <2>1, <1>4, <1>5 DEF InOrder
  <2>2. CASE i = Len(pieces) + 1
    <3>1. CASE pieces = <<>>
      BY <3>1, <2>2, <1>4, EmptySeq DEF AtLastPiece
    <3>2. CASE pieces # <<>>
      <4>1. Len(pieces) >= 1 /\ i - 1 = Len(pieces) /\ i # 1
        BY <3>2, <2>2, <1>3, <1>5, EmptySeq
      <4>2. pieces'[i - 1] = pieces[Len(pieces)]
        BY <4>1, <1>4, <1>5
      <4>3. pieces'[i].from = writeLen
        BY <2>2, <1>4
      <4> QED BY <4>1, <4>2, <4>3, <3>2 DEF AtLastPiece
    <3> QED BY <3>1, <3>2
  <2> QED BY <2>1, <2>2, <1>4, <1>5
<1>11. AtLastPiece'
  <2>1. pieces'[Len(pieces')] = p
    BY <1>4
  <2> QED BY <2>1, <1>1, <1>2, <1>6 DEF AtLastPiece
<1>12. StrayBounded'
  <2> SUFFICES ASSUME NEW i \in 1..Len(pieces') PROVE pieces'[i].from >= -fails
    BY <1>2 DEF StrayBounded
  <2>1. CASE i \in 1..Len(pieces)
    BY <2>1, <1>4 DEF StrayBounded
  <2>2. CASE i = Len(pieces) + 1
    BY <2>2, <1>3, <1>4 DEF Counted
  <2> QED BY <2>1, <2>2, <1>4, <1>5
<1> QED BY <1>7, <1>8, <1>9, <1>10, <1>11, <1>12

\* A failure moves the count back over a byte that is written already, or
\* before the packet.
LEMMA WriteFailsIInv == IInv /\ WriteFails => IInv'
<1> SUFFICES ASSUME IInv, WriteFails PROVE IInv'
  OBVIOUS
<1> USE WriteAssumption DEF IInv
<1>1. /\ at = "loop" /\ fails < MaxFails /\ fails' = fails + 1 /\ writeLen' = writeLen - 1
      /\ at' = at /\ totalLen' = totalLen /\ pieces' = pieces /\ written' = written
  BY DEF WriteFails
<1>2. /\ writeLen \in Int /\ totalLen \in Nat /\ fails \in Nat /\ written \in Nat
      /\ pieces \in Seq(Piece) /\ writeLen <= totalLen
  BY DEF TypeOK, Piece
<1>3. \A i \in 1..Len(pieces) : pieces[i].from \in Int
  <2>1. \A i \in 1..Len(pieces) : pieces[i] \in Piece
    BY <1>2, LenProperties
  <2> QED BY <2>1 DEF Piece
<1>4. TypeOK'
  BY <1>1, <1>2 DEF TypeOK
<1>5. Counted'
  BY <1>1, <1>2 DEF Counted
<1>6. Covered'
  BY <1>1, <1>2 DEF Covered, Holds
<1>7. InOrder' /\ AtLastPiece'
  BY <1>1, <1>2 DEF InOrder, AtLastPiece
<1>8. StrayBounded'
  BY <1>1, <1>2, <1>3 DEF StrayBounded
<1> QED BY <1>4, <1>5, <1>6, <1>7, <1>8

LEMMA ReturnIInv == IInv /\ Return => IInv'
<1> SUFFICES ASSUME IInv, Return PROVE IInv'
  OBVIOUS
<1> USE WriteAssumption DEF IInv
<1>1. /\ ~(writeLen < totalLen) /\ at' = "returned"
      /\ UNCHANGED <<totalLen, writeLen, fails, pieces, written>>
  BY DEF Return, Unfinished
<1>2. writeLen \in Int /\ totalLen \in Nat /\ writeLen <= totalLen
  BY DEF TypeOK
<1>3. TypeOK'
  BY <1>1 DEF TypeOK
<1>4. Counted'
  BY <1>1, <1>2 DEF Counted
<1>5. Covered' /\ InOrder' /\ AtLastPiece' /\ StrayBounded'
  BY <1>1 DEF Covered, InOrder, AtLastPiece, StrayBounded, Holds
<1> QED BY <1>3, <1>4, <1>5

LEMMA StutterIInv == IInv /\ UNCHANGED vars => IInv'
BY DEF vars, IInv, TypeOK, Counted, Covered, InOrder, AtLastPiece, StrayBounded, Holds

THEOREM Inductive == Spec => []IInv
<1>1. IInv /\ [Next]_vars => IInv'
  BY WriteSomeIInv, WriteFailsIInv, ReturnIInv, StutterIInv DEF Next
<1> QED BY InitIInv, <1>1, PTL DEF Spec

\* The loop's variables have their types; the count never passes the size.
THEOREM TypeCorrect == Spec => []TypeOK
<1>1. IInv => TypeOK
  BY DEF IInv
<1> QED BY Inductive, <1>1, PTL

\* Whatever fails, a write that has returned skipped no byte of the packet; and
\* without a failure it is the packet, in order (SLUTNInterface.cpp:137).
THEOREM PacketWritten == Spec => []PacketWhole
<1>1. IInv => NothingSkipped
  BY WriteAssumption DEF IInv, Counted, Covered, NothingSkipped
<1>2. IInv => InOrder
  BY DEF IInv
<1> QED BY Inductive, <1>1, <1>2, PTL DEF PacketWhole

\* The returned size hides one byte more on the interface for each failure, and
\* no more memory before the packet is read than there were failures.
THEOREM FailuresCounted == Spec => []FailuresAddBytes
<1>1. IInv => ByteForEachFailure
  BY WriteAssumption DEF IInv, Counted, ByteForEachFailure, TypeOK
<1>2. IInv => StrayBounded
  BY DEF IInv
<1> QED BY Inductive, <1>1, <1>2, PTL DEF FailuresAddBytes
=============================================================================
