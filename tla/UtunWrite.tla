------------------------------ MODULE UtunWrite ------------------------------
(***************************************************************************)
(* SLUTUNInterface::writePacket (SLUTNInterface.cpp): one call, which the  *)
(* DATA branch of SLConnection.cpp makes with a packet's bytes.  The loop  *)
(* adds the result of ::write to its count unseen, the -1 of a failure     *)
(* too, so that the next ::write begins one byte earlier, perhaps before   *)
(* the packet.  Offsets are those of the packet: byte 0 is its first.      *)
(***************************************************************************)
EXTENDS Integers, Sequences

CONSTANTS Sizes,    \* the sizes of packets
          MaxFails  \* bound: calls of ::write that fail

ASSUME WriteAssumption ==
  /\ Sizes \subseteq Nat
  /\ MaxFails \in Nat

VARIABLES at,        \* in the loop, or returned
          totalLen,  \* the packet's size
          writeLen,  \* what the loop takes for the bytes written
          fails,     \* the calls of ::write that failed
          pieces,    \* what the others wrote, in order: where from, and how much
          written    \* the bytes they wrote

vars == <<at, totalLen, writeLen, fails, pieces, written>>

Init ==
  /\ at = "loop"
  /\ totalLen \in Sizes
  /\ writeLen = 0 /\ fails = 0
  /\ pieces = <<>> /\ written = 0

\* Mutant: the comparison lets the loop go on when all is written.
UnfinishedAtEnd == writeLen <= totalLen

Unfinished == writeLen < totalLen

\* Mutant: each retry counts from the packet's beginning.
WriteFromStart ==
  /\ at = "loop" /\ Unfinished
  /\ \E n \in 1..(totalLen - writeLen) :
       /\ pieces' = Append(pieces, [from |-> 0, size |-> n])
       /\ writeLen' = writeLen + n
       /\ written' = written + n
  /\ UNCHANGED <<at, totalLen, fails>>

\* Mutant: each ::write is offered the whole size, not what is left.
WriteTooMuch ==
  /\ at = "loop" /\ Unfinished
  /\ \E n \in 1..totalLen :
       /\ pieces' = Append(pieces, [from |-> writeLen, size |-> n])
       /\ writeLen' = writeLen + n
       /\ written' = written + n
  /\ UNCHANGED <<at, totalLen, fails>>

\* ::write takes one byte or more of those it is given.
WriteSome ==
  /\ at = "loop" /\ Unfinished
  /\ \E n \in 1..(totalLen - writeLen) :
       /\ pieces' = Append(pieces, [from |-> writeLen, size |-> n])
       /\ writeLen' = writeLen + n
       /\ written' = written + n
  /\ UNCHANGED <<at, totalLen, fails>>

\* Mutant: a failure is taken for a byte written.
WriteFailsForward ==
  /\ at = "loop" /\ Unfinished
  /\ fails < MaxFails
  /\ fails' = fails + 1
  /\ writeLen' = writeLen + 1
  /\ UNCHANGED <<at, totalLen, pieces, written>>

\* ::write returns -1, which is added.
WriteFails ==
  /\ at = "loop" /\ Unfinished
  /\ fails < MaxFails
  /\ fails' = fails + 1
  /\ writeLen' = writeLen - 1
  /\ UNCHANGED <<at, totalLen, pieces, written>>

Return ==
  /\ at = "loop" /\ ~Unfinished
  /\ at' = "returned"
  /\ UNCHANGED <<totalLen, writeLen, fails, pieces, written>>

Next == WriteSome \/ WriteFails \/ Return

Spec == Init /\ [][Next]_vars

\* The calling thread is scheduled; with at most MaxFails failures.
FairSpec == Spec /\ WF_vars(Next)

-----------------------------------------------------------------------------
TypeOK ==
  /\ at \in {"loop", "returned"}
  /\ totalLen \in Sizes
  /\ writeLen \in Int /\ writeLen <= totalLen
  /\ fails \in 0..MaxFails
  /\ pieces \in Seq([from : Int, size : Nat \ {0}])
  /\ written \in Nat

Holds(i, b) == pieces[i].from <= b /\ b < pieces[i].from + pieces[i].size

NothingSkipped ==
  at = "returned" => \A b \in 0..(totalLen - 1) : \E i \in 1..Len(pieces) : Holds(i, b)

InOrder ==
  fails = 0 => \A i \in 1..Len(pieces) :
                 pieces[i].from = (IF i = 1 THEN 0 ELSE pieces[i - 1].from + pieces[i - 1].size)

(***************************************************************************)
(* Failures move the loop back, never forward: whatever ::write answered,  *)
(* once writePacket has returned, every byte of the packet was written.    *)
(* If none failed, however the packet was split, the pieces are its bytes  *)
(* in order, none twice.                                                   *)
(***************************************************************************)
PacketWhole == NothingSkipped /\ InOrder

ByteForEachFailure == at = "returned" => writeLen = totalLen /\ written = totalLen + fails

StrayBounded == \A i \in 1..Len(pieces) : pieces[i].from >= -fails

(***************************************************************************)
(* The value writePacket returns is the packet's size, always: it hides    *)
(* that each failure added a byte to what reached the interface, one sent  *)
(* twice or one from before the packet.  Memory before the packet is read  *)
(* only after failures, and no more of it than there were failures.        *)
(***************************************************************************)
FailuresAddBytes == ByteForEachFailure /\ StrayBounded

(***************************************************************************)
(* A call during which ::write fails finitely often returns.               *)
(***************************************************************************)
Returns == <>(at = "returned")

-----------------------------------------------------------------------------
\* What makes them inductive: at any time everything up to the count is written.
Counted ==
  /\ written = writeLen + fails
  /\ -fails <= writeLen
  /\ at = "returned" => writeLen = totalLen

Covered == \A b \in 0..(writeLen - 1) : \E i \in 1..Len(pieces) : Holds(i, b)

\* Without a failure the count is where the last piece ends.
AtLastPiece ==
  fails = 0 => writeLen = (IF pieces = <<>> THEN 0
                           ELSE pieces[Len(pieces)].from + pieces[Len(pieces)].size)

IInv == TypeOK /\ Counted /\ Covered /\ InOrder /\ AtLastPiece /\ StrayBounded
=============================================================================
