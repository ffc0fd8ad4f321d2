-------------------------- MODULE SLConnectionProofs --------------------------
(***************************************************************************)
(* Proofs about SLConnection: the inductive invariant IInv, and what       *)
(* follows from it of the frames in the output buffer, of the interface's  *)
(* lifetime and of the faults.                                             *)
(***************************************************************************)
EXTENDS SLConnection, SequenceTheorems, TLAPS

\* Two pieces, one after the other, are the sequence of the two.
LEMMA PieceAfterPiece ==
  ASSUME NEW S, NEW a \in S, NEW b \in S
  PROVE  Append(<<a>>, b) = <<a, b>>
<1>1. <<a>> \in Seq(S) /\ <<a, b>> \in Seq(S) /\ Len(<<a>>) = 1 /\ Len(<<a, b>>) = 2
  OBVIOUS
<1>2. Append(<<a>>, b) \in Seq(S) /\ Len(Append(<<a>>, b)) = 2
  BY <1>1
<1>3. Append(<<a>>, b)[1] = a /\ Append(<<a>>, b)[2] = b
  BY <1>1
<1>4. \A i \in 1..2 : Append(<<a>>, b)[i] = <<a, b>>[i]
  BY <1>3
<1> QED BY <1>1, <1>2, <1>4, SeqEqual

PcOK == /\ pc \in [Threads -> LoopAt \cup UtunAt]
        /\ pc["loop"] \in LoopAt /\ pc["utun"] \in UtunAt

\* A move of one thread to a place of its own keeps both places typed, and
\* leaves the other thread where it is.
LEMMA LoopMoved ==
  ASSUME PcOK, NEW from, NEW to \in LoopAt, Move("loop", from, to)
  PROVE  PcOK' /\ pc'["loop"] = to /\ pc'["utun"] = pc["utun"]
  BY DEF PcOK, Move, Threads

LEMMA UtunMoved ==
  ASSUME PcOK, NEW from, NEW to \in UtunAt, Move("utun", from, to)
  PROVE  PcOK' /\ pc'["utun"] = to /\ pc'["loop"] = pc["loop"]
  BY DEF PcOK, Move, Threads

(***************************************************************************)
(* Every variable has its type in every reachable state of a connection.   *)
(***************************************************************************)
THEOREM TypeCorrect == Spec => []TypeOK
<1>1. Init => TypeOK
  <2> SUFFICES ASSUME Init PROVE TypeOK
    OBVIOUS
  <2>1. pc \in [Threads -> LoopAt \cup UtunAt] /\ pc["loop"] \in LoopAt /\ pc["utun"] \in UtunAt
    BY DEF Init, Threads, LoopAt, UtunAt
  <2>2. out \in Seq(Pieces) /\ flushed \in 0..Len(out)
    BY DEF Init
  <2> QED BY <2>1, <2>2 DEF Init, TypeOK
<1>2. TypeOK /\ [Next]_vars => TypeOK'
  <2> SUFFICES ASSUME TypeOK, [Next]_vars PROVE TypeOK'
    OBVIOUS
  <2> USE DEF TypeOK, PcOK, objects, buffer
  <2>1. CASE Establish
    <3>1. PcOK'
      BY <2>1 DEF Establish, Threads, LoopAt, UtunAt
    <3> QED BY <2>1, <3>1 DEF Establish
  <2>2. CASE EstablishFails
    BY <2>2 DEF EstablishFails
  <2>3. CASE NoUtunSocket
    BY <2>3 DEF NoUtunSocket, Break
  <2>4. CASE Data
    <3>1. CASE Move("loop", "idle", "retrying") /\ UNCHANGED <<objects, asked, gone, buffer, early, fault>>
      BY <3>1, LoopMoved DEF LoopAt
    <3>2. CASE Break("nullUtun")
      BY <3>2 DEF Break
    <3> QED BY <2>4, <3>1, <3>2 DEF Data
  <2>5. CASE WrittenToUtun
    BY <2>5, LoopMoved DEF WrittenToUtun, LoopAt
  <2>6. CASE Flush
    BY <2>6 DEF Flush
  <2>7. CASE HangUp
    BY <2>7, LoopMoved DEF HangUp, LoopAt
  <2>8. CASE LoopReturns
    BY <2>8, LoopMoved DEF LoopReturns, LoopAt
  <2>9. CASE FreeBase
    BY <2>9, LoopMoved DEF FreeBase, LoopAt
  <2>10. CASE DeleteUtun
    BY <2>10, LoopMoved DEF DeleteUtun, LoopAt
  <2>11. ASSUME NEW t \in Threads, EnterWrite(t) PROVE TypeOK'
    BY <2>11 DEF EnterWrite
  <2>12. ASSUME NEW t \in Threads, LeaveWrite(t) PROVE TypeOK'
    <3>1. <<t, pc[t]>> \in Pieces
      BY <2>12 DEF LeaveWrite, AtPiece, Pieces
    <3>2. out' \in Seq(Pieces) /\ flushed' \in 0..Len(out')
      <4>1. out \in Seq(Pieces) /\ flushed \in 0..Len(out) /\ flushed' = flushed
        BY <2>12 DEF LeaveWrite
      <4>2. out' = Append(out, <<t, pc[t]>>) \/ out' = out
        BY <2>12 DEF LeaveWrite
      <4> HIDE DEF TypeOK, PcOK
      <4>3. Append(out, <<t, pc[t]>>) \in Seq(Pieces) /\ Len(Append(out, <<t, pc[t]>>)) = Len(out) + 1
        BY <3>1, <4>1
      <4>4. out' \in Seq(Pieces) /\ Len(out) <= Len(out')
        BY <4>1, <4>2, <4>3
      <4> QED BY <4>1, <4>4
    <3>3. PcOK'
      BY <2>12 DEF LeaveWrite, AtPiece, AfterPiece, Threads, LoopAt, UtunAt
    <3> QED BY <2>12, <3>2, <3>3 DEF LeaveWrite
  <2>13. CASE WorkerStarts
    BY <2>13, UtunMoved DEF WorkerStarts, UtunAt
  <2>14. CASE PacketArrives
    BY <2>14, UtunMoved DEF PacketArrives, UtunAt, CallbackRuns
  <2>15. CASE WorkerBroken
    BY <2>15, UtunMoved DEF WorkerBroken, UtunAt
  <2>16. CASE PeerGone
    BY <2>16 DEF PeerGone
  <2>19. CASE ReadFails
    BY <2>19 DEF ReadFails, Break
  <2>17. CASE Undefined
    BY <2>17 DEF Undefined, Dangling, UseAfterFree, GarbageBase, BufferRace, Break
  <2>18. CASE UNCHANGED vars
    BY <2>18 DEF vars
  <2> QED
    BY <2>1, <2>2, <2>3, <2>4, <2>5, <2>6, <2>7, <2>8, <2>9, <2>10, <2>11, <2>12,
       <2>13, <2>14, <2>15, <2>16, <2>17, <2>18, <2>19
    DEF Next, RequestStep, Teardown, WriteStep, UtunStep
<1> QED BY <1>1, <1>2, PTL DEF Spec

\* IInv without its typing part.
Coherent == Lifetimes /\ WritersKnown /\ RacedByPacket /\ FaultExplained
            /\ NoPacketYet /\ Orderly

\* A step that leaves the threads, the objects, the flags and the buffer's
\* contents alone, but for a cause of fault that is explained.
LEMMA CoherentBroken ==
  ASSUME IInv, UNCHANGED <<pc, objects, asked, gone, buffer, early>>,
         fault' = "dangling" => pc["utun"] \in {"start", "hdr"},
         fault' \in {"useAfterFree", "garbageBase"} => gone,
         fault' = "race" => raced,
         fault' # "nullUtun"
  PROVE  Coherent'
  BY DEF IInv, Coherent, Lifetimes, UtunReleased, WritersKnown, RacedByPacket,
         FaultExplained, InterfaceBeforeData, NoPacketYet, Orderly, Readable,
         AtPiece, CallbackRuns, objects, buffer

\* Coherent is kept by every step.
LEMMA CoherentStep ==
  ASSUME IInv, [Next]_vars
  PROVE  Coherent'
<1> USE DEF IInv, objects, buffer
<1>0. PcOK
  BY DEF TypeOK, PcOK
<1>1. CASE Establish
  <2>1. pc["loop"] = "idle" /\ pc'["loop"] = "hdr" /\ pc["utun"] = "none" /\ pc'["utun"] = "start"
    BY <1>1, <1>0 DEF Establish, PcOK, Threads, Lifetimes
  <2>2. writing = {} /\ out = <<>> /\ ~raced /\ bev = "live"
    BY <2>1 DEF TypeOK, Threads, WritersKnown, AtPiece, RacedByPacket, Lifetimes
  <2> QED
    BY <1>1, <2>1, <2>2
    DEF Establish, Coherent, Lifetimes, UtunReleased, WritersKnown, RacedByPacket,
        FaultExplained, InterfaceBeforeData, NoPacketYet, Orderly, AtPiece, CallbackRuns
<1>2. CASE EstablishFails
  BY <1>2
  DEF EstablishFails, Coherent, Lifetimes, UtunReleased, WritersKnown, RacedByPacket,
      FaultExplained, InterfaceBeforeData, NoPacketYet, Orderly, AtPiece, CallbackRuns
<1>3. CASE NoUtunSocket
  BY <1>3, CoherentBroken DEF NoUtunSocket, Break
<1>4. CASE Data
  <2>1. CASE Move("loop", "idle", "retrying") /\ UNCHANGED <<objects, asked, gone, buffer, early, fault>>
    <3>1. pc["loop"] = "idle" /\ pc'["loop"] = "retrying" /\ pc'["utun"] = pc["utun"]
      BY <2>1, <1>0, LoopMoved DEF LoopAt, Move
    <3>2. \A t \in writing : t = "utun"
      BY <3>1 DEF TypeOK, Threads, WritersKnown, AtPiece
    <3> QED
      BY <2>1, <3>1, <3>2
      DEF Coherent, Lifetimes, UtunReleased, WritersKnown, RacedByPacket,
          FaultExplained, InterfaceBeforeData, NoPacketYet, Orderly, AtPiece, CallbackRuns
  <2>2. CASE utun = "null" /\ Break("nullUtun")
    <3>1. out = <<>> /\ 1..flushed = {}
      BY <2>2 DEF Lifetimes, WritersKnown, TypeOK
    <3> QED BY <1>4, <3>1 DEF Data
  <2> QED BY <1>4, <2>1, <2>2 DEF Data
<1>5. CASE WrittenToUtun
  <2>1. pc["loop"] = "retrying" /\ pc'["loop"] = "idle" /\ pc'["utun"] = pc["utun"]
    BY <1>5, <1>0, LoopMoved DEF WrittenToUtun, LoopAt, Move
  <2>2. \A t \in writing : t = "utun"
    BY <2>1 DEF TypeOK, Threads, WritersKnown, AtPiece
  <2> QED
    BY <1>5, <2>1, <2>2
    DEF WrittenToUtun, Coherent, Lifetimes, UtunReleased, WritersKnown, RacedByPacket,
        FaultExplained, InterfaceBeforeData, NoPacketYet, Orderly, AtPiece, CallbackRuns
<1>6. CASE Flush
  <2>1. writing # {} => pc["utun"] \in {"hdr", "body"}
    BY <1>6 DEF Flush, WritersKnown, TypeOK, Threads, AtPiece
  <2> QED
    BY <1>6, <2>1
    DEF Flush, Coherent, Lifetimes, UtunReleased, WritersKnown, RacedByPacket,
        FaultExplained, InterfaceBeforeData, NoPacketYet, Orderly, AtPiece, CallbackRuns
<1>7. CASE HangUp
  <2>1. pc["loop"] = "idle" /\ pc'["loop"] = "freed" /\ pc'["utun"] = pc["utun"]
    BY <1>7, <1>0, LoopMoved DEF HangUp, LoopAt, Move
  <2>2. \A t \in writing : t = "utun"
    BY <2>1 DEF TypeOK, Threads, WritersKnown, AtPiece
  <2> QED
    BY <1>7, <2>1, <2>2
    DEF HangUp, Coherent, Lifetimes, UtunReleased, WritersKnown, RacedByPacket,
        FaultExplained, InterfaceBeforeData, NoPacketYet, Orderly, AtPiece, CallbackRuns
<1>8. CASE LoopReturns
  <2>1. pc["loop"] = "freed" /\ pc'["loop"] = "returned" /\ pc'["utun"] = pc["utun"]
    BY <1>8, <1>0, LoopMoved DEF LoopReturns, LoopAt, Move
  <2>2. \A t \in writing : t = "utun"
    BY <2>1 DEF TypeOK, Threads, WritersKnown, AtPiece
  <2> QED
    BY <1>8, <2>1, <2>2
    DEF LoopReturns, Coherent, Lifetimes, UtunReleased, WritersKnown, RacedByPacket,
        FaultExplained, InterfaceBeforeData, NoPacketYet, Orderly, AtPiece, CallbackRuns
<1>9. CASE FreeBase
  <2>1. pc["loop"] = "returned" /\ pc'["loop"] = "baseless" /\ pc'["utun"] = pc["utun"]
    BY <1>9, <1>0, LoopMoved DEF FreeBase, LoopAt, Move
  <2>2. \A t \in writing : t = "utun"
    BY <2>1 DEF TypeOK, Threads, WritersKnown, AtPiece
  <2> QED
    BY <1>9, <2>1, <2>2
    DEF FreeBase, Coherent, Lifetimes, UtunReleased, WritersKnown, RacedByPacket,
        FaultExplained, InterfaceBeforeData, NoPacketYet, Orderly, AtPiece, CallbackRuns
<1>10. CASE DeleteUtun
  <2>1. pc["loop"] = "baseless" /\ pc'["loop"] = "over" /\ pc'["utun"] = pc["utun"]
    BY <1>10, <1>0, LoopMoved DEF DeleteUtun, LoopAt, Move
  <2>2. \A t \in writing : t = "utun"
    BY <2>1 DEF TypeOK, Threads, WritersKnown, AtPiece
  <2>3. utun \in {"null", "open"}
    BY <2>1 DEF TypeOK, Lifetimes
  <2> QED
    BY <1>10, <2>1, <2>2, <2>3
    DEF DeleteUtun, Coherent, Lifetimes, UtunReleased, WritersKnown, RacedByPacket,
        FaultExplained, InterfaceBeforeData, NoPacketYet, Orderly, AtPiece, CallbackRuns
<1>11. ASSUME NEW t \in Threads, EnterWrite(t) PROVE Coherent'
  <2>1. writing # {} => pc["utun"] \in {"hdr", "body"}
    BY <1>11 DEF EnterWrite, WritersKnown, TypeOK, Threads, AtPiece
  <2> QED
    BY <1>11, <2>1
    DEF EnterWrite, Coherent, Lifetimes, UtunReleased, WritersKnown, RacedByPacket,
        FaultExplained, InterfaceBeforeData, NoPacketYet, Orderly, AtPiece, CallbackRuns
<1>12. ASSUME fault = "none", NEW t \in Threads, LeaveWrite(t) PROVE Coherent'
  <2>1. /\ writing' = writing \ {t}
        /\ UNCHANGED <<objects, asked, gone, flushed, raced, early, fault>>
        /\ \/ bev = "live" /\ out' = Append(out, <<t, pc[t]>>)
           \/ (raced \/ bev = "freed") /\ out' = out
        /\ t \in writing /\ pc[t] \in {"hdr", "body"}
    BY <1>12 DEF LeaveWrite, AtPiece, TypeOK
  <2>2. CASE t = "loop"
    <3>1. /\ pc["loop"] \in {"hdr", "body"}
          /\ pc'["loop"] = (IF pc["loop"] = "hdr" THEN "body" ELSE "idle")
          /\ pc'["utun"] = pc["utun"]
          /\ bev = "live" /\ pc["utun"] # "none"
      BY <1>12, <2>1, <2>2, <1>0
      DEF LeaveWrite, AfterPiece, PcOK, Threads, TypeOK, Lifetimes, WritersKnown, CallbackRuns
    <3>2. \A u \in writing' : u = "utun" /\ u \in writing
      BY <2>1, <2>2 DEF TypeOK, Threads
    <3>3. ~early /\ ~raced /\ pc["loop"] = "hdr" => out' = <<ResponseHdr>>
      <4> SUFFICES ASSUME ~early, ~raced, pc["loop"] = "hdr" PROVE out' = <<ResponseHdr>>
        OBVIOUS
      <4>1. out' = Append(out, ResponseHdr)
        BY <2>1, <2>2, <3>1 DEF ResponseHdr
      <4>2. out = <<>>
        BY DEF Orderly
      <4> QED BY <4>1, <4>2
    <3>4. ~early /\ ~raced /\ pc["loop"] = "body" => out' = Response
      <4> SUFFICES ASSUME ~early, ~raced, pc["loop"] = "body" PROVE out' = Response
        OBVIOUS
      <4>1. out' = Append(out, ResponseBody)
        BY <2>1, <2>2, <3>1 DEF ResponseBody
      <4>2. out = <<ResponseHdr>>
        BY DEF Orderly
      <4>3. Append(<<ResponseHdr>>, ResponseBody) = <<ResponseHdr, ResponseBody>>
        <5> DEFINE S == {ResponseHdr, ResponseBody}
        <5>1. ResponseHdr \in S /\ ResponseBody \in S
          OBVIOUS
        <5> HIDE DEF S
        <5> QED BY <5>1, PieceAfterPiece
      <4> QED BY <4>1, <4>2, <4>3 DEF Response
    <3>5. CallbackRuns
      BY <3>1 DEF CallbackRuns
    <3> QED
      BY <2>1, <3>1, <3>2, <3>3, <3>4, <3>5
      DEF Coherent, Lifetimes, UtunReleased, WritersKnown, RacedByPacket, FaultExplained,
          InterfaceBeforeData, NoPacketYet, Orderly, AtPiece, CallbackRuns
  <2>3. CASE t = "utun"
    <3>1. /\ pc["utun"] \in {"hdr", "body"}
          /\ pc'["utun"] = (IF pc["utun"] = "hdr" THEN "body" ELSE "done")
          /\ pc'["loop"] = pc["loop"]
      BY <1>12, <2>1, <2>3, <1>0 DEF LeaveWrite, AfterPiece, PcOK, Threads
    <3>2. \A u \in writing' : u = "loop" /\ u \in writing
      BY <2>1, <2>3 DEF TypeOK, Threads
    <3>3. ~early => ~CallbackRuns
      BY <3>1 DEF NoPacketYet
    <3>4. ~early /\ ~raced /\ pc["utun"] = "hdr" =>
            out' = Append(Response, PacketHdr) \/ (bev = "freed" /\ out' = Response)
      <4> SUFFICES ASSUME ~early, ~raced, pc["utun"] = "hdr"
                   PROVE  out' = Append(Response, PacketHdr) \/ (bev = "freed" /\ out' = Response)
        OBVIOUS
      <4>1. out = Response
        BY <3>3 DEF Orderly
      <4>2. out' = Append(out, PacketHdr) \/ (bev = "freed" /\ out' = out)
        BY <2>1, <2>3 DEF PacketHdr
      <4> QED BY <4>1, <4>2
    <3>5. Append(Append(Response, PacketHdr), PacketBody) = Response \o <<PacketHdr, PacketBody>>
      BY DEF Response, ResponseHdr, ResponseBody, PacketHdr, PacketBody
    <3>6. ~early /\ ~raced /\ pc["utun"] = "body" => out' \in Readable
      <4> SUFFICES ASSUME ~early, ~raced, pc["utun"] = "body" PROVE out' \in Readable
        OBVIOUS
      <4>1. CASE out = Append(Response, PacketHdr)
        <5>1. out' = Append(out, PacketBody) \/ out' = out
          BY <2>1, <2>3 DEF PacketBody
        <5> QED BY <3>5, <4>1, <5>1 DEF Readable
      <4>2. CASE bev = "freed" /\ out = Response
        BY <2>1, <4>2 DEF Readable
      <4> QED BY <4>1, <4>2 DEF Orderly
    <3> QED
      BY <1>12, <2>1, <3>1, <3>2, <3>3, <3>4, <3>6
      DEF Coherent, Lifetimes, UtunReleased, WritersKnown, RacedByPacket, FaultExplained,
          InterfaceBeforeData, NoPacketYet, Orderly, AtPiece, CallbackRuns
  <2> QED BY <2>2, <2>3 DEF Threads
<1>13. CASE fault = "none" /\ WorkerStarts
  <2>1. pc["utun"] = "start" /\ pc'["utun"] = "armed" /\ pc'["loop"] = pc["loop"]
    BY <1>13, <1>0, UtunMoved DEF WorkerStarts, UtunAt, Move
  <2>2. \A t \in writing : t = "loop"
    BY <2>1 DEF TypeOK, Threads, WritersKnown, AtPiece
  <2> QED
    BY <1>13, <2>1, <2>2
    DEF WorkerStarts, Coherent, Lifetimes, UtunReleased, WritersKnown, RacedByPacket,
        FaultExplained, InterfaceBeforeData, NoPacketYet, Orderly, AtPiece, CallbackRuns
<1>14. CASE fault = "none" /\ PacketArrives
  <2>1. pc["utun"] = "armed" /\ pc'["utun"] = "hdr" /\ pc'["loop"] = pc["loop"]
    BY <1>14, <1>0, UtunMoved DEF PacketArrives, UtunAt, Move
  <2>2. \A t \in writing : t = "loop"
    BY <2>1 DEF TypeOK, Threads, WritersKnown, AtPiece
  <2> QED
    BY <1>14, <2>1, <2>2
    DEF PacketArrives, Coherent, Lifetimes, UtunReleased, WritersKnown, RacedByPacket,
        FaultExplained, InterfaceBeforeData, NoPacketYet, Orderly, AtPiece, CallbackRuns
<1>15. CASE WorkerBroken
  <2>1. pc["utun"] = "armed" /\ pc'["utun"] = "done" /\ pc'["loop"] = pc["loop"]
    BY <1>15, <1>0, UtunMoved DEF WorkerBroken, UtunAt, Move
  <2>2. \A t \in writing : t = "loop"
    BY <2>1 DEF TypeOK, Threads, WritersKnown, AtPiece
  <2> QED
    BY <1>15, <2>1, <2>2
    DEF WorkerBroken, Readable, Coherent, Lifetimes, UtunReleased, WritersKnown, RacedByPacket,
        FaultExplained, InterfaceBeforeData, NoPacketYet, Orderly, AtPiece, CallbackRuns
<1>19. CASE ReadFails
  BY <1>19, CoherentBroken DEF ReadFails, Break
<1>16. CASE PeerGone
  BY <1>16
  DEF PeerGone, Coherent, Lifetimes, UtunReleased, WritersKnown, RacedByPacket,
      FaultExplained, InterfaceBeforeData, NoPacketYet, Orderly, AtPiece, CallbackRuns
<1>17. CASE Undefined
  BY <1>17, CoherentBroken
  DEF Undefined, Dangling, UseAfterFree, GarbageBase, BufferRace, Break, Lifetimes, TypeOK
<1>18. CASE UNCHANGED vars
  BY <1>18 DEF vars, Readable, Coherent, Lifetimes, UtunReleased, WritersKnown, RacedByPacket,
     FaultExplained, InterfaceBeforeData, NoPacketYet, Orderly, AtPiece, CallbackRuns
<1> QED
  BY <1>1, <1>2, <1>3, <1>4, <1>5, <1>6, <1>7, <1>8, <1>9, <1>10, <1>11, <1>12,
     <1>13, <1>14, <1>15, <1>16, <1>17, <1>18, <1>19
  DEF Next, RequestStep, Teardown, WriteStep, UtunStep

\* What IInv says of the properties.
LEMMA CoherentImplies ==
  ASSUME TypeOK, Coherent
  PROVE  FramesIntact /\ QuietIsSafe
<1>1. FramesIntact
  <2> SUFFICES ASSUME ~early, ~raced PROVE out \in Readable
    BY DEF FramesIntact
  <2>1. pc["utun"] \in UtunAt /\ pc["loop"] \in LoopAt
    BY DEF TypeOK
  <2>2. CASE pc["utun"] = "none"
    BY <2>2 DEF Coherent, WritersKnown, Readable
  <2>3. CASE CallbackRuns
    BY <2>3 DEF Coherent, Orderly, Readable, CallbackRuns
  <2>4. CASE ~CallbackRuns /\ pc["utun"] \in {"start", "armed", "hdr"}
    BY <2>4 DEF Coherent, Orderly, Readable
  <2>5. CASE pc["utun"] \in {"body", "done"}
    BY <2>5 DEF Coherent, Orderly, Readable
  <2> QED BY <2>1, <2>2, <2>3, <2>4, <2>5 DEF UtunAt
<1>2. QuietIsSafe
  BY DEF Coherent, FaultExplained, InterfaceBeforeData, RacedByPacket, QuietIsSafe, TypeOK
<1> QED BY <1>1, <1>2

\* The inductive invariant holds of every connection.
LEMMA Inductive == Spec => [](IInv)
<1>1. Init => Coherent
  BY DEF Init, Threads, Coherent, Lifetimes, UtunReleased, WritersKnown, RacedByPacket,
     FaultExplained, InterfaceBeforeData, NoPacketYet, Orderly, CallbackRuns
<1>2. TypeOK /\ Coherent <=> IInv
  BY DEF IInv, Coherent
<1>3. TypeOK /\ Coherent /\ [Next]_vars => Coherent'
  BY <1>2, CoherentStep
<1> QED BY <1>1, <1>2, <1>3, TypeCorrect, PTL DEF Spec

(***************************************************************************)
(* Unless a packet came early or the threads met in the buffer, the client *)
(* reads the response and then the packet, or a beginning of that.         *)
(***************************************************************************)
THEOREM FramesKeptIntact == Spec => []FramesIntact
<1>1. IInv => FramesIntact
  BY CoherentImplies DEF IInv, Coherent
<1> QED BY <1>1, Inductive, PTL

(***************************************************************************)
(* The DATA branch never dereferences a null mUTUNInterface.               *)
(***************************************************************************)
THEOREM InterfaceThere == Spec => []InterfaceBeforeData
<1>1. IInv => InterfaceBeforeData
  BY DEF IInv, FaultExplained
<1> QED BY <1>1, Inductive, PTL

(***************************************************************************)
(* A connection whose worker waits, and whose client is there, is safe.    *)
(***************************************************************************)
THEOREM QuietSafe == Spec => []QuietIsSafe
<1>1. IInv => QuietIsSafe
  BY CoherentImplies DEF IInv, Coherent
<1> QED BY <1>1, Inductive, PTL

(***************************************************************************)
(* A connection that is over holds no interface.                           *)
(***************************************************************************)
THEOREM InterfaceReleased == Spec => []UtunReleased
<1>1. IInv => UtunReleased
  BY DEF IInv, Lifetimes
<1> QED BY <1>1, Inductive, PTL
=============================================================================
