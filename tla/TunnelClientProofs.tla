-------------------------- MODULE TunnelClientProofs --------------------------
(***************************************************************************)
(* Proofs about TunnelClient: the inductive invariant IInv, and what       *)
(* follows from it of the completion handler, of the stream the server     *)
(* reads, of the ways the process can end and of the port.                 *)
(***************************************************************************)
EXTENDS TunnelClient, SequenceTheorems, TLAPS

PcOK == /\ pc \in [Threads -> ProvAt \cup EventAt \cup PacketAt]
        /\ pc["prov"] \in ProvAt /\ pc["event"] \in EventAt /\ pc["packet"] \in PacketAt

\* A move of one thread to a place of its own keeps all places typed and leaves
\* the other threads where they are.
LEMMA ProvMoved ==
  ASSUME PcOK, NEW from, NEW to \in ProvAt, Move("prov", from, to)
  PROVE  /\ PcOK' /\ pc["prov"] = from /\ pc'["prov"] = to
         /\ pc'["event"] = pc["event"] /\ pc'["packet"] = pc["packet"]
  BY DEF PcOK, Move, Threads

LEMMA EventMoved ==
  ASSUME PcOK, NEW from, NEW to \in EventAt, Move("event", from, to)
  PROVE  /\ PcOK' /\ pc["event"] = from /\ pc'["event"] = to
         /\ pc'["prov"] = pc["prov"] /\ pc'["packet"] = pc["packet"]
  BY DEF PcOK, Move, Threads

LEMMA PacketMoved ==
  ASSUME PcOK, NEW from, NEW to \in PacketAt, Move("packet", from, to)
  PROVE  /\ PcOK' /\ pc["packet"] = from /\ pc'["packet"] = to
         /\ pc'["prov"] = pc["prov"] /\ pc'["event"] = pc["event"]
  BY DEF PcOK, Move, Threads

\* Appending an element to a sequence.
LEMMA Appended ==
  ASSUME NEW S, NEW s \in Seq(S), NEW e \in S
  PROVE  /\ Append(s, e) \in Seq(S) /\ Len(Append(s, e)) = Len(s) + 1
         /\ Append(s, e)[Len(s) + 1] = e
         /\ \A i \in 1..Len(s) : Append(s, e)[i] = s[i]
  OBVIOUS

\* A short is a short, and keeps a port number that it can hold.
LEMMA ShortInRange ==
  ASSUME NEW p \in Nat
  PROVE  Short(p) \in Int /\ -Half <= Short(p) /\ Short(p) < PortModulus - Half
<1>1. PortModulus \in Nat \ {0} /\ Half \in Int
  BY ClientAssumption DEF Half
<1>2. DEFINE r == (p + Half) % PortModulus
<1>3. r \in Int /\ 0 <= r /\ r < PortModulus
  BY <1>1
<1> QED BY <1>1, <1>3 DEF Short

LEMMA ShortKeepsPort ==
  ASSUME NEW p \in Nat, p < PortModulus, Short(p) \in ConnectablePorts
  PROVE  Short(p) = p
<1>1. PortModulus \in Nat \ {0} /\ Half \in Nat /\ Half <= PortModulus
  BY ClientAssumption DEF Half
<1>2. CASE p + Half < PortModulus
  <2>1. (p + Half) % PortModulus = p + Half
    BY <1>1, <1>2
  <2> QED BY <1>1, <2>1 DEF Short
<1>3. CASE p + Half >= PortModulus
  <2>1. (p + Half) % PortModulus = p + Half - PortModulus
    BY <1>1, <1>3
  <2> QED BY <1>1, <2>1 DEF Short, ConnectablePorts
<1> QED BY <1>1, <1>2, <1>3

(***************************************************************************)
(* Every variable of the client has its type in every reachable state.     *)
(***************************************************************************)
THEOREM TypeCorrect == Spec => []TypeOK
<1>1. Init => TypeOK
  <2> SUFFICES ASSUME Init PROVE TypeOK
    OBVIOUS
  <2>1. PcOK
    BY DEF Init, PcOK, Threads, ProvAt, EventAt, PacketAt
  <2>2. -Half <= 0 /\ 0 < PortModulus - Half
    BY ClientAssumption DEF Half
  <2>3. /\ hasPort \in BOOLEAN /\ wanted \in Ports /\ port \in Int /\ packets \in 0..MaxPackets
        /\ -Half <= port /\ port < PortModulus - Half
    BY <2>2, ClientAssumption DEF Init
  <2>4. calls \in Seq({"nil", "error"}) /\ sent \in Seq(Pieces)
    BY DEF Init
  <2>5. block \in BOOLEAN /\ established \in BOOLEAN
    BY DEF Init
  <2> QED BY <2>1, <2>3, <2>4, <2>5 DEF Init, TypeOK, PcOK
<1>2. TypeOK /\ [Next]_vars => TypeOK'
  <2> SUFFICES ASSUME TypeOK, [Next]_vars PROVE TypeOK'
    OBVIOUS
  <2> USE DEF config, session, completion, output
  <2>0. PcOK
    BY DEF TypeOK, PcOK
  <2>1. CASE AddressWithoutPort
    BY <2>1 DEF AddressWithoutPort, End, TypeOK
  <2>2. CASE StartTunnel
    <3>1. PcOK'
      BY <2>0, <2>2, ProvMoved DEF StartTunnel, ProvAt
    <3>2. port' \in Int /\ -Half <= port' /\ port' < PortModulus - Half
      BY <2>2, ShortInRange, ClientAssumption DEF StartTunnel, TypeOK
    <3> QED BY <2>2, <3>1, <3>2 DEF StartTunnel, TypeOK, PcOK
  <2>3. CASE SpawnThread
    BY <2>3 DEF SpawnThread, TypeOK, Threads, ProvAt, EventAt
  <2>4. CASE AnswerStart
    <3>1. PcOK'
      BY <2>0, <2>4, ProvMoved DEF AnswerStart, ProvAt
    <3>2. calls' \in Seq({"nil", "error"}) /\ block' \in BOOLEAN
      BY <2>4, Appended DEF AnswerStart, TypeOK
    <3> QED BY <2>4, <3>1, <3>2 DEF AnswerStart, TypeOK, PcOK
  <2>5. CASE StopTunnel
    BY <2>5 DEF StopTunnel, End, TypeOK
  <2>6. CASE EventThread
    BY <2>0, <2>6, EventMoved DEF EventThread, EventAt, TypeOK, PcOK
  <2>7. CASE DanglingSelf
    BY <2>7 DEF DanglingSelf, End, TypeOK
  <2>8. CASE Connected
    <3>1. sent' \in Seq(Pieces)
      <4>1. << <<"ESTABLISH", "hdr">>, <<"ESTABLISH", "body">> >> \in Seq(Pieces)
        BY DEF Pieces
      <4> QED BY <2>8, <4>1, ConcatProperties DEF Connected, TypeOK
    <3> QED BY <2>8, <3>1 DEF Connected, TypeOK
  <2>9. CASE LinkEnds
    BY <2>9 DEF LinkEnds, TypeOK
  <2>10. CASE Establish
    <3>1. CASE ~block
      BY <2>10, <3>1 DEF Establish, End, TypeOK
    <3>2. CASE block
      <4>1. calls' \in Seq({"nil", "error"}) /\ established' = TRUE /\ reads' \in Nat
        BY <2>10, <3>2, Appended DEF Establish, TypeOK
      <4> QED BY <2>10, <3>2, <4>1 DEF Establish, TypeOK
    <3> QED BY <3>1, <3>2 DEF TypeOK
  <2>11. CASE NotResponse
    BY <2>11 DEF NotResponse, TypeOK
  <2>12. CASE LoopEnds
    BY <2>0, <2>12, EventMoved DEF LoopEnds, EventAt, TypeOK, PcOK
  <2>13. CASE TakePacket
    <3>1. PcOK'
      BY <2>0, <2>13, PacketMoved DEF TakePacket, PacketAt
    <3>2. packets' \in 0..MaxPackets /\ reads' \in Nat
      BY <2>13, ClientAssumption DEF TakePacket, TypeOK
    <3> QED BY <2>13, <3>1, <3>2 DEF TakePacket, TypeOK, PcOK
  <2>14. ASSUME NEW piece \in {"hdr", "body"}, NEW next \in PacketAt, WritePiece(piece, next)
         PROVE  TypeOK'
    <3>1. PcOK'
      BY <2>0, <2>14, PacketMoved DEF WritePiece
    <3>2. sent' \in Seq(Pieces)
      <4>1. <<"DATA", piece>> \in Pieces
        BY DEF Pieces
      <4>2. sent' = sent \/ sent' = Append(sent, <<"DATA", piece>>)
        BY <2>14 DEF WritePiece
      <4> QED BY <4>1, <4>2, Appended DEF TypeOK
    <3>3. reads' \in Nat
      BY <2>14 DEF WritePiece, TypeOK
    <3> QED BY <2>14, <3>1, <3>2, <3>3 DEF WritePiece, TypeOK, PcOK
  <2>15. CASE WriteFreed
    BY <2>15 DEF WriteFreed, End, TypeOK
  <2>16. CASE UNCHANGED vars
    BY <2>16 DEF vars, TypeOK
  <2>17. "body" \in PacketAt /\ "idle" \in PacketAt
    BY DEF PacketAt
  <2> QED
    BY <2>1, <2>2, <2>3, <2>4, <2>5, <2>6, <2>7, <2>8, <2>9, <2>10, <2>11, <2>12,
       <2>13, <2>14, <2>15, <2>16, <2>17
    DEF Next, ProvStep, EventStep, PacketStep
<1> QED BY <1>1, <1>2, PTL DEF Spec

\* IInv without its typing part.
Coherent == Starting /\ Answered /\ Connection /\ Asked /\ PieceByPiece
              /\ EndExplained /\ StreamInOrder

LEMMA Appending ==
  ASSUME TypeOK, NEW piece \in {"hdr", "body"}, sent' = Append(sent, <<"DATA", piece>>),
         StreamInOrder, Len(sent) >= 2, calls # <<>>, calls' = calls,
         piece = (IF Len(sent) % 2 = 0 THEN "hdr" ELSE "body")
  PROVE  StreamInOrder' /\ Len(sent') = Len(sent) + 1
<1>1. <<"DATA", piece>> \in Pieces /\ sent \in Seq(Pieces)
  BY DEF Pieces, TypeOK
<1>2. /\ Len(sent') = Len(sent) + 1
      /\ sent'[Len(sent) + 1] = <<"DATA", piece>>
      /\ \A i \in 1..Len(sent) : sent'[i] = sent[i]
  BY <1>1, Appended
<1>3. ASSUME NEW i \in 1..Len(sent')
      PROVE  /\ sent'[i][1] = (IF i <= 2 THEN "ESTABLISH" ELSE "DATA")
             /\ sent'[i][2] = (IF i % 2 = 1 THEN "hdr" ELSE "body")
  <2>1. Len(sent) \in Nat
    BY <1>1, LenProperties
  <2>2. CASE i \in 1..Len(sent)
    BY <1>2, <2>2 DEF StreamInOrder
  <2>3. CASE i = Len(sent) + 1
    <3>1. (i % 2 = 1) <=> (Len(sent) % 2 = 0)
      BY <2>1, <2>3
    <3> QED BY <1>2, <2>1, <2>3, <3>1
  <2> QED BY <1>2, <2>1, <2>2, <2>3
<1> QED BY <1>2, <1>3 DEF StreamInOrder

\* The request is the beginning of the stream.
LEMMA Requesting ==
  ASSUME sent = <<>>, sent' = sent \o << <<"ESTABLISH", "hdr">>, <<"ESTABLISH", "body">> >>
  PROVE  StreamInOrder' /\ Len(sent') = 2
<1>1. DEFINE request == << <<"ESTABLISH", "hdr">>, <<"ESTABLISH", "body">> >>
<1>2. request \in Seq(Pieces) /\ sent \in Seq(Pieces) /\ Len(request) = 2 /\ Len(sent) = 0
  BY DEF Pieces
<1>3. request[1] = <<"ESTABLISH", "hdr">> /\ request[2] = <<"ESTABLISH", "body">>
  OBVIOUS
<1> HIDE DEF request
<1>4. sent' = sent \o request
  BY DEF request
<1>5. Len(sent') = 2 /\ \A i \in 1..2 : sent'[i] = request[i]
  BY <1>2, <1>4, ConcatProperties
<1> QED BY <1>3, <1>5 DEF StreamInOrder

(***************************************************************************)
(* IInv holds initially and is preserved by every step.                    *)
(***************************************************************************)
THEOREM Inductive == Spec => []IInv
<1>1. Init => Coherent
  BY ClientAssumption DEF Init, Coherent, Starting, Answered, Connection, Asked, PieceByPiece,
     EndExplained, StreamInOrder, PacketLoops
<1>2. ASSUME TypeOK, TypeOK', Coherent, [Next]_vars PROVE Coherent'
  <2> USE DEF config, session, completion, output
  <2>0. PcOK /\ Len(sent) \in Nat
    BY <1>2 DEF TypeOK, PcOK
  <2>1. CASE end # "none"
    <3>1. UNCHANGED vars
      BY <1>2, <2>1 DEF Next
    <3> QED BY <1>2, <3>1 DEF vars, Coherent, Starting, Answered, Connection, Asked,
              PieceByPiece, EndExplained, StreamInOrder, PacketLoops
  <2>2. ASSUME end = "none", StartTunnel PROVE Coherent'
    <3>1. /\ pc["prov"] = "off" /\ pc'["prov"] = "started"
          /\ pc'["event"] = pc["event"] /\ pc'["packet"] = pc["packet"]
      BY <2>0, <2>2, ProvMoved DEF StartTunnel, ProvAt
    <3> QED BY <1>2, <2>2, <3>1 DEF StartTunnel, Coherent, Starting, Answered, Connection,
              Asked, PieceByPiece, EndExplained, StreamInOrder, PacketLoops
  <2>3. ASSUME end = "none", SpawnThread PROVE Coherent'
    <3>1. /\ pc["prov"] = "started" /\ pc'["prov"] = "spawned"
          /\ pc'["event"] = "created" /\ pc'["packet"] = pc["packet"]
      BY <2>0, <2>3 DEF SpawnThread, PcOK, Threads
    <3> QED BY <1>2, <2>3, <3>1 DEF SpawnThread, Coherent, Starting, Answered, Connection,
              Asked, PieceByPiece, EndExplained, StreamInOrder, PacketLoops
  <2>4. ASSUME end = "none", AnswerStart PROVE Coherent'
    <3>1. /\ pc["prov"] = "spawned" /\ pc'["prov"] = "returned"
          /\ pc'["event"] = pc["event"] /\ pc'["packet"] = pc["packet"]
      BY <2>0, <2>4, ProvMoved DEF AnswerStart, ProvAt
    <3>2. ~established /\ calls = <<>> /\ Len(sent) \in {0, 2} /\ ~block /\ PacketLoops = 0
      BY <1>2, <3>1 DEF Coherent, Starting, Answered, Asked
    <3>3. calls' = IF status = "TunnelInitError" THEN <<"error">> ELSE <<>>
      BY <2>4, <3>2 DEF AnswerStart
    <3>4. StreamInOrder'
      BY <1>2, <2>4, <3>2 DEF AnswerStart, Coherent, StreamInOrder
    <3> QED BY <1>2, <2>4, <3>1, <3>2, <3>3, <3>4 DEF AnswerStart, Coherent, Starting, Answered,
              Connection, Asked, PieceByPiece, EndExplained, PacketLoops
  <2>5. ASSUME end = "none", EventThread PROVE Coherent'
    <3>1. /\ pc["event"] = "created" /\ pc'["event"] = "dispatching"
          /\ pc'["prov"] = pc["prov"] /\ pc'["packet"] = pc["packet"]
      BY <2>0, <2>5, EventMoved DEF EventThread, EventAt
    <3> QED BY <1>2, <2>5, <3>1 DEF EventThread, Coherent, Starting, Answered, Connection,
              Asked, PieceByPiece, EndExplained, StreamInOrder, PacketLoops
  <2>6. ASSUME end = "none", Connected PROVE Coherent'
    <3>1. sent = <<>> /\ ~established
      BY <1>2, <2>6 DEF Connected, Coherent, Asked
    <3>2. StreamInOrder' /\ Len(sent') = 2
      BY <2>6, <3>1, Requesting DEF Connected
    <3> QED BY <1>2, <2>6, <3>1, <3>2 DEF Connected, Coherent, Starting, Answered, Connection,
              Asked, PieceByPiece, EndExplained, PacketLoops
  <2>7. ASSUME end = "none", LinkEnds PROVE Coherent'
    BY <1>2, <2>7 DEF LinkEnds, Coherent, Starting, Answered, Connection,
       Asked, PieceByPiece, EndExplained, StreamInOrder, PacketLoops
  <2>8. ASSUME end = "none", Establish PROVE Coherent'
    <3>1. CASE ~block
      BY <1>2, <2>8, <3>1 DEF Establish, End, Coherent, Starting, Answered, Connection,
         Asked, PieceByPiece, EndExplained, StreamInOrder, PacketLoops
    <3>2. CASE block
      <4>1. status = "OnEstablish" /\ pc["prov"] = "returned"
        BY <1>2, <3>2 DEF Coherent, Starting
      <4>2. PacketLoops = Len(calls) /\ \A i \in 1..Len(calls) : calls[i] = "nil"
        BY <1>2, <4>1 DEF Coherent, Answered
      <4>3. /\ calls' # <<>> /\ Len(calls') = Len(calls) + 1
            /\ \A i \in 1..Len(calls') : calls'[i] = "nil"
        BY <1>2, <2>8, <3>2, <4>2, Appended DEF Establish, TypeOK
      <4>4. PacketLoops' = PacketLoops + 1
        BY <1>2, <2>8, <3>2 DEF Establish, PacketLoops, TypeOK
      <4>5. Answered'
        BY <2>8, <3>2, <4>2, <4>3, <4>4 DEF Establish, Answered
      <4>6. Starting' /\ Asked' /\ PieceByPiece' /\ StreamInOrder'
        BY <1>2, <2>8, <3>2, <4>1, <4>3 DEF Establish, Coherent, Starting, Asked, Connection,
           PieceByPiece, StreamInOrder
      <4> QED BY <1>2, <2>8, <3>2, <4>5, <4>6 DEF Establish, Coherent, Connection, EndExplained
    <3> QED BY <1>2, <3>1, <3>2 DEF TypeOK
  <2>9. ASSUME end = "none", NotResponse PROVE Coherent'
    BY <1>2, <2>9 DEF NotResponse, Coherent, Starting, Answered, Connection,
       Asked, PieceByPiece, EndExplained, StreamInOrder, PacketLoops
  <2>10. ASSUME end = "none", LoopEnds PROVE Coherent'
    <3>1. /\ pc["event"] = "dispatching" /\ pc'["event"] = "over"
          /\ pc'["prov"] = pc["prov"] /\ pc'["packet"] = pc["packet"]
      BY <2>0, <2>10, EventMoved DEF LoopEnds, EventAt
    <3> QED BY <1>2, <2>10, <3>1 DEF LoopEnds, Coherent, Starting, Answered, Connection,
              Asked, PieceByPiece, EndExplained, StreamInOrder, PacketLoops
  <2>11. ASSUME end = "none", TakePacket PROVE Coherent'
    <3>1. /\ pc["packet"] = "idle" /\ pc'["packet"] = "hdr"
          /\ pc'["prov"] = pc["prov"] /\ pc'["event"] = pc["event"]
      BY <2>0, <2>11, PacketMoved DEF TakePacket, PacketAt
    <3>2. PacketLoops' = PacketLoops
      BY <1>2, <2>11, <3>1 DEF TakePacket, PacketLoops, TypeOK
    <3> QED BY <1>2, <2>11, <3>1, <3>2 DEF TakePacket, Coherent, Starting, Answered, Connection,
              Asked, PieceByPiece, EndExplained, StreamInOrder, PacketLoops
  <2>12. ASSUME end = "none", NEW piece \in {"hdr", "body"},
                WritePiece(piece, IF piece = "hdr" THEN "body" ELSE "idle")
         PROVE  Coherent'
    <3>1. /\ pc["packet"] = piece
          /\ pc'["packet"] = (IF piece = "hdr" THEN "body" ELSE "idle")
          /\ pc'["prov"] = pc["prov"] /\ pc'["event"] = pc["event"]
      BY <2>0, <2>12, PacketMoved DEF WritePiece, PacketAt
    <3>2. established /\ calls # <<>> /\ calls' = calls /\ Len(sent) >= 2 /\ PacketLoops' = PacketLoops
      <4>1. PacketLoops # 0 /\ PacketLoops' = PacketLoops
        BY <1>2, <2>12, <3>1 DEF WritePiece, PacketLoops, TypeOK
      <4>2. calls # <<>> /\ established
        BY <1>2, <4>1 DEF Coherent, Answered
      <4> QED BY <1>2, <2>12, <4>1, <4>2 DEF WritePiece, Coherent, Asked
    <3>3. CASE link = "freed"
      BY <1>2, <2>12, <3>1, <3>2, <3>3 DEF WritePiece, Coherent, Starting, Answered, Connection,
         Asked, PieceByPiece, EndExplained, StreamInOrder, PacketLoops
    <3>4. CASE link # "freed"
      <4>1. piece = (IF Len(sent) % 2 = 0 THEN "hdr" ELSE "body")
        BY <1>2, <2>0, <3>1, <3>4 DEF Coherent, PieceByPiece
      <4>2. StreamInOrder' /\ Len(sent') = Len(sent) + 1
        BY <1>2, <2>12, <3>2, <3>4, <4>1, Appending DEF WritePiece, Coherent
      <4>3. PieceByPiece'
        BY <2>0, <3>1, <4>1, <4>2 DEF PieceByPiece
      <4> QED BY <1>2, <2>0, <2>12, <3>1, <3>2, <4>2, <4>3 DEF WritePiece, Coherent, Starting,
                Answered, Connection, Asked, EndExplained
    <3> QED BY <3>3, <3>4
  <2>13. ASSUME end = "none",
                AddressWithoutPort \/ StopTunnel \/ DanglingSelf \/ WriteFreed
         PROVE  Coherent'
    <3>1. UNCHANGED <<config, pc, session, completion, output>>
      BY <2>13 DEF AddressWithoutPort, StopTunnel, DanglingSelf, WriteFreed, End
    <3>2. EndExplained'
      <4>1. WriteFreed => PacketLoops # 0
        BY <1>2 DEF WriteFreed, PacketLoops, TypeOK
      <4>2. WriteFreed => established
        BY <1>2, <4>1 DEF Coherent, Answered
      <4> QED BY <1>2, <2>13, <3>1, <4>2 DEF AddressWithoutPort, StopTunnel, DanglingSelf,
                WriteFreed, End, EndExplained, Coherent
    <3> QED BY <1>2, <3>1, <3>2 DEF Coherent, Starting, Answered, Connection, Asked,
              PieceByPiece, StreamInOrder, PacketLoops
  <2>14. CASE UNCHANGED vars
    BY <1>2, <2>14 DEF vars, Coherent, Starting, Answered, Connection, Asked,
       PieceByPiece, EndExplained, StreamInOrder, PacketLoops
  <2> QED
    BY <1>2, <2>1, <2>2, <2>3, <2>4, <2>5, <2>6, <2>7, <2>8, <2>9, <2>10, <2>11, <2>12,
       <2>13, <2>14
    DEF Next, ProvStep, EventStep, PacketStep
<1> QED BY <1>1, <1>2, TypeCorrect, PTL DEF Spec, IInv, Coherent

(***************************************************************************)
(* The system's completion handler is called by the start method, once and *)
(* with an error, or by the event thread, and then as often as messages    *)
(* said ESTABLISH and packet loops run.                                    *)
(***************************************************************************)
THEOREM CompletedByOne == Spec => []OneAnswers
<1>1. ASSUME IInv PROVE OneAnswers
  <2>1. calls = <<"error">> /\ ~established => sent = <<>>
    BY <1>1 DEF IInv, TypeOK, Answered, Connection, Asked
  <2> QED BY <1>1, <2>1 DEF IInv, Answered, OneAnswers
<1> QED BY <1>1, Inductive, PTL

(***************************************************************************)
(* The server reads the request and then whole packets, none of them from  *)
(* before the system was told that the tunnel is up.                       *)
(***************************************************************************)
THEOREM StreamKeptInOrder == Spec => []StreamInOrder
<1>1. IInv => StreamInOrder
  BY DEF IInv
<1> QED BY <1>1, Inductive, PTL

(***************************************************************************)
(* After the start method returned and its thread read `self', only a      *)
(* packet after a message that was no RESPONSE can break the process.      *)
(***************************************************************************)
THEOREM StartedSafely == Spec => []SafeOnceStarted
<1>1. IInv => SafeOnceStarted
  BY DEF IInv, TypeOK, EndExplained, SafeOnceStarted
<1> QED BY <1>1, Inductive, PTL

(***************************************************************************)
(* Whatever the width of a short, a successful start connects to the port  *)
(* that the configuration names.                                           *)
(***************************************************************************)
THEOREM PortKept == Spec => []RightPort
<1>1. IInv => RightPort
  BY ShortKeepsPort, ClientAssumption DEF IInv, TypeOK, Connection, RightPort
<1> QED BY <1>1, Inductive, PTL
===============================================================================
