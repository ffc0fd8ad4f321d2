------------------------- MODULE TunnelSystemProofs -------------------------
(***************************************************************************)
(* Proofs about TunnelSystem.  One lemma for each step, or for a few that  *)
(* touch the same state, shows that it keeps the invariant IInv; then come *)
(* the invariants that follow, and the refinement of PacketTunnel, which   *)
(* is one lemma for each side of the connection.                           *)
(***************************************************************************)
EXTENDS TunnelSystem, SequenceTheorems, TLAPS

Frame == {"establish"} \cup Packet

-----------------------------------------------------------------------------
\* A sequence is one of whatever its elements are.
LEMMA Retyped ==
  ASSUME NEW S, NEW T, NEW s \in Seq(S), \A i \in 1..Len(s) : s[i] \in T
  PROVE  s \in Seq(T)
<1>1. Len(s) \in Nat /\ s \in [1..Len(s) -> S]
  BY LenProperties
<1>2. s \in [1..Len(s) -> T]
  BY <1>1
<1> QED BY <1>1, <1>2, SeqDef

\* The first element of a sequence, and the others.
LEMMA HeadAndTail ==
  ASSUME NEW S, NEW s \in Seq(S), s # <<>>
  PROVE  /\ Len(s) \in Nat \ {0} /\ Head(s) = s[1] /\ s[1] \in S
         /\ Tail(s) \in Seq(S) /\ Len(Tail(s)) = Len(s) - 1
         /\ \A i \in 1..Len(Tail(s)) : Tail(s)[i] = s[i + 1]
<1>1. Len(s) \in Nat \ {0}
  BY EmptySeq
<1>2. Head(s) = s[1] /\ s[1] \in S
  BY <1>1, ElementOfSeq
<1> QED BY <1>1, <1>2, HeadTailProperties

\* Calls of the handler are counted up to two.
LEMMA CallCounted ==
  ASSUME calls \in 0..2
  PROVE  Min({calls + 1, 2}) = IF calls = 2 THEN 2 ELSE calls + 1
<1> DEFINE m == IF calls = 2 THEN 2 ELSE calls + 1
<1>1. /\ m \in {calls + 1, 2} /\ \A y \in {calls + 1, 2} : m <= y
      /\ \A x \in {calls + 1, 2} : (\A y \in {calls + 1, 2} : x <= y) => x = m
  OBVIOUS
<1> HIDE DEF m
<1>2. (CHOOSE x \in {calls + 1, 2} : \A y \in {calls + 1, 2} : x <= y) = m
  BY <1>1
<1> QED BY <1>2 DEF Min, m

\* The packets of the writes, one for each of them.
LEMMA PacketsWritten ==
  ASSUME NEW s \in Seq(Packet \X BOOLEAN)
  PROVE  /\ PacketsOf(s) \in Seq(Packet) /\ Len(PacketsOf(s)) = Len(s) /\ Len(s) \in Nat
         /\ \A p \in Packet, whole \in BOOLEAN :
              PacketsOf(Append(s, <<p, whole>>)) = PacketsOf(s) \o <<p>>
<1>1. Len(s) \in Nat /\ \A i \in 1..Len(s) : s[i] \in Packet \X BOOLEAN
  BY ElementOfSeq, LenProperties
<1>2. PacketsOf(s) \in [1..Len(s) -> Packet]
  BY <1>1 DEF PacketsOf
<1>3. PacketsOf(s) \in Seq(Packet)
  <2> DEFINE f == PacketsOf(s)
             n == Len(s)
  <2>1. n \in Nat /\ f \in [1..n -> Packet]
    BY <1>1, <1>2
  <2> HIDE DEF f, n
  <2>2. f \in Seq(Packet)
    BY <2>1
  <2> QED BY <2>2 DEF f
<1>4. Len(PacketsOf(s)) = Len(s)
  <2>1. DOMAIN PacketsOf(s) = 1..Len(PacketsOf(s)) /\ Len(PacketsOf(s)) \in Nat
    BY <1>3, LenProperties
  <2> QED BY <1>1, <1>2, <2>1
<1>5. ASSUME NEW p \in Packet, NEW whole \in BOOLEAN
      PROVE  PacketsOf(Append(s, <<p, whole>>)) = PacketsOf(s) \o <<p>>
  <2> DEFINE t == Append(s, <<p, whole>>)
  <2>1. /\ Len(t) = Len(s) + 1 /\ t[Len(s) + 1] = <<p, whole>>
        /\ \A i \in 1..Len(s) : t[i] = s[i]
    BY <1>1, AppendProperties
  <2>2. Append(PacketsOf(s), p) = PacketsOf(s) \o <<p>>
    BY <1>3, AppendIsConcat
  <2>3. /\ Append(PacketsOf(s), p) \in Seq(Packet) /\ Len(Append(PacketsOf(s), p)) = Len(s) + 1
        /\ Append(PacketsOf(s), p)[Len(s) + 1] = p
        /\ \A i \in 1..Len(s) : Append(PacketsOf(s), p)[i] = s[i][1]
    BY <1>1, <1>3, <1>4, AppendProperties DEF PacketsOf
  <2> HIDE DEF t
  <2>4. \A i \in 1..Len(s) + 1 : t[i][1] = Append(PacketsOf(s), p)[i]
    BY <1>1, <2>1, <2>3
  <2>5. PacketsOf(t) \in [1..Len(s) + 1 -> Packet]
    <3>1. \A i \in 1..Len(s) + 1 : t[i][1] \in Packet
      BY <1>1, <2>1
    <3> QED BY <2>1, <3>1 DEF PacketsOf
  <2>6. Append(PacketsOf(s), p) \in [1..Len(s) + 1 -> Packet]
    BY <1>1, <2>3, LenProperties
  <2>7. \A i \in 1..Len(s) + 1 : PacketsOf(t)[i] = Append(PacketsOf(s), p)[i]
    BY <2>1, <2>4 DEF PacketsOf
  <2>8. PacketsOf(t) = Append(PacketsOf(s), p)
    BY <2>5, <2>6, <2>7
  <2> QED BY <2>2, <2>8 DEF t
<1> QED BY <1>1, <1>3, <1>4, <1>5

\* The request is on its way first, if it is: what comes behind it are packets.
LEMMA Way ==
  ASSUME TypeOK, RequestFirst
  PROVE  /\ OnTheWay \in Seq(Packet)
         /\ toServer = <<>> => OnTheWay = <<>>
         /\ toServer # <<>> =>
              /\ Head(toServer) = "establish" => OnTheWay = Tail(toServer) /\ iface = "none"
              /\ Head(toServer) # "establish" => OnTheWay = toServer
         /\ iface # "none" => OnTheWay = toServer
<1>1. toServer \in Seq(Frame)
  BY DEF TypeOK, Frames, Frame
<1>2. ASSUME NEW i \in 1..Len(toServer), i # 1 PROVE toServer[i] \in Packet
  BY <1>1, <1>2, ElementOfSeq DEF RequestFirst, Frame
<1>3. CASE toServer = <<>>
  BY <1>3, EmptySeq DEF OnTheWay
<1>4. CASE toServer # <<>> /\ Head(toServer) = "establish"
  <2>1. /\ Len(toServer) \in Nat \ {0} /\ toServer[1] = "establish"
        /\ Tail(toServer) \in Seq(Frame) /\ Len(Tail(toServer)) = Len(toServer) - 1
        /\ \A i \in 1..Len(Tail(toServer)) : Tail(toServer)[i] = toServer[i + 1]
    BY <1>1, <1>4, HeadAndTail
  <2>2. \A i \in 1..Len(Tail(toServer)) : Tail(toServer)[i] \in Packet
    BY <1>2, <2>1
  <2>3. Tail(toServer) \in Seq(Packet)
    BY <2>1, <2>2, Retyped
  <2>4. iface = "none"
    BY <2>1 DEF RequestFirst
  <2> QED BY <1>4, <2>3, <2>4 DEF OnTheWay
<1>5. CASE toServer # <<>> /\ Head(toServer) # "establish"
  <2>1. /\ Len(toServer) \in Nat \ {0} /\ toServer[1] = Head(toServer) /\ toServer[1] \in Frame
    BY <1>1, <1>5, HeadAndTail
  <2>2. \A i \in 1..Len(toServer) : toServer[i] \in Packet
    BY <1>2, <1>5, <2>1 DEF Frame
  <2>3. toServer \in Seq(Packet)
    BY <1>1, <2>2, Retyped
  <2> QED BY <1>5, <2>3 DEF OnTheWay
<1> QED BY <1>3, <1>4, <1>5

\* At first no frame is anywhere.
LEMMA InitIInv == Init => IInv
<1> SUFFICES ASSUME Init PROVE IInv
  OBVIOUS
<1> USE DEF Init
<1>1. /\ <<>> \in Seq(Packet) /\ <<>> \in Seq({"establish"} \cup Packet)
      /\ <<>> \in Seq({"response", "stray"}) /\ Len(<<>>) = 0
  BY EmptySeq
<1>2. TypeOK
  <2>1. /\ taken \in Seq(Packet) /\ written \in Seq(Packet \X BOOLEAN)
        /\ toServer \in Frames(Packet)
        /\ arrived \in 0..Len(toServer)
        /\ toClient \in Seq({"response", "stray"}) /\ Len(toClient) <= 2
        /\ held \in Seq(Packet) /\ Len(held) <= 1
    BY <1>1 DEF Frames
  <2>2. misled \in BOOLEAN /\ local \in BOOLEAN /\ broken \in BOOLEAN /\ failed \in BOOLEAN
    OBVIOUS
  <2>3. settings \subseteq {"server", "stray"} /\ calls \in 0..2 /\ forwarded \in Nat
    OBVIOUS
  <2> QED BY <2>1, <2>2, <2>3 DEF TypeOK, Links, LoopAt
<1>3. RequestFirst /\ InterfaceFirst /\ Messages /\ OneResponse /\ UntilStray
  BY <1>1 DEF RequestFirst, InterfaceFirst, Messages, OneResponse, Responses, UntilStray
<1>4. InOrder
  <2>1. Through = <<>>
    <3>1. PacketsOf(written) = <<>>
      BY <1>1 DEF PacketsOf
    <3> QED BY <1>1, <3>1, ConcatEmptySeq DEF Through, OnTheWay
  <2> QED BY <1>1, <2>1 DEF InOrder
<1> QED BY <1>2, <1>3, <1>4 DEF IInv

-----------------------------------------------------------------------------
\* A step that leaves the way to the server as it is, and what was taken.
WayUnchanged == UNCHANGED <<taken, toServer, held, written>>

\* A step that moves no frame leaves their order alone.
LEMMA WayKept ==
  ASSUME InOrder, WayUnchanged,
         conn' # conn => conn' \notin {"serving", "answering", "retrying"},
         client' # client => client = "connecting" \/ client' \notin {"connecting", "open"}
  PROVE  InOrder'
<1>1. Through' = Through
  BY DEF Through, OnTheWay, WayUnchanged
<1> QED BY <1>1 DEF InOrder, WayUnchanged

\* The session opens: the request is the only frame.
LEMMA ConnectedIInv == IInv /\ Connected => IInv'
<1> SUFFICES ASSUME IInv, Connected PROVE IInv'
  OBVIOUS
<1> USE DEF IInv
<1>1. /\ client = "connecting" /\ client' = "open" /\ toServer = <<>> /\ iface = "none"
      /\ toServer' = <<"establish">> /\ arrived = 0
      /\ UNCHANGED <<calls, settings, local, cut, misled, taken, arrived, toClient, broken, conn,
                     iface, worker, forwarded, held, failed, written>>
  BY EmptySeq DEF Connected, RequestFirst, TypeOK, serverVars
<1>2. <<"establish">> \in Seq(Frame) /\ Len(<<"establish">>) = 1 /\ <<"establish">>[1] = "establish"
  BY DEF Frame
<1>3. TypeOK'
  BY <1>1, <1>2 DEF TypeOK, Links, Frames, Frame
<1>4. RequestFirst'
  BY <1>1, <1>2 DEF RequestFirst
<1>5. InterfaceFirst' /\ Messages' /\ OneResponse' /\ UntilStray'
  BY <1>1 DEF InterfaceFirst, Messages, OneResponse, Responses, UntilStray
<1>6. InOrder'
  <2>1. OnTheWay = <<>> /\ OnTheWay' = <<>>
    <3>1. toServer' # <<>> /\ Head(toServer') = "establish" /\ Tail(toServer') = <<>>
      BY <1>1
    <3> QED BY <1>1, <3>1 DEF OnTheWay
  <2>2. Through' = Through
    BY <1>1, <2>1 DEF Through
  <2> QED BY <1>1, <2>2 DEF InOrder
<1> QED BY <1>3, <1>4, <1>5, <1>6

\* The link goes down at the client: what is on its way stays there.
LEMMA LinkLostIInv == IInv /\ (LinkEnds \/ ClientGoes) => IInv'
<1> SUFFICES ASSUME IInv, LinkEnds \/ ClientGoes PROVE IInv'
  OBVIOUS
<1> USE DEF IInv
<1>1. /\ client' \in {"ended", "gone"}
      /\ UNCHANGED <<calls, settings, local, cut, misled, taken, toServer, arrived, toClient, broken,
                     conn, iface, worker, forwarded, held, failed, written>>
  BY DEF LinkEnds, ClientGoes, wire, serverVars
<1>2. TypeOK'
  BY <1>1 DEF TypeOK, Links
<1>3. RequestFirst' /\ InterfaceFirst' /\ Messages' /\ OneResponse' /\ UntilStray'
  BY <1>1 DEF RequestFirst, InterfaceFirst, Messages, OneResponse, Responses, UntilStray
<1>4. InOrder'
  BY <1>1, WayKept DEF WayUnchanged
<1> QED BY <1>2, <1>3, <1>4

\* A packet of the interface is written behind all others.
LEMMA TakePacketIInv == ASSUME NEW p \in Packet, IInv, TakePacket(p) PROVE IInv'
<1> USE DEF IInv
<1>1. /\ calls > 0 /\ client \in {"open", "ended"} /\ taken' = Append(taken, p)
      /\ toServer' = IF client = "open" THEN Append(toServer, p) ELSE toServer
      /\ UNCHANGED <<client, calls, settings, local, cut, misled, arrived, toClient, broken,
                     conn, iface, worker, forwarded, held, failed, written>>
  BY DEF TakePacket, serverVars
<1>2. /\ taken \in Seq(Packet) /\ toServer \in Seq(Frame) /\ p \in Frame /\ calls \in 0..2
      /\ PacketsOf(written) \in Seq(Packet) /\ held \in Seq(Packet)
  BY PacketsWritten DEF TypeOK, Frames, Frame
<1>3. /\ taken' \in Seq(Packet) /\ Len(taken') = Len(taken) + 1 /\ Len(taken) \in Nat
      /\ \A i \in 1..Len(taken) : taken'[i] = taken[i]
      /\ taken'[Len(taken) + 1] = p
  BY <1>1, <1>2, AppendProperties, LenProperties
<1>4. /\ Append(toServer, p) \in Seq(Frame) /\ Len(Append(toServer, p)) = Len(toServer) + 1
      /\ Len(toServer) \in Nat
      /\ \A i \in 1..Len(toServer) : Append(toServer, p)[i] = toServer[i]
      /\ Append(toServer, p)[Len(toServer) + 1] = p
  BY <1>2, AppendProperties, LenProperties
<1>5. TypeOK'
  BY <1>1, <1>3, <1>4 DEF TypeOK, Frames, Frame
<1>6. iface # "none"
  BY <1>1 DEF InterfaceFirst
<1>7. RequestFirst'
  BY <1>1, <1>4, <1>6, SystemAssumption DEF RequestFirst
<1>8. InterfaceFirst' /\ Messages' /\ OneResponse' /\ UntilStray'
  BY <1>1 DEF InterfaceFirst, Messages, OneResponse, Responses, UntilStray
<1>9. OnTheWay = toServer /\ OnTheWay \in Seq(Packet)
  BY <1>6, Way
<1>10. Through \in Seq(Packet) /\ Len(Through) \in Nat
  BY <1>2, <1>9, ConcatProperties, LenProperties DEF Through
<1>11. CASE client = "open"
  <2>1. toServer' = Append(toServer, p) /\ toServer' # <<>>
    <3>1. Append(toServer, p) # <<>>
      BY <1>2, AppendProperties
    <3> QED BY <1>1, <1>11, <3>1
  <2>2. Head(toServer') # "establish"
    <3>1. Head(toServer') = toServer'[1]
      BY <1>4, <2>1
    <3>2. toServer'[1] # "establish" \/ Len(toServer') = 0
      BY <1>1, <1>6, <1>7, <1>4, <2>1 DEF RequestFirst
    <3> QED BY <1>4, <2>1, <3>1, <3>2
  <2>3. OnTheWay' = Append(OnTheWay, p)
    BY <1>9, <2>1, <2>2 DEF OnTheWay
  <2>4. Through' = Append(Through, p)
    <3>1. PacketsOf(written) \o held \in Seq(Packet)
      BY <1>2, ConcatProperties
    <3>2. Append(OnTheWay, p) = OnTheWay \o <<p>> /\ <<p>> \in Seq(Packet)
      BY <1>9, AppendIsConcat
    <3>3. (PacketsOf(written) \o held) \o (OnTheWay \o <<p>>) = Through \o <<p>>
      BY <1>9, <3>1, <3>2, ConcatAssociative DEF Through
    <3>4. Through \o <<p>> = Append(Through, p)
      BY <1>10, AppendIsConcat
    <3>5. Through' = (PacketsOf(written) \o held) \o Append(OnTheWay, p)
      BY <1>1, <2>3 DEF Through
    <3> QED BY <3>2, <3>3, <3>4, <3>5
  <2>5. /\ Len(Through') = Len(Through) + 1
        /\ \A i \in 1..Len(Through) : Through'[i] = Through[i]
        /\ Through'[Len(Through) + 1] = p
    BY <1>10, <2>4, AppendProperties
  <2>6. Len(Through) = Len(taken)
    BY <1>11 DEF InOrder
  <2>7. \A i \in 1..Len(Through') : taken'[i] = Through'[i]
    BY <1>3, <1>10, <2>5, <2>6 DEF InOrder
  <2>8. InOrder'
    BY <1>1, <1>3, <2>5, <2>6, <2>7 DEF InOrder
  <2> QED BY <1>5, <1>7, <1>8, <2>8
<1>12. CASE client = "ended"
  <2>1. Through' = Through
    BY <1>1, <1>12 DEF Through, OnTheWay
  <2>2. InOrder'
    BY <1>1, <1>3, <1>10, <1>12, <2>1 DEF InOrder
  <2> QED BY <1>5, <1>7, <1>8, <2>2
<1> QED BY <1>1, <1>11, <1>12

-----------------------------------------------------------------------------
\* What the four ways to read a frame have in common: a message is read or
\* part of one, and only who is misled is told anything but the answer.
Dispatches ==
  /\ client = "open" /\ client' \in {"open", "freed"}
  /\ conn # "answering" /\ toClient # <<>>
  /\ calls' \in 0..2 /\ calls <= calls' /\ settings' \subseteq {"server", "stray"}
  /\ local' \in BOOLEAN /\ cut' \in {"frame", "tail", "lost"} /\ misled' \in BOOLEAN
  /\ toClient' \in {toClient, Tail(toClient)}
  /\ misled => misled'
  /\ ~misled' =>
       /\ local' = local
       /\ \/ calls' = calls /\ settings' = settings
          \/ /\ Head(toClient) = "response" /\ toClient' = Tail(toClient)
             /\ calls = 0 => calls' = 1
             /\ settings' = settings \cup {"server"}
  /\ UNCHANGED <<taken, toServer, arrived, broken, conn, iface, worker, forwarded, held, failed, written>>

\* What the client does with a message leaves the server alone.
LEMMA ReadsDispatch ==
  ASSUME TypeOK, ReadResponse \/ ReadCutResponse \/ ReadTail \/ ReadStray
  PROVE  Dispatches
<1> USE DEF TypeOK
<1>1. Min({calls + 1, 2}) \in 0..2 /\ calls <= Min({calls + 1, 2}) /\ (calls = 0 => Min({calls + 1, 2}) = 1)
  BY CallCounted
<1>2. ASSUME DispatchStray
      PROVE  /\ misled' = TRUE
             /\ client' = client \/ client' = "freed"
             /\ calls' \in 0..2 /\ calls <= calls' /\ settings' \subseteq {"server", "stray"}
             /\ local' \in BOOLEAN
  <2>1. CASE Establish("stray")
    <3>1. /\ calls' = Min({calls + 1, 2}) /\ settings' = settings \cup {"stray"}
          /\ client' = client /\ local' = local
      BY <2>1 DEF Establish
    <3>2. misled' = TRUE
      BY <1>2 DEF DispatchStray
    <3> QED BY <1>1, <3>1, <3>2
  <2>2. CASE CallError \/ ReadPacket \/ NotResponse
    <3>1. calls' = calls /\ settings' = settings
      BY <2>2 DEF CallError, ReadPacket, NotResponse
    <3>2. client' = client \/ client' = "freed"
      BY <2>2 DEF CallError, ReadPacket, NotResponse
    <3>3. local' \in BOOLEAN
      BY <2>2 DEF CallError, ReadPacket, NotResponse
    <3>4. misled' = TRUE
      BY <1>2 DEF DispatchStray
    <3> QED BY <3>1, <3>2, <3>3, <3>4
  <2> QED BY <1>2, <2>1, <2>2 DEF DispatchStray
<1>3. CASE ReadResponse
  BY <1>1, <1>3 DEF ReadResponse, ClientReads, Establish, Dispatches, serverVars
<1>4. CASE ReadCutResponse
  <2>1. /\ client = "open" /\ conn # "answering" /\ toClient # <<>> /\ toClient' = toClient
        /\ cut' = "tail" /\ misled' = misled
        /\ UNCHANGED <<taken, toServer, arrived, broken, conn, iface, worker, forwarded, held, failed, written>>
    BY <1>4 DEF ReadCutResponse, ClientReads, serverVars
  <2>2. client' \in {"open", "freed"} /\ calls' = calls /\ settings' = settings /\ local' = local
    BY <1>4, <2>1 DEF ReadCutResponse, NotResponse, CallError
  <2> QED BY <2>1, <2>2 DEF Dispatches
<1>5. CASE ReadTail
  <2>1. CASE NotResponse /\ UNCHANGED misled
    BY <1>5, <2>1 DEF ReadTail, ClientReads, NotResponse, Dispatches, serverVars
  <2>2. CASE DispatchStray
    BY <1>2, <1>5, <2>2 DEF ReadTail, ClientReads, Dispatches, serverVars
  <2> QED BY <1>5, <2>1, <2>2 DEF ReadTail
<1>6. CASE ReadStray
  BY <1>2, <1>6 DEF ReadStray, ClientReads, Dispatches, serverVars
<1> QED BY <1>3, <1>4, <1>5, <1>6

\* The client dispatches a message, or what only looks like one.
LEMMA DispatchesIInv == IInv /\ Dispatches => IInv'
<1> SUFFICES ASSUME IInv, Dispatches PROVE IInv'
  OBVIOUS
<1> USE DEF IInv
<1> DEFINE Message == {"response", "stray"}
<1>1. /\ toClient \in Seq(Message) /\ toClient # <<>> /\ Len(toClient) <= 2 /\ calls \in 0..2
      /\ settings \subseteq {"server", "stray"}
  BY DEF TypeOK, Dispatches
<1> HIDE DEF Message
<1>2. /\ Len(toClient) \in Nat \ {0} /\ Head(toClient) = toClient[1]
      /\ Tail(toClient) \in Seq(Message) /\ Len(Tail(toClient)) = Len(toClient) - 1
      /\ \A i \in 1..Len(Tail(toClient)) : Tail(toClient)[i] = toClient[i + 1]
  BY <1>1, HeadAndTail
<1>3. toClient' \in Seq(Message) /\ Len(toClient') \in Nat /\ Len(toClient') <= Len(toClient)
  BY <1>1, <1>2 DEF Dispatches
<1>4. TypeOK'
  BY <1>1, <1>3 DEF TypeOK, Dispatches, Links, Message
<1>5. iface # "none" /\ RequestFirst'
  BY DEF InterfaceFirst, RequestFirst, Dispatches
<1>6. InterfaceFirst'
  BY <1>1, <1>5 DEF InterfaceFirst, Dispatches
<1>7. Messages'
  BY <1>2, <1>3 DEF Messages, Dispatches
<1>8. OneResponse'
  <2>1. CASE toClient' = toClient
    <3>1. calls' > 0 /\ ~misled' => Responses' = {}
      <4> SUFFICES ASSUME calls' > 0, ~misled' PROVE Responses' = {}
        OBVIOUS
      <4>1. Responses' = Responses /\ ~misled
        BY <2>1 DEF Responses, Dispatches
      <4>2. CASE calls' = calls
        BY <4>1, <4>2 DEF OneResponse
      <4>3. CASE toClient' = Tail(toClient)
        BY <1>2, <2>1, <4>3
      <4> QED BY <4>2, <4>3 DEF Dispatches
    <3>2. Responses' = Responses
      BY <2>1 DEF Responses
    <3> QED BY <3>1, <3>2 DEF OneResponse, Dispatches
  <2>2. CASE toClient' = Tail(toClient)
    <3>1. \A i \in Responses' : i + 1 \in Responses /\ i \in Nat \ {0}
      BY <1>2, <2>2 DEF Responses
    <3>2. \A i, j \in Responses' : i = j
      BY <3>1 DEF OneResponse
    <3>3. Head(toClient) = "response" => Responses' = {}
      <4> SUFFICES ASSUME Head(toClient) = "response", NEW i \in Responses' PROVE FALSE
        OBVIOUS
      <4>1. 1 \in Responses /\ i + 1 \in Responses /\ i \in Nat \ {0}
        BY <1>2, <3>1 DEF Responses
      <4>2. 1 = i + 1
        BY <4>1 DEF OneResponse
      <4> QED BY <4>1, <4>2
    <3>4. Responses = {} => Responses' = {}
      BY <3>1
    <3>5. ASSUME calls' > 0, ~misled' PROVE Responses' = {}
      <4>1. CASE calls' = calls
        BY <3>4, <3>5, <4>1 DEF OneResponse, Dispatches
      <4>2. CASE Head(toClient) = "response"
        BY <3>3, <4>2
      <4> QED BY <3>5, <4>1, <4>2 DEF Dispatches
    <3> QED BY <3>2, <3>5 DEF OneResponse, Dispatches
  <2> QED BY <2>1, <2>2 DEF Dispatches
<1>9. UntilStray'
  <2> SUFFICES ASSUME ~misled' PROVE calls' <= 1 /\ settings' \subseteq {"server"} /\ ~local'
    BY DEF UntilStray
  <2>1. ~misled /\ calls <= 1 /\ settings \subseteq {"server"} /\ ~local /\ local' = local
    BY DEF UntilStray, Dispatches
  <2>2. CASE calls' = calls /\ settings' = settings
    BY <2>1, <2>2
  <2>3. CASE /\ Head(toClient) = "response"
             /\ calls = 0 => calls' = 1
             /\ settings' = settings \cup {"server"}
    <3>1. 1 \in Responses
      BY <1>2, <2>3 DEF Responses
    <3>2. calls = 0
      BY <1>1, <2>1, <3>1 DEF OneResponse
    <3> QED BY <2>1, <2>3, <3>2
  <2> QED BY <2>2, <2>3 DEF Dispatches
<1>10. InOrder'
  BY WayKept DEF WayUnchanged, Dispatches
<1> QED BY <1>4, <1>5, <1>6, <1>7, <1>8, <1>9, <1>10

-----------------------------------------------------------------------------
\* What is behind the frame that the server takes are packets.
LEMMA Taking ==
  ASSUME IInv, NEW n, NEW frame, n \in Nat, Takes(n, frame)
  PROVE  /\ conn = "serving" /\ held = <<>>
         /\ toServer # <<>> /\ Head(toServer) = frame
         /\ toServer' = Tail(toServer) /\ toServer' \in Seq(Frame) /\ toServer' \in Seq(Packet)
         /\ \A i \in 1..Len(toServer') : toServer'[i] # "establish"
         /\ OnTheWay' = toServer'
         /\ arrived' \in 0..Len(toServer')
         /\ client # "connecting"
         /\ UNCHANGED <<clientVars, toClient, broken>>
<1> USE DEF IInv
<1>1. /\ toServer \in Seq(Frame) /\ Len(toServer) \in Nat /\ arrived \in 0..Len(toServer)
      /\ arrived \in Nat
  BY LenProperties DEF TypeOK, Frames, Frame
<1>2. /\ conn = "serving" /\ n <= Len(toServer) - arrived /\ arrived < Len(toServer)
      /\ arrived + n > 0 /\ Head(toServer) = frame /\ toServer' = Tail(toServer)
      /\ arrived' = arrived + n - 1
      /\ UNCHANGED <<clientVars, toClient, broken>>
  BY DEF Takes
<1>3. held = <<>>
  BY <1>2 DEF InOrder
<1>4. toServer # <<>>
  BY <1>1, <1>2, EmptySeq
<1>5. /\ toServer' \in Seq(Frame) /\ Len(toServer') = Len(toServer) - 1
      /\ \A i \in 1..Len(toServer') : toServer'[i] = toServer[i + 1]
  BY <1>1, <1>2, <1>4, HeadAndTail
<1>6. ASSUME NEW i \in 1..Len(toServer') PROVE toServer'[i] # "establish"
  <2>1. i + 1 \in 1..Len(toServer) /\ i + 1 # 1
    BY <1>1, <1>5
  <2> QED BY <1>5, <2>1 DEF RequestFirst
<1>7. toServer' \in Seq(Packet)
  <2>1. \A i \in 1..Len(toServer') : toServer'[i] \in Packet
    BY <1>5, <1>6, ElementOfSeq DEF Frame
  <2> QED BY <1>5, <2>1, Retyped
<1>8. OnTheWay' = toServer'
  <2> SUFFICES ASSUME toServer' # <<>> PROVE Head(toServer') # "establish"
    BY DEF OnTheWay
  <2>1. Len(toServer') \in Nat \ {0} /\ Head(toServer') = toServer'[1]
    BY <1>7, HeadAndTail
  <2> QED BY <1>6, <2>1
<1>9. arrived' \in 0..Len(toServer')
  BY <1>1, <1>2, <1>5
<1>10. client # "connecting"
  BY <1>4 DEF RequestFirst
<1> QED BY <1>2, <1>3, <1>4, <1>5, <1>6, <1>7, <1>8, <1>9, <1>10

\* The server takes the request, and with it makes the interface.
LEMMA TakeEstablishIInv == ASSUME NEW n \in Nat, IInv, TakeEstablish(n) PROVE IInv'
<1> USE DEF IInv
<1>1. /\ conn = "serving" /\ held = <<>>
      /\ toServer # <<>> /\ Head(toServer) = "establish"
      /\ toServer' = Tail(toServer) /\ toServer' \in Seq(Frame)
      /\ \A i \in 1..Len(toServer') : toServer'[i] # "establish"
      /\ OnTheWay' = toServer'
      /\ arrived' \in 0..Len(toServer')
      /\ client # "connecting"
      /\ UNCHANGED <<client, calls, settings, local, cut, misled, taken, toClient, broken>>
      /\ UNCHANGED <<forwarded, held, failed, written>>
  <2>1. Takes(n, "establish") /\ UNCHANGED <<forwarded, held, failed, written>>
    BY DEF TakeEstablish
  <2> QED BY <2>1, Taking DEF clientVars
<1>2. OnTheWay = Tail(toServer) /\ iface = "none"
  BY <1>1, Way
<1>3. calls = 0 /\ toClient = <<>> /\ worker = "none"
  BY <1>2 DEF InterfaceFirst, TypeOK
<1>4. \/ conn' = "answering" /\ iface' = "open" /\ worker' = "waiting"
      \/ UNCHANGED <<conn, iface, worker>>
      \/ conn' = "dead" /\ UNCHANGED <<iface, worker>>
  BY DEF TakeEstablish
<1>5. TypeOK'
  BY <1>1, <1>4 DEF TypeOK, LoopAt, Frames, Frame
<1>6. RequestFirst'
  BY <1>1 DEF RequestFirst
<1>7. InterfaceFirst'
  BY <1>1, <1>2, <1>3, <1>4 DEF InterfaceFirst
<1>8. Responses = {} /\ Responses' = {} /\ Len(toClient') = 0
  BY <1>1, <1>3, EmptySeq DEF Responses
<1>9. Messages' /\ OneResponse' /\ UntilStray'
  BY <1>1, <1>3, <1>8 DEF Messages, OneResponse, UntilStray
<1>10. InOrder'
  <2>1. Through' = Through
    BY <1>1, <1>2 DEF Through
  <2> QED BY <1>1, <1>4, <2>1 DEF InOrder
<1> QED BY <1>5, <1>6, <1>7, <1>9, <1>10

\* The server takes a packet, which its thread holds until it is written.
LEMMA TakeDataIInv == ASSUME NEW n \in Nat, NEW p \in Packet, IInv, TakeData(n, p) PROVE IInv'
<1> USE DEF IInv
<1>1. /\ conn = "serving" /\ held = <<>>
      /\ toServer # <<>> /\ Head(toServer) = p
      /\ toServer' = Tail(toServer) /\ toServer' \in Seq(Frame) /\ toServer' \in Seq(Packet)
      /\ \A i \in 1..Len(toServer') : toServer'[i] # "establish"
      /\ OnTheWay' = toServer'
      /\ arrived' \in 0..Len(toServer')
      /\ client # "connecting"
      /\ UNCHANGED <<client, calls, settings, local, cut, misled, taken, toClient, broken>>
      /\ conn' = "retrying" /\ held' = <<p>>
      /\ UNCHANGED <<iface, worker, forwarded, failed, written>>
  <2>1. Takes(n, p) /\ conn' = "retrying" /\ held' = <<p>>
        /\ UNCHANGED <<iface, worker, forwarded, failed, written>>
    BY DEF TakeData
  <2> QED BY <2>1, Taking DEF clientVars
<1>2. <<p>> \in Seq(Packet) /\ Len(<<p>>) = 1
  OBVIOUS
<1>3. TypeOK'
  BY <1>1, <1>2 DEF TypeOK, LoopAt, Frames, Frame
<1>4. RequestFirst' /\ InterfaceFirst' /\ Messages' /\ OneResponse' /\ UntilStray'
  BY <1>1 DEF RequestFirst, InterfaceFirst, Messages, OneResponse, Responses, UntilStray
<1>5. InOrder'
  <2>1. OnTheWay = toServer /\ toServer \in Seq(Packet)
    BY <1>1, SystemAssumption, Way
  <2>2. toServer = <<p>> \o toServer'
    <3>1. /\ Len(toServer) \in Nat \ {0} /\ toServer[1] = p
          /\ Len(toServer') = Len(toServer) - 1
          /\ \A i \in 1..Len(toServer') : toServer'[i] = toServer[i + 1]
      BY <1>1, <2>1, HeadAndTail
    <3>2. /\ <<p>> \o toServer' \in Seq(Packet)
          /\ Len(<<p>> \o toServer') = 1 + Len(toServer')
          /\ \A i \in 1..(1 + Len(toServer')) :
               (<<p>> \o toServer')[i] = IF i <= 1 THEN <<p>>[i] ELSE toServer'[i - 1]
      BY <1>1, <1>2, ConcatProperties
    <3>3. \A i \in 1..Len(toServer) : toServer[i] = (<<p>> \o toServer')[i]
      BY <3>1, <3>2
    <3> DEFINE whole == <<p>> \o toServer'
    <3>4. whole \in Seq(Packet) /\ Len(whole) = Len(toServer)
      BY <3>1, <3>2
    <3>5. \A i \in 1..Len(toServer) : toServer[i] = whole[i]
      BY <3>3
    <3> HIDE DEF whole
    <3>6. toServer = whole
      BY <2>1, <3>4, <3>5, SeqEqual
    <3> QED BY <3>6 DEF whole
  <2>3. Through' = Through
    <3> DEFINE front == PacketsOf(written)
    <3>1. front \in Seq(Packet) /\ <<>> \in Seq(Packet) /\ front \o <<>> = front
      BY PacketsWritten, ConcatEmptySeq, EmptySeq DEF TypeOK
    <3> HIDE DEF front
    <3>2. (front \o <<p>>) \o toServer' = front \o (<<p>> \o toServer')
      BY <1>1, <1>2, <3>1, ConcatAssociative
    <3>3. Through = front \o held \o OnTheWay /\ Through' = front \o held' \o OnTheWay'
      BY <1>1 DEF Through, front
    <3> QED BY <1>1, <2>1, <2>2, <3>1, <3>2, <3>3
  <2> QED BY <1>1, <1>2, <2>3 DEF InOrder
<1> QED BY <1>3, <1>4, <1>5

\* Who retries a write holds one packet.
LEMMA HeldPacket ==
  ASSUME IInv, conn = "retrying"
  PROVE  Len(held) = 1 /\ Head(held) \in Packet /\ held = <<Head(held)>>
<1>1. held \in Seq(Packet) /\ Len(held) = 1
  BY DEF IInv, InOrder, TypeOK
<1>2. held # <<>>
  BY <1>1, EmptySeq
<1>3. Head(held) = held[1] /\ held[1] \in Packet
  BY <1>1, <1>2, HeadAndTail
<1>4. held = <<held[1]>>
  BY <1>1
<1> QED BY <1>1, <1>3, <1>4

\* A ::write that fails moves no packet.
LEMMA WriteFailsIInv == IInv /\ WriteFails => IInv'
<1> SUFFICES ASSUME IInv, WriteFails PROVE IInv'
  OBVIOUS
<1> USE DEF IInv
<1>1. /\ failed' = TRUE
      /\ UNCHANGED <<client, calls, settings, local, cut, misled, taken, toServer, arrived, toClient,
                     broken, conn, iface, worker, forwarded, held, written>>
  BY DEF WriteFails, clientVars, wire
<1>2. TypeOK'
  BY <1>1 DEF TypeOK
<1>3. RequestFirst' /\ InterfaceFirst' /\ Messages' /\ OneResponse' /\ UntilStray'
  BY <1>1 DEF RequestFirst, InterfaceFirst, Messages, OneResponse, Responses, UntilStray
<1>4. InOrder'
  BY <1>1, WayKept DEF WayUnchanged
<1> QED BY <1>2, <1>3, <1>4

\* The packet held is written to the interface.
LEMMA WrittenIInv == IInv /\ Written => IInv'
<1> SUFFICES ASSUME IInv, Written PROVE IInv'
  OBVIOUS
<1> USE DEF IInv
<1>1. /\ conn = "retrying" /\ conn' = "serving"
      /\ written' = Append(written, <<Head(held), ~failed>>) /\ held' = <<>> /\ failed' = FALSE
      /\ UNCHANGED <<client, calls, settings, local, cut, misled, taken, toServer, arrived, toClient,
                     broken, iface, worker, forwarded>>
  BY DEF Written, clientVars, wire
<1>2. /\ written \in Seq(Packet \X BOOLEAN) /\ written' \in Seq(Packet \X BOOLEAN)
      /\ Len(held) = 1 /\ Head(held) \in Packet /\ held = <<Head(held)>> /\ held \in Seq(Packet)
      /\ <<>> \in Seq(Packet) /\ Len(<<>>) = 0
  <2>1. Head(held) \in Packet /\ held = <<Head(held)>> /\ Len(held) = 1
    BY <1>1, HeldPacket
  <2>2. <<Head(held), ~failed>> \in Packet \X BOOLEAN
    BY <2>1
  <2> QED BY <1>1, <2>1, <2>2, AppendProperties, EmptySeq DEF TypeOK
<1>3. TypeOK'
  <2>1. failed' = FALSE /\ conn' = "serving" /\ held' = <<>>
    BY DEF Written
  <2>2. failed' \in BOOLEAN /\ conn' \in LoopAt
    BY <2>1 DEF LoopAt
  <2>3. held' \in Seq(Packet) /\ Len(held') <= 1
    BY <1>2, <2>1
  <2>4. written' \in Seq(Packet \X BOOLEAN)
    BY <1>2
  <2>5. /\ client' = client /\ calls' = calls /\ settings' = settings /\ local' = local
        /\ cut' = cut /\ misled' = misled /\ taken' = taken /\ toServer' = toServer
        /\ arrived' = arrived /\ toClient' = toClient /\ broken' = broken
        /\ iface' = iface /\ worker' = worker /\ forwarded' = forwarded
    BY DEF Written, clientVars, wire
  <2> QED BY <2>2, <2>3, <2>4, <2>5 DEF TypeOK
<1>4. RequestFirst' /\ InterfaceFirst' /\ Messages' /\ OneResponse' /\ UntilStray'
  BY <1>1 DEF RequestFirst, InterfaceFirst, Messages, OneResponse, Responses, UntilStray
<1>5. InOrder'
  <2>1. Through' = Through
    <3> DEFINE front == PacketsOf(written) \o held
    <3>1. PacketsOf(written) \in Seq(Packet) /\ front \in Seq(Packet)
      BY <1>2, PacketsWritten, ConcatProperties
    <3>2. PacketsOf(written') = front
      <4>1. \A p \in Packet, whole \in BOOLEAN :
              PacketsOf(Append(written, <<p, whole>>)) = PacketsOf(written) \o <<p>>
        BY <1>2, PacketsWritten
      <4>2. PacketsOf(Append(written, <<Head(held), ~failed>>)) = PacketsOf(written) \o <<Head(held)>>
        <5> DEFINE whole == ~failed
        <5>1. whole \in BOOLEAN
          OBVIOUS
        <5> HIDE DEF whole
        <5>2. PacketsOf(Append(written, <<Head(held), whole>>)) = PacketsOf(written) \o <<Head(held)>>
          BY <1>2, <4>1, <5>1
        <5> QED BY <5>2 DEF whole
      <4> QED BY <1>1, <1>2, <4>2
    <3>3. Through = front \o OnTheWay
      BY DEF Through
    <3> HIDE DEF front
    <3>4. front \o <<>> = front
      BY <3>1, ConcatEmptySeq
    <3> QED BY <1>1, <3>2, <3>3, <3>4 DEF Through, OnTheWay
  <2> QED BY <1>1, <2>1 DEF InOrder
<1> QED BY <1>3, <1>4, <1>5

\* A message is added to those for the client.
LEMMA MessageAdded ==
  ASSUME TypeOK, NEW m \in {"response", "stray"}, toClient' = Append(toClient, m)
  PROVE  /\ toClient' \in Seq({"response", "stray"}) /\ Len(toClient) \in Nat
         /\ Len(toClient') = Len(toClient) + 1 /\ toClient' # <<>>
         /\ Responses' = IF m = "response" THEN Responses \cup {Len(toClient) + 1} ELSE Responses
<1>1. toClient \in Seq({"response", "stray"})
  BY DEF TypeOK
<1>2. /\ toClient' \in Seq({"response", "stray"}) /\ Len(toClient) \in Nat
      /\ Len(toClient') = Len(toClient) + 1 /\ toClient' # <<>>
      /\ \A i \in 1..Len(toClient) : toClient'[i] = toClient[i]
      /\ toClient'[Len(toClient) + 1] = m
  BY <1>1, AppendProperties, LenProperties
<1> QED BY <1>2 DEF Responses

\* The answer, or the refusal, is the first message for the client.
LEMMA AnswerIInv == IInv /\ Answer => IInv'
<1> SUFFICES ASSUME IInv, Answer PROVE IInv'
  OBVIOUS
<1> USE DEF IInv
<1>1. /\ conn = "answering" /\ conn' = "serving"
      /\ UNCHANGED <<client, calls, settings, local, cut, misled, taken, toServer, arrived,
                     broken, iface, worker, forwarded, held, failed, written>>
  BY DEF Answer, clientVars
<1>2. PICK m \in {"response", "stray"} : toClient' = Append(toClient, m)
  BY DEF Answer
<1>3. /\ toClient' \in Seq({"response", "stray"}) /\ Len(toClient) \in Nat
      /\ Len(toClient') = Len(toClient) + 1 /\ toClient' # <<>>
      /\ Responses' = IF m = "response" THEN Responses \cup {Len(toClient) + 1} ELSE Responses
  BY <1>2, MessageAdded
<1>4. iface # "none" /\ calls = 0 /\ Responses = {}
  BY <1>1 DEF InterfaceFirst, OneResponse
<1>5. Messages'
  BY <1>1, <1>3, <1>4 DEF Messages
<1>6. TypeOK'
  BY <1>1, <1>3, <1>5 DEF TypeOK, LoopAt, Messages
<1>7. RequestFirst' /\ InterfaceFirst' /\ UntilStray'
  BY <1>1, <1>4 DEF RequestFirst, InterfaceFirst, UntilStray
<1>8. OneResponse'
  BY <1>1, <1>3, <1>4 DEF OneResponse
<1>9. InOrder'
  <2>1. Through' = Through
    BY <1>1 DEF Through, OnTheWay
  <2> QED BY <1>1, <2>1 DEF InOrder
<1> QED BY <1>5, <1>6, <1>7, <1>8, <1>9

\* The thread that reads the interface sends one message that is none.
LEMMA WorkerReadsIInv == IInv /\ WorkerReads => IInv'
<1> SUFFICES ASSUME IInv, WorkerReads PROVE IInv'
  OBVIOUS
<1> USE DEF IInv
<1>1. /\ iface = "open" /\ worker = "waiting" /\ worker' = "spent" /\ forwarded' = forwarded + 1
      /\ UNCHANGED <<client, calls, settings, local, cut, misled, taken, toServer, arrived,
                     broken, iface, held, failed, written>>
  BY DEF WorkerReads, clientVars
<1>2. conn' = conn \/ (conn' = "dead" /\ toClient' = toClient)
  BY DEF WorkerReads
<1>3. forwarded = 0
  BY <1>1 DEF InterfaceFirst
<1>4. RequestFirst' /\ UntilStray'
  BY <1>1 DEF RequestFirst, UntilStray
<1>5. InterfaceFirst'
  BY <1>1, <1>2, <1>3 DEF InterfaceFirst
<1>6. InOrder'
  BY <1>1, <1>2, WayKept DEF WayUnchanged
<1>7. CASE toClient' = toClient
  <2>1. Len(toClient) \in Nat
    BY LenProperties DEF TypeOK
  <2>2. TypeOK' /\ Messages' /\ OneResponse'
    BY <1>1, <1>2, <1>3, <1>7, <2>1 DEF TypeOK, LoopAt, Messages, OneResponse, Responses
  <2> QED BY <1>4, <1>5, <1>6, <2>2
<1>8. CASE toClient' = Append(toClient, "stray") /\ conn' = conn
  <2>1. /\ toClient' \in Seq({"response", "stray"}) /\ Len(toClient) \in Nat
        /\ Len(toClient') = Len(toClient) + 1 /\ Responses' = Responses
    BY <1>8, MessageAdded
  <2>2. Messages'
    BY <1>1, <1>8, <2>1 DEF Messages
  <2>3. TypeOK'
    BY <1>1, <1>3, <1>8, <2>1, <2>2 DEF TypeOK, Messages
  <2>4. OneResponse'
    BY <1>1, <1>8, <2>1 DEF OneResponse
  <2> QED BY <1>4, <1>5, <1>6, <2>2, <2>3, <2>4
<1> QED BY <1>2, <1>7, <1>8 DEF WorkerReads

\* The teardown, the end of the server's process and a broken network leave
\* what was written as it is.
LEMMA EndsIInv == IInv /\ (HangUp \/ Destroy \/ ServerDies \/ Break \/ UNCHANGED vars) => IInv'
<1> SUFFICES ASSUME IInv, HangUp \/ Destroy \/ ServerDies \/ Break \/ UNCHANGED vars PROVE IInv'
  OBVIOUS
<1> USE DEF IInv
<1>1. /\ UNCHANGED <<client, calls, settings, local, cut, misled, taken, toServer, arrived, toClient,
                     worker, forwarded, held, failed, written>>
      /\ broken' = TRUE \/ broken' = broken
      /\ conn' = conn \/ conn' \in {"closing", "over", "dead"}
      /\ iface' = iface \/ (iface = "open" /\ iface' = "deleted")
  BY DEF HangUp, Destroy, ServerDies, Break, vars, clientVars, wire, serverVars
<1>2. TypeOK'
  <2>1. broken' \in BOOLEAN
    BY <1>1 DEF TypeOK
  <2>2. conn' \in LoopAt /\ iface' \in {"none", "open", "deleted"}
    BY <1>1 DEF TypeOK, LoopAt
  <2> QED BY <1>1, <2>1, <2>2 DEF TypeOK
<1>3. RequestFirst' /\ InterfaceFirst' /\ UntilStray'
  BY <1>1 DEF RequestFirst, InterfaceFirst, UntilStray
<1>4. Messages' /\ OneResponse'
  <2>1. Len(toClient) \in Nat
    BY LenProperties DEF TypeOK
  <2> QED BY <1>1, <2>1 DEF Messages, OneResponse, Responses
<1>5. InOrder'
  BY <1>1, WayKept DEF WayUnchanged
<1> QED BY <1>2, <1>3, <1>4, <1>5

\* Every step keeps the invariant.
LEMMA NextIInv == IInv /\ [Next]_vars => IInv'
<1> SUFFICES ASSUME IInv, [Next]_vars PROVE IInv'
  OBVIOUS
<1>1. CASE ClientStep
  <2>1. ReadResponse \/ ReadCutResponse \/ ReadTail \/ ReadStray => IInv'
    BY ReadsDispatch, DispatchesIInv DEF IInv
  <2> QED BY <1>1, <2>1, ConnectedIInv, LinkLostIInv, TakePacketIInv DEF ClientStep
<1>2. CASE ServerStep
  <2>1. ASSUME NEW n \in 0..Len(toServer), TakeEstablish(n) \/ \E p \in Packet : TakeData(n, p)
        PROVE  IInv'
    <3>1. n \in Nat
      BY LenProperties DEF IInv, TypeOK, Frames
    <3> QED BY <2>1, <3>1, TakeEstablishIInv, TakeDataIInv
  <2> QED BY <1>2, <2>1, AnswerIInv, WriteFailsIInv, WrittenIInv, WorkerReadsIInv, EndsIInv DEF ServerStep
<1>3. CASE Break \/ UNCHANGED vars
  BY <1>3, EndsIInv
<1> QED BY <1>1, <1>2, <1>3 DEF Next

(***************************************************************************)
(* The invariant the others follow from: what is held, on its way or       *)
(* arrived are the packets taken from the interface, in their order and    *)
(* behind the one request, and an answer is only ever that request's.      *)
(***************************************************************************)
THEOREM TunnelInductive == Spec => []IInv
BY InitIInv, NextIInv, PTL DEF Spec

(***************************************************************************)
(* The tunnel's variables have their types; at most two messages are on    *)
(* their way to the client, whatever the threads of the connection do.     *)
(***************************************************************************)
THEOREM TunnelTypeCorrect == Spec => []TypeOK
<1>1. IInv => TypeOK
  BY DEF IInv
<1> QED BY TunnelInductive, <1>1, PTL

(***************************************************************************)
(* While both ends hold the link, every packet taken from the device was   *)
(* written, is being written, or is on its way, in the order it was taken, *)
(* for any packets and any number of them and whichever writes fail        *)
(* (SLClient.cpp and SLConnection.cpp, writePacket and the two read        *)
(* callbacks).                                                             *)
(***************************************************************************)
THEOREM NoPacketLost == Spec => []NothingLost
<1>1. IInv => NothingLost
  <2> SUFFICES ASSUME IInv, client = "open" PROVE taken = Through
    BY DEF NothingLost
  <2> USE DEF IInv
  <2>1. taken \in Seq(Packet) /\ PacketsOf(written) \in Seq(Packet) /\ held \in Seq(Packet)
    BY PacketsWritten DEF TypeOK
  <2>2. Through \in Seq(Packet)
    BY <2>1, Way, ConcatProperties DEF Through
  <2>3. Len(taken) = Len(Through) /\ \A i \in 1..Len(taken) : taken[i] = Through[i]
    BY DEF InOrder
  <2> QED BY <2>1, <2>2, <2>3, SeqEqual
<1> QED BY TunnelInductive, <1>1, PTL

(***************************************************************************)
(* Only the message that nobody serialised can mislead the client          *)
(* (SLConnection.cpp:111): as long as it has not, the system's handler was *)
(* called once at most and configured with the server's addresses.         *)
(***************************************************************************)
THEOREM OnlyStrayMisleads == Spec => []UntilStray
<1>1. IInv => UntilStray
  BY DEF IInv
<1> QED BY TunnelInductive, <1>1, PTL

-----------------------------------------------------------------------------
\* Each step is one of the tunnel, or one that it does not see.
LEMMA ClientRefines ==
  ASSUME IInv, ClientStep
  PROVE  [Tunnel!TunnelNext]_(Tunnel!tunnelVars)
<1> USE DEF IInv
<1>1. CASE Connected \/ LinkEnds \/ ClientGoes
  <2>1. UNCHANGED <<iface, calls, taken, failed, written, forwarded>>
    BY <1>1 DEF Connected, LinkEnds, ClientGoes, serverVars
  <2> QED BY <2>1 DEF Tunnel!tunnelVars
<1>2. ASSUME NEW p \in Packet, TakePacket(p) PROVE Tunnel!Send(p)
  BY <1>2 DEF TakePacket, serverVars, Tunnel!Send
<1>3. CASE ReadResponse \/ ReadCutResponse \/ ReadTail \/ ReadStray
  <2>1. Dispatches
    BY <1>3, ReadsDispatch
  <2>2. UNCHANGED <<iface, taken, failed, written, forwarded>> /\ iface # "none"
    BY <2>1 DEF Dispatches, InterfaceFirst
  <2>3. calls \in 0..2 /\ calls' \in 0..2 /\ calls <= calls'
    BY <2>1 DEF Dispatches, TypeOK
  <2>4. CASE calls > 0
    <3>1. (calls' > 0) = (calls > 0)
      BY <2>3, <2>4
    <3> QED BY <2>2, <3>1 DEF Tunnel!tunnelVars
  <2>5. CASE ~(calls > 0) /\ calls' > 0
    <3>1. (calls' > 0) = TRUE
      BY <2>5
    <3>2. Tunnel!ComeUp
      BY <2>2, <2>5, <3>1 DEF Tunnel!ComeUp
    <3> QED BY <3>2 DEF Tunnel!TunnelNext
  <2>6. CASE ~(calls > 0) /\ ~(calls' > 0)
    <3>1. (calls' > 0) = (calls > 0)
      BY <2>6
    <3> QED BY <2>2, <3>1 DEF Tunnel!tunnelVars
  <2> QED BY <2>4, <2>5, <2>6
<1> QED BY <1>1, <1>2, <1>3 DEF ClientStep, Tunnel!TunnelNext

\* The packet held is the next one to deliver.
LEMMA HeldIsNext ==
  ASSUME IInv, conn = "retrying"
  PROVE  /\ Len(written) < Len(taken) /\ Head(held) = taken[Len(written) + 1]
         /\ iface # "none"
<1> USE DEF IInv
<1> DEFINE n == Len(written) + 1
           puts == PacketsOf(written)
           p == Head(held)
<1>1. /\ puts \in Seq(Packet) /\ Len(puts) = Len(written) /\ Len(written) \in Nat
      /\ held = <<p>> /\ p \in Packet
      /\ taken \in Seq(Packet) /\ Len(taken) \in Nat
  BY PacketsWritten, HeldPacket, LenProperties DEF TypeOK
<1> HIDE DEF puts, p
<1>2. OnTheWay \in Seq(Packet) /\ Len(OnTheWay) \in Nat
  BY Way, LenProperties
<1>3. /\ puts \o <<p>> \in Seq(Packet) /\ Len(puts \o <<p>>) = n
      /\ (puts \o <<p>>)[n] = p
  BY <1>1, AppendIsConcat, AppendProperties
<1>4. Through \in Seq(Packet) /\ n \in 1..Len(Through) /\ Through[n] = p
  <2> DEFINE front == puts \o <<p>>
  <2>1. front \in Seq(Packet) /\ Len(front) = n /\ front[n] = p
    BY <1>3
  <2>2. Through = front \o OnTheWay
    BY <1>1 DEF Through, puts
  <2> HIDE DEF front
  <2> QED BY <1>1, <1>2, <2>1, <2>2, ConcatProperties
<1>5. n <= Len(taken) /\ taken[n] = p
  <2>1. Len(Through) \in Nat /\ Len(Through) <= Len(taken)
    BY <1>4, LenProperties DEF InOrder
  <2> QED BY <1>1, <1>4, <2>1 DEF InOrder
<1>6. iface # "none"
  <2>1. taken # <<>>
    BY <1>1, <1>5, EmptySeq
  <2> QED BY <2>1 DEF InterfaceFirst, TypeOK
<1> QED BY <1>1, <1>5, <1>6 DEF p

\* A failed write is a refusal, and one that ends the loop delivers.
LEMMA WriteRefines ==
  ASSUME IInv, WriteFails \/ Written
  PROVE  Tunnel!Refuse \/ Tunnel!Deliver
<1>1. conn = "retrying" /\ UNCHANGED <<iface, calls, taken, forwarded>>
  BY DEF WriteFails, Written, clientVars
<1>2. Len(written) < Len(taken) /\ Head(held) = taken[Len(written) + 1] /\ iface # "none"
  BY <1>1, HeldIsNext
<1>3. CASE WriteFails
  BY <1>1, <1>2, <1>3 DEF WriteFails, Tunnel!Refuse
<1>4. CASE Written
  BY <1>1, <1>2, <1>4 DEF Written, Tunnel!Deliver
<1> QED BY <1>3, <1>4

\* The other steps of the server are not seen in the tunnel, or break it.
LEMMA ServerRefines ==
  ASSUME IInv, ServerStep \/ Break \/ UNCHANGED vars
  PROVE  [Tunnel!TunnelNext]_(Tunnel!tunnelVars)
<1> USE DEF IInv
<1>1. ASSUME NEW n \in 0..Len(toServer), TakeEstablish(n)
      PROVE  [Tunnel!TunnelNext]_(Tunnel!tunnelVars)
  <2>1. n \in Nat /\ Takes(n, "establish")
    BY <1>1, LenProperties DEF TypeOK, Frames, TakeEstablish
  <2>2. /\ UNCHANGED <<calls, taken, failed, written, forwarded>>
        /\ toServer # <<>> /\ Head(toServer) = "establish"
    BY <1>1, <2>1, Taking DEF TakeEstablish, clientVars
  <2>3. iface = "none"
    BY <2>2, Way
  <2>4. CASE iface' = "open"
    BY <2>2, <2>3, <2>4 DEF Tunnel!Provide, Tunnel!TunnelNext
  <2>5. CASE iface' = iface
    BY <2>2, <2>5 DEF Tunnel!tunnelVars
  <2> QED BY <1>1, <2>4, <2>5 DEF TakeEstablish
<1>2. ASSUME NEW n \in 0..Len(toServer), NEW p \in Packet, TakeData(n, p)
      PROVE  [Tunnel!TunnelNext]_(Tunnel!tunnelVars)
  <2>1. UNCHANGED <<iface, calls, taken, failed, written, forwarded>>
    BY <1>2 DEF TakeData, Takes, clientVars
  <2> QED BY <2>1 DEF Tunnel!tunnelVars
<1>3. CASE WriteFails \/ Written
  BY <1>3, WriteRefines DEF Tunnel!TunnelNext
<1>4. CASE WorkerReads
  <2>1. /\ iface = "open" /\ UNCHANGED <<iface, calls, taken, failed, written>>
        /\ forwarded = 0 /\ forwarded' = 1
    BY <1>4 DEF WorkerReads, clientVars, InterfaceFirst
  <2> QED BY <2>1 DEF Tunnel!AnswerOnce, Tunnel!TunnelNext
<1>5. CASE Answer \/ HangUp \/ ServerDies \/ Break \/ UNCHANGED vars
  <2>1. UNCHANGED <<iface, calls, taken, failed, written, forwarded>>
    BY <1>5 DEF Answer, HangUp, ServerDies, Break, vars, clientVars, wire, serverVars
  <2> QED BY <2>1 DEF Tunnel!tunnelVars
<1>6. CASE Destroy
  <2>1. UNCHANGED <<calls, taken, failed, written, forwarded>> /\ (iface' # "none") = (iface # "none")
    BY <1>6 DEF Destroy, clientVars
  <2> QED BY <2>1 DEF Tunnel!tunnelVars
<1> QED BY <1>1, <1>2, <1>3, <1>4, <1>5, <1>6 DEF ServerStep

(***************************************************************************)
(* Client and server, with all the ways they may end, are a tunnel: up     *)
(* only once the server has an interface, to which the device's packets    *)
(* come in order and once each, whole but for those of which a ::write     *)
(* failed; and one packet is sent back.                                    *)
(***************************************************************************)
THEOREM SystemImplementsTunnel == Spec => ImplementsTunnel
<1>1. Init => Tunnel!TunnelInit
  BY DEF Init, Tunnel!TunnelInit
<1>2. IInv /\ [Next]_vars => [Tunnel!TunnelNext]_(Tunnel!tunnelVars)
  BY ClientRefines, ServerRefines DEF Next
<1> QED BY TunnelInductive, <1>1, <1>2, PTL DEF Spec, ImplementsTunnel, Tunnel!TunnelSpec
=============================================================================
