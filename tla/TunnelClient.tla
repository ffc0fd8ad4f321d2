----------------------------- MODULE TunnelClient -----------------------------
(***************************************************************************)
(* The client: PacketTunnelProvider.mm driving an SLClient (SLClient.cpp). *)
(* "prov" is the provider's queue, which runs startTunnelWithOptions and   *)
(* stopTunnelWithReason; "event" the detached thread it starts, which      *)
(* dispatches the client's event base and runs its callbacks; "packet" the *)
(* packet flow's queue, which runs handlePacket.                           *)
(*                                                                         *)
(* The bufferevent is BEV_OPT_THREADSAFE and libevent holds its lock while *)
(* a callback runs: a callback is one step, and so is a write from another *)
(* thread.  Nothing else is synchronised.  The packet flow, which is the   *)
(* system's, is taken to call one handler at a time, however many reads    *)
(* were asked for.                                                         *)
(***************************************************************************)
EXTENDS Integers, Sequences

CONSTANTS PortModulus, \* values of a short (2^16)
          Ports,       \* the port numbers a configuration may name
          MaxPackets,  \* bound: packets taken from the packet flow
          MaxAnswers   \* bound: messages that say ESTABLISH

ASSUME ClientAssumption ==
  /\ PortModulus \in Nat \ {0}
  /\ Ports \subseteq Nat
  /\ MaxPackets \in Nat /\ MaxAnswers \in Nat

VARIABLES hasPort,     \* protocolConfiguration.serverAddress has a ":"
          wanted,      \* the port it names
          pc,          \* pc[t]: where each thread is
          status,      \* what startTunnelWithServerAddress returned
          port,        \* the port handed to libevent
          link,        \* the client's bufferevent
          block,       \* _completionBlock is set
          calls,       \* what the system's completion handler was called with
          established, \* a message that says ESTABLISH was handled
          sent,        \* what was put into the output evbuffer, in order
          packets,     \* packets taken from the packet flow
          reads,       \* readPacketsWithCompletionHandlers not called back
          end          \* how the process ended, if it did

config == <<hasPort, wanted>>
session == <<status, port, link>>
completion == <<block, calls, established>>
output == <<sent, packets, reads>>
vars == <<config, pc, session, completion, output, end>>

Threads == {"prov", "event", "packet"}

ProvAt == {"off", "started", "spawned", "returned"}
EventAt == {"none", "created", "dispatching", "over"}
PacketAt == {"idle", "hdr", "body"}

Move(t, from, to) == pc[t] = from /\ pc' = [pc EXCEPT ![t] = to]

End(how) == end' = how /\ UNCHANGED <<config, pc, session, completion, output>>

Init ==
  /\ hasPort \in BOOLEAN
  /\ wanted \in Ports
  /\ pc = [prov |-> "off", event |-> "none", packet |-> "idle"]
  /\ status = "none" /\ port = 0 /\ link = "none"
  /\ block = FALSE /\ calls = <<>> /\ established = FALSE
  /\ sent = <<>> /\ packets = 0 /\ reads = 0
  /\ end = "none"

-----------------------------------------------------------------------------
\* Mutant: the port is kept in fewer bits.
NarrowShort(p) == p % (PortModulus \div 2)

\* The NSInteger becomes the parameter `short port', two's complement.
Half == PortModulus \div 2
Short(p) == ((p + Half) % PortModulus) - Half

\* bufferevent_socket_connect_hostname refuses a port outside this range.
ConnectablePorts == 1..(PortModulus - 1)

\* ta[1] of an address without a ":" is out of the array's range.
AddressWithoutPort ==
  /\ pc["prov"] = "off"
  /\ ~hasPort
  /\ End("noPort")

\* Mutant: an error is returned after the connection attempt was begun.
StartTunnelLate ==
  /\ hasPort
  /\ Move("prov", "off", "started")
  /\ port' = Short(wanted)
  /\ status' \in {"OnEstablish", "TunnelInitError"} /\ link' = "connecting"
  /\ UNCHANGED <<config, completion, output, end>>

\* startTunnelWithServerAddress.  Its options are never empty here: the
\* provider has just set two.  No socket, or no connecting: nothing is pending
\* in the event base.
StartTunnel ==
  /\ hasPort
  /\ Move("prov", "off", "started")
  /\ port' = Short(wanted)
  /\ \/ /\ port' \in ConnectablePorts
        /\ status' = "OnEstablish" /\ link' = "connecting"
     \/ status' = "TunnelInitError" /\ link' \in {"none", "idle"}
  /\ UNCHANGED <<config, completion, output, end>>

\* std::thread with a closure that refers to the method's `self'; detached.
SpawnThread ==
  /\ pc["prov"] = "started"
  /\ pc' = [pc EXCEPT !["prov"] = "spawned", !["event"] = "created"]
  /\ UNCHANGED <<config, session, completion, output, end>>

\* Mutant: the handler is not kept.
AnswerStartForgets ==
  /\ Move("prov", "spawned", "returned")
  /\ IF status = "TunnelInitError" THEN calls' = Append(calls, "error") ELSE UNCHANGED calls
  /\ UNCHANGED <<config, session, block, established, output, end>>

\* Mutant: the packet loop is started without waiting for the server.
AnswerStartEagerly ==
  /\ Move("prov", "spawned", "returned")
  /\ IF status = "OnEstablish"
     THEN block' = TRUE /\ reads' = reads + 1 /\ UNCHANGED calls
     ELSE calls' = Append(calls, "error") /\ UNCHANGED <<block, reads>>
  /\ UNCHANGED <<config, session, established, sent, packets, end>>

\* The switch on the status: keep the handler for later, or call it now.
AnswerStart ==
  /\ Move("prov", "spawned", "returned")
  /\ \/ status = "OnEstablish" /\ block' = TRUE /\ UNCHANGED calls
     \/ status = "TunnelInitError" /\ calls' = Append(calls, "error") /\ UNCHANGED block
  /\ UNCHANGED <<config, session, established, output, end>>

\* stopTunnelWithReason: exit(0).
StopTunnel == pc["prov"] = "returned" /\ End("exited")

-----------------------------------------------------------------------------
EventThread ==
  /\ Move("event", "created", "dispatching")
  /\ UNCHANGED <<config, session, completion, output, end>>

\* ... unless startTunnelWithOptions returned before it read `self'.
DanglingSelf ==
  /\ pc["event"] = "created"
  /\ pc["prov"] = "returned"
  /\ End("dangling")

Dispatching == pc["event"] = "dispatching"

\* BEV_EVENT_CONNECTED: the ESTABLISH request is written, length and body.
Connected ==
  /\ Dispatching
  /\ link = "connecting" /\ link' = "up"
  /\ sent' = sent \o << <<"ESTABLISH", "hdr">>, <<"ESTABLISH", "body">> >>
  /\ UNCHANGED <<config, pc, status, port, completion, packets, reads, end>>

\* Mutant: a state the bufferevent does not have.
LinkFails ==
  /\ Dispatching
  /\ link \in {"connecting", "up"}
  /\ link' = "error"
  /\ UNCHANGED <<config, pc, status, port, completion, output, end>>

\* Any other event: BEV_EVENT_ERROR of a failed connect, or a combination of
\* flags, which no case but default equals.  ServerUnReachable goes to
\* cb_error, which does nothing; libevent has stopped reading.
LinkEnds ==
  /\ Dispatching
  /\ link \in {"connecting", "up"}
  /\ link' = "ended"
  /\ UNCHANGED <<config, pc, status, port, completion, output, end>>

\* Mutant: the packet loop is started for the first ESTABLISH only.
EstablishStartsOnce ==
  /\ Dispatching
  /\ link = "up" /\ Len(calls) < MaxAnswers
  /\ block
  /\ established' = TRUE
  /\ calls' = Append(calls, "nil")
  /\ reads' = IF established THEN reads ELSE reads + 1
  /\ UNCHANGED <<config, pc, session, block, sent, packets, end>>

\* A message that says ESTABLISH, the server's answer or the one that nobody
\* serialised: tunnelDidEstablish calls the block and starts a packet loop, at
\* each of them.
Establish ==
  /\ Dispatching
  /\ link = "up" /\ Len(calls) < MaxAnswers
  /\ \/ /\ block
        /\ established' = TRUE
        /\ calls' = Append(calls, "nil")
        /\ reads' = reads + 1
        /\ UNCHANGED <<config, pc, session, block, sent, packets, end>>
     \/ ~block /\ End("nilBlock")

\* What does not parse as a RESPONSE frees the bufferevent that
\* mServerBufferEvent goes on pointing to.  (DATA goes to the packet flow, BUSY
\* and the others to cb_error: no step of their own.)
NotResponse ==
  /\ Dispatching
  /\ link = "up" /\ link' = "freed"
  /\ UNCHANGED <<config, pc, status, port, completion, output, end>>

\* event_base_dispatch returns when no event is left.
LoopEnds ==
  /\ link \notin {"connecting", "up"}
  /\ Move("event", "dispatching", "over")
  /\ UNCHANGED <<config, session, completion, output, end>>

-----------------------------------------------------------------------------
\* The packet flow calls back one that reads, with a packet: handlePacket.
TakePacket ==
  /\ packets < MaxPackets
  /\ packets' = packets + 1
  /\ reads > 0 /\ reads' = reads - 1
  /\ Move("packet", "idle", "hdr")
  /\ UNCHANGED <<config, session, completion, sent, end>>

\* SLClient::writePacket: two writes, to a bufferevent that may be freed.  After
\* the second, handlePacket asks for the next packets.
WritePiece(piece, next) ==
  /\ Move("packet", piece, next)
  /\ IF link = "freed" THEN UNCHANGED sent ELSE sent' = Append(sent, <<"DATA", piece>>)
  /\ reads' = IF piece = "body" THEN reads + 1 ELSE reads
  /\ UNCHANGED <<config, session, completion, packets, end>>

WriteFreed ==
  /\ pc["packet"] \in {"hdr", "body"}
  /\ link = "freed"
  /\ End("useAfterFree")

-----------------------------------------------------------------------------
ProvStep == AddressWithoutPort \/ StartTunnel \/ SpawnThread \/ AnswerStart

EventStep == EventThread \/ DanglingSelf \/ Connected \/ LinkEnds \/ Establish
               \/ NotResponse \/ LoopEnds

PacketStep == TakePacket \/ WritePiece("hdr", "body") \/ WritePiece("body", "idle")
                \/ WriteFreed

Next == end = "none" /\ (ProvStep \/ StopTunnel \/ EventStep \/ PacketStep)

Spec == Init /\ [][Next]_vars

\* The system runs the start method to its end.
FairSpec == Spec /\ WF_vars(end = "none" /\ ProvStep)

-----------------------------------------------------------------------------
Pieces == {"ESTABLISH", "DATA"} \X {"hdr", "body"}

TypeOK ==
  /\ hasPort \in BOOLEAN /\ wanted \in Ports
  /\ pc \in [Threads -> ProvAt \cup EventAt \cup PacketAt]
  /\ pc["prov"] \in ProvAt /\ pc["event"] \in EventAt /\ pc["packet"] \in PacketAt
  /\ status \in {"none", "OnEstablish", "TunnelInitError"}
  /\ port \in Int /\ -Half <= port /\ port < PortModulus - Half
  /\ link \in {"none", "idle", "connecting", "up", "ended", "freed"}
  /\ block \in BOOLEAN /\ established \in BOOLEAN
  /\ calls \in Seq({"nil", "error"})
  /\ sent \in Seq(Pieces) /\ packets \in 0..MaxPackets /\ reads \in Nat
  /\ end \in {"none", "exited", "noPort", "nilBlock", "dangling", "useAfterFree"}

\* The loops of handlePacket: one that waits for packets or writes them.
PacketLoops == reads + (IF pc["packet"] = "idle" THEN 0 ELSE 1)

(***************************************************************************)
(* The start method and the event thread can both call the system's        *)
(* completion handler, but not both of them do.  The start method calls it *)
(* once, with an error, and then nothing is sent and no packet is read;    *)
(* the event thread once for each message that says ESTABLISH, and as many *)
(* packet loops run, whatever they are in the middle of.                   *)
(***************************************************************************)
OneAnswers ==
  \/ calls = <<"error">> /\ ~established /\ sent = <<>> /\ PacketLoops = 0
  \/ /\ \A i \in 1..Len(calls) : calls[i] = "nil"
     /\ established <=> calls # <<>>
     /\ PacketLoops = Len(calls)

(***************************************************************************)
(* The server reads the ESTABLISH request first and then whole packets,    *)
(* though two threads write to the connection in two pieces, and no packet *)
(* goes out before the system was told that the tunnel is up.              *)
(***************************************************************************)
StreamInOrder ==
  \A i \in 1..Len(sent) :
    /\ sent[i][1] = (IF i <= 2 THEN "ESTABLISH" ELSE "DATA")
    /\ sent[i][2] = (IF i % 2 = 1 THEN "hdr" ELSE "body")
    /\ i > 2 => calls # <<>>

(***************************************************************************)
(* Only the start is dangerous: once it returned and its thread runs, the  *)
(* process ends by stopTunnel, or by a packet after a message that was no  *)
(* RESPONSE, and not for want of a completion block.                       *)
(***************************************************************************)
SafeOnceStarted ==
  pc["prov"] = "returned" /\ pc["event"] \in {"dispatching", "over"}
    => end \in {"none", "exited"} \/ (end = "useAfterFree" /\ established)

(***************************************************************************)
(* The port is an NSInteger, then a short, then libevent's int.  For a     *)
(* port number that TCP has, the connection is made to that port, or the   *)
(* start reports an error.                                                 *)
(***************************************************************************)
RightPort ==
  wanted < PortModulus /\ status = "OnEstablish" => port = wanted /\ link # "idle"

(***************************************************************************)
(* A start that has not crashed is answered: the completion handler was    *)
(* called, or is kept for the event thread to call.                        *)
(***************************************************************************)
HandlerNotLost ==
  pc["prov"] = "started" ~> (calls # <<>> \/ block \/ end # "none")

-----------------------------------------------------------------------------
\* What makes the safety properties inductive.

\* How far the start method got determines what the other threads can be doing
\* and who answers the system.
Starting ==
  /\ pc["prov"] = "off" <=> status = "none"
  /\ pc["event"] = "none" <=> pc["prov"] \in {"off", "started"}
  /\ block <=> pc["prov"] = "returned" /\ status = "OnEstablish"
  /\ pc["prov"] = "returned" \/ calls = <<>>

\* A call of the completion handler is due to one thread only.
Answered ==
  \/ calls = <<"error">> /\ ~established /\ PacketLoops = 0 /\ status = "TunnelInitError"
  \/ /\ \A i \in 1..Len(calls) : calls[i] = "nil"
     /\ established <=> calls # <<>>
     /\ PacketLoops = Len(calls)
     /\ established => block

\* The connection belongs to a successful start, to the port of the start.
Connection ==
  /\ status # "OnEstablish" => link \in {"none", "idle"}
  /\ status = "OnEstablish" =>
       link \notin {"none", "idle"} /\ port = Short(wanted) /\ port \in ConnectablePorts

\* Before ESTABLISH is answered only the request can have been written.
Asked ==
  /\ link \in {"none", "idle", "connecting"} => sent = <<>> /\ ~established
  /\ ~established => Len(sent) \in {0, 2}
  /\ link = "up" \/ established => Len(sent) >= 2

\* Between two packets an even number of pieces was written.
PieceByPiece == link # "freed" => (Len(sent) % 2 = 1 <=> pc["packet"] = "body")

\* What each way to end the process presupposes.
EndExplained ==
  /\ end = "noPort" => pc["prov"] = "off"
  /\ end = "nilBlock" => pc["prov"] # "returned"
  /\ end = "dangling" => pc["event"] = "created"
  /\ end = "useAfterFree" => established

IInv == TypeOK /\ Starting /\ Answered /\ Connection /\ Asked /\ PieceByPiece
          /\ EndExplained /\ StreamInOrder

(***************************************************************************)
(* NECreateTest.m:33 saves a configuration with the server address         *)
(* "127.0.0.1", and testStart starts it: an address without a port starts. *)
(***************************************************************************)
PlainAddressStarts == end # "noPort"
=============================================================================
