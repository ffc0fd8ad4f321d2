---------------------------- MODULE TunnelSystem ----------------------------
(***************************************************************************)
(* A client and its connection on the server, joined by TCP: the provider  *)
(* with its SLClient, the connection's loop thread, its utun thread, and   *)
(* the frames between them.  SLConnection and TunnelClient show when the   *)
(* two threads of each side write whole frames, ServerReader and           *)
(* ClientReader what the readers do to a stream however it is cut,         *)
(* MessageParser what the client makes of a cut response; here a frame is  *)
(* written in one step and those results are used.                         *)
(*                                                                         *)
(* Either process may end at any moment (a signal, the system's stop, an   *)
(* exception, the undefined behaviours of those modules), and the network  *)
(* may break.                                                              *)
(***************************************************************************)
EXTENDS Naturals, Sequences, FiniteSetsExt

CONSTANTS Packet,      \* the packets of the device
          MaxPackets   \* bound: how many it sends

\* A packet is not the request: the code of its frame tells them apart.
ASSUME SystemAssumption == MaxPackets \in Nat /\ "establish" \notin Packet

VARIABLES client,   \* how the client's link stands
          calls,    \* calls of the completion handler: 0, 1, 2 for more
          settings, \* whose addresses were configured
          local,    \* something was written to the device's tun
          cut,      \* where the client's next read begins
          misled,   \* the client dispatched on bytes nobody wrote
          taken,    \* the packets taken from the device
          toServer, \* frames on their way to the server, those in its buffer first
          arrived,  \* how many of them are whole in its buffer
          toClient, \* frames on their way to the client
          conn,     \* what the connection's loop thread is doing
          iface,    \* the connection's utun interface
          worker,   \* its thread
          forwarded,\* how many packets that thread has read
          held,     \* the packet the loop thread is writing to the interface
          failed,   \* a ::write of that packet has failed
          written,  \* those written there, each with whether it went whole
          broken    \* the network carries nothing any more

clientVars == <<client, calls, settings, local, cut, misled, taken>>
wire == <<toServer, arrived, toClient, broken>>
serverVars == <<conn, iface, worker, forwarded, held, failed, written>>
vars == <<clientVars, wire, serverVars>>

\* The client: its link is being connected, is open, has ended with an event
\* that reached only cb_error, was freed; or its process is gone.
Links == {"connecting", "open", "ended", "freed", "gone"}

\* The connection: in its loop, answering ESTABLISH, retrying a ::write, with
\* its bufferevent freed, over; or the process is gone.
LoopAt == {"serving", "answering", "retrying", "closing", "over", "dead"}
Running == conn \in {"serving", "answering", "retrying"}

Init ==
  /\ client = "connecting" /\ calls = 0 /\ settings = {} /\ local = FALSE
  /\ cut = "frame" /\ misled = FALSE
  /\ taken = <<>>
  /\ toServer = <<>> /\ arrived = 0 /\ toClient = <<>> /\ broken = FALSE
  /\ conn = "serving" /\ iface = "none" /\ worker = "none" /\ forwarded = 0
  /\ held = <<>> /\ failed = FALSE /\ written = <<>>

-----------------------------------------------------------------------------
\* BEV_EVENT_CONNECTED: the request is written.
Connected ==
  /\ client = "connecting" /\ conn = "serving" /\ ~broken
  /\ client' = "open"
  /\ toServer' = <<"establish">>
  /\ UNCHANGED <<calls, settings, local, cut, misled, taken, arrived, toClient, broken, serverVars>>

\* The end of the stream or an error, a failed connect too: no case of the
\* switch equals it, or ServerUnReachable is told to a cb_error that does
\* nothing.  The bufferevent stays, and takes packets for nobody.
LinkEnds ==
  /\ client \in {"connecting", "open"}
  /\ ~Running \/ broken
  /\ client' = "ended"
  /\ UNCHANGED <<calls, settings, local, cut, misled, taken, wire, serverVars>>

\* A packet from the packet flow, read since tunnelDidEstablish.
TakePacket(p) ==
  /\ calls > 0 /\ client \in {"open", "ended"}
  /\ Len(taken) < MaxPackets
  /\ taken' = Append(taken, p)
  /\ toServer' = IF client = "open" THEN Append(toServer, p) ELSE toServer
  /\ UNCHANGED <<client, calls, settings, local, cut, misled, arrived, toClient, broken, serverVars>>

\* The end of the process: stopTunnel's exit, a packet written to the freed
\* bufferevent, the system.
ClientGoes ==
  /\ client # "gone"
  /\ client' = "gone"
  /\ UNCHANGED <<calls, settings, local, cut, misled, taken, wire, serverVars>>

-----------------------------------------------------------------------------
\* The client's dispatch.  The addresses are of the server or of stray bytes.
Establish(from) ==
  /\ calls' = Min({calls + 1, 2})
  /\ settings' = settings \cup {from}
  /\ UNCHANGED <<client, local>>

\* AUTHORIZATION, BUSY and any other code end in cb_error.
CallError == UNCHANGED <<client, calls, settings, local>>

ReadPacket == local' = TRUE /\ UNCHANGED <<client, calls, settings>>

\* No RESPONSE: the bufferevent is freed, which closes the socket.
NotResponse == client' = "freed" /\ UNCHANGED <<calls, settings, local>>

\* Bytes nobody wrote are taken for anything.
DispatchStray ==
  /\ Establish("stray") \/ CallError \/ ReadPacket \/ NotResponse
  /\ misled' = TRUE

\* What the loop thread put into the buffer leaves when its callback is over.
ClientReads(frame) ==
  /\ client = "open" /\ conn # "answering"
  /\ toClient # <<>> /\ Head(toClient) = frame
  /\ UNCHANGED <<taken, toServer, arrived, broken, serverVars>>

ReadResponse ==
  /\ ClientReads("response") /\ cut = "frame"
  /\ Establish("server")
  /\ toClient' = Tail(toClient)
  /\ UNCHANGED <<cut, misled>>

\* Mutant: what has arrived of a response is configured.
ReadCutResponseEagerly ==
  /\ ClientReads("response") /\ cut = "frame"
  /\ Establish("stray")
  /\ cut' = "tail"
  /\ UNCHANGED <<toClient, misled>>

\* A cut response has type 0, or type 1 and code 0 (AUTHORIZATION) if only the
\* bytes of the code are missing.
ReadCutResponse ==
  /\ ClientReads("response") /\ cut = "frame"
  /\ NotResponse \/ CallError
  /\ cut' = "tail"
  /\ UNCHANGED <<toClient, misled>>

\* Those bytes are read as a length, of a body of zeros, unless the next frame
\* came with them.
ReadTail ==
  /\ ClientReads("response") /\ cut = "tail"
  /\ \/ NotResponse /\ UNCHANGED misled
     \/ Len(toClient) > 1 /\ DispatchStray
  /\ cut' = "lost"
  /\ toClient' = Tail(toClient)

\* The message of the utun thread, whole or not; after a frame that was not
\* whole the client never finds the beginning of one again.
ReadStray ==
  /\ \/ ClientReads("stray") /\ cut # "tail"
     \/ ClientReads("response") /\ cut = "lost"
  /\ DispatchStray
  /\ \/ cut' = "lost" /\ toClient' \in {toClient, Tail(toClient)}
     \/ UNCHANGED cut /\ toClient' = Tail(toClient)

-----------------------------------------------------------------------------
\* Mutant: the frame that was taken is counted as still there.
TakesUncounted(n, frame) ==
  /\ conn = "serving"
  /\ n \in 0..(Len(toServer) - arrived)
  /\ arrived < Len(toServer)
  /\ arrived + n > 0
  /\ Head(toServer) = frame
  /\ toServer' = Tail(toServer)
  /\ arrived' = arrived + n
  /\ UNCHANGED <<clientVars, toClient, broken>>

\* One read callback of the server: n more frames have come whole, or only a
\* part of one, and the first that is there is taken.  Without a whole frame
\* the callback changes nothing.
Takes(n, frame) ==
  /\ conn = "serving"
  /\ n \in 0..(Len(toServer) - arrived)
  /\ arrived < Len(toServer)
  /\ arrived + n > 0
  /\ Head(toServer) = frame
  /\ toServer' = Tail(toServer)
  /\ arrived' = arrived + n - 1
  /\ UNCHANGED <<clientVars, toClient, broken>>

\* Mutant: the answer is written before the interface is there.
TakeEstablishUnset(n) ==
  /\ Takes(n, "establish")
  /\ conn' = "answering"
  /\ UNCHANGED <<iface, worker, forwarded, held, failed, written>>

\* The interface and its thread, then the answer; or neither, when building it
\* reported an error; or the end of the process, without a utun socket.
TakeEstablish(n) ==
  /\ Takes(n, "establish")
  /\ \/ conn' = "answering" /\ iface' = "open" /\ worker' = "waiting"
     \/ UNCHANGED <<conn, iface, worker>>
     \/ conn' = "dead" /\ UNCHANGED <<iface, worker>>
  /\ UNCHANGED <<forwarded, held, failed, written>>

\* A packet that came while it was being written can garble the answer.
Answer ==
  /\ conn = "answering"
  /\ conn' = "serving"
  /\ \/ toClient' = Append(toClient, "response")
     \/ worker = "spent" /\ toClient' = Append(toClient, "stray")
  /\ UNCHANGED <<clientVars, toServer, arrived, broken, iface, worker, forwarded, held, failed, written>>

\* The interface is used without a check that there is one.
TakeData(n, p) ==
  /\ Takes(n, p)
  /\ conn' = "retrying"
  /\ held' = <<p>>
  /\ UNCHANGED <<iface, worker, forwarded, failed, written>>

\* The socket of the interface takes a packet at once (SOCK_DGRAM) or not at
\* all, and then the loop tries again, from a byte before (UtunWrite).
WriteFails ==
  /\ conn = "retrying"
  /\ ~failed /\ failed' = TRUE
  /\ UNCHANGED <<clientVars, wire, conn, iface, worker, forwarded, held, written>>

\* Mutant: a packet the kernel does not take at once is given up.
WrittenOrDropped ==
  /\ conn = "retrying"
  /\ conn' = "serving"
  /\ written' = IF failed THEN written ELSE Append(written, <<Head(held), TRUE>>)
  /\ held' = <<>> /\ failed' = FALSE
  /\ UNCHANGED <<clientVars, wire, iface, worker, forwarded>>

\* Mutant: what a failed ::write did to the count stays for the next packet.
WrittenOnTop ==
  /\ conn = "retrying"
  /\ conn' = "serving"
  /\ written' = Append(written, <<Head(held), ~failed>>)
  /\ held' = <<>>
  /\ UNCHANGED <<clientVars, wire, iface, worker, forwarded, failed>>

\* The ::write that makes the count the packet's size: the packet went whole, or
\* after a failure with the bytes that the failures added.
Written ==
  /\ conn = "retrying"
  /\ conn' = "serving"
  /\ written' = Append(written, <<Head(held), ~failed>>)
  /\ held' = <<>> /\ failed' = FALSE
  /\ UNCHANGED <<clientVars, wire, iface, worker, forwarded>>

\* Mutant: the read event persists.
WorkerReadsAgain ==
  /\ iface = "open" /\ worker = "waiting" /\ Running
  /\ Len(toClient) < 3
  /\ UNCHANGED worker
  /\ forwarded' = forwarded + 1
  /\ toClient' = Append(toClient, "stray")
  /\ UNCHANGED <<clientVars, toServer, arrived, broken, conn, iface, held, failed, written>>

\* The one packet the utun thread reads: its message is the memory of an array
\* that SerializeToArray was not called for.  A read that failed is a packet of
\* size_t(-1) bytes, for which std::string throws: the process terminates.
WorkerReads ==
  /\ iface = "open" /\ worker = "waiting" /\ conn # "dead"
  /\ worker' = "spent"
  /\ forwarded' = forwarded + 1
  /\ \/ toClient' = (IF Running THEN Append(toClient, "stray") ELSE toClient) /\ UNCHANGED conn
     \/ conn' = "dead" /\ UNCHANGED toClient
  /\ UNCHANGED <<clientVars, toServer, arrived, broken, iface, held, failed, written>>

\* Mutant: freeing the client's bufferevent leaves its socket open.
ClosedUnlessFreed == client = "gone"

\* The client's socket is closed: BEV_OPT_CLOSE_ON_FREE, or by the kernel.
Closed == client \in {"freed", "gone"}

\* cb_event, at once or when the last bytes were read.
HangUp ==
  /\ conn = "serving" /\ (Closed \/ broken)
  /\ conn' = "closing"
  /\ UNCHANGED <<clientVars, wire, iface, worker, forwarded, held, failed, written>>

Destroy ==
  /\ conn = "closing"
  /\ conn' = "over"
  /\ iface' = IF iface = "open" THEN "deleted" ELSE iface
  /\ UNCHANGED <<clientVars, wire, worker, forwarded, held, failed, written>>

ServerDies ==
  /\ conn \notin {"over", "dead"}
  /\ conn' = "dead"
  /\ UNCHANGED <<clientVars, wire, iface, worker, forwarded, held, failed, written>>

Break ==
  /\ ~broken /\ broken' = TRUE
  /\ UNCHANGED <<clientVars, toServer, arrived, toClient, serverVars>>

-----------------------------------------------------------------------------
ClientStep ==
  \/ Connected \/ LinkEnds \/ ClientGoes
  \/ \E p \in Packet : TakePacket(p)
  \/ ReadResponse \/ ReadCutResponse \/ ReadTail \/ ReadStray

ServerStep ==
  \/ \E n \in 0..Len(toServer) : TakeEstablish(n) \/ \E p \in Packet : TakeData(n, p)
  \/ Answer \/ WriteFails \/ Written \/ WorkerReads
  \/ HangUp \/ Destroy \/ ServerDies

Next == ClientStep \/ ServerStep \/ Break

Spec == Init /\ [][Next]_vars

\* The loop thread is scheduled, and TCP tells it of the client's end.
Fairness == WF_vars(Answer) /\ WF_vars(~broken /\ HangUp) /\ WF_vars(Destroy)

FairSpec == Spec /\ Fairness

-----------------------------------------------------------------------------
Frames(s) == Seq({"establish"} \cup s)

TypeOK ==
  /\ client \in Links /\ calls \in 0..2 /\ settings \subseteq {"server", "stray"}
  /\ local \in BOOLEAN /\ cut \in {"frame", "tail", "lost"} /\ misled \in BOOLEAN
  /\ taken \in Seq(Packet) /\ written \in Seq(Packet \X BOOLEAN)
  /\ toServer \in Frames(Packet) /\ arrived \in 0..Len(toServer)
  /\ toClient \in Seq({"response", "stray"}) /\ Len(toClient) <= 2
  /\ conn \in LoopAt /\ iface \in {"none", "open", "deleted"}
  /\ worker \in {"none", "waiting", "spent"} /\ forwarded \in Nat
  /\ held \in Seq(Packet) /\ Len(held) <= 1
  /\ failed \in BOOLEAN /\ broken \in BOOLEAN

(***************************************************************************)
(* Through two processes, their threads, cut frames, failed writes and     *)
(* crashes, the pair is a PacketTunnel: it is up only with an interface    *)
(* behind it, and the interface gets the device's packets, once, in order, *)
(* and whole unless a ::write of that very packet failed; of the packets   *)
(* for the device, the server takes one.                                   *)
(***************************************************************************)
Tunnel == INSTANCE PacketTunnel
            WITH ready <- iface # "none", up <- calls > 0, answers <- forwarded,
                 failing <- failed

ImplementsTunnel == Tunnel!TunnelSpec

\* The packets on their way to the server: the request went before them.
OnTheWay ==
  IF toServer # <<>> /\ Head(toServer) = "establish" THEN Tail(toServer) ELSE toServer

PacketsOf(writes) == [i \in 1..Len(writes) |-> writes[i][1]]

\* Those that are through, or on their way.
Through == PacketsOf(written) \o held \o OnTheWay

(***************************************************************************)
(* As long as both ends hold the link, no packet taken from the device is  *)
(* lost, whatever fails: it was written, whole or not, is being written,   *)
(* or is on its way or waiting in the server's buffer, in order.           *)
(***************************************************************************)
NothingLost == client = "open" /\ Running => taken = Through

(***************************************************************************)
(* The message that is sent without being serialised is the only thing     *)
(* that can mislead the client: until it is read, the completion handler   *)
(* was called once at most, only the server's addresses were configured,   *)
(* and nothing was written to the device's tun.                            *)
(***************************************************************************)
UntilStray == misled \/ (calls <= 1 /\ settings \subseteq {"server"} /\ ~local)

(***************************************************************************)
(* A client that goes, or gives up its link, is noticed: its connection is *)
(* torn down and its interface with it, unless the network broke, the      *)
(* process died, or the loop thread retries a failing ::write for ever.    *)
(***************************************************************************)
ServerNotices ==
  \/ client \in {"freed", "gone"} ~>
       (conn = "over" /\ iface # "open") \/ conn = "dead" \/ broken
  \/ <>[](conn = "retrying")

-----------------------------------------------------------------------------
\* What makes them inductive.  The request goes first, and once; the interface
\* is there from the moment the server has taken it.
RequestFirst ==
  /\ client = "connecting" => toServer = <<>> /\ iface = "none"
  /\ \A i \in 1..Len(toServer) : toServer[i] = "establish" => i = 1 /\ iface = "none"

\* Nothing comes to the client, and nothing is taken for its tunnel, without one.
InterfaceFirst ==
  /\ calls > 0 \/ toClient # <<>> \/ conn = "answering" => iface # "none"
  /\ calls = 0 => taken = <<>>
  /\ (iface = "none") <=> (worker = "none")
  /\ forwarded = (IF worker = "spent" THEN 1 ELSE 0)

\* One message is the answer, one the utun thread's.
Messages ==
  Len(toClient) <= (IF worker = "spent" THEN 1 ELSE 0)
                     + (IF iface # "none" /\ conn # "answering" THEN 1 ELSE 0)

Responses == {i \in 1..Len(toClient) : toClient[i] = "response"}

\* The answer is given once and read once, unless the client is misled.
OneResponse ==
  /\ \A i, j \in Responses : i = j
  /\ conn = "answering" => calls = 0 /\ Responses = {}
  /\ calls > 0 /\ ~misled => Responses = {}

\* The packets are written in the order they were taken; some may be missing at
\* the end, once the link has gone.
InOrder ==
  /\ conn = "retrying" => Len(held) = 1
  /\ conn \in {"serving", "answering"} => held = <<>>
  /\ Len(Through) <= Len(taken)
  /\ \A i \in 1..Len(Through) : taken[i] = Through[i]
  /\ client \in {"connecting", "open"} => Len(taken) = Len(Through)

IInv ==
  /\ TypeOK /\ RequestFirst /\ InterfaceFirst /\ Messages /\ OneResponse /\ InOrder
  /\ UntilStray
=============================================================================
