# A verification of SplendidLinker in TLA+

SplendidLinker is a VPN of two halves: a network extension with a tunnel client
(`PacketTunnel/`, `SLClient`), and a tunnel server (`SLServer`, `SLConnection`,
`SLUTUNInterface`) that puts the clients' packets on a utun interface. They
speak length-prefixed protobuf messages over TCP, on libevent 2.0. Paths below
are relative to `src/SplendidTunnel/SplendidTunnel/` unless they say otherwise.

## Inventory

| Part | State | Operations | Hard behaviour | What makes it correct |
|---|---|---|---|---|
| `SLServer` | `mThreadCount`, the accepted sockets, one detached thread for each connection | `startServer(WithOptions)`, `cb_connlisterner`, the thread's body; `writePacketToIp`, `releaseConnection` (unused, empty) | a check and an increment that are apart; decrements by the threads; an uninitialised counter; early returns | the counter counts the threads; connections in memory are bounded; refused only when full; every place is given back |
| `SLConnection` | bufferevent, event base, `mUTUNInterface`, packet deque (unused) | read callback (ESTABLISH, DATA), `cb_event`, `resume`, `writePacket`, destructor; `pushPacket`, `popPacket` (unused) | two unsynchronised threads; closures that refer to a local; objects freed under a thread | frames never mixed; interface set before DATA; released at the end; which faults need what |
| Framing, server | input evbuffer | `cb_bufferevent_will_read`, first half | TCP cuts and joins frames | a FIFO of whole frames |
| Framing, client | input evbuffer | `SLClient.cpp`, `cb_bufferevent_will_read` | no wait for a whole frame | intact until a callback finds a cut frame, or a body nobody wrote |
| `SLUTUNInterface` | utun socket, `mBase`, `mReadHandle` | constructor, `dispatchUTUNPacket`, `cb_event`, `writePacket`, destructor | errors reported through a callback while construction goes on; -1 counted as a length; a one-shot event | as many bytes written as given; a usable object or a reported error |
| `SLClient` | bufferevent, address settings | start, event callback, read callback, `writePacket` | event flags compared for equality; two threads | one ESTABLISH after each connect; errors reported as what they are |
| `PacketTunnelProvider` (`src/PacketTunnel`) | `_clientTunnel`, `_completionBlock` | start, stop, packet loop, callbacks | an event thread started before the block is set | one thread answers the system, and the handler is there when called |
| `SLTunnel` | event base, callbacks | accessors, `dispatchEvent` | none of its own | - |
| `TunnelMessage` | the fields, and the packet it points to | generated: construction, accessors, `ByteSize`, serialisation, parser; copy, merge, swap (unused) | bodies that are cut, or that nobody wrote; a parse result nobody looks at | what is sent is understood; no cut message configures anything; the parser ends |
| AppProxy, the app, the test programs | - | templates, user interface | - | - |

How they interact: the listener's thread creates a thread for each connection
(shared: `mThreadCount`). The connection's thread runs its callbacks; ESTABLISH
makes it create a second thread, which shares the bufferevent, the connection
object and the interface with it. Client and server share one TCP stream in
each direction. The provider and its client's event thread share `SLClient`.

`PROJECT.json` lists, under "hazards", what each of these can go wrong with, at
its line, and the property that watches it; two have none, and a note says why.

## Modules

`SLServer` - one listener and any number of connections. `phase[c]` is the
place of a connection between the kernel's accept queue and the end of its
thread; `count` is `mThreadCount`, `start` what it held initially, `fd` the
accepted socket. `Admit` is the check of line 29 with the construction up to
line 40, `Spawn` the increment with the thread's creation, so other threads'
`Release` can come between them; `Refuse` and `BevFails` are the two early
returns; `Construct`, `HangUp`, `Return`, `Delete` and `Release` are the
thread's body in its order. The listener is one thread: `ListenerIdle`. Of a
connection's requests only what may keep its thread from ending is here: a DATA
packet being written to the utun interface (`WriteData`, `DataWritten`), and
what ends the whole process (`Terminate`).

`AdmissionControl` - what a server with a limit promises, on sets of
connections, without counter or threads. `SLServer` implements it: in service
are the connections between the increment and the decrement, finished are the
served and those whose bufferevent could not be built.

`FrameStream` - one direction of the TCP stream, bytes counted but not
represented: `ends` holds the offsets at which frames end, `received` what
libevent has read from the socket, `consumed` what the callback drained,
`handled` the frames handed on, `freed` whether the bufferevent is gone.
Where the reader is not at a frame's beginning, the bytes spell any length of
`Stray`.

`ServerReader` and `ClientReader` - the two read callbacks on `FrameStream`. A
callback runs once after each read from the socket, and only then. The server
peeks (`Wait`) and takes one frame (`Take`); the client drains whatever is
there, and a message that is not a RESPONSE frees the bufferevent. `blank` are
the server's frames whose body was sent as it was allocated, which may be one
(`SLConnection.cpp:110-112`).

`FrameChannel` - a FIFO of frames. `ServerReader` implements it.

`SLConnection` - one connection. `pc` places the loop thread (idle in its
dispatch, writing the response's header or body, retrying in the utun write,
the steps of the teardown) and the utun thread (created, waiting, writing). A
`bufferevent_write` has a beginning and an end (`EnterWrite`, `LeaveWrite`), so
that two threads, or a write and a flush, can overlap. Undefined behaviour is a
choice: the step's normal outcome, or a `fault` that names what happened and
stops the model (`Dangling`, `UseAfterFree`, `GarbageBase`, `BufferRace`). So
does a read of the utun socket that failed (`ReadFails`), whose -1 as a length
makes `std::string` throw. A buffer that was raced in may also lose pieces.

`TunnelClient` - `PacketTunnelProvider` and its `SLClient`. `pc` places three
threads: the provider's queue in `startTunnelWithOptions` (`StartTunnel`,
`SpawnThread`, `AnswerStart`), the detached thread that dispatches the client's
event base, and the packet flow's queue in `handlePacket` (`WritePiece`).
`Establish` is each message that says ESTABLISH: the code does not look whether
it is the first, so each calls the block and starts one more packet loop, of
which `reads` are waiting for packets. The packet flow is the system's and is
taken to call one handler at a time. The
closure of the detached thread refers to a local of the start method
(`DanglingSelf`); `block` is `_completionBlock`, `calls` what the system's
handler was called with. libevent holds the bufferevent's lock while a callback
runs, so a callback is one step. `end` says how the process ended.

`UtunWrite` - one call of `SLUTUNInterface::writePacket`. A `::write` takes
some of what is left (`WriteSome`) or fails (`WriteFails`), and its -1 is added
to `writeLen` like a count. `pieces` is what reached the socket, as offsets in
the packet, negative ones before it.

`UtunInterface` - the construction and the end of the interfaces of any number
of connections, on the process's descriptor table `owner`. `num` is the number a
thread keeps for a descriptor, whoever has it by now. The constructor's steps
are actions, since other threads open and close descriptors between them:
`CreateSocket` (or `NoSocket`, for whatever reason, which terminates the process), `GetInfo`,
`Connect`, `OpenDatagram`, `SetAddress` with the first of the two closes of the
datagram socket, `CloseDatagram` with the second and with the callback's look at
what was reported. `reused` records that a number was given out between the two.

`TunnelMessage` - the fields, the messages the programs build, their size
(`ByteSizeLong`) and their bytes (`Serialize`), each translated from its own
code: a body (`Body`) is as long as the one says and holds what the other wrote. Letters and addresses are opaque but for their number.

`MessageParser` - the generated parser, on the bodies the two read callbacks
give it: the requests, which arrive whole; the response, read by the client
while it arrives, any number of times, with zeros for bytes that are not there
(`ClientReads`); and the unwritten memory of the server's DATA message
("stray"). One action for each group of cases of the switch; the packet has its
limit inside the message's. `ServerTakes` and `ClientTakes` are the callbacks'
dispatch.

`TunnelSystem` - one client, the provider around it, its connection on the
server and the stream between them. It composes the other modules' results:
frames are written in one step (`SLConnection`, `TunnelClient` say when), a read
callback of the server takes one of the frames that have arrived
(`ServerReader`), the client reads a response whole, or cut and then its rest
(`ClientReader`, `MessageParser`), or the message nobody serialised, which it
takes for anything (`DispatchStray`). A `::write` to the interface may fail any
number of times (`WriteFails` records that one did); the packet then goes with
the bytes those failures add (`UtunWrite`), so `written` keeps for each packet
whether it went whole. Both processes may end at any step and the
network may break; nothing is persisted or retried, so there is no recovery.
`PacketTunnel` - what the pair promises: up only once the server has an
interface, packets once and in order, each of them whole unless the interface
refused it first (`Refuse`), and one message for the device.
`TunnelSystem` implements it.

`SLServerProofs`, `SLConnectionProofs`, `TunnelClientProofs`, `FramingProofs`
(the stream and both its readers), `UtunWriteProofs`, `UtunInterfaceProofs`,
`MessageParserProofs`, `TunnelSystemProofs` - theorems and the lemmas they rest
on. `MC...` - instances for TLC.
The operators introduced as mutants in the modules are plausible mistakes, used
to see that each property notices one; no specification refers to them.

## Runs

| Run | Instance | What it shows |
|---|---|---|
| `server` | 4 connections, limit 1, counter from -1, 0 or 2 | the counter, the bound on memory, justified refusals; `SLServer` implements `AdmissionControl`; places are given back, but for a thread that retries for ever |
| `server_overflow` | 3 connections, counter from 0 | violated: the comment of `SLServer.cpp:30`, waiting for concurrency to switch |
| `server_reader` | header of 2 bytes, bodies of 0, 1, 3; 4 frames; reads of up to 8 bytes | `ServerReader` implements `FrameChannel`; one frame for each read |
| `client_reader` | header of 2 bytes in radix 4, bodies of 1 and 5; 3 frames, any of them blank | intact until a short callback; freed only on a blank frame |
| `connection` | no constants | frames, interface, faults, in all interleavings; the teardown completes |
| `connection_answer` | the same | violated: `SLConnection.cpp:94`, a failed establishment returns a MessageCode |
| `client` | a short of 3 bits; ports 0, 1, 3, 4, 7, 8, 10; 3 packets; 2 ESTABLISH messages | one thread answers the system, one packet loop for each answer, order of the stream, ends of the process, ports; a start is answered or its handler kept |
| `client_plain` | the same | violated: the profile test's address, which has no port |
| `utun_write` | packets of 0, 1 and 5 bytes, 3 failures | the packet written whole, what failures add; the call returns |
| `utun_interface` | 3 connections (symmetric), 4 descriptors | sockets are their owner's; only failed constructions leak; what serves is configured |
| `message` | names of 0 and 3 bytes, packets of 0 to 130; stray bodies of up to 4 of 10 bytes | requests are understood; no cut response establishes with other addresses; the parser ends |
| `tunnel` | 3 packets of 2 kinds | `TunnelSystem` implements `PacketTunnel`, damaged packets marked; nothing lost on an open link; misled only by the unserialised message; the server notices a client that is gone |

Bounds. With a limit of 1 two connections are served together (the check is
`count > 1000`), a third is refused and a fourth finds the place that was given
back; -1 and 2 lie on either side of the limit. A header of two bytes can be
cut, and so can a body; reads of 8 bytes bring up to three frames at once; with radix
4 half a header already spells a wrong length for a body of 5 bytes; the
lengths that stray bytes spell include zero, short ones and one past the end.
Reading past `Total` never happens, so the streams are finite. A connection
has one ESTABLISH, since the client sends one when it connects, and one packet,
since the worker's event is not persistent; DATA is unbounded but leaves no
trace. The client's ports are zero, inside a short, past its sign bit but a port
of TCP, and past that; its third packet meets nothing that the second does not.
`MaxAnswers` is 2: the server answers ESTABLISH once, and the message that
nobody serialised can say it again.

`Sizes` and `MaxFails`: a packet of five bytes can be split around failures in
every way, and three failures at its start reach before it. With three
connections of three descriptors each on a table of four, numbers are given out
again and the table fills up. `PacketSizes`: the lengths of `packetdata` and of
the packet around it pass from one byte to two at 128, in two different sizes.
`StrayLength` is 4: four bytes hold two enums, a field with a length, or a packet
with a field. A number is the low 32 bits of its varint's, as in the library,
and a length above INT_MAX is refused. `MaxBody` (2^24 at most) bounds the zeroed body when a cut length is read, beyond
the response's own size it only adds zeros. UTF-8 is that of characters of one
byte and two; where the library's skipping of a group ends is left open.
`MaxPackets` of 3 from two kinds shows loss, repetition and reordering.

`CHECK_DEADLOCK FALSE` is set everywhere: all connections may be over, a stream
or a body may be at its end, and a broken or ended process does nothing.

Fairness. `SLServer`: weak for the listener and for each connection's thread,
which the kernel schedules, as long as there is a process; none for clients nor
for the end of a write to the utun socket (`PlaceGivenBack` names both
exceptions). `SLConnection`: weak for the loop
thread's own writing and teardown; none for the client, for packets, for the
utun thread or for `::write`, which may fail for ever (`TeardownCompletes`
names that exception). `gone` stands for a socket with nothing to read but its
end or an error, so no request follows it. `TunnelClient`: weak for the start
method, which the system runs to its end; none for its event thread, the network or packets.
`UtunWrite` and `MessageParser`: weak for the next step, since each is a loop of
one running thread. `TunnelSystem`: weak for the loop thread's answer and
teardown and, while the network carries, for the end of the stream reaching it;
none for the client, for packets, for `::write` (`ServerNotices` names the
exception), nor for anybody's end.

## What is proved

All proofs are checked by TLAPS, for every value of the constants that
satisfies the modules' assumptions.

`SLServer` assumes a finite set of connections, a natural limit and integer
initial values (`ServerAssumption`). The counter's value (`CountIsLive`) alone
does not bound anything: the check and the increment are apart. `IInv` adds
that one connection at most is between them (`OneAdmission`), that since its
check the counter can only have fallen (`RoomForAdmitted`), and that hence the
live threads never exceed the capacity (`PlacesRespected`). From it follow
`CounterCorrect`, `MemoryStaysBounded`, `RefusalsJustified` and, with a lemma
that maps each step to a step of the abstraction or a stutter,
`ServerImplementsAdmission`.

`SLConnection` has no assumptions. Its `IInv` says how the objects' lives
follow the loop thread's place (`Lifetimes`), who can be writing
(`WritersKnown`), that a race needs a packet (`RacedByPacket`), that a packet
not taken early waits for the response (`NoPacketYet`), what an orderly buffer
holds at each pair of places (`Orderly`), and what a fault presupposes
(`FaultExplained`). From it follow `FramesKeptIntact`, `InterfaceThere`,
`QuietSafe` and `InterfaceReleased`.

`TunnelClient` assumes that ports are natural and a short has at least one value
(`ClientAssumption`). Its `IInv` says what the other threads can be doing for
each place of the start method (`Starting`), which thread answers the system
(`Answered`), what a connection presupposes (`Connection`), what is written
before and after ESTABLISH (`Asked`, `PieceByPiece`), and what each way to end
presupposes (`EndExplained`). From it follow `OneAnswers`, `StreamInOrder`,
`SafeOnceStarted`, and, with a lemma on the conversion to a short, `RightPort`.

The readers assume natural sizes (`FrameAssumption`) and a header that can hold
every length a message has (`HeaderAssumption`; its first half, that a power of
a positive number is positive, is arithmetic that the prover does not know).
The common lemmas: at most one frame begins at an offset, since frames follow
one another (`FramesApart`); a write moves no earlier frame. `ServerReader`'s
invariant is that callbacks stop at frames' ends (`AtFrame`), so that the peeked
bytes are always a header: from it follow the refinement `ImplementsChannel`
and, by counting complete frames, `OneFramePerRead`. `ClientReader` has the same
invariant until the first short callback or the message that frees it, which
gives `IntactUntilShort`.

`UtunWrite` assumes natural sizes (`WriteAssumption`). Its `IInv`: the bytes
written are the count plus the failures (`Counted`), everything below the count
is in a piece (`Covered`), and without failures the count is where the last
piece ends (`AtLastPiece`). From it follow `PacketWritten` and `FailuresCounted`, for any
packet and any failures.

`UtunInterface` assumes that descriptors are natural numbers
(`DescriptorAssumption`); the connections and the table may be of any size. Its
`IInv` says that the table has a descriptor under the number its owner keeps
(`NumbersKept`), until when (`InTable`), that between two closes without reuse
the number stays free (`ClosedStaysFree`), and that what was not reported has
succeeded (`Progress`, `Answered`). From it follow `SocketsStayOwn`,
`LeakOnlyFailures` and `ConfiguredInService`.

`TunnelMessage` and `MessageParser`. `ParserAssumption` bounds the bytes of
unwritten memory and the packets of the interface; `NamesAssumption` says what
the code gives the parser: names that are UTF-8 (they are UTF8Strings) and
requests whose size fits an int (`ByteSize` returns one). The theorems are four
arguments.
- `SizeCountsBytes`: `ByteSize` counts what is written, for every message. Field
  by field this is arithmetic on varints; the resolvers need an induction on
  their number, made on the set of the numbers for which the two loops agree,
  which is all of them since they are well-founded (`SetInduction`).
- `ParserTypeCorrect`, for any body: each step leaves the place within the
  limit and the limit within the body. From the same lemmas, which say where a
  varint, a length with its bytes and a skipped field may end, `ParserAdvances`:
  `Left`, the bytes left counted twice and one more inside a packet, is a number
  that every step but the last makes smaller. That is why the parser stops;
  `Stops` itself, which needs fairness, is left to TLC.
- `RequestRead`: what was written is read back (`VarintRead`, `BytesRead`), so
  a parser that stands where a field of a request begins reads that field and
  stands where the next begins. `InRequest` lists these places with what has
  been read by then, and that the buffer holds the fields and nothing else is
  `SizeCountsBytes` again. From it follows `RequestUnderstood`.
- `CutResponseSafe`: the client's buffer holds the first bytes of the response,
  as many as it took, and zeros (`Arrived`). As long as the parser is within
  those bytes it stands where a field begins and has read the ones before it
  (`FieldStarts`, `AtField`); a field that is cut takes it beyond them or fails
  (`CutField`, `CutEnum`), and there the zero ends the message (`PastIsEnd`), so
  an unknown field is never met. Two facts make what is left safe (`Harmless`).
  The type comes behind all the addresses, so a message without it is no
  response and the client gives up; and once the type has arrived fewer than
  five bytes are left, so whatever the client does next it reads a header and no
  body, whose zeros are no response either. `InResponse` is their conjunction,
  and `EstablishWhole` follows. The lengths of names and the number and places
  of the cuts are arbitrary, and so is the length the client reads from a cut
  header; the addresses are those of the model, which have distinct lengths.

`TunnelSystem` assumes that an ESTABLISH is no packet (`SystemAssumption`) and
a natural bound on the packets. Its `IInv`: the request is the first thing on
the way and there is one (`RequestFirst`); who serves DATA has an interface
(`InterfaceFirst`); what is on its way to the client (`Messages`), where a
response is the only one and nothing was answered before it came
(`OneResponse`); and the packets written (whole or not), held by the thread that retries, on
their way and arrived are, in this order, the first of those taken, all of them
while the client holds its end (`InOrder`). Also of a connection that is ending,
`InOrder` says that a write extends `written` by the next of `taken`. From `IInv`
follow `NothingLost`, `UntilStray` and, with one lemma for the client's steps
and one for the server's, `SystemImplementsTunnel`: a step that writes is a
delivery, the first failure of a `::write` a refusal, one that gives the server
its interface or the client its addresses is the abstraction's, the others
stutter.

Only model-checked: liveness (`PlaceGivenBack`, `TeardownCompletes`,
`HandlerNotLost`, `Returns`, `Stops`, `ServerNotices`), which is out of the
prover's reach, and the violated runs. Every safety invariant, action property
and refinement that a passing run checks is a theorem.

## What the checks say of the code

Three runs end in a violation, of a comment or a test of the repository (see
"findings"). The others hold, but several hold with an exception that they
state, and the exception is reachable: `FailuresAddBytes` (a failed `::write`
sends a byte twice, or one from before the packet), `ImplementsTunnel` (the tunnel
puts such a packet through damaged), `OnlyFailuresLeak` (a failed
construction leaks its utun socket), `SocketsOwn` (a descriptor closed twice may
be another thread's by then), `UntilStray` (the packet the utun thread forwards
is uninitialised memory, and the client does whatever it says),
`IntactUntilShort` (such a message makes it free its connection), `OneAnswers`
(or call the completion handler again and start a second packet loop),
`PlaceGivenBack`, `TeardownCompletes` and `ServerNotices` (a thread may retry a
write for ever), `QuietIsSafe` and `SafeOnceStarted` (the undefined behaviours). `RefusedOnlyWhenFull` counts
from whatever the uninitialised `mThreadCount` held: from a value above the limit
it lets the first connection be refused. `PacketTunnel` has
`AnswerOnce`: of the packets for the device, the server forwards one.

## What is not modelled

- `pushPacket`, `popPacket` and the packet deque, `writePacketToIp` and
  `releaseConnection`: nothing calls them, or only a callback nobody registers.
- In `TunnelMessage`: copying, merging and swapping messages and handing packets
  out, which only the unused deque would reach; descriptors and reflection;
  serialisation to a stream (the programs serialise to arrays).
- Failed thread creation and failed `new`, which end the process with an
  exception; a body whose length no memory can hold among them.
- The network settings, sleep, wake and app messages of the provider; the app,
  the templates and the test programs, which keep no state.
- libevent and protobuf themselves: they are modelled from how they are used.

The map covers a small share of the repository's implementation lines for a
reason: most of them are libevent's headers (declarations, and the comments on
them) and the generated accessors, reflection and descriptors of the message.
Of the files written for SplendidLinker, `SLServer.cpp`, `SLConnection.cpp`,
`SLClient.cpp`, `SLUTNInterface.cpp` and `PacketTunnelProvider.mm`, every
function that changes state and is called is modelled.

## Plan

Done: `SLServer` with `AdmissionControl`; the framing modules; `SLConnection`;
`TunnelClient`; `UtunInterface` and `UtunWrite`; the message and its parser;
`TunnelSystem` with `PacketTunnel`; the proofs of all of them. What would come
next: several `TunnelSystem`s on one `SLServer`, and the response's addresses as
constants of any length.
