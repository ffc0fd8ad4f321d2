----------------------------- MODULE SLConnection -----------------------------
(***************************************************************************)
(* One connection of the server (SLConnection.cpp) with its two threads:   *)
(* "loop" dispatches the connection's event base and runs its callbacks,   *)
(* "utun" is the detached thread the ESTABLISH request starts, which waits *)
(* for a packet from the utun interface and writes it to the client.  The  *)
(* client is the one of this repository: it asks ESTABLISH once, when it   *)
(* connects, and sends DATA after a message came back.                     *)
(*                                                                         *)
(* Nothing synchronises the two threads.  Where the behaviour is undefined *)
(* (the bufferevent is made without BEV_OPT_THREADSAFE, the closures of    *)
(* the utun thread refer to a local variable of the callback, objects are  *)
(* freed under that thread) a step has its normal outcome, or the process  *)
(* breaks, and `fault' names how.                                          *)
(***************************************************************************)
EXTENDS Naturals, Sequences

VARIABLES pc,        \* pc[t]: where each thread is
          bev,       \* the bufferevent of the connection
          utun,      \* mUTUNInterface: null, an object with its socket, or deleted
          base,      \* utun->mBase, which only dispatchUTUNPacket assigns
          asked,     \* the client's ESTABLISH was handled
          gone,      \* the socket has nothing more to read but its end or an error
          out,       \* what was put into the output evbuffer, in order
          flushed,   \* how much of it the socket has taken
          writing,   \* the threads inside bufferevent_write
          raced,     \* two threads were in the output evbuffer at once
          early,     \* a packet was taken while the response was being written
          fault      \* how undefined behaviour broke the process, if it did

objects == <<bev, utun, base>>
buffer == <<out, flushed, writing, raced>>
vars == <<pc, objects, asked, gone, buffer, early, fault>>

Threads == {"loop", "utun"}

\* loop: in event_base_dispatch, writing the response (header, then body),
\* retrying in SLUTUNInterface::writePacket, or past the dispatch.  utun: not
\* created, created, waiting for a packet, writing it, or ended.
LoopAt == {"idle", "hdr", "body", "retrying", "freed", "returned", "baseless", "over"}
UtunAt == {"none", "start", "armed", "hdr", "body", "done"}

Move(t, from, to) == pc[t] = from /\ pc' = [pc EXCEPT ![t] = to]

\* The callback that created the utun thread has not returned, so the local
\* variable `connection' its closures refer to still exists.
CallbackRuns == pc["loop"] \in {"hdr", "body"}

Break(how) == fault' = how /\ UNCHANGED <<pc, objects, asked, gone, buffer, early>>

Init ==
  /\ pc = [t \in Threads |-> IF t = "loop" THEN "idle" ELSE "none"]
  /\ bev = "live" /\ utun = "null" /\ base = "garbage"
  /\ asked = FALSE /\ gone = FALSE
  /\ out = <<>> /\ flushed = 0 /\ writing = {} /\ raced = FALSE
  /\ early = FALSE
  /\ fault = "none"

-----------------------------------------------------------------------------
\* Mutant: the built interface is not set on the connection.
EstablishUnset ==
  /\ ~asked /\ ~gone
  /\ pc["loop"] = "idle"
  /\ pc' = [t \in Threads |-> IF t = "loop" THEN "hdr" ELSE "start"]
  /\ asked' = TRUE
  /\ UNCHANGED <<objects, gone, buffer, early, fault>>

\* ESTABLISH, the interface built: mUTUNInterface is set, the thread created
\* and detached, and then the response is written.
Establish ==
  /\ ~asked /\ ~gone
  /\ pc["loop"] = "idle"
  /\ pc' = [t \in Threads |-> IF t = "loop" THEN "hdr" ELSE "start"]
  /\ asked' = TRUE
  /\ utun' = "open"
  /\ UNCHANGED <<bev, base, gone, buffer, early, fault>>

\* A step of building it reported an error: the callback returns, the response
\* it has already serialised is dropped and the half-built interface leaks.
EstablishFails ==
  /\ ~asked /\ ~gone
  /\ pc["loop"] = "idle"
  /\ asked' = TRUE
  /\ UNCHANGED <<pc, objects, gone, buffer, early, fault>>

\* No socket for it: the constructor of SLUTUNInterface ends the process.
NoUtunSocket ==
  /\ ~asked /\ ~gone
  /\ pc["loop"] = "idle"
  /\ Break("terminated")

\* DATA: the packet is written to the interface, with no check that there is
\* one, in a loop that retries for as long as ::write fails.
Data ==
  /\ pc["loop"] = "idle" /\ ~gone
  /\ \E i \in 1..flushed : out[i][2] = "body"
  /\ \/ /\ utun # "null"
        /\ Move("loop", "idle", "retrying")
        /\ UNCHANGED <<objects, asked, gone, buffer, early, fault>>
     \/ utun = "null" /\ Break("nullUtun")

WrittenToUtun ==
  /\ Move("loop", "retrying", "idle")
  /\ UNCHANGED <<objects, asked, gone, buffer, early, fault>>

-----------------------------------------------------------------------------
\* SLConnection::writePacket, by either thread: bufferevent_write of the
\* length, bufferevent_write of the body, no lock around either.
AtPiece(t) == pc[t] \in {"hdr", "body"}

\* The utun thread comes here through `connection'.
EnterWrite(t) ==
  /\ AtPiece(t)
  /\ t \notin writing
  /\ writing' = writing \cup {t}
  /\ raced' = (raced \/ writing # {})
  /\ UNCHANGED <<pc, objects, asked, gone, out, flushed, early, fault>>

\* Mutant: the worker takes itself for the loop thread.
AfterPieceIdle(t) == IF pc[t] = "hdr" THEN "body" ELSE "idle"

\* Mutant: the response is its length only.
AfterPieceShort(t) ==
  CASE t = "loop" -> "idle"
    [] t = "utun" /\ pc[t] = "hdr" -> "body"
    [] t = "utun" /\ pc[t] = "body" -> "done"

AfterPiece(t) ==
  CASE pc[t] = "hdr" -> "body"
    [] pc[t] = "body" /\ t = "loop" -> "idle"
    [] pc[t] = "body" /\ t = "utun" -> "done"

\* The piece is at the end of the buffer, or lost in a buffer two threads
\* damaged or one that is freed.
LeaveWrite(t) ==
  /\ AtPiece(t)
  /\ t \in writing
  /\ writing' = writing \ {t}
  /\ pc' = [pc EXCEPT ![t] = AfterPiece(t)]
  /\ \/ bev = "live" /\ out' = Append(out, <<t, pc[t]>>)
     \/ (raced \/ bev = "freed") /\ UNCHANGED out
  /\ UNCHANGED <<objects, asked, gone, flushed, raced, early, fault>>

\* bufferevent_writecb: the socket takes part of the buffer.  It runs in the
\* loop thread, whatever the utun thread is doing to the same buffer.
Flush ==
  /\ pc["loop"] = "idle"
  /\ flushed' \in (flushed + 1)..Len(out)
  /\ raced' = (raced \/ writing # {})
  /\ UNCHANGED <<pc, objects, asked, gone, out, writing, early, fault>>

-----------------------------------------------------------------------------
\* dispatchUTUNPacket: mReadHandle and mBase are set, and one read event is
\* added, without EV_PERSIST.
WorkerStarts ==
  /\ Move("utun", "start", "armed")
  /\ base' = "live"
  /\ UNCHANGED <<bev, utun, asked, gone, buffer, early, fault>>

\* A packet: cb_event reads it and calls the handler.  The event is not added
\* again, so the thread ends when the handler has returned.
PacketArrives ==
  /\ utun = "open"
  /\ Move("utun", "armed", "hdr")
  /\ early' = CallbackRuns
  /\ UNCHANGED <<objects, asked, gone, buffer, fault>>

\* The read failed, and its -1 is taken for the length of the packet, more than
\* a string can hold: the exception leaves the thread and ends the process.
ReadFails ==
  /\ utun = "open"
  /\ pc["utun"] = "armed"
  /\ Break("terminated")

\* ~SLUTUNInterface breaks the worker's loop, if the worker still sees it.
WorkerBroken ==
  /\ utun = "deleted"
  /\ Move("utun", "armed", "done")
  /\ UNCHANGED <<objects, asked, gone, buffer, early, fault>>

-----------------------------------------------------------------------------
PeerGone ==
  /\ ~gone
  /\ gone' = TRUE
  /\ UNCHANGED <<pc, objects, asked, buffer, early, fault>>

\* Mutant: any event frees the bufferevent, a timeout too.
HangUpAnytime ==
  /\ Move("loop", "idle", "freed")
  /\ bev' = "freed"
  /\ UNCHANGED <<utun, base, asked, gone, buffer, early, fault>>

\* cb_event: bufferevent_free, which leaves the loop without events.
HangUp ==
  /\ gone
  /\ Move("loop", "idle", "freed")
  /\ bev' = "freed"
  /\ UNCHANGED <<utun, base, asked, gone, buffer, early, fault>>

\* Mutant: the utun thread is joined, not detached.
LoopReturnsJoined ==
  /\ pc["utun"] \in {"none", "done"}
  /\ Move("loop", "freed", "returned")
  /\ UNCHANGED <<objects, asked, gone, buffer, early, fault>>

\* event_base_dispatch, and with it resume(), returns.
LoopReturns ==
  /\ Move("loop", "freed", "returned")
  /\ UNCHANGED <<objects, asked, gone, buffer, early, fault>>

\* ~SLConnection: the connection's event base goes first ...
FreeBase ==
  /\ Move("loop", "returned", "baseless")
  /\ UNCHANGED <<objects, asked, gone, buffer, early, fault>>

\* Mutant: the destructor forgets the interface.
DeleteNothing ==
  /\ Move("loop", "baseless", "over")
  /\ UNCHANGED <<objects, asked, gone, buffer, early, fault>>

\* ... then the interface, if there is one: its loop broken, its base freed,
\* its socket closed.
DeleteUtun ==
  /\ Move("loop", "baseless", "over")
  /\ IF utun = "open"
     THEN utun' = "deleted" /\ base' = "freed"
     ELSE UNCHANGED <<utun, base>>
  /\ UNCHANGED <<bev, asked, gone, buffer, early, fault>>

-----------------------------------------------------------------------------
\* What is undefined, and may break the process, where it happens.

\* The closures of the utun thread are used after the callback's return.
Dangling ==
  /\ pc["utun"] \in {"start", "hdr"}
  /\ "utun" \notin writing
  /\ ~CallbackRuns
  /\ Break("dangling")

\* The utun thread is at work on a bufferevent or an interface that is freed.
UseAfterFree ==
  /\ \/ pc["utun"] \in {"hdr", "body"} /\ bev = "freed"
     \/ pc["utun"] \in {"start", "armed"} /\ utun = "deleted"
  /\ Break("useAfterFree")

\* The interface is deleted before its thread assigned mBase.
GarbageBase ==
  /\ pc["loop"] = "baseless"
  /\ utun = "open"
  /\ base = "garbage"
  /\ Break("garbageBase")

\* Two threads in the unlocked output buffer.
BufferRace == raced /\ Break("race")

-----------------------------------------------------------------------------
RequestStep == Establish \/ EstablishFails \/ NoUtunSocket \/ Data

Teardown == HangUp \/ LoopReturns \/ FreeBase \/ DeleteUtun

WriteStep(t) == EnterWrite(t) \/ LeaveWrite(t)

UtunStep == WorkerStarts \/ PacketArrives \/ ReadFails \/ WorkerBroken

Undefined == Dangling \/ UseAfterFree \/ GarbageBase \/ BufferRace

Next ==
  /\ fault = "none"
  /\ \/ RequestStep \/ WrittenToUtun \/ Flush \/ Teardown
     \/ \E t \in Threads : WriteStep(t)
     \/ UtunStep
     \/ PeerGone
     \/ Undefined

Spec == Init /\ [][Next]_vars

\* The loop thread is scheduled: it finishes the response it is writing and,
\* once the socket reports its end, goes through its teardown.  The client,
\* the packets, the kernel's answers to ::write and the utun thread owe nothing.
Fairness == WF_vars(fault = "none" /\ (WriteStep("loop") \/ Teardown))

FairSpec == Spec /\ Fairness

-----------------------------------------------------------------------------
Pieces == Threads \X {"hdr", "body"}

TypeOK ==
  /\ pc \in [Threads -> LoopAt \cup UtunAt]
  /\ pc["loop"] \in LoopAt /\ pc["utun"] \in UtunAt
  /\ bev \in {"live", "freed"}
  /\ utun \in {"null", "open", "deleted"}
  /\ base \in {"garbage", "live", "freed"}
  /\ out \in Seq(Pieces) /\ flushed \in 0..Len(out)
  /\ writing \subseteq Threads
  /\ asked \in BOOLEAN /\ gone \in BOOLEAN
  /\ raced \in BOOLEAN /\ early \in BOOLEAN
  /\ fault \in {"none", "terminated", "nullUtun", "dangling",
                "useAfterFree", "garbageBase", "race"}

\* What the client can read: the response, then the packet, or a beginning of
\* that.
ResponseHdr == <<"loop", "hdr">>
ResponseBody == <<"loop", "body">>
PacketHdr == <<"utun", "hdr">>
PacketBody == <<"utun", "body">>

Response == <<ResponseHdr, ResponseBody>>

Readable == {<<>>, <<ResponseHdr>>, Response, Append(Response, PacketHdr),
             Response \o <<PacketHdr, PacketBody>>}

(***************************************************************************)
(* Two threads write frames of two pieces into one buffer without a lock.  *)
(* Unless a packet was taken before the response was written, or the two   *)
(* threads met inside the buffer, the client gets the response and then    *)
(* the packet, never a piece of one inside the other, and at a hang-up     *)
(* loses only the end.                                                     *)
(***************************************************************************)
FramesIntact ==
  ~early /\ ~raced => out \in Readable

(***************************************************************************)
(* The DATA branch uses mUTUNInterface unchecked.  It never finds nullptr: *)
(* whatever reached the client, and made it send DATA, was written after   *)
(* the interface was set, also when the message came from the utun thread. *)
(***************************************************************************)
InterfaceBeforeData == fault # "nullUtun"

(***************************************************************************)
(* With the worker waiting for its packet, or never created, and the       *)
(* client there, nothing undefined is reached: no free, no dangling        *)
(* reference, no race.  Only a failed utun socket, or a failed read of it, *)
(* ends such a process.                                                    *)
(***************************************************************************)
QuietIsSafe ==
  pc["utun"] \in {"none", "armed"} /\ ~gone => fault \in {"none", "terminated"}

(***************************************************************************)
(* A connection that is over has released the interface that ESTABLISH     *)
(* built, at whatever point of the exchange the peer left.                 *)
(***************************************************************************)
UtunReleased == pc["loop"] = "over" => utun # "open"

(***************************************************************************)
(* Once the peer is gone the connection comes to its end, whatever its utun*)
(* thread is doing, or the process breaks; the one thing that can hold it  *)
(* for ever is the retry loop of SLUTUNInterface::writePacket.             *)
(***************************************************************************)
TeardownCompletes ==
  (gone ~> (pc["loop"] = "over" \/ fault # "none")) \/ <>[](pc["loop"] = "retrying")


-----------------------------------------------------------------------------
\* The strengthening that makes the safety properties inductive.

\* The interface is set when its thread is created, and deleted last; the
\* bufferevent is freed on the way out, for which the peer must be gone.
Lifetimes ==
  /\ utun = "null" <=> pc["utun"] = "none"
  /\ ~asked => utun = "null"
  /\ utun = "deleted" => pc["loop"] = "over"
  /\ UtunReleased
  /\ bev = "freed" <=> pc["loop"] \in {"freed", "returned", "baseless", "over"}
  /\ bev = "freed" => gone

\* A thread is inside bufferevent_write only between the pieces it writes, and
\* the loop thread writes only after it created the other.
WritersKnown ==
  /\ \A t \in writing : AtPiece(t)
  /\ pc["utun"] = "none" => out = <<>> /\ ~CallbackRuns

\* Two threads meet in the buffer only once a packet was taken.
RacedByPacket == raced => pc["utun"] \in {"hdr", "body", "done"}

\* What broke the process was there to break it.
FaultExplained ==
  /\ InterfaceBeforeData
  /\ fault = "dangling" => pc["utun"] \in {"start", "hdr"}
  /\ fault \in {"useAfterFree", "garbageBase"} => gone
  /\ fault = "race" => raced

\* A packet not taken early waits for the response's two pieces.
NoPacketYet ==
  /\ ~early /\ CallbackRuns => pc["utun"] \in {"start", "armed"}
  /\ early => pc["utun"] \in {"hdr", "body", "done"}

\* What an orderly buffer holds at each place of the two threads.
Orderly ==
  ~early /\ ~raced =>
    /\ pc["loop"] = "hdr" => out = <<>>
    /\ pc["loop"] = "body" => out = <<ResponseHdr>>
    /\ ~CallbackRuns /\ pc["utun"] \in {"start", "armed", "hdr"} => out = Response
    /\ pc["utun"] = "body" =>
         \/ out = Append(Response, PacketHdr)
         \/ bev = "freed" /\ out = Response
    /\ pc["utun"] = "done" => out \in Readable

IInv == TypeOK /\ Lifetimes /\ WritersKnown /\ RacedByPacket /\ FaultExplained
               /\ NoPacketYet /\ Orderly
=============================================================================
