------------------------------ MODULE SLServer ------------------------------
(***************************************************************************)
(* The listening side of the tunnel server (SLServer.cpp): the listener    *)
(* thread admits connections in cb_connlisterner against mThreadCount, and *)
(* every admitted connection is a detached thread that builds an           *)
(* SLConnection, dispatches its event base until cb_event frees the        *)
(* bufferevent, deletes the SLConnection and only then decrements the      *)
(* counter.  What a connection does with its requests is the module        *)
(* SLConnection; here a connection lives and ends, and of its requests only*)
(* what may keep it from ending is left: a thread that writes a packet to  *)
(* its utun interface retries for as long as ::write fails, and whatever   *)
(* breaks in one thread ends the process.                                  *)
(*                                                                         *)
(* mThreadCount is a member std::atomic<long> no constructor initialises:  *)
(* the value it starts from is any element of InitCount.                   *)
(***************************************************************************)
EXTENDS Integers, FiniteSets

CONSTANTS Conn,        \* the TCP connections clients open to the listening port
          MaxThreads,  \* the limit of SLServer.cpp:29 (1000 there)
          InitCount    \* what mThreadCount may hold when the server starts

ASSUME ServerAssumption ==
  /\ IsFiniteSet(Conn)
  /\ MaxThreads \in Nat
  /\ InitCount \subseteq Int

VARIABLES status,      \* what startServerWithOptions returned, or that the process ended
          count,       \* mThreadCount
          start,       \* its initial value (never changes)
          phase,       \* phase[c]: how far connection c has come
          fd,          \* fd[c]: the accepted socket of c
          gone         \* gone[c]: the socket has nothing more to read but its end or an error

vars == <<status, count, start, phase, fd, gone>>

\* Queued: in the kernel's accept queue.  Admitted: past the check, its
\* bufferevent built, ++count not done yet.  Spawned .. Deleted: its thread
\* runs, Writing in SLUTUNInterface::writePacket.  Refused and NoBev:
\* cb_connlisterner returned early.
Phases == {"away", "queued", "refused", "nobev", "admitted", "spawned",
           "serving", "writing", "hungup", "returned", "deleted", "done"}

\* The phases between ++count and --count.
Counted == {"spawned", "serving", "writing", "hungup", "returned", "deleted"}

InPhase(S) == {c \in Conn : phase[c] \in S}

\* Mutant: the listener's callback runs on several threads.
ManyListeners == TRUE

\* The listener thread is outside cb_connlisterner.
ListenerIdle == InPhase({"admitted"}) = {}

Go(c, from, to) ==
  /\ phase[c] = from
  /\ phase' = [phase EXCEPT ![c] = to]

-----------------------------------------------------------------------------
Init ==
  /\ status = "created"
  /\ start \in InitCount
  /\ count = start
  /\ phase = [c \in Conn |-> "away"]
  /\ fd = [c \in Conn |-> "none"]
  /\ gone = [c \in Conn |-> FALSE]

\* Mutant: a status the enumeration does not have.
StartServerOther ==
  /\ status = "created"
  /\ status' = "Running"
  /\ UNCHANGED <<count, start, phase, fd, gone>>

\* startServerWithOptions: socket() or evconnlistener_new_bind may fail.
StartServer ==
  /\ status = "created"
  /\ status' \in {"Establish", "ConfigureInvalid"}
  /\ UNCHANGED <<count, start, phase, fd, gone>>

\* A client connects: the kernel completes the handshake and queues it.
Connect(c) ==
  /\ status = "Establish"
  /\ Go(c, "away", "queued")
  /\ UNCHANGED <<status, count, start, fd, gone>>

\* The peer closes or resets its end, at any moment, and what it sent before has
\* been read.
PeerGone(c) ==
  /\ phase[c] # "away"
  /\ ~gone[c]
  /\ gone' = [gone EXCEPT ![c] = TRUE]
  /\ UNCHANGED <<status, count, start, phase, fd>>

AcceptSocket(c) == fd' = [fd EXCEPT ![c] = "open"]

\* cb_connlisterner over the limit: the callback just returns, the accepted
\* socket stays open and nothing refers to it any more.
Refuse(c) ==
  /\ ListenerIdle
  /\ count > MaxThreads
  /\ Go(c, "queued", "refused")
  /\ AcceptSocket(c)
  /\ UNCHANGED <<status, count, start, gone>>

\* Mutant: ++count stands before the bufferevent is built.
BevFailsCounted(c) ==
  /\ ListenerIdle
  /\ ~(count > MaxThreads)
  /\ Go(c, "queued", "nobev")
  /\ count' = count + 1
  /\ AcceptSocket(c)
  /\ UNCHANGED <<status, start, gone>>

\* bufferevent_socket_new returned NULL: the early return, with the socket
\* and the new event base left behind.
BevFails(c) ==
  /\ ListenerIdle
  /\ ~(count > MaxThreads)
  /\ Go(c, "queued", "nobev")
  /\ AcceptSocket(c)
  /\ UNCHANGED <<status, count, start, gone>>

\* Mutant: the limit is off by one.
AdmitOneMore(c) ==
  /\ ListenerIdle
  /\ ~(count > MaxThreads + 1)
  /\ Go(c, "queued", "admitted")
  /\ AcceptSocket(c)
  /\ UNCHANGED <<status, count, start, gone>>

\* Past the check: event base and bufferevent are built.
Admit(c) ==
  /\ ListenerIdle
  /\ ~(count > MaxThreads)
  /\ Go(c, "queued", "admitted")
  /\ AcceptSocket(c)
  /\ UNCHANGED <<status, count, start, gone>>

\* ++count, then the detached std::thread.
Spawn(c) ==
  /\ Go(c, "admitted", "spawned")
  /\ count' = count + 1
  /\ UNCHANGED <<status, start, fd, gone>>

\* In the thread: new SLConnection(bev) sets the callbacks and enables the
\* bufferevent; resume() enters event_base_dispatch.
Construct(c) ==
  /\ Go(c, "spawned", "serving")
  /\ UNCHANGED <<status, count, start, fd, gone>>

\* A DATA message: its packet is being written to the utun interface, until the
\* interface has taken it.  ::write may fail for ever.
WriteData(c) ==
  /\ ~gone[c]
  /\ Go(c, "serving", "writing")
  /\ UNCHANGED <<status, count, start, fd, gone>>

DataWritten(c) ==
  /\ Go(c, "writing", "serving")
  /\ UNCHANGED <<status, count, start, fd, gone>>

\* Mutant: the bufferevent is made without BEV_OPT_CLOSE_ON_FREE.
HangUpLeaksSocket(c) ==
  /\ gone[c]
  /\ Go(c, "serving", "hungup")
  /\ UNCHANGED <<status, count, start, fd, gone>>

\* cb_event, whatever the event: bufferevent_free, which closes the socket
\* because of BEV_OPT_CLOSE_ON_FREE.
HangUp(c) ==
  /\ gone[c]
  /\ Go(c, "serving", "hungup")
  /\ fd' = [fd EXCEPT ![c] = "closed"]
  /\ UNCHANGED <<status, count, start, gone>>

\* The base has no event left: event_base_dispatch returns.
Return(c) ==
  /\ Go(c, "hungup", "returned")
  /\ UNCHANGED <<status, count, start, fd, gone>>

\* delete clientConnection.
Delete(c) ==
  /\ Go(c, "returned", "deleted")
  /\ UNCHANGED <<status, count, start, fd, gone>>

\* Mutant: the thread forgets --count.
ReleaseKeepsCount(c) ==
  /\ Go(c, "deleted", "done")
  /\ UNCHANGED <<status, count, start, fd, gone>>

\* --count: the last statement of the thread but its return.
Release(c) ==
  /\ Go(c, "deleted", "done")
  /\ count' = count - 1
  /\ UNCHANGED <<status, start, fd, gone>>

\* A connection's thread breaks: an exception nobody catches, std::terminate
\* without a utun socket, the undefined behaviours of SLConnection.
Terminate ==
  /\ InPhase(Counted) # {}
  /\ status' = "terminated"
  /\ UNCHANGED <<count, start, phase, fd, gone>>

ListenerStep(c) == Refuse(c) \/ BevFails(c) \/ Admit(c) \/ Spawn(c)

ThreadStep(c) == Construct(c) \/ HangUp(c) \/ Return(c) \/ Delete(c) \/ Release(c)

DataStep(c) == WriteData(c) \/ DataWritten(c)

Runs == status # "terminated"

Next ==
  /\ Runs
  /\ \/ StartServer \/ Terminate
     \/ \E c \in Conn : Connect(c) \/ PeerGone(c) \/ ListenerStep(c) \/ ThreadStep(c)
                         \/ DataStep(c)

Spec == Init /\ [][Next]_vars

\* The kernel schedules the listener and every connection thread, as long as
\* there is a process; clients owe nothing, nor does ::write.
Fairness ==
  \A c \in Conn : WF_vars(Runs /\ ListenerStep(c)) /\ WF_vars(Runs /\ ThreadStep(c))

FairSpec == Spec /\ Fairness

-----------------------------------------------------------------------------
TypeOK ==
  /\ status \in {"created", "Establish", "ConfigureInvalid", "terminated"}
  /\ start \in InitCount
  /\ count \in Int
  /\ phase \in [Conn -> Phases]
  /\ fd \in [Conn -> {"none", "open", "closed"}]
  /\ gone \in [Conn -> BOOLEAN]

Live == InPhase(Counted)

\* SLConnection objects in memory, and event bases of admitted connections.
ObjectsAlive ==
  InPhase({"admitted", "spawned", "serving", "writing", "hungup", "returned"})

(***************************************************************************)
(* mThreadCount counts the running threads on top of what it started from: *)
(* no interleaving of the listener's ++ with the threads' -- loses one.    *)
(***************************************************************************)
CountIsLive == count = start + Cardinality(Live)

\* Threads the limit lets run together: the check is count > MaxThreads, made
\* before the increment, so one more than MaxThreads from a zero counter.
Capacity == IF start > MaxThreads THEN 0 ELSE MaxThreads + 1 - start

(***************************************************************************)
(* The listener checks the counter, builds, and only then increments it,   *)
(* and a thread deletes its SLConnection before it decrements: still, the  *)
(* connections whose objects are in memory never exceed what the check     *)
(* allows.                                                                 *)
(***************************************************************************)
MemoryBounded == Cardinality(ObjectsAlive) <= Capacity

(***************************************************************************)
(* cb_connlisterner turns a connection away only while as many threads run *)
(* as the check allows, counted from the counter's initial value.          *)
(***************************************************************************)
RefusedOnlyWhenFull ==
  [][\A c \in Conn : phase[c] = "queued" /\ phase'[c] = "refused"
                       => Cardinality(Live) >= Capacity]_vars

(***************************************************************************)
(* An admitted connection whose peer went away, at whatever moment of its  *)
(* admission, gets its socket closed and gives back its place, unless the  *)
(* process ends or the thread retries a failing ::write for ever.  Nothing *)
(* in ~SLConnection closes the socket: this rests on cb_event freeing a    *)
(* bufferevent made with BEV_OPT_CLOSE_ON_FREE before the loop returns.    *)
(* One thread that is held holds back no other.                            *)
(***************************************************************************)
PlaceGivenBack ==
  \A c \in Conn :
    \/ (phase[c] \in {"admitted"} \cup Counted /\ gone[c])
         ~> (phase[c] = "done" /\ fd[c] = "closed") \/ ~Runs
    \/ <>[](phase[c] = "writing")

(***************************************************************************)
(* SLServer.cpp:30 calls the early return over the limit waiting for       *)
(* concurrency to switch: a connection over the limit would be served once *)
(* there is room, and stays room.                                          *)
(***************************************************************************)
OverflowWaits ==
  \A c \in Conn : phase[c] = "refused" /\ count <= MaxThreads
                    ~> phase[c] \in Counted \/ count > MaxThreads \/ ~Runs

-----------------------------------------------------------------------------
\* The strengthening that makes the safety properties inductive: the listener
\* is one thread, and since its check passed the counter can only have fallen.
OneAdmission == \A c, d \in InPhase({"admitted"}) : c = d

RoomForAdmitted == InPhase({"admitted"}) # {} => count <= MaxThreads

PlacesRespected == Cardinality(Live) <= Capacity

IInv == TypeOK /\ CountIsLive /\ OneAdmission /\ RoomForAdmitted /\ PlacesRespected

\* The promise this module keeps.
Admission == INSTANCE AdmissionControl WITH
  capacity   <- Capacity,
  inService  <- Live,
  turnedAway <- InPhase({"refused"}),
  finished   <- InPhase({"nobev", "done"})

ImplementsAdmission == Admission!ACSpec
=============================================================================
