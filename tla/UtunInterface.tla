---------------------------- MODULE UtunInterface ----------------------------
(***************************************************************************)
(* The life of the SLUTUNInterface objects of a server (SLUTNInterface.cpp)*)
(* and of their descriptors.  Each connection's thread constructs one when *)
(* ESTABLISH is asked; the threads share the process's descriptor table,   *)
(* where a closed number is the next to be given out, to whoever opens.    *)
(*                                                                         *)
(* The constructor reports an error through a callback and mostly goes on. *)
(* Its address is the literal of SLConnection.cpp:92, which inet_pton      *)
(* takes.  Of the descriptors only a connection's own are modelled: its    *)
(* accepted socket, the utun socket, and the datagram socket that sets the *)
(* interface's address.                                                    *)
(***************************************************************************)
EXTENDS Integers

CONSTANTS Conn,  \* connections
          Fds    \* the descriptors a process may have open

ASSUME DescriptorAssumption == Fds \subseteq Nat

VARIABLES at,        \* at[c]: where the connection's thread is
          num,       \* num[h]: the number the program keeps for the descriptor h
          owner,     \* owner[fd]: the descriptor table
          done,      \* done[c]: the steps of the construction that succeeded
          reported,  \* reported[c]: the error callback was called
          reused,    \* a number was given out between the two closes of it
          ended      \* std::terminate was called

vars == <<at, num, owner, done, reported, reused, ended>>

Handles == Conn \X {"conn", "utun", "dgram"}
Free == <<"none", "free">>
NoNumber == -1

Steps == {"info", "connect", "name", "dgram", "alias"}

\* none: not accepted; up: accepted, no interface asked for.  control, connect,
\* address, alias: in the constructor, before the step of that name; close and
\* closeAgain: before line 116, with a datagram socket that is open or that line
\* 114 has closed.  serving, failed: the interface set, or given up.  leaving:
\* the peer is gone, the destructor is due.
Places == {"none", "up", "control", "connect", "address", "alias", "close",
           "closeAgain", "serving", "failed", "leaving", "over"}

Constructing == {"control", "connect", "address", "alias", "close", "closeAgain"}

Move(c, from, to) == at[c] = from /\ at' = [at EXCEPT ![c] = to]

Succeed(c, steps) == done' = [done EXCEPT ![c] = @ \cup steps]
Report(c) == reported' = [reported EXCEPT ![c] = TRUE]

\* The lowest free number is given out.
Open(h) ==
  \E fd \in Fds :
    /\ owner[fd] = Free
    /\ \A g \in Fds : owner[g] = Free => fd <= g
    /\ owner' = [owner EXCEPT ![fd] = h]
    /\ num' = [num EXCEPT ![h] = fd]
    /\ reused' = (reused \/ \E c \in Conn : at[c] = "closeAgain" /\ num[<<c, "dgram">>] = fd)

\* Mutant: the closed number is overwritten with another value.
CloseMarks(h) ==
  /\ owner' = [fd \in Fds |-> IF fd = num[h] THEN Free ELSE owner[fd]]
  /\ num' = [num EXCEPT ![h] = NoNumber - 1]
  /\ UNCHANGED reused

\* close: of a number, whoever the descriptor behind it belongs to by now.
Close(h) ==
  /\ owner' = [fd \in Fds |-> IF fd = num[h] THEN Free ELSE owner[fd]]
  /\ UNCHANGED <<num, reused>>

Init ==
  /\ at = [c \in Conn |-> "none"]
  /\ num = [h \in Handles |-> NoNumber]
  /\ owner = [fd \in Fds |-> Free]
  /\ done = [c \in Conn |-> {}]
  /\ reported = [c \in Conn |-> FALSE]
  /\ reused = FALSE
  /\ ended = FALSE

-----------------------------------------------------------------------------
Accept(c) ==
  /\ Move(c, "none", "up")
  /\ Open(<<c, "conn">>)
  /\ UNCHANGED <<done, reported, ended>>

\* ::socket(PF_SYSTEM): whatever makes it fail calls std::terminate.
CreateSocket(c) ==
  /\ Move(c, "up", "control")
  /\ Open(<<c, "utun">>)
  /\ UNCHANGED <<done, reported, ended>>

NoSocket(c) ==
  /\ at[c] = "up"
  /\ ended' = TRUE
  /\ UNCHANGED <<at, num, owner, done, reported, reused>>

\* CTLIOCGINFO: the one error after which the constructor returns, before it
\* has set any member.
GetInfo(c) ==
  /\ \/ Move(c, "control", "connect") /\ Succeed(c, {"info"}) /\ UNCHANGED reported
     \/ Move(c, "control", "failed") /\ Report(c) /\ UNCHANGED done
  /\ UNCHANGED <<num, owner, reused, ended>>

\* Mutant: the constructor does not report that getsockopt failed.
ConnectUnreported(c) ==
  /\ Move(c, "connect", "address")
  /\ \E ok \in SUBSET {"connect", "name"} :
       /\ Succeed(c, ok)
       /\ IF "connect" \in ok THEN UNCHANGED reported ELSE Report(c)
  /\ UNCHANGED <<num, owner, reused, ended>>

\* connect, then getsockopt of the interface's name: an error is reported and
\* the construction goes on.
Connect(c) ==
  /\ Move(c, "connect", "address")
  /\ \E ok \in SUBSET {"connect", "name"} :
       /\ Succeed(c, ok)
       /\ IF ok = {"connect", "name"} THEN UNCHANGED reported ELSE Report(c)
  /\ UNCHANGED <<num, owner, reused, ended>>

\* The datagram socket, or whatever ::socket failed of: an error is reported and
\* the construction goes on with a -1.
OpenDatagram(c) ==
  /\ Move(c, "address", "alias")
  /\ \/ Open(<<c, "dgram">>) /\ Succeed(c, {"dgram"}) /\ UNCHANGED reported
     \/ Report(c) /\ UNCHANGED <<num, owner, done, reused>>
  /\ UNCHANGED ended

\* SIOCAIFADDR; when it fails the datagram socket is closed ...
SetAddress(c) ==
  \/ /\ Move(c, "alias", "close")
     /\ num[<<c, "dgram">>] # NoNumber
     /\ Succeed(c, {"alias"})
     /\ UNCHANGED <<num, owner, reported, reused, ended>>
  \/ /\ Move(c, "alias", "closeAgain")
     /\ Report(c)
     /\ Close(<<c, "dgram">>)
     /\ UNCHANGED <<done, ended>>

AfterConstruction(c) == IF reported[c] THEN "failed" ELSE "serving"

\* Mutant: the datagram socket is closed only by the error branch.
CloseDatagramNever(c) ==
  /\ at[c] \in {"close", "closeAgain"}
  /\ at' = [at EXCEPT ![c] = AfterConstruction(c)]
  /\ UNCHANGED <<num, owner, done, reported, reused, ended>>

\* Mutant: the wrong socket is closed.
CloseUtunInstead(c) ==
  /\ at[c] \in {"close", "closeAgain"}
  /\ at' = [at EXCEPT ![c] = AfterConstruction(c)]
  /\ Close(<<c, "utun">>)
  /\ UNCHANGED <<done, reported, ended>>

\* ... and here it is closed in any case.  The callback looks at what was
\* reported: it sets the interface, or returns and forgets it.
CloseDatagram(c) ==
  /\ at[c] \in {"close", "closeAgain"}
  /\ at' = [at EXCEPT ![c] = AfterConstruction(c)]
  /\ Close(<<c, "dgram">>)
  /\ UNCHANGED <<done, reported, ended>>

\* The peer is gone: bufferevent_free closes the accepted socket.
HangUp(c) ==
  /\ at[c] \in {"up", "failed", "serving"}
  /\ at' = [at EXCEPT ![c] = IF @ = "serving" THEN "leaving" ELSE "over"]
  /\ Close(<<c, "conn">>)
  /\ UNCHANGED <<done, reported, ended>>

\* ~SLUTUNInterface closes mUTUNSocket.
Destroy(c) ==
  /\ Move(c, "leaving", "over")
  /\ Close(<<c, "utun">>)
  /\ UNCHANGED <<done, reported, ended>>

Construct(c) ==
  CreateSocket(c) \/ NoSocket(c) \/ GetInfo(c) \/ Connect(c) \/ OpenDatagram(c)
    \/ SetAddress(c) \/ CloseDatagram(c)

Next ==
  /\ ~ended
  /\ \E c \in Conn : Accept(c) \/ Construct(c) \/ HangUp(c) \/ Destroy(c)

Spec == Init /\ [][Next]_vars

-----------------------------------------------------------------------------
TypeOK ==
  /\ at \in [Conn -> Places]
  /\ num \in [Handles -> Fds \cup {NoNumber}]
  /\ owner \in [Fds -> Handles \cup {Free}]
  /\ done \in [Conn -> SUBSET Steps]
  /\ reported \in [Conn -> BOOLEAN]
  /\ reused \in BOOLEAN /\ ended \in BOOLEAN

\* What the thread of a connection takes to be its own and open.
Held(c, kind) ==
  \/ kind = "conn" /\ at[c] \notin {"none", "leaving", "over"}
  \/ kind = "utun" /\ at[c] \in Constructing \cup {"serving", "leaving"}
  \/ kind = "dgram" /\ num[<<c, kind>>] # NoNumber /\ at[c] \in {"alias", "close"}

(***************************************************************************)
(* The datagram socket may be closed twice (lines 114 and 116).  As long   *)
(* as no thread opened a descriptor between the two closes, every          *)
(* connection's sockets are its own: no thread writes to, or closes,       *)
(* another's.                                                              *)
(***************************************************************************)
SocketsOwn ==
  ~reused => \A c \in Conn, kind \in {"conn", "utun", "dgram"} :
               Held(c, kind) => /\ num[<<c, kind>>] \in Fds
                                /\ owner[num[<<c, kind>>]] = <<c, kind>>

(***************************************************************************)
(* A connection that is over leaves nothing in the descriptor table, with  *)
(* one exception: the utun socket of a construction that reported an error,*)
(* which nobody can close.  This holds also after descriptors were closed  *)
(* under their owners.                                                     *)
(***************************************************************************)
OnlyFailuresLeak ==
  \A fd \in Fds, c \in Conn :
    at[c] = "over" =>
      /\ owner[fd] \notin {<<c, "conn">>, <<c, "dgram">>}
      /\ owner[fd] = <<c, "utun">> => reported[c]

(***************************************************************************)
(* Though the construction goes on after errors, an interface that is put  *)
(* into service had every step of it succeed.                              *)
(***************************************************************************)
ServingIsConfigured ==
  \A c \in Conn : at[c] \in {"serving", "leaving"} => done[c] = Steps

-----------------------------------------------------------------------------
\* What makes them inductive.

\* The table has a descriptor under the number its owner keeps.
NumbersKept == \A fd \in Fds : owner[fd] # Free => num[owner[fd]] = fd

\* A descriptor is in the table only while its connection has not closed it.
InTable ==
  \A fd \in Fds, c \in Conn :
    /\ owner[fd] = <<c, "conn">> => at[c] \notin {"none", "leaving", "over"}
    /\ owner[fd] = <<c, "utun">> => /\ at[c] \notin {"none", "up"}
                                    /\ at[c] = "over" => reported[c]
    /\ owner[fd] = <<c, "dgram">> => at[c] \in {"alias", "close"}

\* Between two closes without reuse the number stays free.
ClosedStaysFree ==
  ~reused => \A c \in Conn :
    at[c] = "closeAgain" /\ num[<<c, "dgram">>] # NoNumber
      => owner[num[<<c, "dgram">>]] = Free

\* What was not reported has succeeded, as far as the construction got.
ProgressOf(c) ==
  ~reported[c] =>
    /\ at[c] \notin {"closeAgain", "failed"}
    /\ at[c] = "connect" => done[c] = {"info"}
    /\ at[c] = "address" => done[c] = {"info", "connect", "name"}
    /\ at[c] = "alias" => /\ done[c] = {"info", "connect", "name", "dgram"}
                          /\ num[<<c, "dgram">>] # NoNumber
    /\ at[c] \in {"close", "serving", "leaving"} => done[c] = Steps
    /\ at[c] \in {"none", "up", "control"} => done[c] = {}

Progress == \A c \in Conn : ProgressOf(c)

\* An interface in service was reported by no step; a reported one got past the
\* creation of its socket.
Answered ==
  \A c \in Conn :
    /\ at[c] \in {"none", "up", "control", "serving", "leaving"} => ~reported[c]
    /\ at[c] \in {"none", "up", "control", "connect", "address"}
         => num[<<c, "dgram">>] = NoNumber

IInv == TypeOK /\ NumbersKept /\ InTable /\ SocketsOwn /\ ClosedStaysFree /\ Progress /\ Answered
=============================================================================
