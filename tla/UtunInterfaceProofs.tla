------------------------- MODULE UtunInterfaceProofs -------------------------
(***************************************************************************)
(* Theorems about UtunInterface, for any set of connections and of         *)
(* descriptors.  The inductive invariant ties the descriptor table to the  *)
(* numbers the program keeps (NumbersKept), says when a descriptor can be  *)
(* in it (InTable), that a number closed once stays free until it is given *)
(* out again (ClosedStaysFree), and what the errors reported so far say    *)
(* about the construction (Progress, Answered).                            *)
(***************************************************************************)
EXTENDS UtunInterface, TLAPS

\* Handles of different connections, or of different kinds, are different, and
\* none is Free.
LEMMA HandlesApart ==
  /\ \A h \in Handles : h # Free
  /\ \A c, d, k, l : <<c, k>> = <<d, l>> => c = d /\ k = l
  /\ \A c \in Conn, k \in {"conn", "utun", "dgram"} : <<c, k>> \in Handles
BY DEF Handles, Free

\* A number the program keeps is not the one for none.
LEMMA NoNumberIsNone == NoNumber \notin Fds
BY DescriptorAssumption DEF NoNumber

-----------------------------------------------------------------------------
\* What the table's two operations and a move change, point by point.

LEMMA OpenEffect ==
  ASSUME NEW h \in Handles, TypeOK, Open(h)
  PROVE  \E fd \in Fds :
           /\ owner[fd] = Free /\ owner'[fd] = h
           /\ \A g \in Fds : g # fd => owner'[g] = owner[g]
           /\ num'[h] = fd
           /\ \A k \in Handles : k # h => num'[k] = num[k]
           /\ ~reused' => /\ ~reused
                         /\ \A d \in Conn : at[d] = "closeAgain" => num[<<d, "dgram">>] # fd
           /\ owner' \in [Fds -> Handles \cup {Free}]
           /\ num' \in [Handles -> Fds \cup {NoNumber}]
           /\ reused' \in BOOLEAN
<1>1. PICK fd \in Fds :
        /\ owner[fd] = Free
        /\ owner' = [owner EXCEPT ![fd] = h]
        /\ num' = [num EXCEPT ![h] = fd]
        /\ reused' = (reused \/ \E c \in Conn : at[c] = "closeAgain" /\ num[<<c, "dgram">>] = fd)
  BY DEF Open
<1>2. /\ owner \in [Fds -> Handles \cup {Free}]
      /\ num \in [Handles -> Fds \cup {NoNumber}]
      /\ reused \in BOOLEAN
  BY DEF TypeOK
<1>3. reused' \in BOOLEAN
  BY <1>1, <1>2
<1>4. ~reused' => /\ ~reused
                  /\ \A d \in Conn : at[d] = "closeAgain" => num[<<d, "dgram">>] # fd
  BY <1>1
<1>5. /\ owner'[fd] = h
      /\ \A g \in Fds : g # fd => owner'[g] = owner[g]
      /\ num'[h] = fd
      /\ \A k \in Handles : k # h => num'[k] = num[k]
      /\ owner' \in [Fds -> Handles \cup {Free}]
      /\ num' \in [Handles -> Fds \cup {NoNumber}]
  BY <1>1, <1>2
<1> QED BY <1>1, <1>3, <1>4, <1>5

LEMMA CloseEffect ==
  ASSUME NEW h \in Handles, TypeOK, Close(h)
  PROVE  /\ \A fd \in Fds : owner'[fd] = IF fd = num[h] THEN Free ELSE owner[fd]
         /\ num' = num /\ reused' = reused
         /\ owner' \in [Fds -> Handles \cup {Free}]
BY DEF TypeOK, Close

LEMMA MoveEffect ==
  ASSUME NEW c \in Conn, NEW from, NEW to \in Places, TypeOK, Move(c, from, to)
  PROVE  /\ at[c] = from /\ at'[c] = to
         /\ \A d \in Conn : d # c => at'[d] = at[d]
         /\ at' \in [Conn -> Places]
BY DEF TypeOK, Move

LEMMA SucceedEffect ==
  ASSUME NEW c \in Conn, NEW steps \in SUBSET Steps, TypeOK, Succeed(c, steps)
  PROVE  /\ done'[c] = done[c] \cup steps
         /\ \A d \in Conn : d # c => done'[d] = done[d]
         /\ done' \in [Conn -> SUBSET Steps]
BY DEF TypeOK, Succeed

LEMMA ReportEffect ==
  ASSUME NEW c \in Conn, TypeOK, Report(c)
  PROVE  /\ reported'[c] = TRUE
         /\ \A d \in Conn : d # c => reported'[d] = reported[d]
         /\ reported' \in [Conn -> BOOLEAN]
BY DEF TypeOK, Report


\* A step of the construction without an effect on the table.
LEMMA TableKept ==
  ASSUME NEW c \in Conn, TypeOK, NumbersKept, InTable, SocketsOwn, ClosedStaysFree,
         UNCHANGED <<num, owner, reused>>,
         \A d \in Conn : d # c => at'[d] = at[d] /\ reported'[d] = reported[d],
         \A k \in {"conn", "utun", "dgram"} : Held(c, k)' => Held(c, k),
         at[c] \in Constructing, at'[c] \in {"connect", "address", "alias", "close", "failed"},
         at[c] \in {"alias", "close"} => at'[c] \in {"alias", "close"}
  PROVE  NumbersKept' /\ InTable' /\ SocketsOwn' /\ ClosedStaysFree'
<1>1. NumbersKept'
  BY DEF NumbersKept
<1>2. InTable'
  BY DEF InTable, Constructing
<1>3. SocketsOwn'
  <2> SUFFICES ASSUME ~reused', NEW d \in Conn, NEW k \in {"conn", "utun", "dgram"}, Held(d, k)'
               PROVE  num'[<<d, k>>] \in Fds /\ owner'[num'[<<d, k>>]] = <<d, k>>
    BY DEF SocketsOwn
  <2>1. Held(d, k)
    BY DEF Held
  <2> QED BY <2>1 DEF SocketsOwn
<1>4. ClosedStaysFree'
  BY DEF ClosedStaysFree
<1> QED BY <1>1, <1>2, <1>3, <1>4

\* Closing what is one's own, or what is free, keeps the others' descriptors.
LEMMA TableClosed ==
  ASSUME NEW c \in Conn, NEW kind \in {"conn", "utun", "dgram"},
         TypeOK, NumbersKept, SocketsOwn, ClosedStaysFree, Close(<<c, kind>>),
         \A d \in Conn : d # c => at'[d] = at[d],
         \A k \in {"conn", "utun", "dgram"} : Held(c, k)' => Held(c, k) /\ k # kind,
         at'[c] = "closeAgain" => kind = "dgram",
         ~reused /\ num[<<c, kind>>] \in Fds => owner[num[<<c, kind>>]] \in {<<c, kind>>, Free}
  PROVE  /\ NumbersKept' /\ SocketsOwn' /\ ClosedStaysFree'
         /\ \A fd \in Fds : owner'[fd] # <<c, kind>>
         /\ \A fd \in Fds : owner'[fd] \in {owner[fd], Free}
<1> USE HandlesApart, NoNumberIsNone
<1>1. /\ \A fd \in Fds : owner'[fd] = IF fd = num[<<c, kind>>] THEN Free ELSE owner[fd]
      /\ num' = num /\ reused' = reused
  BY CloseEffect
<1>2. NumbersKept'
  BY <1>1 DEF NumbersKept
<1>3. SocketsOwn'
  <2> SUFFICES ASSUME ~reused', NEW d \in Conn, NEW k \in {"conn", "utun", "dgram"}, Held(d, k)'
               PROVE  num'[<<d, k>>] \in Fds /\ owner'[num'[<<d, k>>]] = <<d, k>>
    BY DEF SocketsOwn
  <2>1. Held(d, k) /\ <<d, k>> # <<c, kind>>
    BY <1>1 DEF Held
  <2>2. num[<<d, k>>] \in Fds /\ owner[num[<<d, k>>]] = <<d, k>>
    BY <2>1, <1>1 DEF SocketsOwn
  <2>3. num[<<d, k>>] # num[<<c, kind>>]
    BY <2>1, <2>2, <1>1
  <2> QED BY <2>2, <2>3, <1>1
<1>4. ClosedStaysFree'
  <2> SUFFICES ASSUME ~reused', NEW d \in Conn, at'[d] = "closeAgain",
                      num'[<<d, "dgram">>] # NoNumber
               PROVE  owner'[num'[<<d, "dgram">>]] = Free
    BY DEF ClosedStaysFree
  <2>0. num[<<d, "dgram">>] \in Fds /\ num'[<<d, "dgram">>] = num[<<d, "dgram">>]
    BY <1>1 DEF TypeOK
  <2>1. CASE d = c
    BY <2>0, <2>1, <1>1
  <2>2. CASE d # c
    <3>1. owner[num[<<d, "dgram">>]] = Free
      BY <2>0, <2>2, <1>1 DEF ClosedStaysFree
    <3> QED BY <3>1, <2>0, <1>1
  <2> QED BY <2>1, <2>2
<1>5. \A fd \in Fds : owner'[fd] # <<c, kind>>
  <2> SUFFICES ASSUME NEW fd \in Fds, owner'[fd] = <<c, kind>> PROVE FALSE
    OBVIOUS
  <2>1. <<c, kind>> # Free
    BY DEF Handles
  <2>2. fd # num[<<c, kind>>] /\ owner[fd] = <<c, kind>>
    BY <2>1, <1>1
  <2> QED BY <2>1, <2>2 DEF NumbersKept
<1> QED BY <1>1, <1>2, <1>3, <1>4, <1>5

\* Opening a descriptor for a handle that has none keeps the others' too.
LEMMA TableOpened ==
  ASSUME NEW c \in Conn, NEW kind \in {"conn", "utun", "dgram"},
         TypeOK, NumbersKept, SocketsOwn, ClosedStaysFree, Open(<<c, kind>>),
         \A fd \in Fds : owner[fd] # <<c, kind>>,
         \A d \in Conn : d # c => at'[d] = at[d],
         at'[c] # "closeAgain",
         \A k \in {"conn", "utun", "dgram"} : k # kind /\ Held(c, k)' => Held(c, k)
  PROVE  /\ NumbersKept' /\ SocketsOwn' /\ ClosedStaysFree'
         /\ \A fd \in Fds : owner'[fd] \in {owner[fd], <<c, kind>>}
         /\ num'[<<c, kind>>] \in Fds
         /\ \A d \in Conn, k \in {"conn", "utun", "dgram"} :
              <<d, k>> # <<c, kind>> => num'[<<d, k>>] = num[<<d, k>>]
         /\ owner' \in [Fds -> Handles \cup {Free}]
         /\ num' \in [Handles -> Fds \cup {NoNumber}]
         /\ reused' \in BOOLEAN
<1> DEFINE h == <<c, kind>>
<1>0. /\ \A k \in Handles : k # Free
      /\ \A d \in Conn, k \in {"conn", "utun", "dgram"} : <<d, k>> \in Handles
      /\ h \in Handles
  BY HandlesApart
<1>1. PICK fd \in Fds :
        /\ owner[fd] = Free /\ owner'[fd] = h
        /\ \A g \in Fds : g # fd => owner'[g] = owner[g]
        /\ num'[h] = fd
        /\ \A k \in Handles : k # h => num'[k] = num[k]
        /\ ~reused' => /\ ~reused
                      /\ \A d \in Conn : at[d] = "closeAgain" => num[<<d, "dgram">>] # fd
        /\ owner' \in [Fds -> Handles \cup {Free}]
        /\ num' \in [Handles -> Fds \cup {NoNumber}]
        /\ reused' \in BOOLEAN
  BY <1>0, OpenEffect
<1>2. \A d \in Conn, k \in {"conn", "utun", "dgram"} :
        <<d, k>> # h => num'[<<d, k>>] = num[<<d, k>>]
  BY <1>0, <1>1
<1>3. NumbersKept'
  <2> SUFFICES ASSUME NEW g \in Fds, owner'[g] # Free PROVE num'[owner'[g]] = g
    BY DEF NumbersKept
  <2>1. CASE g = fd
    BY <2>1, <1>1
  <2>2. CASE g # fd
    <3>1. owner'[g] = owner[g] /\ num[owner[g]] = g /\ owner[g] \in Handles
      BY <2>2, <1>1 DEF NumbersKept, TypeOK
    <3>2. owner[g] # h
      OBVIOUS
    <3> QED BY <3>1, <3>2, <1>1
  <2> QED BY <2>1, <2>2
<1>4. SocketsOwn'
  <2> SUFFICES ASSUME ~reused', NEW d \in Conn, NEW k \in {"conn", "utun", "dgram"}, Held(d, k)'
               PROVE  num'[<<d, k>>] \in Fds /\ owner'[num'[<<d, k>>]] = <<d, k>>
    BY DEF SocketsOwn
  <2>1. CASE <<d, k>> = h
    BY <2>1, <1>1
  <2>2. CASE <<d, k>> # h
    <3>1. Held(d, k)
      BY <2>2, <1>2, HandlesApart DEF Held
    <3>2. num[<<d, k>>] \in Fds /\ owner[num[<<d, k>>]] = <<d, k>>
      BY <3>1, <1>1 DEF SocketsOwn
    <3>3. owner[num[<<d, k>>]] # Free
      BY <3>2, <1>0
    <3> QED BY <3>2, <3>3, <2>2, <1>1, <1>2
  <2> QED BY <2>1, <2>2
<1>5. ClosedStaysFree'
  <2> SUFFICES ASSUME ~reused', NEW d \in Conn, at'[d] = "closeAgain",
                      num'[<<d, "dgram">>] # NoNumber
               PROVE  owner'[num'[<<d, "dgram">>]] = Free
    BY DEF ClosedStaysFree
  <2>1. d # c /\ at[d] = "closeAgain"
    OBVIOUS
  <2>2. <<d, "dgram">> # h
    BY <2>1
  <2>3. num'[<<d, "dgram">>] = num[<<d, "dgram">>]
    BY <2>2, <1>2
  <2>4. num[<<d, "dgram">>] \in Fds /\ num[<<d, "dgram">>] # fd
    BY <2>1, <2>3, <1>0, <1>1 DEF TypeOK
  <2>5. owner[num[<<d, "dgram">>]] = Free
    BY <2>1, <2>3, <1>1 DEF ClosedStaysFree
  <2> QED BY <2>3, <2>4, <2>5, <1>1
<1> QED BY <1>1, <1>2, <1>3, <1>4, <1>5

\* After a close, what is left of the others in the table still belongs there.
LEMMA InTableClosed ==
  ASSUME NEW c \in Conn, NEW kind \in {"conn", "utun", "dgram"}, InTable,
         \A fd \in Fds : owner'[fd] # <<c, kind>>,
         \A fd \in Fds : owner'[fd] \in {owner[fd], Free},
         \A d \in Conn : d # c => at'[d] = at[d] /\ reported'[d] = reported[d],
         kind # "conn" /\ at[c] \notin {"none", "leaving", "over"}
           => at'[c] \notin {"none", "leaving", "over"},
         kind # "utun" => /\ at[c] \notin {"none", "up"} => at'[c] \notin {"none", "up"}
                          /\ at[c] \notin {"none", "up"} /\ at'[c] = "over" => reported'[c],
         kind # "dgram" => at[c] \notin {"alias", "close"}
  PROVE  InTable'
<1> SUFFICES ASSUME NEW fd \in Fds, NEW d \in Conn
             PROVE  /\ owner'[fd] = <<d, "conn">> => at'[d] \notin {"none", "leaving", "over"}
                    /\ owner'[fd] = <<d, "utun">> => /\ at'[d] \notin {"none", "up"}
                                                     /\ at'[d] = "over" => reported'[d]
                    /\ owner'[fd] = <<d, "dgram">> => at'[d] \in {"alias", "close"}
  BY DEF InTable
<1>1. \A k \in {"conn", "utun", "dgram"} :
        owner'[fd] = <<d, k>> => owner[fd] = <<d, k>> /\ (d = c => k # kind)
  <2> SUFFICES ASSUME NEW k \in {"conn", "utun", "dgram"}, owner'[fd] = <<d, k>>
               PROVE  owner[fd] = <<d, k>> /\ (d = c => k # kind)
    OBVIOUS
  <2>1. <<d, k>> # Free
    BY HandlesApart
  <2> QED BY <2>1
<1>2. /\ owner[fd] = <<d, "conn">> => at[d] \notin {"none", "leaving", "over"}
      /\ owner[fd] = <<d, "utun">> => /\ at[d] \notin {"none", "up"}
                                      /\ at[d] = "over" => reported[d]
      /\ owner[fd] = <<d, "dgram">> => at[d] \in {"alias", "close"}
  BY DEF InTable
<1>3. CASE d = c
  BY <1>1, <1>2, <1>3
<1>4. CASE d # c
  BY <1>1, <1>2, <1>4
<1> QED BY <1>3, <1>4

-----------------------------------------------------------------------------
\* Accepting and the steps of the construction, one lemma each.
LEMMA AcceptIInv == ASSUME NEW c \in Conn, IInv, Accept(c) PROVE IInv'
<1> USE DEF IInv
<1>1. Move(c, "none", "up") /\ Open(<<c, "conn">>) /\ UNCHANGED <<done, reported, ended>>
  BY DEF Accept
<1>2. /\ at[c] = "none" /\ at'[c] = "up"
      /\ \A d \in Conn : d # c => at'[d] = at[d]
      /\ at' \in [Conn -> Places]
  BY <1>1, MoveEffect DEF Places
<1>3. \A fd \in Fds : owner[fd] # <<c, "conn">>
  BY <1>2 DEF InTable
<1>4. /\ NumbersKept' /\ SocketsOwn' /\ ClosedStaysFree'
      /\ \A fd \in Fds : owner'[fd] \in {owner[fd], <<c, "conn">>}
      /\ \A d \in Conn, k \in {"conn", "utun", "dgram"} :
           <<d, k>> # <<c, "conn">> => num'[<<d, k>>] = num[<<d, k>>]
      /\ owner' \in [Fds -> Handles \cup {Free}]
      /\ num' \in [Handles -> Fds \cup {NoNumber}]
      /\ reused' \in BOOLEAN
  <2>1. \A k \in {"conn", "utun", "dgram"} : k # "conn" /\ Held(c, k)' => Held(c, k)
    BY <1>2, HandlesApart DEF Held, Constructing
  <2> QED BY <2>1, <1>1, <1>2, <1>3, TableOpened
<1>5. \A d \in Conn : num'[<<d, "dgram">>] = num[<<d, "dgram">>]
  BY <1>4
<1>6. TypeOK'
  BY <1>1, <1>2, <1>4 DEF TypeOK
<1>7. InTable'
  BY <1>1, <1>2, <1>4, HandlesApart DEF InTable
<1>8. Progress'
  BY <1>1, <1>2, <1>5 DEF Progress, ProgressOf
<1>9. Answered'
  BY <1>1, <1>2, <1>5 DEF Answered
<1> QED BY <1>4, <1>6, <1>7, <1>8, <1>9

LEMMA CreateSocketIInv == ASSUME NEW c \in Conn, IInv, CreateSocket(c) PROVE IInv'
<1> USE DEF IInv
<1>1. Move(c, "up", "control") /\ Open(<<c, "utun">>) /\ UNCHANGED <<done, reported, ended>>
  BY DEF CreateSocket
<1>2. /\ at[c] = "up" /\ at'[c] = "control"
      /\ \A d \in Conn : d # c => at'[d] = at[d]
      /\ at' \in [Conn -> Places]
  BY <1>1, MoveEffect DEF Places
<1>3. \A fd \in Fds : owner[fd] # <<c, "utun">>
  BY <1>2 DEF InTable
<1>4. /\ NumbersKept' /\ SocketsOwn' /\ ClosedStaysFree'
      /\ \A fd \in Fds : owner'[fd] \in {owner[fd], <<c, "utun">>}
      /\ \A d \in Conn, k \in {"conn", "utun", "dgram"} :
           <<d, k>> # <<c, "utun">> => num'[<<d, k>>] = num[<<d, k>>]
      /\ owner' \in [Fds -> Handles \cup {Free}]
      /\ num' \in [Handles -> Fds \cup {NoNumber}]
      /\ reused' \in BOOLEAN
  <2>1. \A k \in {"conn", "utun", "dgram"} : k # "utun" /\ Held(c, k)' => Held(c, k)
    BY <1>2, HandlesApart DEF Held, Constructing
  <2> QED BY <2>1, <1>1, <1>2, <1>3, TableOpened
<1>5. \A d \in Conn : num'[<<d, "dgram">>] = num[<<d, "dgram">>]
  BY <1>4
<1>6. TypeOK'
  BY <1>1, <1>2, <1>4 DEF TypeOK
<1>7. InTable'
  BY <1>1, <1>2, <1>4, HandlesApart DEF InTable
<1>8. Progress'
  BY <1>1, <1>2, <1>5 DEF Progress, ProgressOf
<1>9. Answered'
  BY <1>1, <1>2, <1>5 DEF Answered
<1> QED BY <1>4, <1>6, <1>7, <1>8, <1>9

LEMMA GetInfoIInv == ASSUME NEW c \in Conn, IInv, GetInfo(c) PROVE IInv'
<1> USE DEF IInv
<1>1. UNCHANGED <<num, owner, reused, ended>>
  BY DEF GetInfo
<1>2. \/ /\ Move(c, "control", "connect") /\ Succeed(c, {"info"}) /\ reported' = reported
      \/ /\ Move(c, "control", "failed") /\ Report(c) /\ done' = done
  BY DEF GetInfo
<1>3. CASE Move(c, "control", "connect") /\ Succeed(c, {"info"}) /\ reported' = reported
  <2>1. /\ at[c] = "control" /\ at'[c] = "connect"
        /\ \A d \in Conn : d # c => at'[d] = at[d]
        /\ at' \in [Conn -> Places]
    BY <1>3, MoveEffect DEF Places
  <2>2. /\ done'[c] = done[c] \cup {"info"}
        /\ \A d \in Conn : d # c => done'[d] = done[d]
        /\ done' \in [Conn -> SUBSET Steps]
    BY <1>3, SucceedEffect DEF Steps
  <2>3. TypeOK'
    BY <1>1, <1>3, <2>1, <2>2 DEF TypeOK
  <2>4. NumbersKept' /\ InTable' /\ SocketsOwn' /\ ClosedStaysFree'
    BY <1>1, <1>3, <2>1, TableKept DEF Held, Constructing
  <2>5. Progress'
    BY <1>1, <1>3, <2>1, <2>2 DEF Progress, ProgressOf
  <2>6. Answered'
    BY <1>1, <1>3, <2>1 DEF Answered
  <2> QED BY <2>3, <2>4, <2>5, <2>6
<1>4. CASE Move(c, "control", "failed") /\ Report(c) /\ done' = done
  <2>1. /\ at[c] = "control" /\ at'[c] = "failed"
        /\ \A d \in Conn : d # c => at'[d] = at[d]
        /\ at' \in [Conn -> Places]
    BY <1>4, MoveEffect DEF Places
  <2>2. /\ reported'[c]
        /\ \A d \in Conn : d # c => reported'[d] = reported[d]
        /\ reported' \in [Conn -> BOOLEAN]
    BY <1>4, ReportEffect
  <2>3. TypeOK'
    BY <1>1, <1>4, <2>1, <2>2 DEF TypeOK
  <2>4. NumbersKept' /\ InTable' /\ SocketsOwn' /\ ClosedStaysFree'
    BY <1>1, <2>1, <2>2, TableKept DEF Held, Constructing
  <2>5. Progress'
    BY <1>1, <1>4, <2>1, <2>2 DEF Progress, ProgressOf
  <2>6. Answered'
    BY <1>1, <2>1, <2>2 DEF Answered
  <2> QED BY <2>3, <2>4, <2>5, <2>6
<1> QED BY <1>2, <1>3, <1>4

LEMMA ConnectIInv == ASSUME NEW c \in Conn, IInv, Connect(c) PROVE IInv'
<1> USE DEF IInv
<1>1. PICK ok \in SUBSET {"connect", "name"} :
        /\ Succeed(c, ok)
        /\ IF ok = {"connect", "name"} THEN reported' = reported ELSE Report(c)
  BY DEF Connect
<1>2. Move(c, "connect", "address") /\ UNCHANGED <<num, owner, reused, ended>>
  BY DEF Connect
<1>3. /\ at[c] = "connect" /\ at'[c] = "address"
      /\ \A d \in Conn : d # c => at'[d] = at[d]
      /\ at' \in [Conn -> Places]
  BY <1>2, MoveEffect DEF Places
<1>4. /\ done'[c] = done[c] \cup ok
      /\ \A d \in Conn : d # c => done'[d] = done[d]
      /\ done' \in [Conn -> SUBSET Steps]
  <2>1. ok \in SUBSET Steps
    BY DEF Steps
  <2> QED BY <1>1, <2>1, SucceedEffect
<1>5. /\ ~reported'[c] => ok = {"connect", "name"} /\ ~reported[c]
      /\ \A d \in Conn : d # c => reported'[d] = reported[d]
      /\ reported' \in [Conn -> BOOLEAN]
  <2>1. CASE ok = {"connect", "name"}
    BY <1>1, <2>1 DEF TypeOK
  <2>2. CASE ok # {"connect", "name"}
    BY <1>1, <2>2, ReportEffect
  <2> QED BY <2>1, <2>2
<1>6. TypeOK'
  BY <1>2, <1>3, <1>4, <1>5 DEF TypeOK
<1>7. NumbersKept' /\ InTable' /\ SocketsOwn' /\ ClosedStaysFree'
  BY <1>2, <1>3, <1>5, TableKept DEF Held, Constructing
<1>8. Progress'
  <2> SUFFICES ASSUME NEW d \in Conn, ~reported'[d] PROVE ProgressOf(d)'
    BY DEF Progress, ProgressOf
  <2>1. CASE d = c
    <3>1. done[c] = {"info"}
      BY <2>1, <1>3, <1>5 DEF Progress, ProgressOf
    <3>2. done'[c] = {"info", "connect", "name"}
      BY <3>1, <2>1, <1>4, <1>5
    <3> QED BY <3>2, <2>1, <1>3 DEF ProgressOf
  <2>2. CASE d # c
    BY <2>2, <1>2, <1>3, <1>4, <1>5 DEF Progress, ProgressOf
  <2> QED BY <2>1, <2>2
<1>9. Answered'
  BY <1>2, <1>3, <1>5 DEF Answered
<1> QED BY <1>6, <1>7, <1>8, <1>9

LEMMA OpenDatagramIInv == ASSUME NEW c \in Conn, IInv, OpenDatagram(c) PROVE IInv'
<1> USE DEF IInv
<1>1. Move(c, "address", "alias") /\ ended' = ended
  BY DEF OpenDatagram
<1>2. /\ at[c] = "address" /\ at'[c] = "alias"
      /\ \A d \in Conn : d # c => at'[d] = at[d]
      /\ at' \in [Conn -> Places]
  BY <1>1, MoveEffect DEF Places
<1>3. \/ Open(<<c, "dgram">>) /\ Succeed(c, {"dgram"}) /\ reported' = reported
      \/ Report(c) /\ UNCHANGED <<num, owner, done, reused>>
  BY DEF OpenDatagram
<1>4. CASE Open(<<c, "dgram">>) /\ Succeed(c, {"dgram"}) /\ reported' = reported
  <2>1. \A fd \in Fds : owner[fd] # <<c, "dgram">>
    BY <1>2 DEF InTable
  <2>2. /\ NumbersKept' /\ SocketsOwn' /\ ClosedStaysFree'
        /\ \A fd \in Fds : owner'[fd] \in {owner[fd], <<c, "dgram">>}
        /\ num'[<<c, "dgram">>] \in Fds
        /\ \A d \in Conn, k \in {"conn", "utun", "dgram"} :
             <<d, k>> # <<c, "dgram">> => num'[<<d, k>>] = num[<<d, k>>]
        /\ owner' \in [Fds -> Handles \cup {Free}]
        /\ num' \in [Handles -> Fds \cup {NoNumber}]
        /\ reused' \in BOOLEAN
    <3>1. \A k \in {"conn", "utun", "dgram"} : k # "dgram" /\ Held(c, k)' => Held(c, k)
      BY <1>2 DEF Held, Constructing
    <3> QED BY <3>1, <1>2, <1>4, <2>1, TableOpened
  <2>3. /\ done'[c] = done[c] \cup {"dgram"}
        /\ \A d \in Conn : d # c => done'[d] = done[d]
        /\ done' \in [Conn -> SUBSET Steps]
    BY <1>4, SucceedEffect DEF Steps
  <2>4. num'[<<c, "dgram">>] # NoNumber
    BY <2>2, NoNumberIsNone
  <2>5. \A d \in Conn : d # c => num'[<<d, "dgram">>] = num[<<d, "dgram">>]
    <3> SUFFICES ASSUME NEW d \in Conn, d # c PROVE num'[<<d, "dgram">>] = num[<<d, "dgram">>]
      OBVIOUS
    <3>1. <<d, "dgram">> # <<c, "dgram">>
      OBVIOUS
    <3> QED BY <3>1, <2>2
  <2>6. TypeOK'
    BY <1>1, <1>2, <1>4, <2>2, <2>3 DEF TypeOK
  <2>7. InTable'
    BY <1>2, <1>4, <2>2, HandlesApart DEF InTable
  <2>8. Progress'
    <3> SUFFICES ASSUME NEW d \in Conn, ~reported'[d] PROVE ProgressOf(d)'
      BY DEF Progress, ProgressOf
    <3>1. CASE d = c
      BY <3>1, <1>2, <1>4, <2>3, <2>4 DEF Progress, ProgressOf
    <3>2. CASE d # c
      BY <3>2, <1>2, <1>4, <2>3, <2>5 DEF Progress, ProgressOf
    <3> QED BY <3>1, <3>2
  <2>9. Answered'
    BY <1>2, <1>4, <2>5 DEF Answered
  <2> QED BY <2>2, <2>6, <2>7, <2>8, <2>9
<1>5. CASE Report(c) /\ UNCHANGED <<num, owner, done, reused>>
  <2>1. /\ reported'[c]
        /\ \A d \in Conn : d # c => reported'[d] = reported[d]
        /\ reported' \in [Conn -> BOOLEAN]
    BY <1>5, ReportEffect
  <2>2. TypeOK'
    BY <1>1, <1>2, <1>5, <2>1 DEF TypeOK
  <2>3. num[<<c, "dgram">>] = NoNumber
    BY <1>2 DEF Answered
  <2>4. NumbersKept' /\ InTable' /\ SocketsOwn' /\ ClosedStaysFree'
    BY <1>2, <1>5, <2>1, <2>3, TableKept DEF Held, Constructing
  <2>5. Progress'
    BY <1>2, <1>5, <2>1 DEF Progress, ProgressOf
  <2>6. Answered'
    BY <1>2, <1>5, <2>1 DEF Answered
  <2> QED BY <2>2, <2>4, <2>5, <2>6
<1> QED BY <1>3, <1>4, <1>5

\* What closing an own descriptor, or the datagram socket again, keeps.
LEMMA OwnToClose ==
  ASSUME NEW c \in Conn, NEW kind \in {"conn", "utun", "dgram"}, IInv,
         ~reused, num[<<c, kind>>] \in Fds,
         Held(c, kind) \/ (kind = "dgram" /\ at[c] = "closeAgain")
  PROVE  owner[num[<<c, kind>>]] \in {<<c, kind>>, Free}
<1>1. CASE Held(c, kind)
  BY <1>1 DEF IInv, SocketsOwn
<1>2. CASE kind = "dgram" /\ at[c] = "closeAgain"
  BY <1>2, NoNumberIsNone DEF IInv, ClosedStaysFree
<1> QED BY <1>1, <1>2

LEMMA SetAddressIInv == ASSUME NEW c \in Conn, IInv, SetAddress(c) PROVE IInv'
<1> USE DEF IInv
<1>1. CASE /\ Move(c, "alias", "close") /\ num[<<c, "dgram">>] # NoNumber
           /\ Succeed(c, {"alias"}) /\ UNCHANGED <<num, owner, reported, reused, ended>>
  <2>1. /\ at[c] = "alias" /\ at'[c] = "close"
        /\ \A d \in Conn : d # c => at'[d] = at[d]
        /\ at' \in [Conn -> Places]
    BY <1>1, MoveEffect DEF Places
  <2>2. /\ done'[c] = done[c] \cup {"alias"}
        /\ \A d \in Conn : d # c => done'[d] = done[d]
        /\ done' \in [Conn -> SUBSET Steps]
    BY <1>1, SucceedEffect DEF Steps
  <2>3. TypeOK'
    BY <1>1, <2>1, <2>2 DEF TypeOK
  <2>4. NumbersKept' /\ InTable' /\ SocketsOwn' /\ ClosedStaysFree'
    BY <1>1, <2>1, TableKept DEF Held, Constructing
  <2>5. Progress'
    <3> SUFFICES ASSUME NEW d \in Conn, ~reported'[d] PROVE ProgressOf(d)'
      BY DEF Progress, ProgressOf
    <3>1. CASE d = c
      BY <3>1, <1>1, <2>1, <2>2 DEF Progress, ProgressOf, Steps
    <3>2. CASE d # c
      BY <3>2, <1>1, <2>1, <2>2 DEF Progress, ProgressOf
    <3> QED BY <3>1, <3>2
  <2>6. Answered'
    BY <1>1, <2>1 DEF Answered
  <2> QED BY <2>3, <2>4, <2>5, <2>6
<1>2. CASE /\ Move(c, "alias", "closeAgain") /\ Report(c) /\ Close(<<c, "dgram">>)
           /\ UNCHANGED <<done, ended>>
  <2>1. /\ at[c] = "alias" /\ at'[c] = "closeAgain"
        /\ \A d \in Conn : d # c => at'[d] = at[d]
        /\ at' \in [Conn -> Places]
    BY <1>2, MoveEffect DEF Places
  <2>2. /\ reported'[c]
        /\ \A d \in Conn : d # c => reported'[d] = reported[d]
        /\ reported' \in [Conn -> BOOLEAN]
    BY <1>2, ReportEffect
  <2>3. num' = num /\ reused' = reused /\ owner' \in [Fds -> Handles \cup {Free}]
    BY <1>2, HandlesApart, CloseEffect
  <2>4. ~reused /\ num[<<c, "dgram">>] \in Fds
          => owner[num[<<c, "dgram">>]] \in {<<c, "dgram">>, Free}
    <3>1. num[<<c, "dgram">>] \in Fds => Held(c, "dgram")
      BY <2>1, NoNumberIsNone DEF Held
    <3> QED BY <3>1, OwnToClose
  <2>5. \A k \in {"conn", "utun", "dgram"} : Held(c, k)' => Held(c, k) /\ k # "dgram"
    BY <2>1 DEF Held, Constructing
  <2>6. /\ NumbersKept' /\ SocketsOwn' /\ ClosedStaysFree'
        /\ \A fd \in Fds : owner'[fd] # <<c, "dgram">>
        /\ \A fd \in Fds : owner'[fd] \in {owner[fd], Free}
    BY <1>2, <2>1, <2>4, <2>5, TableClosed
  <2>7. TypeOK'
    BY <1>2, <2>1, <2>2, <2>3 DEF TypeOK
  <2>8. InTable'
    BY <2>1, <2>2, <2>6, InTableClosed
  <2>9. Progress'
    BY <1>2, <2>1, <2>2, <2>3 DEF Progress, ProgressOf
  <2>10. Answered'
    BY <2>1, <2>2, <2>3 DEF Answered
  <2> QED BY <2>6, <2>7, <2>8, <2>9, <2>10
<1> QED BY <1>1, <1>2 DEF SetAddress

LEMMA CloseDatagramIInv == ASSUME NEW c \in Conn, IInv, CloseDatagram(c) PROVE IInv'
<1> USE DEF IInv
<1>1. /\ at[c] \in {"close", "closeAgain"}
      /\ at' = [at EXCEPT ![c] = AfterConstruction(c)]
      /\ Close(<<c, "dgram">>)
      /\ UNCHANGED <<done, reported, ended>>
  BY DEF CloseDatagram
<1>2. /\ at'[c] = IF reported[c] THEN "failed" ELSE "serving"
      /\ \A d \in Conn : d # c => at'[d] = at[d]
      /\ at' \in [Conn -> Places]
  BY <1>1 DEF TypeOK, AfterConstruction, Places
<1>3. num' = num /\ reused' = reused /\ owner' \in [Fds -> Handles \cup {Free}]
  BY <1>1, HandlesApart, CloseEffect
<1>4. ~reused /\ num[<<c, "dgram">>] \in Fds
        => owner[num[<<c, "dgram">>]] \in {<<c, "dgram">>, Free}
  <2>1. num[<<c, "dgram">>] \in Fds => Held(c, "dgram") \/ at[c] = "closeAgain"
    BY <1>1, NoNumberIsNone DEF Held
  <2> QED BY <2>1, OwnToClose
<1>5. \A k \in {"conn", "utun", "dgram"} : Held(c, k)' => Held(c, k) /\ k # "dgram"
  BY <1>1, <1>2 DEF Held, Constructing
<1>6. /\ NumbersKept' /\ SocketsOwn' /\ ClosedStaysFree'
      /\ \A fd \in Fds : owner'[fd] # <<c, "dgram">>
      /\ \A fd \in Fds : owner'[fd] \in {owner[fd], Free}
  BY <1>1, <1>2, <1>4, <1>5, TableClosed
<1>7. TypeOK'
  BY <1>1, <1>2, <1>3 DEF TypeOK
<1>8. InTable'
  BY <1>1, <1>2, <1>6, InTableClosed
<1>9. Progress'
  BY <1>1, <1>2, <1>3 DEF Progress, ProgressOf
<1>10. Answered'
  BY <1>1, <1>2, <1>3 DEF Answered
<1> QED BY <1>6, <1>7, <1>8, <1>9, <1>10

LEMMA HangUpIInv == ASSUME NEW c \in Conn, IInv, HangUp(c) PROVE IInv'
<1> USE DEF IInv
<1>1. /\ at[c] \in {"up", "failed", "serving"}
      /\ at' = [at EXCEPT ![c] = IF @ = "serving" THEN "leaving" ELSE "over"]
      /\ Close(<<c, "conn">>)
      /\ UNCHANGED <<done, reported, ended>>
  BY DEF HangUp
<1>2. /\ at[c] = "serving" => at'[c] = "leaving"
      /\ at[c] # "serving" => at'[c] = "over"
      /\ \A d \in Conn : d # c => at'[d] = at[d]
      /\ at' \in [Conn -> Places]
  BY <1>1 DEF TypeOK, Places
<1>3. num' = num /\ reused' = reused /\ owner' \in [Fds -> Handles \cup {Free}]
  BY <1>1, HandlesApart, CloseEffect
<1>4. ~reused /\ num[<<c, "conn">>] \in Fds
        => owner[num[<<c, "conn">>]] \in {<<c, "conn">>, Free}
  <2>1. Held(c, "conn")
    BY <1>1 DEF Held
  <2> QED BY <2>1, OwnToClose
<1>5. \A k \in {"conn", "utun", "dgram"} : Held(c, k)' => Held(c, k) /\ k # "conn"
  BY <1>1, <1>2 DEF Held, Constructing
<1>6. /\ NumbersKept' /\ SocketsOwn' /\ ClosedStaysFree'
      /\ \A fd \in Fds : owner'[fd] # <<c, "conn">>
      /\ \A fd \in Fds : owner'[fd] \in {owner[fd], Free}
  BY <1>1, <1>2, <1>4, <1>5, TableClosed
<1>7. TypeOK'
  BY <1>1, <1>2, <1>3 DEF TypeOK
<1>8. InTable'
  <2>1. at[c] = "failed" => reported[c]
    BY DEF Progress, ProgressOf
  <2> QED BY <2>1, <1>1, <1>2, <1>6, InTableClosed
<1>9. Progress'
  BY <1>1, <1>2, <1>3 DEF Progress, ProgressOf
<1>10. Answered'
  BY <1>1, <1>2, <1>3 DEF Answered
<1> QED BY <1>6, <1>7, <1>8, <1>9, <1>10

LEMMA DestroyIInv == ASSUME NEW c \in Conn, IInv, Destroy(c) PROVE IInv'
<1> USE DEF IInv
<1>1. Move(c, "leaving", "over") /\ Close(<<c, "utun">>) /\ UNCHANGED <<done, reported, ended>>
  BY DEF Destroy
<1>2. /\ at[c] = "leaving" /\ at'[c] = "over"
      /\ \A d \in Conn : d # c => at'[d] = at[d]
      /\ at' \in [Conn -> Places]
  BY <1>1, MoveEffect DEF Places
<1>3. num' = num /\ reused' = reused /\ owner' \in [Fds -> Handles \cup {Free}]
  BY <1>1, HandlesApart, CloseEffect
<1>4. ~reused /\ num[<<c, "utun">>] \in Fds
        => owner[num[<<c, "utun">>]] \in {<<c, "utun">>, Free}
  <2>1. Held(c, "utun")
    BY <1>2 DEF Held
  <2> QED BY <2>1, OwnToClose
<1>5. \A k \in {"conn", "utun", "dgram"} : Held(c, k)' => Held(c, k) /\ k # "utun"
  BY <1>2 DEF Held, Constructing
<1>6. /\ NumbersKept' /\ SocketsOwn' /\ ClosedStaysFree'
      /\ \A fd \in Fds : owner'[fd] # <<c, "utun">>
      /\ \A fd \in Fds : owner'[fd] \in {owner[fd], Free}
  BY <1>1, <1>2, <1>4, <1>5, TableClosed
<1>7. TypeOK'
  BY <1>1, <1>2, <1>3 DEF TypeOK
<1>8. InTable'
  BY <1>1, <1>2, <1>6, InTableClosed
<1>9. Progress'
  BY <1>1, <1>2, <1>3 DEF Progress, ProgressOf
<1>10. Answered'
  BY <1>1, <1>2, <1>3 DEF Answered
<1> QED BY <1>6, <1>7, <1>8, <1>9, <1>10

LEMMA UnchangedIInv == ASSUME IInv, UNCHANGED <<at, num, owner, done, reported, reused>>,
                              ended' \in BOOLEAN
                       PROVE  IInv'
<1> USE DEF IInv
<1>1. TypeOK'
  BY DEF TypeOK
<1>2. NumbersKept' /\ InTable' /\ ClosedStaysFree' /\ Progress' /\ Answered'
  BY DEF NumbersKept, InTable, ClosedStaysFree, Progress, ProgressOf, Answered
<1>3. SocketsOwn'
  BY DEF SocketsOwn, Held
<1> QED BY <1>1, <1>2, <1>3

-----------------------------------------------------------------------------
(***************************************************************************)
(* The invariant holds at the start and every step keeps it.               *)
(***************************************************************************)
THEOREM Inductive == Spec => []IInv
<1>1. Init => IInv
  <2> SUFFICES ASSUME Init PROVE IInv
    OBVIOUS
  <2>1. TypeOK
    BY DEF Init, TypeOK, Places
  <2>2. NumbersKept /\ ClosedStaysFree
    BY DEF Init, NumbersKept, ClosedStaysFree
  <2>3. \A c \in Conn : /\ at[c] = "none" /\ reported[c] = FALSE /\ done[c] = {}
                         /\ num[<<c, "dgram">>] = NoNumber
    BY HandlesApart DEF Init
  <2>4. Progress /\ Answered
    BY <2>3 DEF Progress, ProgressOf, Answered
  <2>5. InTable
    <3>1. \A d \in Conn, k \in {"conn", "utun", "dgram"} : <<d, k>> # Free
      BY HandlesApart
    <3> QED BY <3>1 DEF Init, InTable
  <2>6. SocketsOwn
    BY HandlesApart DEF Init, SocketsOwn, Held, Constructing
  <2> QED BY <2>1, <2>2, <2>4, <2>5, <2>6 DEF IInv
<1>2. IInv /\ [Next]_vars => IInv'
  <2> SUFFICES ASSUME IInv, [Next]_vars PROVE IInv'
    OBVIOUS
  <2>1. ASSUME NEW c \in Conn, NoSocket(c) PROVE IInv'
    BY <2>1, UnchangedIInv DEF NoSocket
  <2>2. ASSUME NEW c \in Conn, Construct(c) PROVE IInv'
    BY <2>1, <2>2, CreateSocketIInv, GetInfoIInv, ConnectIInv, OpenDatagramIInv, SetAddressIInv,
       CloseDatagramIInv DEF Construct
  <2>3. CASE Next
    BY <2>2, <2>3, AcceptIInv, HangUpIInv, DestroyIInv DEF Next
  <2>4. CASE UNCHANGED vars
    BY <2>4, UnchangedIInv DEF vars, IInv, TypeOK
  <2> QED BY <2>3, <2>4
<1> QED BY <1>1, <1>2, PTL DEF Spec

\* The variables have their types.
THEOREM TypeCorrect == Spec => []TypeOK
BY Inductive, PTL DEF IInv

(***************************************************************************)
(* While no number was given out between its two closes, no connection's   *)
(* sockets belong to another (writes and closes of SLUTNInterface.cpp and  *)
(* SLConnection.cpp reach the own descriptor).                             *)
(***************************************************************************)
THEOREM SocketsStayOwn == Spec => []SocketsOwn
BY Inductive, PTL DEF IInv

(***************************************************************************)
(* Nothing but the utun socket of a reported construction stays in the     *)
(* descriptor table after its connection (SLUTNInterface.cpp:157).         *)
(***************************************************************************)
THEOREM LeakOnlyFailures == Spec => []OnlyFailuresLeak
<1>1. IInv => OnlyFailuresLeak
  BY DEF IInv, InTable, OnlyFailuresLeak
<1> QED BY <1>1, Inductive, PTL

(***************************************************************************)
(* An interface in service went through every step of its construction     *)
(* (SLUTNInterface.cpp:39-122).                                            *)
(***************************************************************************)
THEOREM ConfiguredInService == Spec => []ServingIsConfigured
<1>1. IInv => ServingIsConfigured
  BY DEF IInv, Progress, ProgressOf, Answered, ServingIsConfigured
<1> QED BY <1>1, Inductive, PTL
=============================================================================
