--------------------------- MODULE SLServerProofs ---------------------------
(***************************************************************************)
(* Proofs, for every finite set of connections, every limit and every      *)
(* initial value of the counter, that SLServer keeps its counter, bounds   *)
(* its memory and implements AdmissionControl.                             *)
(***************************************************************************)
EXTENDS SLServer, FiniteSetTheorems, TLAPS

\* mThreadCount and the per-connection state keep their types.
THEOREM TypeCorrect == Spec => []TypeOK
<1>1. Init => TypeOK
  BY ServerAssumption DEF Init, TypeOK, Phases
<1>2. TypeOK /\ [Next]_vars => TypeOK'
  <2> SUFFICES ASSUME TypeOK, [Next]_vars PROVE TypeOK'
    OBVIOUS
  <2>1. CASE StartServer
    BY <2>1 DEF StartServer, TypeOK
  <2>2. ASSUME NEW c \in Conn, Connect(c) \/ PeerGone(c) PROVE TypeOK'
    BY <2>2 DEF Connect, PeerGone, Go, TypeOK, Phases
  <2>3. ASSUME NEW c \in Conn, ListenerStep(c) PROVE TypeOK'
    BY <2>3 DEF ListenerStep, Refuse, BevFails, Admit, Spawn, AcceptSocket, Go, TypeOK, Phases
  <2>4. ASSUME NEW c \in Conn, ThreadStep(c) PROVE TypeOK'
    BY <2>4 DEF ThreadStep, Construct, HangUp, Return, Delete, Release, Go, TypeOK, Phases
  <2>5. ASSUME NEW c \in Conn, DataStep(c) PROVE TypeOK'
    BY <2>5 DEF DataStep, WriteData, DataWritten, Go, TypeOK, Phases
  <2>6. CASE Terminate
    BY <2>6 DEF Terminate, TypeOK
  <2>7. CASE UNCHANGED vars
    BY <2>7 DEF vars, TypeOK
  <2>8. QED
    BY <2>1, <2>2, <2>3, <2>4, <2>5, <2>6, <2>7 DEF Next
<1>3. QED
  BY <1>1, <1>2, PTL DEF Spec

-----------------------------------------------------------------------------
\* The counted connections are finitely many, so their number is a natural.
LEMMA LiveFinite == IsFiniteSet(Live) /\ Cardinality(Live) \in Nat
BY ServerAssumption, FS_Subset, FS_CardinalityType DEF Live, InPhase

\* A step within, or outside, the counted phases leaves Live as it is.
LEMMA LiveKept ==
  ASSUME NEW c \in Conn, NEW from, NEW to, TypeOK, Go(c, from, to),
         from \in Counted <=> to \in Counted
  PROVE  Live' = Live
BY DEF TypeOK, Go, Live, InPhase

\* Entering the counted phases adds the connection to Live, leaving removes it.
LEMMA LiveEntered ==
  ASSUME NEW c \in Conn, NEW from, NEW to, TypeOK, Go(c, from, to),
         from \notin Counted, to \in Counted
  PROVE  Cardinality(Live)' = Cardinality(Live) + 1
<1>1. Live' = Live \cup {c} /\ c \notin Live
  BY DEF TypeOK, Go, Live, InPhase
<1>2. QED
  BY <1>1, LiveFinite, FS_AddElement

LEMMA LiveLeft ==
  ASSUME NEW c \in Conn, NEW from, NEW to, TypeOK, Go(c, from, to),
         from \in Counted, to \notin Counted
  PROVE  Cardinality(Live)' = Cardinality(Live) - 1
<1>1. Live' = Live \ {c} /\ c \in Live
  BY DEF TypeOK, Go, Live, InPhase
<1>2. QED
  BY <1>1, LiveFinite, FS_RemoveElement

\* While a connection is past the check and not yet counted there is a free
\* place for it.
LEMMA FreePlace ==
  ASSUME TypeOK, CountIsLive, RoomForAdmitted, InPhase({"admitted"}) # {}
  PROVE  Capacity \in Nat /\ Cardinality(Live) < Capacity
<1>1. start \in Int /\ MaxThreads \in Nat /\ count \in Int
  BY ServerAssumption DEF TypeOK
<1>2. count <= MaxThreads /\ count = start + Cardinality(Live)
  BY DEF RoomForAdmitted, CountIsLive
<1>3. QED
  BY <1>1, <1>2, LiveFinite DEF Capacity

\* When the check fails there is no place left.
LEMMA NoPlace ==
  ASSUME TypeOK, CountIsLive, count > MaxThreads
  PROVE  Cardinality(Live) >= Capacity
<1>1. start \in Int /\ MaxThreads \in Nat /\ count \in Int
  BY ServerAssumption DEF TypeOK
<1>2. count = start + Cardinality(Live)
  BY DEF CountIsLive
<1>3. QED
  BY <1>1, <1>2, LiveFinite DEF Capacity

LEMMA CapacityNat == ASSUME TypeOK PROVE Capacity \in Nat
BY ServerAssumption DEF TypeOK, Capacity

\* How a step changes the set of running threads: one thread starts, one
\* thread ends, or the set stays.
LEMMA LiveStep ==
  ASSUME TypeOK, [Next]_vars
  PROVE  \/ \E c \in Conn : Spawn(c) /\ Cardinality(Live)' = Cardinality(Live) + 1
         \/ \E c \in Conn : Release(c) /\ Cardinality(Live)' = Cardinality(Live) - 1
         \/ count' = count /\ Live' = Live
<1> USE DEF Counted
<1>1. CASE StartServer \/ Terminate \/ UNCHANGED vars
  BY <1>1 DEF StartServer, Terminate, vars, Live, InPhase
<1>2. ASSUME NEW c \in Conn, Spawn(c) PROVE Cardinality(Live)' = Cardinality(Live) + 1
  BY <1>2, LiveEntered DEF Spawn
<1>3. ASSUME NEW c \in Conn, Release(c) PROVE Cardinality(Live)' = Cardinality(Live) - 1
  BY <1>3, LiveLeft DEF Release
<1>4. ASSUME NEW c \in Conn, Connect(c) \/ Refuse(c) \/ BevFails(c) \/ Admit(c)
      PROVE  count' = count /\ Live' = Live
  BY <1>4, LiveKept DEF Connect, Refuse, BevFails, Admit
<1>5. ASSUME NEW c \in Conn, PeerGone(c) PROVE count' = count /\ Live' = Live
  BY <1>5 DEF PeerGone, Live, InPhase
<1>6. ASSUME NEW c \in Conn,
             Construct(c) \/ HangUp(c) \/ Return(c) \/ Delete(c) \/ DataStep(c)
      PROVE  count' = count /\ Live' = Live
  BY <1>6, LiveKept DEF Construct, HangUp, Return, Delete, DataStep, WriteData, DataWritten
<1>7. QED
  BY <1>1, <1>2, <1>3, <1>4, <1>5, <1>6 DEF Next, ListenerStep, ThreadStep

LEMMA StartFixed == ASSUME [Next]_vars PROVE start' = start
BY DEF Next, vars, StartServer, Connect, PeerGone, ListenerStep, Refuse, BevFails, Admit, Spawn,
       ThreadStep, Construct, HangUp, Return, Delete, Release, DataStep, WriteData, DataWritten,
       Terminate

\* CountIsLive and PlacesRespected are kept by every step: only Spawn and
\* Release touch the counter, and Spawn is preceded by a check that leaves room.
LEMMA CountStep ==
  ASSUME TypeOK, CountIsLive, RoomForAdmitted, PlacesRespected, [Next]_vars
  PROVE  CountIsLive' /\ PlacesRespected'
<1> USE DEF CountIsLive, PlacesRespected
<1>1. start' = start /\ Capacity' = Capacity /\ Capacity \in Nat /\ start \in Int
  BY StartFixed, CapacityNat, ServerAssumption DEF Capacity, TypeOK
<1>2. ASSUME NEW c \in Conn, Spawn(c), Cardinality(Live)' = Cardinality(Live) + 1
      PROVE  CountIsLive' /\ PlacesRespected'
  <2>1. InPhase({"admitted"}) # {}
    BY <1>2 DEF Spawn, Go, InPhase
  <2>2. QED
    BY <1>1, <1>2, <2>1, FreePlace, LiveFinite DEF Spawn
<1>3. ASSUME NEW c \in Conn, Release(c), Cardinality(Live)' = Cardinality(Live) - 1
      PROVE  CountIsLive' /\ PlacesRespected'
  BY <1>1, <1>3, LiveFinite DEF Release
<1>4. CASE count' = count /\ Live' = Live
  BY <1>1, <1>4
<1>5. QED
  BY <1>2, <1>3, <1>4, LiveStep

\* The two facts about a connection the listener has let past its check.
LEMMA AdmissionStep ==
  ASSUME TypeOK, OneAdmission, RoomForAdmitted, [Next]_vars
  PROVE  OneAdmission' /\ RoomForAdmitted'
<1> USE ServerAssumption DEF OneAdmission, RoomForAdmitted, InPhase, TypeOK
<1>1. CASE StartServer \/ Terminate \/ UNCHANGED vars
  BY <1>1 DEF StartServer, Terminate, vars
<1>2. ASSUME NEW c \in Conn, Spawn(c) PROVE OneAdmission' /\ RoomForAdmitted'
  BY <1>2 DEF Spawn, Go
<1>3. ASSUME NEW c \in Conn, Release(c) PROVE OneAdmission' /\ RoomForAdmitted'
  BY <1>3 DEF Release, Go
<1>4. ASSUME NEW c \in Conn, Admit(c) PROVE OneAdmission' /\ RoomForAdmitted'
  BY <1>4 DEF Admit, Go, ListenerIdle
<1>5. ASSUME NEW c \in Conn, Connect(c) \/ Refuse(c) \/ BevFails(c)
      PROVE  OneAdmission' /\ RoomForAdmitted'
  BY <1>5 DEF Connect, Refuse, BevFails, Go
<1>6. ASSUME NEW c \in Conn, PeerGone(c) PROVE OneAdmission' /\ RoomForAdmitted'
  BY <1>6 DEF PeerGone
<1>7. ASSUME NEW c \in Conn,
             Construct(c) \/ HangUp(c) \/ Return(c) \/ Delete(c) \/ DataStep(c)
      PROVE  OneAdmission' /\ RoomForAdmitted'
  BY <1>7 DEF Construct, HangUp, Return, Delete, DataStep, WriteData, DataWritten, Go
<1>8. QED
  BY <1>1, <1>2, <1>3, <1>4, <1>5, <1>6, <1>7 DEF Next, ListenerStep, ThreadStep

-----------------------------------------------------------------------------
\* The strengthened invariant holds of every reachable state.
THEOREM Inductive == Spec => []IInv
<1>1. Init => IInv
  <2> SUFFICES ASSUME Init PROVE IInv
    OBVIOUS
  <2>1. Live = {} /\ InPhase({"admitted"}) = {}
    BY DEF Init, Live, InPhase, Counted
  <2>2. TypeOK
    BY ServerAssumption DEF Init, TypeOK, Phases
  <2>3. CountIsLive
    BY <2>1, FS_EmptySet, ServerAssumption DEF Init, CountIsLive
  <2>4. PlacesRespected
    BY <2>1, <2>2, FS_EmptySet, CapacityNat DEF PlacesRespected
  <2>5. QED
    BY <2>1, <2>2, <2>3, <2>4 DEF IInv, OneAdmission, RoomForAdmitted
<1>2. IInv /\ TypeOK' /\ [Next]_vars => IInv'
  BY CountStep, AdmissionStep DEF IInv
<1>3. QED
  BY <1>1, <1>2, TypeCorrect, PTL DEF Spec

\* mThreadCount is always its initial value plus the number of threads running.
THEOREM CounterCorrect == Spec => []CountIsLive
<1>1. IInv => CountIsLive
  BY DEF IInv
<1>2. QED
  BY <1>1, Inductive, PTL

-----------------------------------------------------------------------------
\* A connection is turned away only when the server is full, for every limit
\* and whatever the counter started from.
THEOREM RefusalsJustified == Spec => RefusedOnlyWhenFull
<1>1. IInv /\ [Next]_vars =>
        [\A c \in Conn : phase[c] = "queued" /\ phase'[c] = "refused"
                           => Cardinality(Live) >= Capacity]_vars
  <2> SUFFICES ASSUME IInv, [Next]_vars, NEW c \in Conn,
                      phase[c] = "queued", phase'[c] = "refused"
               PROVE  Cardinality(Live) >= Capacity
    OBVIOUS
  <2>1. phase \in [Conn -> Phases]
    BY DEF IInv, TypeOK
  <2>2. CASE \E d \in Conn : Refuse(d)
    BY <2>2, NoPlace DEF Refuse, IInv
  <2>3. CASE StartServer \/ Terminate \/ UNCHANGED vars
    BY <2>3 DEF StartServer, Terminate, vars
  <2>4. ASSUME NEW d \in Conn,
               \/ Connect(d) \/ PeerGone(d) \/ BevFails(d) \/ Admit(d) \/ Spawn(d)
               \/ ThreadStep(d) \/ DataStep(d)
        PROVE  FALSE
    BY <2>1, <2>4 DEF Connect, PeerGone, BevFails, Admit, Spawn, ThreadStep, Construct,
                      HangUp, Return, Delete, Release, DataStep, WriteData, DataWritten, Go
  <2>5. QED
    BY <2>2, <2>3, <2>4 DEF Next, ListenerStep
<1>2. QED
  BY <1>1, Inductive, PTL DEF Spec, RefusedOnlyWhenFull

-----------------------------------------------------------------------------
\* The connections whose objects are in memory never exceed the capacity: the
\* one being built by the listener still has a free place waiting for it.
THEOREM MemoryStaysBounded == Spec => []MemoryBounded
<1>1. IInv => MemoryBounded
  <2> SUFFICES ASSUME IInv PROVE Cardinality(ObjectsAlive) <= Capacity
    BY DEF MemoryBounded
  <2>1. Capacity \in Nat /\ Cardinality(Live) <= Capacity
    BY CapacityNat DEF IInv, PlacesRespected
  <2>2. CASE InPhase({"admitted"}) = {}
    <3>1. ObjectsAlive \in SUBSET Live
      BY <2>2 DEF ObjectsAlive, Live, InPhase, Counted
    <3>2. Cardinality(ObjectsAlive) <= Cardinality(Live) /\ IsFiniteSet(ObjectsAlive)
      BY <3>1, LiveFinite, FS_Subset
    <3>3. QED
      BY <2>1, <3>2, LiveFinite, FS_CardinalityType
  <2>3. ASSUME NEW a \in InPhase({"admitted"})
        PROVE  Cardinality(ObjectsAlive) <= Capacity
    <3>1. ObjectsAlive \in SUBSET (Live \cup {a})
      BY <2>3 DEF ObjectsAlive, Live, InPhase, Counted, IInv, OneAdmission
    <3>2. a \notin Live
      BY <2>3 DEF Live, InPhase, Counted
    <3>3. IsFiniteSet(Live \cup {a}) /\ Cardinality(Live \cup {a}) = Cardinality(Live) + 1
      BY <3>2, LiveFinite, FS_AddElement
    <3>4. Cardinality(ObjectsAlive) <= Cardinality(Live) + 1 /\ IsFiniteSet(ObjectsAlive)
      BY <3>1, <3>3, FS_Subset
    <3>5. Cardinality(ObjectsAlive) \in Nat
      BY <3>4, FS_CardinalityType
    <3>6. Cardinality(Live) < Capacity
      BY <2>3, FreePlace DEF IInv
    <3>7. QED
      BY <2>1, <3>4, <3>5, <3>6, LiveFinite
  <2>4. QED
    BY <2>2, <2>3
<1>2. QED
  BY <1>1, Inductive, PTL

-----------------------------------------------------------------------------
\* The instance has a copy of Cardinality of its own.
LEMMA SameCardinality == \A S : Admission!Cardinality(S) = Cardinality(S)
BY DEF Admission!Cardinality, Cardinality

\* Every step of the server is a step of AdmissionControl or invisible there.
LEMMA AdmissionSimulated ==
  ASSUME IInv, [Next]_vars
  PROVE  [Admission!ACNext]_(Admission!acVars)
<1> USE DEF Admission!acVars, Admission!Fresh, InPhase, Live, Counted
<1>1. Capacity' = Capacity
  BY StartFixed DEF Capacity
<1>2. phase \in [Conn -> Phases]
  BY DEF IInv, TypeOK
<1>3. CASE StartServer \/ Terminate \/ UNCHANGED vars
  BY <1>1, <1>3 DEF StartServer, Terminate, vars
<1>4. ASSUME NEW c \in Conn, Spawn(c) PROVE Admission!Enter(c)
  <2>1. Cardinality(Live) < Capacity
    <3>1. InPhase({"admitted"}) # {}
      BY <1>4 DEF Spawn, Go
    <3>2. QED
      BY <3>1, FreePlace DEF IInv
  <2>2. QED
    BY <1>1, <1>2, <1>4, <2>1, SameCardinality DEF Admission!Enter, Spawn, Go
<1>5. ASSUME NEW c \in Conn, Refuse(c) PROVE Admission!TurnAway(c)
  <2>1. Cardinality(Live) >= Capacity
    BY <1>5, NoPlace DEF Refuse, IInv
  <2>2. QED
    BY <1>1, <1>2, <1>5, <2>1, SameCardinality DEF Admission!TurnAway, Refuse, Go
<1>6. ASSUME NEW c \in Conn, BevFails(c) PROVE Admission!Drop(c)
  BY <1>1, <1>2, <1>6 DEF Admission!Drop, BevFails, Go
<1>7. ASSUME NEW c \in Conn, Release(c) PROVE Admission!Leave(c)
  BY <1>1, <1>2, <1>7 DEF Admission!Leave, Release, Go
<1>8. ASSUME NEW c \in Conn, PeerGone(c) PROVE UNCHANGED Admission!acVars
  BY <1>1, <1>8 DEF PeerGone
<1>9. ASSUME NEW c \in Conn, Connect(c) \/ Admit(c) \/ Construct(c) \/ HangUp(c) \/ Return(c)
                             \/ Delete(c) \/ DataStep(c)
      PROVE  UNCHANGED Admission!acVars
  BY <1>1, <1>2, <1>9 DEF Connect, Admit, Construct, HangUp, Return, Delete, DataStep,
                          WriteData, DataWritten, Go
<1>10. QED
  BY <1>3, <1>4, <1>5, <1>6, <1>7, <1>8, <1>9
  DEF Next, ListenerStep, ThreadStep, Admission!ACNext

\* The server implements AdmissionControl with the capacity its counter and
\* its limit give.
THEOREM ServerImplementsAdmission == Spec => ImplementsAdmission
<1>1. Init => Admission!ACInit
  <2> SUFFICES ASSUME Init PROVE Admission!ACInit
    OBVIOUS
  <2>1. Capacity \in Nat
    BY ServerAssumption DEF Init, Capacity
  <2>2. QED
    BY <2>1 DEF Init, Admission!ACInit, Live, InPhase, Counted
<1>2. IInv /\ [Next]_vars => [Admission!ACNext]_(Admission!acVars)
  BY AdmissionSimulated
<1>3. QED
  BY <1>1, <1>2, Inductive, PTL DEF Spec, ImplementsAdmission, Admission!ACSpec
=============================================================================
