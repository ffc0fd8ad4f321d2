-------------------------- MODULE AdmissionControl --------------------------
(***************************************************************************)
(* What a server that limits its connections promises, without threads or  *)
(* counters: a connection enters service only while fewer than `capacity'  *)
(* connections are in service, one is turned away only while the server is *)
(* full, and nobody is served twice.  SLServer implements it.              *)
(***************************************************************************)
EXTENDS Naturals, FiniteSets

CONSTANT Conn        \* the connections clients may open

VARIABLES capacity,  \* how many connections may be in service together
          inService, \* the connections in service
          turnedAway,\* the connections refused because the server was full
          finished   \* the connections served to the end, or dropped

acVars == <<capacity, inService, turnedAway, finished>>

Fresh == Conn \ (inService \cup turnedAway \cup finished)

ACInit ==
  /\ capacity \in Nat
  /\ inService = {}
  /\ turnedAway = {}
  /\ finished = {}

Enter(c) ==
  /\ c \in Fresh
  /\ Cardinality(inService) < capacity
  /\ inService' = inService \cup {c}
  /\ UNCHANGED <<capacity, turnedAway, finished>>

TurnAway(c) ==
  /\ c \in Fresh
  /\ Cardinality(inService) >= capacity
  /\ turnedAway' = turnedAway \cup {c}
  /\ UNCHANGED <<capacity, inService, finished>>

Leave(c) ==
  /\ c \in inService
  /\ inService' = inService \ {c}
  /\ finished' = finished \cup {c}
  /\ UNCHANGED <<capacity, turnedAway>>

\* A connection may be lost before service for want of memory.
Drop(c) ==
  /\ c \in Fresh
  /\ finished' = finished \cup {c}
  /\ UNCHANGED <<capacity, inService, turnedAway>>

ACNext == \E c \in Conn : Enter(c) \/ TurnAway(c) \/ Leave(c) \/ Drop(c)

ACSpec == ACInit /\ [][ACNext]_acVars
=============================================================================
