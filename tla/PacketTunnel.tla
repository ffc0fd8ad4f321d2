---------------------------- MODULE PacketTunnel ----------------------------
(***************************************************************************)
(* What a client and its connection on the server provide together: a      *)
(* tunnel for the device's packets, which comes up only once the server    *)
(* has an interface for them and puts them through once and in order, each *)
(* of them whole unless the interface refused it at first; and in the      *)
(* other direction one message, whatever it says.  TunnelSystem implements *)
(* it.                                                                     *)
(***************************************************************************)
EXTENDS Naturals, Sequences

CONSTANT Packet      \* the packets of the device

VARIABLES ready,     \* the server has an interface
          up,        \* the device's system was told that the tunnel is up
          taken,     \* the packets taken from the device
          failing,   \* the interface has refused the next packet
          written,   \* those put through, each with whether it went whole
          answers    \* messages sent for the device

tunnelVars == <<ready, up, taken, failing, written, answers>>

TunnelInit ==
  /\ ready = FALSE /\ up = FALSE /\ answers = 0
  /\ taken = <<>> /\ failing = FALSE /\ written = <<>>

Provide ==
  /\ ~ready /\ ready' = TRUE
  /\ UNCHANGED <<up, taken, failing, written, answers>>

ComeUp ==
  /\ ready /\ ~up /\ up' = TRUE
  /\ UNCHANGED <<ready, taken, failing, written, answers>>

Send(p) ==
  /\ up /\ taken' = Append(taken, p)
  /\ UNCHANGED <<ready, up, failing, written, answers>>

Refuse ==
  /\ ready
  /\ Len(written) < Len(taken)
  /\ ~failing /\ failing' = TRUE
  /\ UNCHANGED <<ready, up, taken, written, answers>>

Deliver ==
  /\ ready
  /\ Len(written) < Len(taken)
  /\ written' = Append(written, <<taken[Len(written) + 1], ~failing>>)
  /\ failing' = FALSE
  /\ UNCHANGED <<ready, up, taken, answers>>

AnswerOnce ==
  /\ ready /\ answers = 0 /\ answers' = 1
  /\ UNCHANGED <<ready, up, taken, failing, written>>

TunnelNext ==
  \/ Provide \/ ComeUp \/ \E p \in Packet : Send(p)
  \/ Refuse \/ Deliver \/ AnswerOnce

TunnelSpec == TunnelInit /\ [][TunnelNext]_tunnelVars
=============================================================================
