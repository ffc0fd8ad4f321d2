--------------------------- MODULE MCTunnelSystem ---------------------------
(***************************************************************************)
(* A small instance of TunnelSystem: three packets of two kinds, so that   *)
(* one may be repeated and one may pass another.                           *)
(***************************************************************************)
EXTENDS TunnelSystem

CONSTANTS ping, pong

Packets == {ping, pong}
=============================================================================
