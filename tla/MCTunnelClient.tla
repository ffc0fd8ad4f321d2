--------------------------- MODULE MCTunnelClient ---------------------------
(***************************************************************************)
(* A small instance of TunnelClient: a short of three bits, and ports zero,*)
(* inside the short, past it but inside TCP's range, and past that.        *)
(***************************************************************************)
EXTENDS TunnelClient

SomePorts == {0, 1, 3, 4, 7, 8, 10}
=============================================================================
