--------------------------- MODULE MCSLConnection ---------------------------
(***************************************************************************)
(* SLConnection has no constants: one connection, its two threads, one     *)
(* ESTABLISH, any number of DATA and the one packet its worker can take.   *)
(***************************************************************************)
EXTENDS SLConnection
=============================================================================
