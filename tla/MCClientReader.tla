--------------------------- MODULE MCClientReader ---------------------------
(***************************************************************************)
(* A small instance of ClientReader: a two-byte header in radix 4, so that *)
(* half a header already spells a wrong length for the five-byte body.     *)
(***************************************************************************)
EXTENDS ClientReader
=============================================================================
