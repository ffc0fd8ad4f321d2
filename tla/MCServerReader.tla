--------------------------- MODULE MCServerReader ---------------------------
(***************************************************************************)
(* A small instance of ServerReader: a two-byte header, bodies of 0, 1 and *)
(* 3 bytes, and reads that may cut a header, cut a body or bring several   *)
(* frames at once.                                                         *)
(***************************************************************************)
EXTENDS ServerReader
=============================================================================
