--------------------------- MODULE MCMessageParser ---------------------------
(***************************************************************************)
(* A small instance of MessageParser: empty names and names that begin     *)
(* with a character of two bytes; packets whose length needs one byte and  *)
(* two; stray bodies that can spell a type, a code, a packet and lengths   *)
(* that lie.                                                               *)
(***************************************************************************)
EXTENDS MessageParser

NamesDef == {<<>>, <<195, 169, Letter>>}
AlphabetDef == {0, 1, 3, 10, 12, 64, 72, 98, 106, 195}
=============================================================================
