----------------------------- MODULE MCUtunWrite -----------------------------
(***************************************************************************)
(* A small instance of UtunWrite: an empty packet, one of one byte, and    *)
(* one that ::write can split in many ways between three failures.         *)
(***************************************************************************)
EXTENDS UtunWrite
=============================================================================
