--------------------------- MODULE MCUtunInterface ---------------------------
(***************************************************************************)
(* Three connections on a table of four descriptors: too few for all of    *)
(* them, so that numbers are given out again and the table can be full.    *)
(***************************************************************************)
EXTENDS UtunInterface, TLC

CONSTANTS c1, c2, c3

Symmetry == Permutations({c1, c2, c3})
=============================================================================
