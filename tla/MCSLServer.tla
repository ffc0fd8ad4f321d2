----------------------------- MODULE MCSLServer -----------------------------
(***************************************************************************)
(* Small instances of SLServer: connections are model values, the limit is *)
(* 1, and the counter starts from zero or from rubbish on either side of   *)
(* the limit.                                                              *)
(***************************************************************************)
EXTENDS SLServer

AnyStart == {-1, 0, 2}
ZeroStart == {0}
=============================================================================
