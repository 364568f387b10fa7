----------------------------- MODULE MCSockets -----------------------------
(***************************************************************************)
(* Instances of Sockets.                                                   *)
(***************************************************************************)
EXTENDS Sockets
=============================================================================
