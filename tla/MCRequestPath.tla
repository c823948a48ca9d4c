---------------------------- MODULE MCRequestPath ----------------------------
(* Instance of RequestPath for TLC. *)
EXTENDS RequestPath, TLC
=============================================================================
