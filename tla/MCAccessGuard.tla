---------------------------- MODULE MCAccessGuard ----------------------------
(* Instance of AccessGuard for TLC. *)
EXTENDS AccessGuard, TLC
=============================================================================
