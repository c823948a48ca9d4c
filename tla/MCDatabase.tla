----------------------------- MODULE MCDatabase -----------------------------
(* Instance of Database for TLC. *)
EXTENDS Database, TLC
=============================================================================
