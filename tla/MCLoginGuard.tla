----------------------------- MODULE MCLoginGuard -----------------------------
(* Instances of LoginGuard for TLC. *)
EXTENDS LoginGuard, TLC

\* Requests are interchangeable, and so are addresses.
Symmetric == Permutations(Requests) \cup Permutations(Ips)
=============================================================================
