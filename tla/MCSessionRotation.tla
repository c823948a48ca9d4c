-------------------------- MODULE MCSessionRotation --------------------------
(* Instances of SessionRotation, and of its refinement, for TLC. *)
EXTENDS SessionRotationRefines, TLC

\* Requests are interchangeable, and so are sessions.
Symmetric == Permutations(Requests) \cup Permutations(Sessions)
=============================================================================
