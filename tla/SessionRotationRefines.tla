------------------------ MODULE SessionRotationRefines ------------------------
(***************************************************************************)
(* SessionRotation implements TokenAuthority when handlers of one session  *)
(* do not overlap: the row's state is its status, the last acceptance is   *)
(* the current token, and a handler past its acceptance has been granted   *)
(* one.  The decision is at the GET on the fast path, at the COMMIT on the *)
(* fallback, and at the UPDATE of the row on a revocation.                 *)
(***************************************************************************)
EXTENDS SessionRotation

\* What the authority sees of request r.
AskOf(r) ==
    CASE req[r].pc \in {"get", "load", "commit", "revoke"} ->
           [kind |-> "asked", sid |-> req[r].sid, tok |-> req[r].tok]
      [] req[r].pc = "store" ->
           [kind |-> "granted", sid |-> req[r].sid, tok |-> req[r].now]
      [] OTHER -> [kind |-> "none"]

Authority == INSTANCE TokenAuthority WITH
    status  <- [s \in Sessions |-> db[s].state],
    current <- [s \in Sessions |->
                  IF db[s].state = "active" THEN latest[s] ELSE None],
    issued  <- held,
    ask     <- [r \in Requests |-> AskOf(r)]

\* Rotation, cached and backed by the row, is the authority.
ImplementsAuthority == Authority!Spec
=============================================================================
