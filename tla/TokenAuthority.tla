---------------------------- MODULE TokenAuthority ----------------------------
(***************************************************************************)
(* What refresh-token rotation promises, with no cache, row or background  *)
(* task: one authority that knows the current token of every session,      *)
(* exchanges it for a new one, and revokes a session for good when any     *)
(* other of its tokens is presented (docs/docs/AUTHENTICATION_README.md,   *)
(* "Refresh token rotation", and the comments of auth_service.py).         *)
(***************************************************************************)
CONSTANTS Sessions, Requests, Seconds, None

VARIABLES
    status,    \* of a session: absent, active or revoked
    current,   \* the one token the authority accepts, None if it accepts none
    issued,    \* tokens handed to clients
    ask        \* of a request: nothing, a token presented, or a token granted

vars == <<status, current, issued, ask>>

NoAsk  == [kind |-> "none"]
Asks   == [kind : {"asked", "granted"}, sid : Sessions, tok : Seconds]
Asked(s, t)   == [kind |-> "asked", sid |-> s, tok |-> t]
Granted(s, t) == [kind |-> "granted", sid |-> s, tok |-> t]

TypeOK ==
    /\ status \in [Sessions -> {"absent", "active", "revoked"}]
    /\ current \in [Sessions -> Seconds \cup {None}]
    /\ issued \in [Sessions -> SUBSET Seconds]
    /\ ask \in [Requests -> {NoAsk} \cup Asks]

Init ==
    /\ status = [s \in Sessions |-> "absent"]
    /\ current = [s \in Sessions |-> None]
    /\ issued = [s \in Sessions |-> {}]
    /\ ask = [r \in Requests |-> NoAsk]

\* Login opens session s with its first token.
Open(r, s, t) ==
    /\ ask[r] = NoAsk
    /\ status[s] = "absent"
    /\ status' = [status EXCEPT ![s] = "active"]
    /\ current' = [current EXCEPT ![s] = t]
    /\ ask' = [ask EXCEPT ![r] = Granted(s, t)]
    /\ UNCHANGED issued

\* A client presents a token it was handed.
Ask(r, s, t) ==
    /\ ask[r] = NoAsk
    /\ t \in issued[s]
    /\ ask' = [ask EXCEPT ![r] = Asked(s, t)]
    /\ UNCHANGED <<status, current, issued>>

\* It is the current one: exchange it.
Accept(r, n) ==
    /\ ask[r].kind = "asked"
    /\ current[ask[r].sid] = ask[r].tok
    /\ current' = [current EXCEPT ![ask[r].sid] = n]
    /\ ask' = [ask EXCEPT ![r] = Granted(ask[r].sid, n)]
    /\ UNCHANGED <<status, issued>>

\* It is not: revoke, or find the session revoked already.
Reject(r) ==
    /\ ask[r].kind = "asked"
    /\ current[ask[r].sid] # ask[r].tok
    /\ status' = [status EXCEPT ![ask[r].sid] = "revoked"]
    /\ current' = [current EXCEPT ![ask[r].sid] = None]
    /\ ask' = [ask EXCEPT ![r] = NoAsk]
    /\ UNCHANGED issued

\* The granted token reaches the client, or is lost on the way.
Deliver(r) ==
    /\ ask[r].kind = "granted"
    /\ \/ issued' = [issued EXCEPT ![ask[r].sid] = @ \cup {ask[r].tok}]
       \/ UNCHANGED issued
    /\ ask' = [ask EXCEPT ![r] = NoAsk]
    /\ UNCHANGED <<status, current>>

Next == \E r \in Requests :
    \/ \E s \in Sessions, t \in Seconds : Open(r, s, t) \/ Ask(r, s, t)
    \/ \E n \in Seconds : Accept(r, n)
    \/ Reject(r)
    \/ Deliver(r)

Spec == Init /\ [][Next]_vars
=============================================================================
