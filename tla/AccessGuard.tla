----------------------------- MODULE AccessGuard -----------------------------
(***************************************************************************)
(* Private requests next to login and refresh: JWTValidator, which decides *)
(* by the cached session payload alone (middlewares/jwt_validator.py), and *)
(* the profile gate behind it (dependencies/current_user.py 70-107) with   *)
(* its flag in Redis.  The composition adds to SessionRotation what its    *)
(* handlers carry for these two: is_profile_completed of a payload, and    *)
(* the profile lookup and flag write of a login.                           *)
(*                                                                         *)
(* All sessions are of one user.  user_status is no part of a payload      *)
(* here: login stores the status it required to be ACTIVE, the fast path   *)
(* copies it and the fallback writes "ACTIVE" (auth_service.py 218, 442),  *)
(* so the 403 of jwt_validator.py 144-152 is never taken.                  *)
(***************************************************************************)
EXTENDS SessionRotation

CONSTANTS
    Probes,       \* slots for private requests being served at the same time
    AccessLife    \* ACCESS_JWT_EXPIRY_SEC

ASSUME AccessAssumption == AccessLife \in 1..RefreshLife

VARIABLES
    profile,   \* the user has a row in user_profiles
    payload,   \* is_profile_completed of each cached payload, FALSE on a miss
    carry,     \* what a handler knows of the profile, and has left to do about it
    flag,      \* Redis user:profile_completed:{user_id}
    probe,     \* the private requests being served
    hurt       \* history: sessions a handler of which failed or died, or whose
               \* payload was evicted before its TTL

guardVars == <<profile, payload, carry, flag, probe, hurt>>
allVars   == <<vars, guardVars>>

Flags       == {"absent", "no", "yes"}
ProbeStages == {"session",   \* awaiting GET of the session's payload
                "flag",      \* admitted, awaiting GET of the profile flag
                "profile",   \* awaiting SELECT of the profile
                "fill",      \* awaiting SET of the flag
                "handler",   \* past the gate
                "denied"}    \* to be answered 401
Chores      == {"lookup", "fill"}
Blank       == [complete |-> FALSE, todo |-> {}]

AccessTypeOK ==
    /\ TypeOK
    /\ profile \in BOOLEAN
    /\ payload \in [Sessions -> BOOLEAN]
    /\ carry \in [Requests -> [complete : BOOLEAN, todo : SUBSET Chores]]
    /\ flag \in Flags
    /\ probe \in [Probes -> {Idle} \cup [pc : ProbeStages, sid : Sessions,
                                         tok : Seconds, complete : BOOLEAN]]
    /\ hurt \in SUBSET Sessions

AccessInit ==
    /\ Init
    /\ profile = FALSE
    /\ payload = [s \in Sessions |-> FALSE]
    /\ carry = [r \in Requests |-> Blank]
    /\ flag = "absent"
    /\ probe = [p \in Probes |-> Idle]
    /\ hurt = {}

\* What profile_completion_cache stores.
FlagOf(complete) == IF complete THEN "yes" ELSE "no"

\* A handler that is done forgets what it carried.
Forget(r) == carry' = IF req'[r] = Idle THEN [carry EXCEPT ![r] = Blank] ELSE carry

(***************************************************************************)
(* Login: the profile is looked up before the session is inserted, the     *)
(* flag is written after the payload was stored, before the response.      *)
(***************************************************************************)
Login(r, s) ==
    /\ BeginLogin(r, s)
    /\ carry' = [carry EXCEPT ![r].todo = Chores]
    /\ UNCHANGED <<profile, payload, flag, probe, hurt>>

LookUpProfile(r) ==
    /\ req[r].pc = "insert"
    /\ "lookup" \in carry[r].todo
    /\ carry' = [carry EXCEPT ![r] = [complete |-> profile, todo |-> {"fill"}]]
    /\ UNCHANGED <<vars, profile, payload, flag, probe, hurt>>

InsertSession(r) ==
    /\ "lookup" \notin carry[r].todo
    /\ CreateSession(r)
    /\ UNCHANGED guardVars

\* The gather is over, the flag is still to be written.
Filling(r) ==
    /\ req[r].pc = "store"
    /\ req[r].todo = {} \/ req[r].failed
    /\ "fill" \in carry[r].todo
    /\ carry' = [carry EXCEPT ![r].todo = {}]

FillAtLogin(r) ==
    /\ Filling(r)
    /\ flag' = FlagOf(carry[r].complete)
    /\ UNCHANGED <<vars, profile, payload, probe, hurt>>

\* The SET raises, having reached Redis or not: a warning in the log.
FillAtLoginFails(r) ==
    /\ "fault" \in Env
    /\ Filling(r)
    /\ flag' \in {flag, FlagOf(carry[r].complete)}
    /\ UNCHANGED <<vars, profile, payload, probe, hurt>>

(***************************************************************************)
(* Refresh: the fast path changes the hashes of the payload it read and    *)
(* keeps the rest, the fallback builds one that says the profile is there. *)
(***************************************************************************)
CopyPayload(r) ==
    /\ CacheHit(r)
    /\ carry' = [carry EXCEPT ![r].complete = payload[req[r].sid]]
    /\ UNCHANGED <<profile, payload, flag, probe, hurt>>

Rewarm(r) ==
    /\ CommitRotation(r)
    /\ carry' = [carry EXCEPT ![r].complete = TRUE]
    /\ UNCHANGED <<profile, payload, flag, probe, hurt>>

\* Steps of the handlers that the guard has no part in.
Elsewhere(r) ==
    /\ \/ CacheReuse(r)
       \/ CacheMiss(r)
       \/ RowMatches(r)
       \/ RowRefused(r)
       \/ DeactivateRow(r)
    /\ UNCHANGED guardVars

\* The flags of a payload are written and deleted with it.
PayloadEffect(r, c) ==
    payload' = IF c = "key"
               THEN [payload EXCEPT ![req[r].sid] =
                        req[r].pc \in {"store", "orphan"} /\ carry[r].complete]
               ELSE payload

Command(r, c) ==
    /\ CacheCommand(r, c)
    /\ PayloadEffect(r, c)
    /\ Forget(r)
    /\ UNCHANGED <<profile, flag, probe, hurt>>

FailedCommand(r, c) ==
    /\ "fault" \in Env
    /\ req[r].pc \in {"store", "orphan", "drop"}
    /\ c \in req[r].todo
    /\ \/ CommandEffect(r, c) /\ PayloadEffect(r, c)
       \/ UNCHANGED <<cache, index, payload>>
    /\ Retire(r, c, TRUE)
    /\ Forget(r)
    /\ hurt' = hurt \cup {req[r].sid}
    /\ UNCHANGED <<clock, db, sync, held, latest, profile, flag, probe>>

FailedDeactivation(r) ==
    /\ DeactivateFails(r)
    /\ hurt' = hurt \cup {req[r].sid}
    /\ UNCHANGED <<profile, payload, carry, flag, probe>>

\* A 500 before anything was written.
Abandon(r) ==
    /\ Abort(r)
    /\ Forget(r)
    /\ UNCHANGED <<profile, payload, flag, probe, hurt>>

\* The response, with both cookies, once a login has written the flag.
Answer(r) ==
    /\ "fill" \notin carry[r].todo
    /\ Reply(r)
    /\ Forget(r)
    /\ UNCHANGED <<profile, payload, flag, probe, hurt>>

LostAnswer(r) ==
    /\ "fill" \notin carry[r].todo
    /\ LoseReply(r)
    /\ Forget(r)
    /\ UNCHANGED <<profile, payload, flag, probe, hurt>>

(***************************************************************************)
(* A private request.  A path under /api/public never gets here, and a     *)
(* missing, foreign or expired token is a 401 that touches nothing.        *)
(***************************************************************************)
Private(p, s, t) ==
    /\ probe[p] = Idle
    /\ t \in held[s]
    /\ clock < t + AccessLife
    /\ probe' = [probe EXCEPT ![p] = [pc |-> "session", sid |-> s, tok |-> t,
                                      complete |-> FALSE]]
    /\ UNCHANGED <<vars, profile, payload, carry, flag, hurt>>

\* Faulty variant of TokenCurrent: any token of a cached session will do.
AnyToken(p) == cache[probe[p].sid] # None

\* There is a payload, and access_token_hash in it is the token's.
TokenCurrent(p) == cache[probe[p].sid] = probe[p].tok

ProbeTo(p, pc) == probe' = [probe EXCEPT ![p].pc = pc]
EndProbe(p)    == probe' = [probe EXCEPT ![p] = Idle]

\* request.state gets the user and the payload's is_profile_completed.
Admit(p) ==
    /\ probe[p].pc = "session"
    /\ TokenCurrent(p)
    /\ probe' = [probe EXCEPT ![p].pc = "flag",
                              ![p].complete = payload[probe[p].sid]]
    /\ UNCHANGED <<vars, profile, payload, carry, flag, hurt>>

Refuse(p) ==
    /\ probe[p].pc = "session"
    /\ ~TokenCurrent(p)
    /\ ProbeTo(p, "denied")
    /\ UNCHANGED <<vars, profile, payload, carry, flag, hurt>>

ReadFlag(p) ==
    /\ probe[p].pc = "flag"
    /\ \/ flag = "yes" /\ ProbeTo(p, "handler")
       \/ flag = "no" /\ EndProbe(p)
       \/ flag = "absent" /\ ProbeTo(p, "profile")
    /\ UNCHANGED <<vars, profile, payload, carry, flag, hurt>>

\* Faulty variant of ReadProfile: the gate trusts what the middleware put in
\* request.state.
TrustsPayload(p) ==
    /\ probe[p].pc = "profile"
    /\ ProbeTo(p, "fill")
    /\ UNCHANGED <<vars, profile, payload, carry, flag, hurt>>

ReadProfile(p) ==
    /\ probe[p].pc = "profile"
    /\ probe' = [probe EXCEPT ![p].pc = "fill", ![p].complete = profile]
    /\ UNCHANGED <<vars, profile, payload, carry, flag, hurt>>

Gate(p) == IF probe[p].complete THEN ProbeTo(p, "handler") ELSE EndProbe(p)

FillFlag(p) ==
    /\ probe[p].pc = "fill"
    /\ flag' = FlagOf(probe[p].complete)
    /\ Gate(p)
    /\ UNCHANGED <<vars, profile, payload, carry, hurt>>

Respond(p) ==
    /\ probe[p].pc \in {"handler", "denied"}
    /\ EndProbe(p)
    /\ UNCHANGED <<vars, profile, payload, carry, flag, hurt>>

\* A failing GET of the payload, or SELECT, is a 500; a failing GET of the flag
\* is a miss; a failing SET of the flag is a warning in the log.
PrivateFails(p) ==
    /\ "fault" \in Env
    /\ \/ probe[p].pc \in {"session", "profile"} /\ EndProbe(p) /\ UNCHANGED flag
       \/ probe[p].pc = "flag" /\ ProbeTo(p, "profile") /\ UNCHANGED flag
       \/ /\ probe[p].pc = "fill"
          /\ flag' \in {flag, FlagOf(probe[p].complete)}
          /\ Gate(p)
    /\ UNCHANGED <<vars, profile, payload, carry, hurt>>

(***************************************************************************)
(* The surroundings.                                                       *)
(***************************************************************************)
\* The endpoint the login response redirects to is not part of the service yet:
\* all that is known of it is that it inserts the row.
CreateProfile ==
    /\ ~profile
    /\ profile' = TRUE
    /\ UNCHANGED <<vars, payload, carry, flag, probe, hurt>>

\* The flag's TTL is over, or Redis evicts it.
ExpireFlag ==
    /\ flag # "absent"
    /\ flag' = "absent"
    /\ UNCHANGED <<vars, profile, payload, carry, probe, hurt>>

Drop(s) ==
    /\ Evict(s)
    /\ payload' = [payload EXCEPT ![s] = FALSE]
    /\ hurt' = IF cache[s] + RefreshLife > clock THEN hurt \cup {s} ELSE hurt
    /\ UNCHANGED <<profile, carry, flag, probe>>

Restart ==
    /\ Crash
    /\ carry' = [r \in Requests |-> Blank]
    /\ probe' = [p \in Probes |-> Idle]
    /\ hurt' = hurt \cup {s \in Sessions : InFlight(s, Stages)}
    /\ UNCHANGED <<profile, payload, flag>>

-----------------------------------------------------------------------------
HandlerStep(r) ==
    \/ LookUpProfile(r)
    \/ InsertSession(r)
    \/ FillAtLogin(r)
    \/ CopyPayload(r)
    \/ Rewarm(r)
    \/ Elsewhere(r)
    \/ \E c \in Commands : Command(r, c)
    \/ Answer(r)

HandlerFails(r) ==
    \/ FillAtLoginFails(r)
    \/ \E c \in Commands : FailedCommand(r, c)
    \/ FailedDeactivation(r)
    \/ Abandon(r)
    \/ LostAnswer(r)

ProbeStep(p) ==
    \/ Admit(p)
    \/ Refuse(p)
    \/ ReadFlag(p)
    \/ ReadProfile(p)
    \/ FillFlag(p)
    \/ Respond(p)

AccessNext ==
    \/ \E r \in Requests :
         \/ \E s \in Sessions : Login(r, s)
         \/ \E s \in Sessions, t \in Seconds : Refresh(r, s, t) /\ UNCHANGED guardVars
         \/ HandlerStep(r)
         \/ HandlerFails(r)
    \/ \E p \in Probes :
         \/ \E s \in Sessions, t \in Seconds : Private(p, s, t)
         \/ ProbeStep(p)
         \/ PrivateFails(p)
    \/ \E s \in Sessions :
         \/ \E t \in Seconds :
              (SyncSessionRotationDb(s, t) \/ SyncFails(s, t)) /\ UNCHANGED guardVars
         \/ Drop(s)
    \/ Tick /\ UNCHANGED guardVars
    \/ CreateProfile
    \/ ExpireFlag
    \/ Restart

\* The event loop resumes every handler whose await is done, and a TTL ends.
AccessFairness ==
    /\ \A r \in Requests : WF_allVars(HandlerStep(r))
    /\ \A p \in Probes : WF_allVars(ProbeStep(p))
    /\ WF_allVars(ExpireFlag)

AccessSpec == AccessInit /\ [][AccessNext]_allVars /\ AccessFairness

-----------------------------------------------------------------------------
Admitted(p) == probe[p].pc = "session" /\ probe'[p].pc = "flag"
Refused(p)  == probe[p].pc = "session" /\ probe'[p].pc = "denied"

\* Single active access token (jwt_validator.py 154-164, JWTVALIDATOR_README.md
\* section 4): as long as no two refreshes of a session overlap, a superseded
\* token, or a token of a revoked session, is admitted only while the handler that superseded or
\* revoked it has not reached Redis yet, or when one of its calls failed.
AdmitsCurrent == [][\A p \in Probes : Admitted(p) =>
    LET s == probe[p].sid IN
      \/ probe[p].tok = latest[s] /\ db[s].state = "active"
      \/ InFlight(s, {"store", "drop"})
      \/ s \in hurt]_allVars

\* The converse: a client is turned away with the latest token it was sent only
\* when its session was revoked, when a call for its session failed (the login
\* whose SET is swallowed, auth_service.py:258), when Redis evicted the payload,
\* or when the token expired on the way.
ServesLatest == [][\A p \in Probes : Refused(p) /\ probe[p].tok = latest[probe[p].sid] =>
    LET s == probe[p].sid IN
      \/ db[s].state = "revoked"
      \/ s \in hurt
      \/ clock >= probe[p].tok + AccessLife]_allVars

\* Nobody passes the gate without a profile, although payloads re-warmed by the
\* fallback say is_profile_completed whatever the table says
\* (auth_service.py:443).
NoUnearnedPass == \A p \in Probes : probe[p].pc = "handler" => profile

\* A user who has completed the profile is not locked out for good by a flag
\* filled from a row read earlier (current_user.py:93-98, auth_service.py:263):
\* from some time on the flag never says "no" again.
StaleFlagEnds == profile ~> [](flag # "no")
=============================================================================
