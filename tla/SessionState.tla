----------------------------- MODULE SessionState -----------------------------
(***************************************************************************)
(* The state that refresh-token rotation works on: the row of a session,   *)
(* its cached payload, the handlers in flight and the background tasks.    *)
(*                                                                         *)
(* A token pair is identified by the second it was minted in: sub, sid,    *)
(* type, iat and exp are its only claims and iat and exp are whole         *)
(* seconds, so two pairs of one session minted in one second are equal     *)
(* byte for byte (auth_service.py 575-603).  Hashes are the tokens.        *)
(***************************************************************************)
EXTENDS Naturals, FiniteSets

CONSTANTS
    Sessions,      \* session ids (uuid4), each logged in at most once
    Requests,      \* slots for HTTP requests being served at the same time
    MaxClock,      \* bound: last second of the run
    RefreshLife,   \* REFRESH_JWT_EXPIRY_SEC, also the TTL of a cached session
    MaxSync,       \* bound: pending copies of one hash at which arrivals stop
    Env            \* what may go wrong around the handlers, see EnvKinds

EnvKinds == {"evict",   \* Redis drops a key before its TTL
             "fault",   \* a Redis or Postgres call raises
             "crash",   \* the process dies and restarts
             "loss"}    \* a response does not reach its client

ASSUME ClockAssumption == MaxClock \in Nat \ {0}
ASSUME LifeAssumption  == RefreshLife \in Nat \ {0}
ASSUME SyncAssumption  == MaxSync \in Nat
ASSUME EnvAssumption   == Env \subseteq EnvKinds

Seconds == 1..MaxClock
Tokens  == 0..MaxClock   \* 0: no token, no payload
None    == 0

VARIABLES
    clock,    \* the current second
    db,       \* table user_sessions: state, refresh_token_hash
    cache,    \* Redis "sessions:..": token pair of the payload, None on a miss
    index,    \* Redis set "user:sessions:..": the keys that sadd put in it
    req,      \* the handlers being served
    sync,     \* bag of background tasks _sync_session_rotation_db
    held,     \* refresh tokens that reached some client
    latest    \* history: the token minted by the last acceptance

vars == <<clock, db, cache, index, req, sync, held, latest>>

States   == {"absent", "active", "revoked"}
Commands == {"key", "name"}   \* SET/DEL of the key, SADD/SREM of the index
Stages   == {"insert",   \* login, awaiting the INSERT of its session
             "get",      \* refresh, awaiting GET of the cached payload
             "load",     \* refresh, awaiting SELECT of the row
             "commit",   \* refresh, awaiting COMMIT of the rotated row
             "store",    \* awaiting gather(SET, SADD)
             "orphan",   \* answered, one command of a failed gather is left
             "revoke",   \* awaiting UPDATE .. is_active = false
             "drop"}     \* awaiting gather(DEL, SREM)
Idle     == [pc |-> "idle"]
Calls    == [pc : Stages, sid : Sessions, tok : Tokens, now : Seconds,
             todo : SUBSET Commands, failed : BOOLEAN]

TypeOK ==
    /\ clock \in Seconds
    /\ db \in [Sessions -> [state : States, hash : Tokens]]
    /\ cache \in [Sessions -> Tokens]
    /\ index \in SUBSET Sessions
    /\ req \in [Requests -> {Idle} \cup Calls]
    /\ sync \in [Sessions -> [Seconds -> Nat]]
    /\ held \in [Sessions -> SUBSET Seconds]
    /\ latest \in [Sessions -> Tokens]

Init ==
    /\ clock = 1
    /\ db = [s \in Sessions |-> [state |-> "absent", hash |-> None]]
    /\ cache = [s \in Sessions |-> None]
    /\ index = {}
    /\ req = [r \in Requests |-> Idle]
    /\ sync = [s \in Sessions |-> [t \in Seconds |-> 0]]
    /\ held = [s \in Sessions |-> {}]
    /\ latest = [s \in Sessions |-> None]

-----------------------------------------------------------------------------
\* A call at stage pc made with token t for session s.
Call(pc, s, t) == [pc |-> pc, sid |-> s, tok |-> t, now |-> clock,
                   todo |-> {}, failed |-> FALSE]

\* r moves on to stage pc, with both commands of a gather to run if it has one.
MoveTo(r, pc) ==
    req' = [req EXCEPT ![r].pc = pc,
                       ![r].todo = IF pc \in {"store", "drop"} THEN Commands ELSE {}]

\* Some request of session s is at one of the stages pcs.
InFlight(s, pcs) == \E r \in Requests : req[r].pc \in pcs /\ req[r].sid = s
=============================================================================
