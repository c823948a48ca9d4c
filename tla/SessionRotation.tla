--------------------------- MODULE SessionRotation ---------------------------
(***************************************************************************)
(* Refresh-token rotation of OfficeLM (src/modules/authentication/         *)
(* auth_service.py): the tail of a login that mints a session, the refresh *)
(* handler with its Redis fast path and its Postgres fallback, the reuse   *)
(* revocation, and the background task that copies a rotated hash to the   *)
(* session's row.                                                          *)
(*                                                                         *)
(* The service is one asyncio process: between two awaits a handler runs   *)
(* alone, at an await any other handler or task may run.  Each action is   *)
(* the code from one await to the next, and req[r].pc names the await at   *)
(* which request r is suspended.                                           *)
(***************************************************************************)
EXTENDS SessionState

Tick ==
    /\ clock < MaxClock
    /\ clock' = clock + 1
    /\ UNCHANGED <<db, cache, index, req, sync, held, latest>>

(***************************************************************************)
(* Login, after the password was verified: a fresh session id, its row,    *)
(* its cached payload, the response.                                       *)
(***************************************************************************)
\* Faulty variant of BeginLogin: the session is cached and answered before
\* its row is inserted.
CacheFirstLogin(r, s) ==
    /\ req[r] = Idle
    /\ db[s].state = "absent"
    /\ ~InFlight(s, Stages)
    /\ req' = [req EXCEPT ![r] = [Call("store", s, None) EXCEPT !.todo = Commands]]
    /\ UNCHANGED <<clock, db, cache, index, sync, held, latest>>

BeginLogin(r, s) ==
    /\ req[r] = Idle
    /\ db[s].state = "absent"
    /\ ~InFlight(s, Stages)
    /\ req' = [req EXCEPT ![r] = Call("insert", s, None)]
    /\ UNCHANGED <<clock, db, cache, index, sync, held, latest>>

CreateSession(r) ==
    /\ req[r].pc = "insert"
    /\ LET s == req[r].sid  n == req[r].now IN
         /\ db' = [db EXCEPT ![s] = [state |-> "active", hash |-> n]]
         /\ latest' = [latest EXCEPT ![s] = n]
    /\ MoveTo(r, "store")
    /\ UNCHANGED <<clock, cache, index, sync, held>>

(***************************************************************************)
(* Refresh.  jwt.decode accepts the token while now < exp; the handler     *)
(* reads the clock before its first await and mints with that value.       *)
(***************************************************************************)
Refresh(r, s, t) ==
    /\ req[r] = Idle
    /\ t \in held[s]
    /\ clock < t + RefreshLife
    /\ sync[s][clock] < MaxSync
    /\ req' = [req EXCEPT ![r] = Call("get", s, t)]
    /\ UNCHANGED <<clock, db, cache, index, sync, held, latest>>

\* Faulty variant of CacheHit: the fast path takes any cached payload for a
\* match.
UncheckedHit(r) ==
    /\ req[r].pc = "get"
    /\ LET s == req[r].sid  n == req[r].now IN
         /\ cache[s] # None
         /\ sync' = [sync EXCEPT ![s][n] = @ + 1]
         /\ latest' = [latest EXCEPT ![s] = n]
    /\ MoveTo(r, "store")
    /\ UNCHANGED <<clock, db, cache, index, held>>

\* GET returned the payload the token belongs to: mint, start the task, store.
CacheHit(r) ==
    /\ req[r].pc = "get"
    /\ LET s == req[r].sid  n == req[r].now IN
         /\ cache[s] # None
         /\ cache[s] = req[r].tok
         /\ sync' = [sync EXCEPT ![s][n] = @ + 1]
         /\ latest' = [latest EXCEPT ![s] = n]
    /\ MoveTo(r, "store")
    /\ UNCHANGED <<clock, db, cache, index, held>>

\* Faulty variant of CacheReuse: reuse on the fast path is answered 401 and
\* nothing is revoked.
RefusedReuse(r) ==
    /\ req[r].pc = "get"
    /\ cache[req[r].sid] \notin {None, req[r].tok}
    /\ req' = [req EXCEPT ![r] = Idle]
    /\ UNCHANGED <<clock, db, cache, index, sync, held, latest>>

\* GET returned a payload with another hash: reuse.
CacheReuse(r) ==
    /\ req[r].pc = "get"
    /\ cache[req[r].sid] \notin {None, req[r].tok}
    /\ MoveTo(r, "revoke")
    /\ UNCHANGED <<clock, db, cache, index, sync, held, latest>>

\* GET returned nothing: fall back to the row.
CacheMiss(r) ==
    /\ req[r].pc = "get"
    /\ cache[req[r].sid] = None
    /\ MoveTo(r, "load")
    /\ UNCHANGED <<clock, db, cache, index, sync, held, latest>>

\* Faulty variant of RowUsable: the fallback forgets that an inactive row may
\* still have the hash.
HashOnly(s, t) == db[s].hash = t

\* The fallback's two checks: the row is active and has the presented hash.
RowUsable(s, t) == db[s].state = "active" /\ db[s].hash = t

\* Both hold: set the new one, await COMMIT.
RowMatches(r) ==
    /\ req[r].pc = "load"
    /\ RowUsable(req[r].sid, req[r].tok)
    /\ MoveTo(r, "commit")
    /\ UNCHANGED <<clock, db, cache, index, sync, held, latest>>

\* Faulty variant of RowRefused: a refused row sends the handler back to the
\* cache instead of revoking.
RetriedLookup(r) ==
    /\ req[r].pc = "load"
    /\ db[req[r].sid].state # "active" \/ db[req[r].sid].hash # req[r].tok
    /\ MoveTo(r, "get")
    /\ UNCHANGED <<clock, db, cache, index, sync, held, latest>>

\* The row read is inactive, or has another hash.
RowRefused(r) ==
    /\ req[r].pc = "load"
    /\ ~RowUsable(req[r].sid, req[r].tok)
    /\ MoveTo(r, "revoke")
    /\ UNCHANGED <<clock, db, cache, index, sync, held, latest>>

\* UPDATE .. WHERE id: whatever happened to the row since it was read.  The
\* unit of work leaves the column out when the value set equals the one read.
CommitRotation(r) ==
    /\ req[r].pc = "commit"
    /\ LET s == req[r].sid  n == req[r].now IN
         /\ db' = [db EXCEPT ![s].hash = IF n = req[r].tok THEN @ ELSE n]
         /\ latest' = [latest EXCEPT ![s] = n]
    /\ MoveTo(r, "store")
    /\ UNCHANGED <<clock, cache, index, sync, held>>

(***************************************************************************)
(* _invalidate_refresh_token_request: the row first, in a transaction of   *)
(* its own whose failure is only logged, then the cache, then the 401.     *)
(***************************************************************************)
\* Faulty variant of DeactivateRow: deactivation finds the row by the
\* presented hash instead of by its id.
DeactivateByHash(r) ==
    /\ req[r].pc = "revoke"
    /\ db' = [db EXCEPT ![req[r].sid].state = IF db[req[r].sid].hash = req[r].tok
                                              THEN "revoked" ELSE @]
    /\ MoveTo(r, "drop")
    /\ UNCHANGED <<clock, cache, index, sync, held, latest>>

DeactivateRow(r) ==
    /\ req[r].pc = "revoke"
    /\ db' = [db EXCEPT ![req[r].sid].state = "revoked"]
    /\ MoveTo(r, "drop")
    /\ UNCHANGED <<clock, cache, index, sync, held, latest>>

DeactivateFails(r) ==
    /\ "fault" \in Env
    /\ req[r].pc = "revoke"
    /\ MoveTo(r, "drop")
    /\ UNCHANGED <<clock, db, cache, index, sync, held, latest>>

(***************************************************************************)
(* _session_cache_life_cycle: two commands, on two connections, in either  *)
(* order.  When one raises, gather returns at once and the other one stays *)
(* in flight; the exception is swallowed and the handler goes on.          *)
(***************************************************************************)
\* Faulty variant of CommandEffect: a rotation stores the payload it read,
\* with the old hash.
StoresOldPayload(r, c) ==
    LET s == req[r].sid  storing == req[r].pc \in {"store", "orphan"}
        old == IF req[r].tok = None THEN req[r].now ELSE req[r].tok IN
      /\ cache' = IF c = "key"
                  THEN [cache EXCEPT ![s] = IF storing THEN old ELSE None]
                  ELSE cache
      /\ index' = IF c = "name"
                  THEN IF storing THEN index \cup {s} ELSE index \ {s}
                  ELSE index

\* Faulty variant of CommandEffect: the key is never added to its user's index.
UnindexedStore(r, c) ==
    LET s == req[r].sid  storing == req[r].pc \in {"store", "orphan"} IN
      /\ cache' = IF c = "key"
                  THEN [cache EXCEPT ![s] = IF storing THEN req[r].now ELSE None]
                  ELSE cache
      /\ index' = index \ {s}

\* Faulty variant of CommandEffect: a revocation clears the index and leaves
\* the payload.
KeepsPayload(r, c) ==
    LET s == req[r].sid  storing == req[r].pc \in {"store", "orphan"} IN
      /\ cache' = IF c = "key" /\ storing
                  THEN [cache EXCEPT ![s] = req[r].now]
                  ELSE cache
      /\ index' = IF c = "name"
                  THEN IF storing THEN index \cup {s} ELSE index \ {s}
                  ELSE index

CommandEffect(r, c) ==
    LET s == req[r].sid  storing == req[r].pc \in {"store", "orphan"} IN
      /\ cache' = IF c = "key"
                  THEN [cache EXCEPT ![s] = IF storing THEN req[r].now ELSE None]
                  ELSE cache
      /\ index' = IF c = "name"
                  THEN IF storing THEN index \cup {s} ELSE index \ {s}
                  ELSE index

\* c leaves r's gather.  The last command of a call nobody waits for ends it.
Retire(r, c, err) ==
    LET call == req[r]
        last == call.pc \in {"drop", "orphan"} /\ call.todo = {c} IN
      req' = [req EXCEPT ![r] =
                IF last THEN Idle
                ELSE [call EXCEPT !.todo = call.todo \ {c}, !.failed = call.failed \/ err]]

CacheCommand(r, c) ==
    /\ req[r].pc \in {"store", "orphan", "drop"}
    /\ c \in req[r].todo
    /\ CommandEffect(r, c)
    /\ Retire(r, c, FALSE)
    /\ UNCHANGED <<clock, db, sync, held, latest>>

\* The command raises, having reached Redis or not.
CommandFails(r, c) ==
    /\ "fault" \in Env
    /\ req[r].pc \in {"store", "orphan", "drop"}
    /\ c \in req[r].todo
    /\ CommandEffect(r, c) \/ UNCHANGED <<cache, index>>
    /\ Retire(r, c, TRUE)
    /\ UNCHANGED <<clock, db, sync, held, latest>>

(***************************************************************************)
(* The response with the new pair.                                         *)
(***************************************************************************)
\* Faulty variant of Finish: the response does not wait for the gather.
AnswersEarly(r) ==
    /\ req[r].pc = "store"
    /\ req' = IF req[r].todo = {} THEN [req EXCEPT ![r] = Idle]
              ELSE [req EXCEPT ![r].pc = "orphan"]

Finish(r) ==
    /\ req[r].pc = "store"
    /\ req[r].todo = {} \/ req[r].failed
    /\ req' = IF req[r].todo = {} THEN [req EXCEPT ![r] = Idle]
              ELSE [req EXCEPT ![r].pc = "orphan"]

Reply(r) ==
    /\ Finish(r)
    /\ held' = [held EXCEPT ![req[r].sid] = @ \cup {req[r].now}]
    /\ UNCHANGED <<clock, db, cache, index, sync, latest>>

LoseReply(r) ==
    /\ "loss" \in Env
    /\ Finish(r)
    /\ UNCHANGED <<clock, db, cache, index, sync, held, latest>>

\* INSERT, GET, SELECT or COMMIT raises before it took effect: a 500 response.
Abort(r) ==
    /\ "fault" \in Env
    /\ req[r].pc \in {"insert", "get", "load", "commit"}
    /\ req' = [req EXCEPT ![r] = Idle]
    /\ UNCHANGED <<clock, db, cache, index, sync, held, latest>>

(***************************************************************************)
(* The background tasks: in any order, each at any time after its start.   *)
(***************************************************************************)
\* Faulty variant of SyncSessionRotationDb: a background copy runs again
\* after it is done.
RepeatedSync(s, t) ==
    /\ sync' = [sync EXCEPT ![s][t] = @ - 1]
    /\ db' = [db EXCEPT ![s].hash = IF db[s].state = "active" THEN t ELSE @]
    /\ UNCHANGED <<clock, cache, index, req, held, latest>>

SyncSessionRotationDb(s, t) ==
    /\ sync[s][t] > 0
    /\ sync' = [sync EXCEPT ![s][t] = @ - 1]
    /\ db' = [db EXCEPT ![s].hash = IF db[s].state = "active" THEN t ELSE @]
    /\ UNCHANGED <<clock, cache, index, req, held, latest>>

\* The task raises and logs, or is collected: nothing else refers to it.
SyncFails(s, t) ==
    /\ "fault" \in Env
    /\ sync[s][t] > 0
    /\ sync' = [sync EXCEPT ![s][t] = @ - 1]
    /\ UNCHANGED <<clock, db, cache, index, req, held, latest>>

\* Redis lets a key go at the end of its TTL, earliest a refresh life after
\* the payload was minted, or whenever it evicts.  The index has no TTL.
Evict(s) ==
    /\ cache[s] # None
    /\ "evict" \in Env \/ cache[s] + RefreshLife <= clock
    /\ cache' = [cache EXCEPT ![s] = None]
    /\ UNCHANGED <<clock, db, index, req, sync, held, latest>>

\* Handlers and tasks die with the process; Postgres and Redis do not.
Crash ==
    /\ "crash" \in Env
    /\ req' = [r \in Requests |-> Idle]
    /\ sync' = [s \in Sessions |-> [t \in Seconds |-> 0]]
    /\ UNCHANGED <<clock, db, cache, index, held, latest>>

-----------------------------------------------------------------------------
\* What a request in flight does next, when nothing goes wrong.
Step(r) ==
    \/ CreateSession(r)
    \/ CacheHit(r)
    \/ CacheReuse(r)
    \/ CacheMiss(r)
    \/ RowMatches(r)
    \/ RowRefused(r)
    \/ CommitRotation(r)
    \/ DeactivateRow(r)
    \/ \E c \in Commands : CacheCommand(r, c)
    \/ Reply(r)

Arrive(r) == \E s \in Sessions :
    \/ BeginLogin(r, s)
    \/ \E t \in Seconds : Refresh(r, s, t)

Fail(r) ==
    \/ DeactivateFails(r)
    \/ \E c \in Commands : CommandFails(r, c)
    \/ LoseReply(r)
    \/ Abort(r)

Background == \E s \in Sessions :
    \/ \E t \in Seconds : SyncSessionRotationDb(s, t) \/ SyncFails(s, t)
    \/ Evict(s)

Next ==
    \/ Tick
    \/ \E r \in Requests : Arrive(r) \/ Step(r) \/ Fail(r)
    \/ Background
    \/ Crash

Spec == Init /\ [][Next]_vars

\* The event loop resumes every handler and every task whose await is done;
\* nothing obliges a client to call, a clock to tick or a fault to happen.
Fairness ==
    /\ \A r \in Requests : WF_vars(Step(r))
    /\ \A s \in Sessions, t \in Seconds : WF_vars(SyncSessionRotationDb(s, t))

FairSpec == Spec /\ Fairness

-----------------------------------------------------------------------------
(***************************************************************************)
(* Properties that hold whatever the clients and the environment do.       *)
(***************************************************************************)

\* A session shows up anywhere (a cached payload, a token at a client, a sync
\* task, a handler past the INSERT) only once its row was inserted: login
\* commits the row before it caches and before it answers.
NoPhantomSession ==
    /\ \A s \in Sessions :
         \/ cache[s] # None
         \/ held[s] # {}
         \/ latest[s] # None
         \/ \E t \in Seconds : sync[s][t] > 0
         => db[s].state # "absent"
    /\ \A r \in Requests :
         req[r].pc \in Stages \ {"insert"} => db[req[r].sid].state # "absent"

\* Handlers past the point where they looked at the session's state, with a
\* write of it still to come.
Writers == {"commit", "store", "orphan"}

\* A login whose INSERT is pending has its session to itself, and the row is
\* not there yet (what the freshness of a uuid4 gives).
LoginAlone == \A r \in Requests : req[r].pc = "insert" =>
    /\ db[req[r].sid].state = "absent"
    /\ \A q \in Requests \ {r} : req[q].pc \in Stages => req[q].sid # req[r].sid

\* The row is revoked, nothing is cached and no such handler is left.
Dead(s) == /\ db[s].state = "revoked"
           /\ cache[s] = None
           /\ ~InFlight(s, Writers)

\* Once the writers that were in flight when a session was revoked have
\* drained, no later request, background sync, eviction, failure or crash
\* brings it back to the cache or makes its row active: the fallback's check of
\* is_active (auth_service.py:410) and the WHERE clause of the sync (line 564)
\* are all that stands in the way.
NoRevival == [][\A s \in Sessions : Dead(s) => Dead(s)']_vars

(***************************************************************************)
(* Properties of an environment that only loses responses.                 *)
(***************************************************************************)

\* A payload that has not outlived its TTL leaves the cache only after the
\* row was made inactive.  Were it the other way round, a refresh between the
\* two would miss, find an active row and re-admit a session being revoked.
RevokedBeforeDropped == [][\A s \in Sessions :
    /\ cache[s] # None
    /\ cache'[s] = None
    /\ clock < cache[s] + RefreshLife
    => db[s].state = "revoked"]_vars

\* Nothing is in flight for s.
AtRest(s) == /\ ~InFlight(s, Stages)
             /\ \A t \in Seconds : sync[s][t] = 0

\* A request of s passes the check of its token and will mint a new pair.
Accepted(r) == req[r].pc \in {"get", "commit"} /\ req'[r].pc = "store"

\* Only the token of the latest acceptance is accepted: an older one never is
\* (AUTHENTICATION_README.md:17, "presenting an old or previously used refresh
\* token triggers automatic reuse detection").
AcceptsLatest == [][\A r \in Requests :
    Accepted(r) => req[r].tok = latest[req[r].sid]]_vars

\* A session is revoked only because an older token was presented: a client
\* that presents the latest token it was sent keeps its session.
RevokedOnlyOnReuse == [][\A s \in Sessions :
    db[s].state = "active" /\ db'[s].state = "revoked" =>
        \E r \in Requests : /\ req[r].pc = "revoke"
                            /\ req[r].sid = s
                            /\ req[r].tok # latest[s]]_vars

\* At rest every cached session can be reached through the index of its user.
IndexCovers == \A s \in Sessions : AtRest(s) /\ cache[s] # None => s \in index

\* At rest a revoked session is gone from the cache too ("immediately revoking
\* the session across PostgreSQL and Redis").
RevokedEverywhere == \A s \in Sessions :
    AtRest(s) /\ db[s].state = "revoked" => cache[s] = None

(***************************************************************************)
(* Liveness, for FairSpec.                                                 *)
(***************************************************************************)

\* Every request is answered: no handler waits for another one's step.
RequestsAnswered == \A r \in Requests : req[r] # Idle ~> req[r] = Idle

\* A detected reuse is carried through: the session reaches a moment when its
\* row is revoked and its payload is gone, whatever other handlers do.
ReuseRevokes == \A s \in Sessions :
    InFlight(s, {"revoke"}) ~> db[s].state = "revoked" /\ cache[s] = None
=============================================================================
