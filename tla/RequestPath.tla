----------------------------- MODULE RequestPath -----------------------------
(***************************************************************************)
(* What every request to POST /api/public/auth/refresh-token goes through  *)
(* besides the rotation itself: the rate limiter (dependencies/            *)
(* rate_limit.py), the database connections it holds and waits for         *)
(* (clients/postgresql.py, db/db_session.py), and the life of the process  *)
(* (main.py).  The limiter's key is the one of one address; a Redis pool   *)
(* with no connection left raises at once, like any failing call.          *)
(*                                                                         *)
(* What the cache and the row say is left open: a refresh is a hit, a      *)
(* reuse or a miss, and a row is usable or refused.                        *)
(***************************************************************************)
EXTENDS Naturals, FiniteSets

CONSTANTS
    Requests,   \* slots for requests being served at the same time
    Limit,      \* max_requests
    PoolSize,   \* pool_size + max_overflow of the engine
    MaxCount,   \* bound: counter at which requests stop arriving
    MaxTasks,   \* bound: background syncs at which requests stop arriving
    Env         \* subset of {"fault", "crash"}

ASSUME RequestsAssumption == IsFiniteSet(Requests)
ASSUME LimitAssumption == Limit \in Nat \ {0}
ASSUME PoolAssumption  == PoolSize \in Nat \ {0}
ASSUME BoundAssumption == MaxCount \in Nat /\ MaxTasks \in Nat
ASSUME EnvAssumption   == Env \subseteq {"fault", "crash"}

VARIABLES
    app,       \* the process: "up", or "stopping" once told to end, or "down"
    counter,   \* rate_limit:{endpoint}:{ip}: its value and whether it has a TTL
    req,       \* stage of each request and the connections it holds
    busy,      \* connections checked out of the pool
    sync,      \* background syncs: waiting for a connection, holding one
    passed,    \* history: requests the limiter let pass since the key appeared
    lost       \* history: an EXPIRE did not reach Redis

vars == <<app, counter, req, busy, sync, passed, lost>>

Limiter == {"incr", "expire", "ttl"}   \* awaiting that Redis command
Queued  == {"select", "revoke"}        \* awaiting a connection for it
Working == {"get", "row", "commit", "update", "tail"}   \* awaiting the call,
                                       \* "tail": the gather before the answer
Idle    == [pc |-> "idle", conns |-> 0]
NoKey   == [n |-> 0, ttl |-> FALSE]

PathTypeOK ==
    /\ app \in {"up", "stopping", "down"}
    /\ counter \in [n : Nat, ttl : BOOLEAN]
    /\ req \in [Requests -> [pc : {"idle"} \cup Limiter \cup Queued \cup Working,
                             conns : 0..2]]
    /\ busy \in 0..PoolSize
    /\ sync \in [waiting : Nat, holding : Nat]
    /\ passed \in Nat
    /\ lost \in BOOLEAN

Init ==
    /\ app = "up"
    /\ counter = NoKey
    /\ req = [r \in Requests |-> Idle]
    /\ busy = 0
    /\ sync = [waiting |-> 0, holding |-> 0]
    /\ passed = 0
    /\ lost = FALSE

At(r, pc)   == req[r].pc = pc
GoTo(r, pc) == req' = [req EXCEPT ![r].pc = pc]

(***************************************************************************)
(* The limiter.                                                            *)
(***************************************************************************)
Arrive(r) ==
    /\ app = "up"
    /\ req[r] = Idle
    /\ counter.n < MaxCount
    /\ sync.waiting < MaxTasks
    /\ GoTo(r, "incr")
    /\ UNCHANGED <<app, counter, busy, sync, passed, lost>>

\* Faulty variant of AfterCount: the limit is compared with the count before
\* this request.
ComparesBefore(r, n) ==
    /\ GoTo(r, IF n = 1 THEN "expire" ELSE IF n > Limit + 1 THEN "ttl" ELSE "get")
    /\ passed' = IF n > Limit + 1 THEN passed ELSE passed + 1

\* Faulty variant of AfterCount: the first request of a window does not start
\* its TTL.
NeverExpires(r, n) ==
    /\ GoTo(r, IF n > Limit THEN "ttl" ELSE "get")
    /\ passed' = IF n > Limit THEN passed ELSE passed + 1

\* INCR answered n.
AfterCount(r, n) ==
    /\ GoTo(r, IF n = 1 THEN "expire" ELSE IF n > Limit THEN "ttl" ELSE "get")
    /\ passed' = IF n > Limit THEN passed ELSE passed + 1

Count(r) ==
    /\ At(r, "incr")
    /\ counter' = [counter EXCEPT !.n = @ + 1]
    /\ AfterCount(r, counter.n + 1)
    /\ UNCHANGED <<app, busy, sync, lost>>

StartWindow(r) ==
    /\ At(r, "expire")
    /\ counter' = [counter EXCEPT !.ttl = counter.n > 0]
    /\ GoTo(r, "get")
    /\ UNCHANGED <<app, busy, sync, passed, lost>>

\* TTL answered: 429 with a Retry-After.
Limited(r) ==
    /\ At(r, "ttl")
    /\ req' = [req EXCEPT ![r] = Idle]
    /\ UNCHANGED <<app, counter, busy, sync, passed, lost>>

\* A command raises, having reached Redis or not: the request passes unchecked.
Bypass(r) ==
    /\ "fault" \in Env
    /\ req[r].pc \in Limiter
    /\ GoTo(r, "get")
    /\ \/ counter' = CASE At(r, "incr")   -> [counter EXCEPT !.n = @ + 1]
                       [] At(r, "expire") -> [counter EXCEPT !.ttl = counter.n > 0]
                       [] At(r, "ttl")    -> counter
       \/ counter' = counter
    /\ lost' = (lost \/ At(r, "expire") \/ At(r, "incr"))
    /\ UNCHANGED <<app, busy, sync, passed>>

WindowEnds ==
    /\ counter.ttl
    /\ counter' = NoKey
    /\ passed' = 0
    /\ UNCHANGED <<app, req, busy, sync, lost>>

(***************************************************************************)
(* The refresh handler, as far as connections go.  Its own session checks  *)
(* one out at the SELECT and keeps it until the COMMIT, or, when the row   *)
(* is refused, until the request ends; the revocation takes another.       *)
(***************************************************************************)
\* GET answered: a hit starts a background sync, a reuse revokes, a miss asks
\* for the row.
LookUp(r) ==
    /\ At(r, "get")
    /\ \/ GoTo(r, "tail") /\ sync' = [sync EXCEPT !.waiting = @ + 1]
       \/ GoTo(r, "revoke") /\ UNCHANGED sync
       \/ GoTo(r, "select") /\ UNCHANGED sync
    /\ UNCHANGED <<app, counter, busy, passed, lost>>

\* Faulty variant of CheckOut: the overflow of the pool has no limit.
Overflows(r) ==
    /\ req[r].pc \in Queued
    /\ busy' = busy + 1
    /\ req' = [req EXCEPT ![r].pc = IF @ = "select" THEN "row" ELSE "update",
                          ![r].conns = @ + 1]
    /\ UNCHANGED <<app, counter, sync, passed, lost>>

CheckOut(r) ==
    /\ req[r].pc \in Queued
    /\ busy < PoolSize
    /\ busy' = busy + 1
    /\ req' = [req EXCEPT ![r].pc = IF @ = "select" THEN "row" ELSE "update",
                          ![r].conns = @ + 1]
    /\ UNCHANGED <<app, counter, sync, passed, lost>>

\* The SELECT answered: rotate or revoke, with the connection in hand.
ReadRow(r) ==
    /\ At(r, "row")
    /\ GoTo(r, "commit") \/ GoTo(r, "revoke")
    /\ UNCHANGED <<app, counter, busy, sync, passed, lost>>

\* The COMMIT of the rotation, or the end of the revocation's own session.
CheckIn(r) ==
    /\ req[r].pc \in {"commit", "update"}
    /\ busy' = busy - 1
    /\ req' = [req EXCEPT ![r].pc = "tail", ![r].conns = @ - 1]
    /\ UNCHANGED <<app, counter, sync, passed, lost>>

\* Faulty variant of End: the session is closed only by a commit.
LeaksOnRefusal(r) ==
    /\ req' = [req EXCEPT ![r] = Idle]
    /\ UNCHANGED busy

\* The answer: get_async_db rolls back and closes the request's session.
End(r) ==
    /\ req' = [req EXCEPT ![r] = Idle]
    /\ busy' = busy - req[r].conns

Answer(r) ==
    /\ At(r, "tail")
    /\ End(r)
    /\ UNCHANGED <<app, counter, sync, passed, lost>>

\* Faulty variant of PoolTimeout: a waiter waits for as long as it takes.
WaitsForever(r) == FALSE /\ UNCHANGED vars

\* Nobody returned a connection within the pool's timeout: a 500, or, for the
\* revocation, an error in the log and on to the cache.
PoolTimeout(r) ==
    /\ busy = PoolSize
    /\ \/ At(r, "select") /\ End(r)
       \/ At(r, "revoke") /\ GoTo(r, "tail") /\ UNCHANGED busy
    /\ UNCHANGED <<app, counter, sync, passed, lost>>

\* A call to Redis or Postgres raises: a 500, or, for the revocation, on to the
\* cache.
CallFails(r) ==
    /\ "fault" \in Env
    /\ \/ req[r].pc \in {"get", "select", "row", "commit"} /\ End(r)
       \/ At(r, "revoke") /\ GoTo(r, "tail") /\ UNCHANGED busy
    /\ UNCHANGED <<app, counter, sync, passed, lost>>

(***************************************************************************)
(* Background syncs: a session of their own, errors only logged.           *)
(***************************************************************************)
SyncCheckOut ==
    /\ sync.waiting > 0
    /\ busy < PoolSize
    /\ busy' = busy + 1
    /\ sync' = [waiting |-> sync.waiting - 1, holding |-> sync.holding + 1]
    /\ UNCHANGED <<app, counter, req, passed, lost>>

SyncTimeout ==
    /\ sync.waiting > 0
    /\ busy = PoolSize
    /\ sync' = [sync EXCEPT !.waiting = @ - 1]
    /\ UNCHANGED <<app, counter, req, busy, passed, lost>>

\* Committed, or rolled back after an error.
SyncEnds ==
    /\ sync.holding > 0
    /\ busy' = busy - 1
    /\ sync' = [sync EXCEPT !.holding = @ - 1]
    /\ UNCHANGED <<app, counter, req, passed, lost>>

(***************************************************************************)
(* The process.  A failing init_db or ping at the start is only logged.    *)
(***************************************************************************)
Stop ==
    /\ app = "up"
    /\ app' = "stopping"
    /\ UNCHANGED <<counter, req, busy, sync, passed, lost>>

\* The server has waited for its requests: the engine and the Redis pool are
\* closed; the background tasks, which nothing awaits, end with the loop.
Shutdown ==
    /\ app = "stopping"
    /\ \A r \in Requests : req[r] = Idle
    /\ app' = "down"
    /\ busy' = 0
    /\ sync' = [waiting |-> 0, holding |-> 0]
    /\ UNCHANGED <<counter, req, passed, lost>>

Start ==
    /\ app = "down"
    /\ app' = "up"
    /\ UNCHANGED <<counter, req, busy, sync, passed, lost>>

Crash ==
    /\ "crash" \in Env
    /\ app' = "down"
    /\ req' = [r \in Requests |-> Idle]
    /\ busy' = 0
    /\ sync' = [waiting |-> 0, holding |-> 0]
    /\ lost' = (lost \/ \E r \in Requests : req[r].pc \in {"incr", "expire"})
    /\ \/ counter' = counter
       \/ \E r \in Requests : At(r, "incr") /\ counter' = [counter EXCEPT !.n = @ + 1]
    /\ UNCHANGED passed

-----------------------------------------------------------------------------
Step(r) ==
    \/ Count(r)
    \/ StartWindow(r)
    \/ Limited(r)
    \/ LookUp(r)
    \/ CheckOut(r)
    \/ PoolTimeout(r)
    \/ ReadRow(r)
    \/ CheckIn(r)
    \/ Answer(r)

Next ==
    \/ \E r \in Requests : Arrive(r) \/ Step(r) \/ Bypass(r) \/ CallFails(r)
    \/ SyncCheckOut \/ SyncTimeout \/ SyncEnds
    \/ WindowEnds
    \/ Stop \/ Shutdown \/ Start \/ Crash

\* The loop resumes whoever's await is done, the pool's timeout runs out, and
\* so does a TTL.
Fairness ==
    /\ \A r \in Requests : WF_vars(Step(r))
    /\ WF_vars(SyncEnds)
    /\ WF_vars(WindowEnds)

Spec == Init /\ [][Next]_vars /\ Fairness

-----------------------------------------------------------------------------
\* One window lets at most max_requests requests pass that were counted, however
\* many arrive at once; only a failing Redis call lets more in
\* (rate_limit.py:41-55).
AtMostLimit == passed <= Limit

\* Connections in the hands of requests: those that hold one, and again those
\* that hold a second.
Holding(k) == {r \in Requests : req[r].conns >= k}
InHand     == Cardinality(Holding(1)) + Cardinality(Holding(2))

\* Every connection checked out is held by a request or a sync that will return
\* it: no answer, error or timeout leaves one behind (db_session.py:6-14,
\* auth_service.py:536-545).
NoLeak == busy = sync.holding + InHand

\* An address that used up its requests is let in again: the window ends, unless
\* the EXPIRE that follows the first INCR was lost, when it never does
\* (rate_limit.py:41-45).
WindowCloses == counter.n > 0 ~> counter.n = 0 \/ lost

\* Every request is answered, also when all connections are held by refused
\* fallbacks that each wait for a second one to revoke with
\* (auth_service.py:409, 536): the pool's timeout is what ends that wait.
EveryoneAnswered == \A r \in Requests : req[r] # Idle ~> req[r] = Idle
=============================================================================
