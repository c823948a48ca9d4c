# OfficeLM: a TLA+ model of the service

OfficeLM is a FastAPI service over PostgreSQL and Redis. What it has of its own
logic today is authentication: registration, login with brute-force lockout,
sessions with rotating refresh tokens, a middleware that guards private routes,
and a rate limiter. Around it are the schema of the chat module, seeding
scripts, thin clients of LLM providers and a setup wizard.

The service is **one asyncio process** (`entrypoint.sh` starts uvicorn with one
worker). Between two `await`s a handler runs alone; at an `await` any other
handler or background task may run. Every action of the modules about the
service is the code from one `await` to the next. Boots and scripts are
processes of their own, several of which may run against one database; an
action of theirs is one statement, or the statements between two points where
another process could matter.

## 1. Inventory

| Component | State | Operations | What makes it hard | Status |
|---|---|---|---|---|
| Session rotation (`auth_service.py` 193-287, 300-476, 482-637) | row of `session.sessions` (is_active, refresh_token_hash), Redis payload `sessions:..`, Redis index `user:sessions:..`, background tasks | create on login, refresh by cache, refresh by row, revoke on reuse, background copy of the hash | two stores, check before an await and write after it, unordered background tasks, swallowed failures, lost responses, crashes | modelled |
| Login head (`auth_service.py` 110-187) | row of `auth.users` (status, banned_until_time) | lift a ban, check the status, verify the password in a thread | status read before a long await; ban lifted from an old read | modelled |
| Lockout (`maintain_cache_key.py` 34-91) | Redis counter and block key per (IP, username) | record, clear, check, unblock | INCR and EXPIRE apart, check before record, unblock scans while logins go on | modelled |
| Rate limit (`rate_limit.py`) | Redis counter per (route, IP) | count, refuse, fail open | INCR and EXPIRE apart, many at once, exceptions let pass | modelled |
| JWT guard (`jwt_validator.py`) | none; reads the session's payload | admit or refuse a private request | the payload is written by login and rotation, while the request waits for it | modelled |
| Profile gate (`current_user.py`) | Redis flag `user:profile_completed:..` | read, fill on a miss | flag filled from a row read earlier; payloads that claim a profile | modelled |
| Registration (`auth_service.py` 52-104) | rows of `auth.users` | check the e-mail, hash in a thread, insert | check-then-insert, two unique columns | modelled |
| Connection pool (`postgresql.py`, `db_session.py`) | 15 connections | request session, dedicated session of a revocation or a background copy | hold and wait, a connection that is not returned | modelled |
| Redis client, lifespan (`redis.py`, `main.py`) | pools of the process | start, graceful stop, crash | disposed while background copies still run | modelled |
| Seeding (`alembic/seeds`) | roles, permissions, links, first admin, dummies | seed, again or concurrently, next to registrations | one transaction, unique columns, look-up by name or address | modelled |
| Migrations (`alembic/versions`, `env.py`, `entrypoint.sh`) | catalog, `alembic_version` | upgrade at each boot, downgrade by hand | two boots at once, tables with rows, index names, enum types left behind | modelled |
| Schema (`auth_model.py`, `chat_model.py`, ..) | tables, indexes, enum types | | what the classes name against what the revisions build | partly: no lengths, no ON DELETE rules |
| Setup wizard (`setup_wizard.py`) | `.env` | new secrets, administrator's address, provider | a second run next to an initialised volume | partly: what reaches the database |
| HTTP formatting (`main.py`, routers) | | responses, cookies | a response that is lost | partly |
| LLM clients (`clients/llm`) | provider settings | generate, embed, stream | | not modelled |

Components meet in five places: the payload in Redis (written by login and
rotation, read by the guard and by rotation), the session's row (written by
login, fallback, revocation and background tasks), the user's row (inserted by
registration and seeding, read by login, written by administrators, of whom
`src/` holds only `admin_unblock_user`), the connections of the one engine, and
the tables themselves, which upgrades and downgrades change under all of them.

## 2. Modules

| Module | What it is |
|---|---|
| `SessionState` | constants with their assumptions, variables, types, `Init` and the records of a request in flight |
| `SessionRotation` | one action per step of the code, `Spec`, `FairSpec` and the properties; next to some definitions, their faulty variants |
| `TokenAuthority` | the abstract promise: one authority exchanges the current token of a session for a new one and revokes the session when any other one is presented |
| `SessionRotationRefines` | the refinement mapping and `ImplementsAuthority` |
| `MCSessionRotation` | symmetry sets, for TLC |
| `SessionRotationProofs` | proofs for any number of requests and any environment |
| `SessionSerialProofs` | proofs for handlers of one session that do not overlap |
| `SessionRefinementProofs` | proof of the refinement, likewise |
| `LoginGuard` | the way to a session: ban, status, password and lockout of one account, with the unblock tool, administrators and time |
| `MCLoginGuard` | symmetry sets, for TLC |
| `LoginGuardProofs` | proofs: types, and bans that are lifted only when over |
| `LockoutProofs` | proofs: the lockout of a pair whose calls were answered on time, for which failures it is locked, and how often it can be tried |
| `AccessGuard` | extends `SessionRotation` by private requests: the guard, the profile gate, and what login and refresh do about the profile |
| `MCAccessGuard`, `AccessGuardProofs` | for TLC; proofs: the composition is one of rotation, types, the gate, and whom the guard admits |
| `RequestPath` | the rate limiter, the connection pool and the life of the process, around the refresh handler |
| `MCRequestPath`, `RequestPathProofs` | for TLC; proofs: the limit, the connections, types |
| `Schema` | the six revisions as sequences of statements, what a statement needs and does, and what the model classes name |
| `Deployment` | boots with their upgrade, downgrades, the wizard's `.env`, the database's volume |
| `Accounts` | seeders and registrations as transactions over unique columns |
| `Database` | `Deployment` and `Accounts` together |
| `MCDatabase`, `AccountsProofs` | for TLC; proofs: accounts stay apart, the chain of revisions at any number of boots, the administrator, types |

`LoginGuard` ends where `SessionRotation`'s `BeginLogin` starts: after
`clear_failed_login`. The two share no variable (one reads the user's row and the
lockout's keys, the other the session's row and payload), which is why they are
checked apart.

### How `SessionRotation` corresponds to the code

| Variable | Code |
|---|---|
| `clock` | `datetime.now`, in whole seconds as in the claims of a token |
| `db[s]` | `is_active` (absent, active, revoked) and `refresh_token_hash` of the row |
| `cache[s]` | the payload under `sessions:{sid}:user:{uid}`; its `refresh_token_hash` stands for it, since it is written whole and its `is_active` is never False |
| `index` | the keys in the set `user:sessions:{uid}` |
| `req[r]` | a handler: the await it is suspended at, session, presented token, its `now`, the commands of its gather still to run, and whether one failed |
| `sync[s][t]` | pending tasks `_sync_session_rotation_db` that will write hash `t` |
| `held[s]` | refresh tokens that reached a client (any client may replay any of them) |
| `latest[s]` | history: the pair minted by the last acceptance |

A token pair is named by the second it was minted in. This is exact: `sub`,
`sid`, `type`, `iat` and `exp` are its only claims and the times are whole
seconds, so two pairs of a session minted within one second are equal byte for
byte. SHA-256 is taken to be injective, so a hash is its token.

| Action | Code (`auth_service.py`) |
|---|---|
| `BeginLogin`, `CreateSession` | 200-246: fresh uuid, await of INSERT and COMMIT |
| `Refresh` | 300-341: decode, expiry, up to the GET |
| `CacheHit`, `CacheReuse`, `CacheMiss` | 341-409: the three outcomes of the GET; a hit mints and starts the background task |
| `RowMatches`, `RowRefused` | 409-432: the outcomes of the SELECT |
| `CommitRotation` | 423-449: UPDATE by primary key, unconditional |
| `DeactivateRow`, `DeactivateFails` | 521-545 |
| `CacheCommand`, `CommandFails` | 606-637: one command of a `gather`, in any order; when one raises the other stays in flight (`"orphan"`) and the handler goes on |
| `Reply`, `LoseReply`, `Abort` | the response, its loss, and the 500 of lines 467-476 |
| `SyncSessionRotationDb`, `SyncFails` | 554-573 |
| `Evict`, `Crash`, `Tick` | Redis, the process, the clock |

Simplifications, each one only adding behaviours or leaving out what no property
sees: the TTL of a payload runs from the second it was minted and expiry may
come late; an in-doubt COMMIT is a COMMIT followed by failing cache commands
and a lost response; a session id is logged in once (uuid4 is fresh). Access
tokens travel with their refresh tokens and are not separate values.

`Env` selects what goes wrong: `"loss"` of responses, `"evict"`ion before the
TTL, `"fault"` (a Redis or Postgres call raises), `"crash"` of the process.

### How `LoginGuard` corresponds to the code

| Variable | Code |
|---|---|
| `clock` | wall clock and Redis' clock, in ticks |
| `account` | `status` and `banned_until_time` of one row of `auth.users` |
| `count[i]` | `failed_login_count:{ip}:{username}`: value (0 when absent) and deadline (0 when it has no TTL) |
| `block[i]` | deadline of `failed_login_block:{ip}:{username}`, 0 when absent |
| `req[r]` | a login: the await it is suspended at, its address, the row as its SELECT returned it, and the tick of its INCR (`since`) |
| `desk` | `admin_unblock_user`: which of its two SCANs it is in, and the keys that SCAN must still return |
| `failed[i]` | history: ticks of the last `Limit` failures counted for the address |
| `faulted` | history: addresses for which a call failed, or was cut short by a crash |
| `late` | history: addresses for which an EXPIRE or SET was still due `Delay` ticks after its INCR when the clock went on |

| Action | Code |
|---|---|
| `BeginLogin`, `GetUser` | `authenticate_user` 129-135 |
| `RefuseBlocked`, `NotBlocked`, `LookupFails` | 143-150 and `is_ip_user_blocked`, which lets the login pass when EXISTS raises |
| `Admit`, `LiftBan` | 152-170: refuse a ban that runs or a status that is not ACTIVE, lift a ban that is over by a COMMIT of the changed columns |
| `Mismatch`, `Match` | 172-187: the outcomes of the password check in its thread |
| `RecordFailedLogin`, `OpenWindow`, `BlockPair`, `RecordFails` | `record_failed_login` 34-53: INCR, then EXPIRE for the first failure or SET at the limit; an exception is only logged |
| `ClearFailedLogin` | `clear_failed_login`: one DEL of both keys |
| `Abort` | the 500 of a failing SELECT or COMMIT (288-295), or the swallowed failure of the DEL |
| `BeginUnblock`, `UnblockPair`, `ScanCounts`, `ForgetCount`, `EndUnblock`, `UnblockFails` | `admin_unblock_user`: block keys first, then counters |
| `Tick`, `AdminUpdate`, `Crash` | time, administrators (outside of `src/`), the process |

Any number of ticks may pass between any two steps, the INCR of a login and its
EXPIRE or SET included. Which of several logins' calls comes first decides which
deadline does: when one login creates the counter, others reach the limit and
set the block, and only then the first one's EXPIRE arrives, the counter outlives
the block. The promises that depend on it are about addresses whose EXPIREs and
SETs took effect at most `Delay` ticks after their INCR, and say how much the
delay costs. `Delay` is less than the window: the client gives a connection and a
reply 5 s each (`clients/redis.py`), after which the call raises and the address
is `faulted`; the window is 900 s. A longer wait takes an event loop that
stands still; it makes the address `late`, and the properties exempt it by
name. A SCAN returns every key
that exists for the whole of the iteration and may return or miss the others:
`desk.todo` is the set of those it cannot miss, and the scan ends only when it
is empty. An INACTIVE account is refused as a PENDING one is. A login for an
unknown name changes no state and is left out; the lockout of different names
is independent, so one name with several addresses stands for all.

### How `AccessGuard` corresponds to the code

| Variable | Code |
|---|---|
| those of `SessionRotation` | as above; all sessions are of one user |
| `profile` | the user has a row in `user_profiles` |
| `payload[s]` | `is_profile_completed` of the cached payload |
| `carry[r]` | `is_profile_completed` as the handler of a login or refresh knows it, and whether it still has to look it up and to write the flag |
| `flag` | `user:profile_completed:{uid}`: absent, no, yes |
| `probe[p]` | a private request: the await it is suspended at, its session and token, what it knows of the profile |
| `hurt` | history: sessions one of whose calls failed, whose handler died, or whose payload was evicted before its TTL |

| Action | Code |
|---|---|
| `Login`, `LookUpProfile`, `InsertSession` | `auth_service.py` 193-247: `_get_profile`, then the INSERT |
| `FillAtLogin`, `FillAtLoginFails` | 262-275, once the gather that stores the payload is over |
| `CopyPayload` | 362-386: the fast path keeps what the payload said |
| `Rewarm` | 431-448: the fallback writes `is_profile_completed: True` whatever the table says |
| `Private` | the head of `JWTValidator.dispatch`: a live token of a session |
| `Admit`, `Refuse` | `jwt_validator.py` 122-180: the payload's `access_token_hash` against the token's |
| `ReadFlag`, `ReadProfile`, `FillFlag` | `current_user.py` 70-107: GET, SELECT on a miss, SET |
| `PrivateFails` | 500 for the payload's GET and the SELECT; a failing GET of the flag is a miss, a failing SET a warning |
| `CreateProfile` | the endpoint a login points to; outside of `src/`, known only by the row it leaves |
| `Drop`, `ExpireFlag`, `Restart` | Redis and the process |

The remaining actions are those of `SessionRotation` with the new variables
unchanged, which is why every step of the composition is a step of rotation
(`GuardKeepsRotation`). Checks of the token itself (signature, type, expiry) end
in a 401 that touches nothing. The status and `is_active` in a payload never
take another value than ACTIVE and True, so the two refusals of
`jwt_validator.py` 135-152 do not occur.

### How `RequestPath` corresponds to the code

| Variable | Code |
|---|---|
| `app` | the uvicorn process: up, told to stop, down |
| `counter` | `rate_limit:{route}:{ip}`: value and whether it has a TTL |
| `req[r]` | a request to the refresh route: the await it is suspended at and the connections it holds |
| `busy` | connections checked out of the engine's pool |
| `sync` | background copies that wait for a connection, and that hold one |
| `passed`, `lost` | history: counted requests let pass in this window; an EXPIRE that did not reach Redis |

| Action | Code |
|---|---|
| `Arrive`, `Count`, `StartWindow`, `Limited`, `Bypass` | `RateLimiter.__call__`: INCR, EXPIRE for the first, TTL for a refused one, and an exception that lets the request pass |
| `LookUp`, `ReadRow` | the outcomes of GET and SELECT in `refresh_access_token`, left open here |
| `CheckOut`, `PoolTimeout` | the pool hands out a connection, or its timeout runs out (500, or a log line for the revocation) |
| `CheckIn`, `Answer` | end of a transaction or of a dedicated session; `get_async_db` closes the request's |
| `CallFails` | an exception of a call: 500, or on to the cache |
| `SyncCheckOut`, `SyncTimeout`, `SyncEnds` | `_sync_session_rotation_db` with its own session |
| `Stop`, `Shutdown`, `Start`, `Crash` | `lifespan`; background copies, which nothing awaits, end with the loop |

### How `Schema`, `Deployment`, `Accounts` and `Database` correspond to the code

| Variable | Code |
|---|---|
| `catalog`, `version` | committed tables, indexes, enum types and changing columns; `alembic_version` |
| `draft` | the one transaction of a running upgrade (`alembic/env.py` 71) |
| `boot[i]` | an instance in `entrypoint.sh`: off, in `alembic upgrade head`, serving, failed by `set -e` |
| `volume`, `settings` | the database's volume is initialised; what `.env` says |
| `users`, `stored` | rows of `auth.users`; roles and permissions |
| `act[p]` | a seeder or a registration: items left, whether it looks or inserts, what its open transaction has inserted |

| Action | Code |
|---|---|
| `Boot`, `Apply`, `Refused`, `Commit`, `Stop` | `entrypoint.sh`; one revision with the UPDATE of the version; a failing statement or a version that has moved; COMMIT and uvicorn; a container that goes |
| `Downgrade` | `alembic downgrade -1` |
| `RunWizard` | `generate_env`: new secrets, while the volume keeps the old password |
| `SeedSystem`, `SeedDummies`, `Look`, `Insert`, `Finish`, `RollBack` | `BaseSeeder.run` and the two seeders: SELECT, INSERT that waits for and fails on a unique value, COMMIT |
| `Register` | `register_user`: lower-case address, look-up, hash in a thread; then `Insert` |
| `Abandon` | a script or handler that dies, or a call that fails |

`Schema` writes each revision as the sequence of its statements and takes the
index names from `db/base.py`'s convention, which puts the schema's name in
them: this is where moving `sessions` to another schema leaves old names.

## 3. Properties and runs

| Run | Instance | Checks |
|---|---|---|
| `rotation_any` | 1 session, 2 requests, 3 seconds, refresh life 2, evictions, failing calls and crashes | `TypeOK`, `NoPhantomSession`, `NoRevival` |
| `rotation_concurrent` | 1 session, 2 requests, 2 seconds, responses lost, fair | `RevokedBeforeDropped`, `ReuseRevokes`, `RequestsAnswered` |
| `rotation_serial` | 2 sessions, 1 request, 3 seconds, responses lost | `IndexCovers`, `RevokedEverywhere`, `AcceptsLatest`, `RevokedOnlyOnReuse`, `ImplementsAuthority` |
| `double_submit` | 1 session, 2 requests, nothing fails | violates `AcceptsLatest` |
| `revoked_but_cached` | 1 session, 2 requests, nothing fails | violates `RevokedEverywhere` |
| `stale_row` | 1 session, 1 request, evictions | violates `AcceptsLatest` |
| `login_guard` | 1 address, 2 logins, limit 3, window 2, delay 1, 5 ticks, failing calls and crashes | `TypeOK`, `CountersExpire`, `LockedAtLimit`, `AttemptsBounded`, `ReliableLock`, `LiftsOnlyExpired` |
| `lock_window` | limit 2, window 2, delay 1, failing calls | violates `LocksOnlyInWindow` |
| `ban_overwritten` | limit 2, administrators write while logins are served | violates `LiftsOnlyExpired` |
| `access_guard` | 1 session, 1 login or refresh and 1 private request at a time, 2 seconds, lives of 2, everything may fail | `AccessTypeOK`, `NoUnearnedPass`, `AdmitsCurrent`, `ServesLatest`, `StaleFlagEnds` |
| `request_path` | 3 requests, limit 1, 2 connections, failing calls and crashes | `PathTypeOK`, `AtMostLimit`, `NoLeak`, `WindowCloses`, `EveryoneAnswered` |
| `database` | 2 instances, 2 seeders or registrations, any revision to start from, 2 accounts, an administrator's address with a capital letter | `DatabaseTypeOK`, `HeadMatchesModels`, `RevisionsFit`, `OneAccount`, `AdminReachable`, `BootsUnlessTold`, `BootsEnd`, `JobsEnd` |

What the passing runs show is the line between what the design guarantees and
what it does not:

* **Whatever happens**, a session leaves no trace before its row is committed,
  and once a session is revoked and the handlers that were writing it have
  drained, nothing brings it back.
* **Without failures**, also under concurrency, a payload is dropped only after
  its row was revoked, a detected reuse is carried through, and every request
  is answered.
* **When handlers of one session do not overlap and nothing is evicted early**, rotation
  is exactly the token authority the documentation describes, although row and
  cache are updated apart and background copies run in any order.

* **A pair none of whose calls failed** is not counted for ever. If its EXPIREs
  and SETs also were on time, it is locked only for `Limit` failures within one
  window and twice `Delay`; at the limit it is blocked until its counter ends or
  is about to, at most `Delay` ticks later; and it is counted beyond the limit at
  most twice per other login in flight: once by those that had passed the check
  before the block was set, once by those that pass between the ends of block and
  counter. The two bounds are tight: TLC reaches `Limit + 2 * (Cardinality(Requests) - 1)`,
  and refutes `ReliableLock` with one tick less.
* **While no administrator writes during a login**, only a ban that is over is
  lifted.

* **One access token per session is good**: as long as no two refreshes of the
  session overlap, a superseded one is admitted only while the handler that
  superseded it is still on its way to Redis, or after one of the session's calls
  failed; and an honest client is turned away only for a revocation, a failure, an
  eviction or an expired token. Nobody passes the profile gate without a profile, although
  re-warmed payloads claim one, and a flag filled from an old read does not keep
  a user out for good.
* **The limiter** lets no more counted requests pass than its limit, and its
  window ends unless an EXPIRE was lost. No way out of a handler leaves a
  connection behind, and handlers that hold one connection while they wait for
  another are freed by the pool's timeout.
* **The database** at the head revision is what the model classes say on every
  path there; each of the six revisions can be applied to, and taken back from,
  every catalog that upgrades and downgrades can have left, with accounts or
  without (`RevisionsFit`); an upgrade fails only for a password that does not fit, an enum
  type that a downgrade left behind, or a version that somebody else has moved;
  concurrent boots, seedings and registrations end, and leave neither two
  accounts of one person nor half of a seeding.

The violating runs show where the documentation's promise stops: two overlapping
refreshes with one token are both accepted; a SET in flight undoes a revocation;
an eviction before the background copy re-admits a used token; an EXPIRE that
fails leaves a counter for ever, so that failures of any age lock a pair; a ban set
while a login waits is overwritten. The same run is cited for a second document:
`authenticate_user`'s docstring announces a window of 5 minutes (`auth_service.py`
119-120), the code's is `window_sec`, 15 minutes, and `ReliableLock` is about the
latter.
Each is a finding of `PROJECT.json`.

**Bounds.** Two requests are needed for every race above and are the most that
any counterexample used; a third one repeats the role of one of the two. One
session is enough where sessions do not interact (they share only request
slots); `rotation_serial` has two, so that a slot moves between sessions.
`MaxClock = 3` gives a login and two rotations with different tokens, so there
are an older, a previous and a current token; same-second rotations occur as
well. `RefreshLife = 2` lets tokens and payloads expire within the run,
`RefreshLife = 4` keeps expiry out of the serial and of the violating runs.
`rotation_any` leaves out `"loss"`: a lost response only keeps a token from the
clients, who may use fewer tokens then, and its three properties are proved with
it. `MaxSync` caps the pending copies of one hash at which new refreshes still
arrive; in-flight requests can exceed it by one each.

For `LoginGuard`, two logins are enough for every overlap of check and record, and
for an EXPIRE that is overtaken by the other login's SET. Limit 3
separates the first failure (EXPIRE), one below the limit and the limit (SET);
five ticks with a window of two and a delay of one let a counter outlive its block
by a tick, in which a second batch passes and locks the pair again, and let a lock
come one tick after `ReliableLock` would allow it. `MaxCount = 6` stops new logins
only beyond the most `AttemptsBounded` allows (5), so the bound does not make it
true. Of the bans (`BanEnds`) one that ends in the middle of the run tells early
from late; `ban_overwritten` has two, as one replaces the other. One address is
enough as addresses share only the row; `LockoutProofs`
has no bound on them.

In `AccessGuard` one handler and one private request overlap in every way;
sessions interact only through the flag, which the proof of `NoUnearnedPass`
covers for any number. `AdmitsCurrent` and `ServesLatest` are promises for
handlers of a session that do not overlap: when they do, `double_submit` is the
counterexample.  The run has one request slot; the proofs cover any number of
slots and sessions as long as handlers of the same session stay apart. In
`RequestPath` three requests and two connections give a pool that is used up by
refused fallbacks of which each waits for a second connection, next to one that
waits for its first; a limit of 1 is the smallest at which one more is refused.
`MaxCount` and `MaxTasks` stop arrivals only, requests under way go beyond
them. In `Database`, two boots and two jobs are the races of the code; three
accounts would repeat one of the two. Registrations and seedings begin at the
head revision while no upgrade is running, and the wizard and downgrades run
while no job is under way (a downgrade waits for their locks anyway; a job has
read its `.env` when it started). The nine permissions with their links are one
item, since one loop inserts them in one transaction, and one dummy account
stands for the three. `--type all` is a system seeding followed by one of the
dummies.

**Deadlock** is not checked: sessions and seconds are finite, tokens may all
have expired or been lost, and the system then stops. `RequestsAnswered` is the
property that would show a handler stuck. In `LoginGuard` and `AccessGuard` time
ends at `MaxClock`, and logins stop arriving at `MaxCount`. `request_path` and
`database` check for deadlock.

**Fairness.** `WF(Step(r))` for each request and `WF` for each background task:
the event loop resumes a coroutine whose await is done, and in a run without
faults Redis and Postgres answer. `AccessGuard` adds that the flag's TTL ends;
`RequestPath` that the limiter's TTL ends, that a background copy finishes, and
that the pool's timeout runs out (it is a disjunct of `Step`). `Database`
assumes strong fairness of upgrades and jobs: who waits for a lock is queued by
Postgres and not overtaken again and again by later ones. Nothing is assumed of
clients, operators, the clock, or early evictions.

## 4. Proofs

`SessionRotationProofs` needs no assumption but those on the constants.

* `TypeCorrect`: types, one lemma per kind of update.
* `RowInvariant`: the inductive invariant `RowInv` is `TypeOK`, `LoginAlone` (a
  login whose INSERT is pending has its session to itself) and
  `NoPhantomSession`. `NoPhantomSession` alone is not inductive: a cached
  payload of an absent row has to be ruled out at the moment `CreateSession`
  is still pending. Lemmas `RowStep`, `CacheStep`, `LatestStep`, `HeldStep` and
  `SyncStep` say, once and for all, which actions can change each variable;
  `ControlFlow` says which stage follows which. The other proofs cite them
  and never open `Next` again.
* `RevocationIsFinal`: `NoRevival`. A dead session has no writer, a new writer
  needs a hit or an active row, and it has neither.
* `RowGoesFirst`: `RevokedBeforeDropped` when no call fails and nothing is
  evicted early (responses may be lost and the process may crash). Its invariant
  `DropInv` says that a handler about to delete a key has seen its UPDATE commit.

Its last section holds what the next three modules share: `Apart` (no two handlers
of one session are served at the same time), `Due` (a command on a session's key
is still to run) and `OwnDue` (under `Apart` it is due in the session's one
handler).

`SessionSerialProofs` speaks of any number of sessions and handlers, under two
hypotheses. `Lossy`: nothing but responses is lost; tokens and payloads expire.
`[]Serial`: handlers of one session do not overlap (`Apart`), and none waits for
its GET beyond the life of the token it has decoded (`Prompt`). The run
`rotation_serial` has the case of one handler slot (`OneSlotIsApart`) and no
expiry. `Apart` is what a client that waits for its answer gives, `Prompt` what a
GET that takes less than the rest of a token's life gives. The code enforces
neither, and without `Prompt` the properties are false: a handler that is resumed
only after its payload has expired is checked against a row which the background
copy may not have reached yet, so an old token can pass and the latest one be
taken for reuse.

`SerialInv` relates the three places a hash is kept: an active session has its
latest token in the cache or about to be stored there, unless that token has
expired; a revoked one has nothing cached or its DEL due; and each stage of a
handler implies what its session looks like. A handler moves its own session
only; `SerialFrame` and `CoverFrame` say so once for all others. From the
invariant follow `SerialAcceptsLatest`, `SerialRevokesOnReuse` and
`SerialRevokesEverywhere`; with `CoverInv`, which says the same of the index as
`SerialInv` of the payload, `SerialIndexCovers`; and `SessionRefinementProofs`
derives `SerialRefinement`, that every step is a step of `TokenAuthority` or a
stutter under the mapping.

`LoginGuardProofs` and `LockoutProofs` assume only what the constants are
declared to be.

* `GuardTypeCorrect`: types.
* `BansRunOut`: `LiftsOnlyExpired`, assuming that administrators do not write
  the row while a login is served. The invariant `FreshRows` says that from its
  SELECT to its COMMIT the row a login holds shows the ban there is, or one that
  has been lifted.
* `CountersEnd` and `LockHolds`: `CountersExpire` and `LockedAtLimit`, from the
  inductive invariant `IInv`. `LockedAtLimit` is not inductive. Every counter
  from the limit on has its login about to set a block, or is in its last `Delay`
  ticks (`Final`), or there is a block that ends no more than `Delay` ticks before
  the counter does and than any EXPIRE still due can make it end (`Covers`):
  `Blocked`. A tick that ends the block then finds no EXPIRE due any more, since it
  would be late, so the counter has a deadline (`Timed`) and is `Final`. Between
  the two scans of the desk nothing is promised (`Settled`).
* `LocksAreEarned`: `ReliableLock`. `Windows` relates the counter to the history:
  the last `count[i].n` failures are not older than the INCR that created it, whose
  EXPIRE came `Delay` ticks later at most (`Young`), and a login about to send SET
  had the limit reached by such failures at its INCR (`Reached`).
* `AttemptsAreBounded`: `AttemptsBounded`. `Tried`, on top of `IInv`, compares the
  counter with the logins at each stage (`Bounded`): behind a block, the counter and
  the logins past the check stay below the limit and `Room`, which is one slot less
  than there are while the counter may outlive the block, all slots when it ends
  with the block, and twice the slots less one for a block set in a counter's last
  ticks; without a block, the logins about to set one are counted too.

`StepShape` says once and for all what a step is to an address: a tick, a crash,
nothing but a key or login that disappears (`Quiet`), or one login's INCR, EXPIRE,
SET or failure (`Writes`); the three proofs cite it and never open `Next` again.
The constants' assumptions they need are that `Requests` is finite and not empty,
that the limit is at least two (the code's is 5), and `1 <= Delay < Window`.

`AccessGuardProofs` assumes only what the constants are declared to be.

* `GuardKeepsRotation`: every step of the composition is a step of rotation or
  leaves its variables alone, so `TypeCorrect`, `RowInvariant`,
  `RevocationIsFinal` and `RowGoesFirst` hold next to the guard.
* `AccessTypeCorrect`: types, from `TypeStep` of rotation and one lemma each for
  `carry`, `probe` and the rest.
* `GateHolds`: `NoUnearnedPass`. It is not inductive: a request passes on a flag
  that others wrote. `GateInv` adds that a flag "yes" means a profile
  (`FlagStep`), that a login between its look-up and its SET says the truth
  (`CarryOf`, `CarryStep`), and so does a private request about to write the flag
  (`ProbeOf`, `GateStep`). What re-warmed payloads claim is allowed to be wrong:
  a handler that carries it has no flag to write.
* `AdmissionsAreCurrent` and `LatestIsServed`: `AdmitsCurrent` and `ServesLatest`,
  for any number of sessions, handlers and private requests and every `Env`,
  under `[]Apart`: no two handlers of one session are served at the same time.
  The code does not enforce this, and `double_submit` shows that without it the
  first one is false; a client that waits for its answer gives it. `OneAtATime`
  is the special case the run has. The guard's answer depends on the cached hash
  alone (`GuardAnswer`), so what has to be known is how cache, row and history
  relate. `GuardInv` says it: for an active session the cache has the latest
  token or nothing, or the SET of a handler is due; it has nothing only if the
  latest token is too old to be presented, or nobody holds it yet; for a revoked
  one it has nothing, or the DEL is due (`CurrentOf`); a handler about to mint
  knows of no later token, and one about to store or drop knows what the row
  says (`HandlerOf`). This is `SerialInv` without its assumptions: sessions that
  a failure, a crash or an early eviction has hurt are exempt (`hurt`), and the
  expiry of a payload is covered by that of the access token
  (`AccessAssumption`). One lemma per kind of step (`GuardMints`,
  `GuardRevokes`, `GuardCommands`, ..) deals with the session concerned, and
  `OneSession` with the others.

`RequestPathProofs` assumes that the set of slots is finite, a limit and a pool
of at least one.

* `LimitHolds`: `AtMostLimit`, from the invariant that the counter is never behind
  those who passed, and that a TTL belongs to a key.
* `NothingLeaks` and `PathTypeCorrect`: `NoLeak` and `PathTypeOK`. `NoLeak` is an
  equation between the pool's counter and a cardinality, and the range of `busy`
  (never more than the pool has) follows from it. It is inductive together with
  the number of connections a request can hold at each await (`Hands`):
  `Pooled`. `HoldingStep` and `InHandStep` say how the cardinalities change when
  one request moves, after which each action only has to say what it does to
  its own request (`Moves`).

`AccountsProofs` assumes that no instance is called "nobody" and what spellings
the wizard may be given.

* `AccountsStayApart`: `OneAccount`. `AccountInv` says the same of committed
  accounts (`UsersApart`), of open inserts against committed ones (`DraftsApart`)
  and of open inserts among each other (`JobsApart`): the second is what an
  insert checks, the third what its wait for other transactions gives, and
  without them a COMMIT could bring in a second row. It holds whatever boots and
  downgrades do to the tables, since these only take rows away.
* `HeadAlwaysMatches`, `LayoutsAreKnown` and `BootsFailForAReason`:
  `HeadMatchesModels`, `RevisionsFit` and `BootsUnlessTold`, for any set of
  instances. `DeployInv` says that the committed catalog is a layout of its
  version, and the draft of an open upgrade one of the version it has reached.
* `AdminIsReachable`: `AdminReachable`, for any set of seeders and registrations.
  It speaks of committed rows and is not inductive: a seeder commits all it has
  inserted at once. `SeedInv` gives each job its position `k` in the four items
  of a system seeding (`At`), of which those before `k` are either stored or in
  its own open transaction (`Brought`), the account last.
* `DatabaseTypeCorrect`: `DatabaseTypeOK`, from the three invariants.

All but the first of these have the hypothesis `RevisionsWork`. It is a closed
formula, without variables or constants of an instance: for each of the six
revisions and each of the catalogs that can precede it, the statements succeed
and give a catalog of the next version, and back. What a sequence of statements
does is a recursive function (`Run`), and the provers have no induction over
data; TLC evaluates the formula in full in the run `database`, as the second
conjunct of `RevisionsFit`. So the chain of revisions is checked by evaluation,
all cases of it, and its consequences for any number of concurrent boots, kills,
downgrades, seeders and registrations are proved.

Only model-checked: liveness (`RequestsAnswered`, `ReuseRevokes`,
`StaleFlagEnds`, `WindowCloses`, `EveryoneAnswered`, `BootsEnd`, `JobsEnd`), which
is out of the prover's reach, and `RevisionsWork` as said. Every invariant and
every action property of a passing run is stated by a theorem. The findings are
counterexamples and have none.

## 5. Not modelled, and what is left

* **LLM clients, provider factory, prompts**: nothing in `src/` calls them yet
  and they keep no state but a client object.
* **ON DELETE rules and ORM cascades**: nothing in `src/` deletes a user, room,
  role or message. Column lengths, defaults and key constraints are data.
* **Logging, formatting, cookies' attributes, prompts of the wizard.**
* **Repetitions by the Redis client itself.** `clients/redis.py` asks for none. An
  INCR that the library sent twice after losing a reply would count one failure
  for two; the modules send each command once, and take a lost reply for a failed
  call.

Noticed while modelling, with no run, since there is no behaviour to check:

* `JWTVALIDATOR_README.md:17` announces that a suspension takes effect at once.
  The guard reads `user_status` from the payload, which is ACTIVE in every one
  ever written (`auth_service.py` 218, 442), so `jwt_validator.py` 144-152 never
  refuses.
* `main.py` 17-20 and the seeders do not import `chat_model`, whose classes
  `auth_model` names; `tests/conftest.py` and `alembic/env.py` do. The modules
  take the classes as loaded.
* `retry_after` is the whole window when the TTL is not positive, as after a lost
  EXPIRE (`rate_limit.py`), although that window never ends.
* The wizard writes no `SECRET_HEADER_*`, which the rate limiter's dependency
  reads; `SETUP.md` says that the first boot waits for Ollama, which
  `entrypoint.sh` does not.

Next, in order: the serial theorems with hurt sessions exempt, as in `GuardInv`, in
place of `Lossy`, so that they hold of the other sessions under every `Env`; then
the chat module, once it has operations.
