------------------------- MODULE SessionSerialProofs -------------------------
(***************************************************************************)
(* What rotation promises when handlers of one session do not overlap,     *)
(* for any number of sessions and handlers: proofs of the properties that  *)
(* overlapping refreshes, failures and evictions break.                    *)
(***************************************************************************)
EXTENDS SessionRotationProofs

USE ClockAssumption, LifeAssumption DEF Seconds, Tokens, None

\* Nothing fails or is evicted early; responses may be lost, tokens and payloads
\* expire.
Lossy == Env \subseteq {"loss"}

\* No handler waits for its GET beyond the life of the token it has decoded.
Prompt == \A r \in Requests : req[r].pc = "get" => clock < req[r].tok + RefreshLife

\* Handlers of one session do not overlap, and reach Redis in time.
Serial == Apart /\ Prompt

\* The latest token of s is past its life, and so may be its payload.
Stale(s) == latest[s] + RefreshLife <= clock

\* An active session has its latest token cached, or about to be, unless that has
\* expired; a revoked one has nothing cached, or its DEL is about to run; a live or
\* revoked one has a latest token, and no client has a later one.
SessionInv(s) ==
    /\ db[s].state = "active" => \/ cache[s] = latest[s] \/ Due(s, "store")
                                 \/ cache[s] = None /\ Stale(s)
    /\ db[s].state = "revoked" => cache[s] = None \/ Due(s, "drop")
    /\ db[s].state # "absent" => latest[s] # None
    /\ latest[s] <= clock
    /\ \A t \in held[s] : t <= latest[s]

\* What a handler at each stage knows of its session.  The fallback is reached
\* only by a revoked session, and never gets as far as its COMMIT.
HandlerInv(r) ==
    /\ req[r].pc \in Stages => ~req[r].failed
    /\ req[r].pc \notin {"orphan", "commit"}
    /\ req[r].pc \in {"get", "load", "revoke"} => req[r].tok # None
    /\ req[r].pc = "get" => req[r].tok <= latest[req[r].sid]
    /\ req[r].pc \in {"insert", "get"} => /\ latest[req[r].sid] <= req[r].now
                                          /\ req[r].now <= clock
    /\ req[r].pc = "store" => /\ db[req[r].sid].state = "active"
                              /\ req[r].now = latest[req[r].sid]
    /\ req[r].pc \in {"load", "drop"} => db[req[r].sid].state = "revoked"
    /\ req[r].pc = "revoke" => \/ db[req[r].sid].state = "revoked"
                               \/ req[r].tok # latest[req[r].sid]

SerialInv == (\A r \in Requests : HandlerInv(r)) /\ (\A s \in Sessions : SessionInv(s))

\* What a handler in flight knows.
LEMMA SerialHandler ==
    ASSUME RowInv, SerialInv, Apart, NEW r \in Requests, req[r].pc \in Stages
    PROVE  /\ req[r] \in Calls /\ req[r].sid \in Sessions
           /\ HandlerInv(r) /\ SessionInv(req[r].sid)
           /\ Due(req[r].sid, "store") => req[r].pc = "store" /\ "key" \in req[r].todo
           /\ Due(req[r].sid, "drop") => req[r].pc = "drop" /\ "key" \in req[r].todo
<1>1. /\ req[r] \in Calls /\ req[r].sid \in Sessions
      /\ \A pc \in Stages : Due(req[r].sid, pc) => req[r].pc = pc /\ "key" \in req[r].todo
  BY OwnDue DEF RowInv
<1> QED
  BY <1>1 DEF SerialInv, Stages

\* The step of a handler concerns its own session, and no other handler's.
LEMMA SerialFrame ==
    ASSUME SerialInv, TypeOK, Apart, Apart', NEW r \in Requests, NEW s \in Sessions,
           req[r].pc \in Stages => req[r].sid = s,
           req'[r].pc \in Stages => req'[r].sid = s,
           req[r].pc \in Stages \/ req'[r].pc \in Stages,
           \A q \in Requests \ {r} : req'[q] = req[q],
           \A u \in Sessions \ {s} : /\ db'[u].state = db[u].state /\ cache'[u] = cache[u]
                                     /\ latest'[u] = latest[u] /\ held'[u] = held[u],
           clock' = clock,
           SessionInv(s)', HandlerInv(r)'
    PROVE  SerialInv'
<1>1. ASSUME NEW u \in Sessions \ {s} PROVE SessionInv(u)'
  <2>1. ASSUME NEW pc \in Stages, Due(u, pc) PROVE Due(u, pc)'
    BY <2>1 DEF Due
  <2>2. (Due(u, "store") => Due(u, "store")') /\ (Due(u, "drop") => Due(u, "drop")')
    BY <2>1 DEF Stages
  <2>3. SessionInv(u)
    BY DEF SerialInv
  <2> QED
    BY <2>2, <2>3 DEF SessionInv, Stale
<1>2. ASSUME NEW q \in Requests \ {r} PROVE HandlerInv(q)'
  <2>1. req'[q] = req[q] /\ HandlerInv(q)
    BY DEF SerialInv
  <2>2. CASE req[q].pc \in Stages
    <3>1. req[q].sid \in Sessions /\ req[q].sid # s
      BY <2>1, <2>2, CallShape DEF Apart, Calls
    <3> QED
      BY <2>1, <3>1 DEF HandlerInv
  <2>3. CASE req[q].pc \notin Stages
    BY <2>1, <2>3 DEF HandlerInv, Stages
  <2> QED
    BY <2>2, <2>3
<1> QED
  BY <1>1, <1>2 DEF SerialInv

(***************************************************************************)
(* The steps of such a run.                                                *)
(***************************************************************************)

\* Next to arrivals, handlers and lost responses there are ticks, background
\* copies, which leave the state of their row alone, and payloads that expire.
Quiet == /\ UNCHANGED <<index, req, held, latest>>
         /\ clock <= clock'
         /\ \A s \in Sessions : db'[s].state = db[s].state
         /\ \A s \in Sessions : cache'[s] = cache[s] \/
                /\ cache[s] # None /\ cache'[s] = None
                /\ cache[s] + RefreshLife <= clock

\* A step is quiet, or one of an arrival, a handler or a lost response.
LEMMA SerialNext ==
    ASSUME Lossy, TypeOK, [Next]_vars
    PROVE  Quiet \/ \E r \in Requests : Arrive(r) \/ Step(r) \/ LoseReply(r)
<1>1. "evict" \notin Env /\ "fault" \notin Env /\ "crash" \notin Env
  BY DEF Lossy
<1>2. ASSUME NEW s \in Sessions, Evict(s) PROVE Quiet
  BY <1>1, <1>2 DEF Evict, TypeOK, Quiet
<1>3. ASSUME NEW s \in Sessions, NEW t \in Seconds, SyncSessionRotationDb(s, t)
      PROVE  Quiet
  <2>1. PICK h : db' = [db EXCEPT ![s].hash = h]
    BY <1>3 DEF SyncSessionRotationDb
  <2> QED
    BY <1>3, <2>1 DEF SyncSessionRotationDb, Quiet, TypeOK
<1>4. CASE Tick \/ UNCHANGED vars
  BY <1>4 DEF Tick, vars, Quiet, TypeOK
<1> QED
  BY <1>1, <1>2, <1>3, <1>4
  DEF Next, Background, SyncFails, Crash, Fail, DeactivateFails, CommandFails, Abort

\* Steps of a handler that only move it from one await to the next.
LEMMA SerialMove ==
    ASSUME RowInv, SerialInv, Serial, Apart', NEW r \in Requests,
           CacheReuse(r) \/ CacheMiss(r) \/ RowRefused(r) \/ RowMatches(r)
    PROVE  SerialInv'
<1> USE DEF RowInv, TypeOK
<1> PICK s : s = req[r].sid
  OBVIOUS
<1> Apart
  BY DEF Serial
<1>1. req[r].pc \in {"get", "load"} /\ req[r].pc \in Stages
  BY DEF CacheReuse, CacheMiss, RowRefused, RowMatches, Stages
<1>2. /\ req[r] \in Calls /\ s \in Sessions /\ HandlerInv(r) /\ SessionInv(s)
      /\ ~Due(s, "store") /\ ~Due(s, "drop")
  BY <1>1, SerialHandler
<1>3. PICK p \in {"revoke", "load"} :
        /\ MoveTo(r, p)
        /\ UNCHANGED <<clock, db, cache, held, latest>>
        /\ p = "load" => db[s].state = "revoked"
        /\ p = "revoke" => db[s].state = "revoked" \/ req[r].tok # latest[s]
  <2>1. CASE CacheReuse(r)
    BY <1>2, <2>1 DEF CacheReuse, SessionInv, NoPhantomSession, States
  <2>2. CASE CacheMiss(r)
    <3>1. req[r].pc = "get" /\ ~Stale(s)
      <4>1. req[r].pc = "get" /\ clock < req[r].tok + RefreshLife
        BY <2>2 DEF CacheMiss, Serial, Prompt
      <4>2. req[r].tok <= latest[s]
        BY <1>2, <4>1 DEF HandlerInv
      <4>3. clock \in Nat /\ req[r].tok \in Nat /\ latest[s] \in Nat /\ RefreshLife \in Nat
        BY <1>2 DEF Calls
      <4> QED
        BY <4>1, <4>2, <4>3 DEF Stale
    <3>2. db[s].state # "active"
      BY <1>2, <2>2, <3>1 DEF CacheMiss, SessionInv
    <3> QED
      BY <1>1, <1>2, <2>2, <3>2 DEF CacheMiss, NoPhantomSession, States
  <2>3. CASE RowRefused(r)
    BY <1>2, <2>3 DEF RowRefused, HandlerInv
  <2>4. ~RowMatches(r)
    BY <1>2 DEF RowMatches, RowUsable, HandlerInv
  <2> QED
    BY <2>1, <2>2, <2>3, <2>4
<1>4. /\ req'[r].pc = p /\ req'[r].sid = s /\ req'[r].tok = req[r].tok
      /\ req'[r].failed = req[r].failed
      /\ \A q \in Requests \ {r} : req'[q] = req[q]
  BY <1>2, <1>3 DEF MoveTo, Calls
<1>5. HandlerInv(r)'
  BY <1>1, <1>2, <1>3, <1>4 DEF HandlerInv, Stages
<1>6. SessionInv(s)'
  BY <1>2, <1>3 DEF SessionInv, Stale
<1> QED
  BY <1>1, <1>2, <1>3, <1>4, <1>5, <1>6, SerialFrame

\* Arrivals.
LEMMA SerialArrive ==
    ASSUME RowInv, SerialInv, Apart, Apart', NEW r \in Requests, Arrive(r)
    PROVE  SerialInv'
<1> USE DEF RowInv, TypeOK
<1>1. PICK s \in Sessions : BeginLogin(r, s) \/ \E t \in Seconds : Refresh(r, s, t)
  BY DEF Arrive
<1>2. /\ req[r] = Idle
      /\ req'[r].pc \in {"insert", "get"} /\ req'[r].failed = FALSE /\ req'[r].sid = s
      /\ req'[r].pc = "get" => req'[r].tok # None /\ req'[r].tok \in held[s]
      /\ req'[r].now = clock
      /\ \A q \in Requests \ {r} : req'[q] = req[q]
      /\ UNCHANGED <<clock, db, cache, held, latest>>
  BY <1>1 DEF BeginLogin, Refresh, Call
<1>3. req[r].pc \notin Stages /\ req'[r].pc \in Stages
  BY <1>2 DEF Idle, Stages
<1>4. HandlerInv(r)'
  BY <1>2 DEF HandlerInv, SerialInv, SessionInv
<1>5. SessionInv(s)'
  <2>1. ASSUME NEW pc \in Stages, Due(s, pc) PROVE Due(s, pc)'
    BY <1>2, <1>3, <2>1 DEF Due
  <2>2. (Due(s, "store") => Due(s, "store")') /\ (Due(s, "drop") => Due(s, "drop")')
    BY <2>1 DEF Stages
  <2>3. SessionInv(s)
    BY DEF SerialInv
  <2> QED
    BY <1>2, <2>2, <2>3 DEF SessionInv, Stale
<1> QED
  BY <1>2, <1>3, <1>4, <1>5, SerialFrame

\* A login opens its session, a refresh is accepted: the new token is the
\* latest, and its SET is about to run.
LEMMA SerialMint ==
    ASSUME RowInv, SerialInv, Apart, Apart', NEW r \in Requests, CreateSession(r) \/ CacheHit(r)
    PROVE  SerialInv' /\ (CacheHit(r) => req[r].tok = latest[req[r].sid])
<1> USE DEF RowInv, TypeOK
<1> PICK s : s = req[r].sid
  OBVIOUS
<1>1. req[r].pc \in {"insert", "get"} /\ req[r].pc \in Stages
  BY DEF CreateSession, CacheHit, Stages
<1>2. /\ req[r] \in Calls /\ s \in Sessions /\ HandlerInv(r) /\ SessionInv(s)
      /\ ~Due(s, "store") /\ ~Due(s, "drop")
  BY <1>1, SerialHandler
<1>3. /\ MoveTo(r, "store") /\ latest' = [latest EXCEPT ![s] = req[r].now]
      /\ UNCHANGED <<clock, cache, held>>
  BY DEF CreateSession, CacheHit
<1>4. /\ req'[r].pc = "store" /\ req'[r].sid = s /\ req'[r].now = req[r].now
      /\ req'[r].failed = req[r].failed /\ req'[r].todo = Commands
      /\ \A q \in Requests \ {r} : req'[q] = req[q]
  BY <1>2, <1>3 DEF MoveTo, Calls
<1>5. CacheHit(r) => db[s].state = "active" /\ req[r].tok = latest[s]
  BY <1>1, <1>2 DEF CacheHit, SessionInv, NoPhantomSession, States
<1>6. db'[s].state = "active" /\ \A u \in Sessions \ {s} : db'[u] = db[u]
  BY <1>2, <1>5 DEF CreateSession, CacheHit
<1>7. HandlerInv(r)'
  BY <1>1, <1>2, <1>3, <1>4, <1>6 DEF HandlerInv, Stages
<1>8. SessionInv(s)'
  <2>1. Due(s, "store")'
    BY <1>4 DEF Due, Commands
  <2>2. latest'[s] = req[r].now /\ req[r].now \in Seconds
    BY <1>2, <1>3 DEF Calls
  <2>3. latest[s] <= req[r].now /\ req[r].now <= clock
    BY <1>1, <1>2 DEF HandlerInv
  <2>4. \A t \in held[s] : t <= req[r].now
    BY <1>2, <2>2, <2>3 DEF SessionInv
  <2> QED
    BY <1>3, <1>6, <2>1, <2>2, <2>3, <2>4 DEF SessionInv
<1>9. req'[r].pc \in Stages
  BY <1>4 DEF Stages
<1>10. \A u \in Sessions \ {s} : latest'[u] = latest[u]
  BY <1>3
<1> QED
  BY <1>1, <1>2, <1>3, <1>4, <1>5, <1>6, <1>7, <1>8, <1>9, <1>10, SerialFrame

\* A revocation: of a session revoked already, or for an older token.
LEMMA SerialRevoke ==
    ASSUME RowInv, SerialInv, Apart, Apart', NEW r \in Requests, DeactivateRow(r)
    PROVE  SerialInv'
<1> USE DEF RowInv, TypeOK
<1> PICK s : s = req[r].sid
  OBVIOUS
<1>1. req[r].pc = "revoke" /\ req[r].pc \in Stages
  BY DEF DeactivateRow, Stages
<1>2. req[r] \in Calls /\ s \in Sessions /\ HandlerInv(r) /\ SessionInv(s)
  BY <1>1, SerialHandler
<1>3. /\ req'[r].pc = "drop" /\ req'[r].sid = s
      /\ req'[r].failed = req[r].failed /\ req'[r].todo = Commands
      /\ \A q \in Requests \ {r} : req'[q] = req[q]
  BY <1>2 DEF DeactivateRow, MoveTo, Calls
<1>4. /\ UNCHANGED <<clock, cache, held, latest>> /\ db'[s].state = "revoked"
      /\ \A u \in Sessions \ {s} : db'[u] = db[u]
  BY <1>2 DEF DeactivateRow
<1>5. HandlerInv(r)'
  BY <1>1, <1>2, <1>3, <1>4 DEF HandlerInv, Stages
<1>6. SessionInv(s)'
  <2>1. db[s].state # "absent"
    BY <1>1 DEF NoPhantomSession, Stages
  <2>2. Due(s, "drop")'
    BY <1>3 DEF Due, Commands
  <2> QED
    BY <1>2, <1>4, <2>1, <2>2 DEF SessionInv
<1>7. req'[r].pc \in Stages
  BY <1>3 DEF Stages
<1> QED
  BY <1>1, <1>2, <1>3, <1>4, <1>5, <1>6, <1>7, SerialFrame

\* What a cache command does to the handler, the payload and the index.
LEMMA SerialEffect ==
    ASSUME RowInv, SerialInv, Apart, NEW r \in Requests, NEW c \in Commands, CacheCommand(r, c)
    PROVE  /\ req[r].pc \in {"store", "drop"} /\ req[r].pc \in Stages
           /\ c \in req[r].todo /\ UNCHANGED <<clock, db, held, latest>>
           /\ \/ req'[r] = Idle /\ req[r].pc = "drop" /\ req[r].todo = {c}
              \/ /\ req'[r].pc = req[r].pc /\ req'[r].sid = req[r].sid
                 /\ req'[r].now = req[r].now /\ req'[r].failed = req[r].failed
                 /\ req'[r].todo = req[r].todo \ {c}
           /\ \A q \in Requests \ {r} : req'[q] = req[q]
           /\ \A s \in Sessions :
                cache'[s] = IF s = req[r].sid /\ c = "key"
                            THEN IF req[r].pc = "store" THEN req[r].now ELSE None
                            ELSE cache[s]
           /\ index' = IF c = "name"
                       THEN IF req[r].pc = "store" THEN index \cup {req[r].sid}
                                                   ELSE index \ {req[r].sid}
                       ELSE index
<1> USE DEF RowInv, TypeOK
<1>1. req[r].pc \in Stages /\ c \in req[r].todo /\ UNCHANGED <<clock, db, held, latest>>
  BY DEF CacheCommand, Stages
<1>2. req[r] \in Calls /\ HandlerInv(r)
  BY <1>1, SerialHandler
<1>3. req[r].pc \in {"store", "drop"}
  BY <1>2 DEF CacheCommand, HandlerInv
<1>4. /\ \/ req'[r] = Idle /\ req[r].pc = "drop" /\ req[r].todo = {c}
         \/ /\ req'[r].pc = req[r].pc /\ req'[r].sid = req[r].sid
            /\ req'[r].now = req[r].now /\ req'[r].failed = req[r].failed
            /\ req'[r].todo = req[r].todo \ {c}
      /\ \A q \in Requests \ {r} : req'[q] = req[q]
  BY <1>2, <1>3 DEF CacheCommand, Retire, Calls
<1>5. \A s \in Sessions :
        cache'[s] = IF s = req[r].sid /\ c = "key"
                    THEN IF req[r].pc = "store" THEN req[r].now ELSE None
                    ELSE cache[s]
  BY <1>2, <1>3 DEF CacheCommand, CommandEffect, Calls
<1>6. index' = IF c = "name"
               THEN IF req[r].pc = "store" THEN index \cup {req[r].sid}
                                           ELSE index \ {req[r].sid}
               ELSE index
  BY <1>3 DEF CacheCommand, CommandEffect
<1> QED
  BY <1>1, <1>3, <1>4, <1>5, <1>6

\* A cache command of a rotation or of a revocation.
LEMMA SerialCommand ==
    ASSUME RowInv, SerialInv, Apart, Apart', NEW r \in Requests,
           NEW c \in Commands, CacheCommand(r, c)
    PROVE  SerialInv'
<1> PICK s : s = req[r].sid
  OBVIOUS
<1>1. /\ req[r].pc \in {"store", "drop"} /\ req[r].pc \in Stages
      /\ c \in req[r].todo /\ UNCHANGED <<clock, db, held, latest>>
      /\ \/ req'[r] = Idle /\ req[r].pc = "drop" /\ req[r].todo = {c}
         \/ /\ req'[r].pc = req[r].pc /\ req'[r].sid = s
            /\ req'[r].now = req[r].now /\ req'[r].failed = req[r].failed
            /\ req'[r].todo = req[r].todo \ {c}
      /\ \A q \in Requests \ {r} : req'[q] = req[q]
      /\ \A u \in Sessions :
           cache'[u] = IF u = s /\ c = "key"
                       THEN IF req[r].pc = "store" THEN req[r].now ELSE None
                       ELSE cache[u]
  BY SerialEffect
<1>2. /\ req[r] \in Calls /\ s \in Sessions /\ HandlerInv(r) /\ SessionInv(s)
      /\ Due(s, "store") => req[r].pc = "store" /\ "key" \in req[r].todo
      /\ Due(s, "drop") => req[r].pc = "drop" /\ "key" \in req[r].todo
  BY <1>1, SerialHandler
<1>3. HandlerInv(r)'
  BY <1>1, <1>2 DEF HandlerInv, Stages, Idle
<1>4. SessionInv(s)'
  <2>1. CASE c = "key"
    BY <1>1, <1>2, <2>1 DEF SessionInv, HandlerInv
  <2>2. CASE c # "key"
    <3>1. "key" \in req[r].todo => /\ "key" \in req'[r].todo /\ req'[r].pc = req[r].pc
                                  /\ req'[r].sid = s
      BY <1>1, <2>2
    <3>2. (Due(s, "store") => Due(s, "store")') /\ (Due(s, "drop") => Due(s, "drop")')
      BY <1>2, <3>1 DEF Due
    <3> QED
      BY <1>1, <1>2, <2>2, <3>2 DEF SessionInv, Stale
  <2> QED
    BY <2>1, <2>2
<1>5. req'[r].pc \in Stages => req'[r].sid = s
  BY <1>1 DEF Idle, Stages
<1>6. \A u \in Sessions \ {s} : /\ db'[u].state = db[u].state /\ cache'[u] = cache[u]
                                /\ latest'[u] = latest[u] /\ held'[u] = held[u]
  BY <1>1
<1> QED
  BY <1>1, <1>2, <1>3, <1>4, <1>5, <1>6, SerialFrame DEF RowInv

\* A response: no command of the gather is left, since none failed.
LEMMA SerialAnswer ==
    ASSUME RowInv, SerialInv, Apart, Apart', NEW r \in Requests, Reply(r) \/ LoseReply(r)
    PROVE  SerialInv'
<1> USE DEF RowInv, TypeOK
<1> PICK s : s = req[r].sid
  OBVIOUS
<1>1. req[r].pc = "store" /\ req[r].pc \in Stages
  BY DEF Reply, LoseReply, Finish, Stages
<1>2. /\ req[r] \in Calls /\ s \in Sessions /\ HandlerInv(r) /\ SessionInv(s)
      /\ Due(s, "store") => req[r].pc = "store" /\ "key" \in req[r].todo
      /\ ~Due(s, "drop")
  BY <1>1, SerialHandler
<1>3. req[r].todo = {}
  BY <1>1, <1>2 DEF Reply, LoseReply, Finish, HandlerInv
<1>4. /\ req'[r] = Idle /\ UNCHANGED <<clock, db, cache, latest>>
      /\ \A q \in Requests \ {r} : req'[q] = req[q]
  BY <1>3 DEF Reply, LoseReply, Finish
<1>4a. /\ held'[s] \subseteq held[s] \cup {req[r].now}
       /\ \A u \in Sessions \ {s} : held'[u] = held[u]
  BY <1>2 DEF Reply, LoseReply
<1>5. HandlerInv(r)'
  BY <1>4 DEF HandlerInv, Idle, Stages
<1>6. SessionInv(s)'
  <2>1. req[r].now = latest[s] /\ req[r].now <= latest[s]
    BY <1>1, <1>2 DEF HandlerInv, Calls
  <2>2. \A t \in held'[s] : t <= latest'[s]
    BY <1>2, <1>4, <1>4a, <2>1 DEF SessionInv
  <2> QED
    BY <1>2, <1>3, <1>4, <2>2 DEF SessionInv, Stale
<1>7. req'[r].pc \notin Stages
  BY <1>4 DEF Idle, Stages
<1> QED
  BY <1>1, <1>2, <1>4, <1>4a, <1>5, <1>6, <1>7, SerialFrame

\* No fallback gets as far as its COMMIT.
LEMMA NoCommit ==
    ASSUME SerialInv, NEW r \in Requests
    PROVE  ~CommitRotation(r)
BY DEF CommitRotation, SerialInv, HandlerInv

\* Every step keeps the invariant.
LEMMA SerialStep ==
    ASSUME Lossy, RowInv, SerialInv, Serial, Apart', [Next]_vars
    PROVE  SerialInv'
<1>1. CASE Quiet
  <2>1. \A s \in Sessions : (SessionInv(s) => SessionInv(s)')
    <3> SUFFICES ASSUME NEW s \in Sessions, SessionInv(s) PROVE SessionInv(s)'
      OBVIOUS
    <3> USE DEF RowInv, TypeOK
    <3>0. TypeOK'
      BY TypeStep DEF RowInv
    <3>1. /\ clock \in Nat /\ clock' \in Nat /\ clock <= clock'
          /\ latest[s] \in Nat /\ latest'[s] = latest[s] /\ held'[s] = held[s]
          /\ db'[s].state = db[s].state
      BY <1>1, <3>0 DEF Quiet
    <3>2. \A pc : Due(s, pc) => Due(s, pc)'
      BY <1>1 DEF Quiet, Due
    <3>3. Stale(s) => Stale(s)'
      BY <3>1 DEF Stale
    <3>4. /\ latest'[s] <= clock' /\ \A t \in held'[s] : t <= latest'[s]
          /\ db'[s].state # "absent" => latest'[s] # None
      BY <3>1 DEF SessionInv
    <3>5. CASE cache'[s] = cache[s]
      BY <3>1, <3>2, <3>3, <3>4, <3>5 DEF SessionInv
    <3>6. CASE cache[s] # None /\ cache'[s] = None /\ cache[s] + RefreshLife <= clock
      <4>1. cache[s] = latest[s] => Stale(s)
        BY <3>6 DEF Stale
      <4> QED
        BY <3>1, <3>2, <3>3, <3>4, <3>6, <4>1 DEF SessionInv
    <3> QED
      BY <1>1, <3>5, <3>6 DEF Quiet
  <2>2. \A r \in Requests : (HandlerInv(r) => HandlerInv(r)')
    <3> SUFFICES ASSUME NEW r \in Requests, HandlerInv(r) PROVE HandlerInv(r)'
      OBVIOUS
    <3>1. req[r].pc \in Stages => req[r].sid \in Sessions /\ req[r].now \in Nat
      BY CallShape DEF RowInv, Calls
    <3>2. clock \in Nat /\ clock' \in Nat
      BY TypeStep DEF RowInv, TypeOK
    <3> QED
      BY <1>1, <3>1, <3>2 DEF Quiet, HandlerInv, Stages
  <2> QED
    BY <2>1, <2>2 DEF SerialInv
<1> QED
  BY <1>1, NoCommit, SerialNext, SerialArrive, SerialMove, SerialMint, SerialRevoke,
     SerialCommand, SerialAnswer
  DEF Step, RowInv, Serial

(***************************************************************************)
(* The properties of such a run.                                           *)
(***************************************************************************)

\* The invariant holds as long as handlers of one session do not overlap and
\* reach Redis before their token expires.
THEOREM SerialInvariant == Lossy => (Spec /\ []Serial => [](RowInv /\ SerialInv))
<1> SUFFICES ASSUME Lossy PROVE Spec /\ []Serial => [](RowInv /\ SerialInv)
  OBVIOUS
<1>1. Init => SerialInv
  BY DEF Init, SerialInv, SessionInv, HandlerInv, Idle, Stages
<1>2. RowInv /\ SerialInv /\ Serial /\ Serial' /\ [Next]_vars => SerialInv'
  BY SerialStep DEF Serial
<1> QED
  BY <1>1, <1>2, RowInvariant, PTL DEF Spec

\* Handlers of one session that do not overlap: only the latest token is ever
\* accepted (auth_service.py 341-409).
THEOREM SerialAcceptsLatest == Lossy => (Spec /\ []Serial => AcceptsLatest)
<1> SUFFICES ASSUME Lossy PROVE Spec /\ []Serial => AcceptsLatest
  OBVIOUS
<1>1. RowInv /\ SerialInv /\ Serial /\ Serial' /\ [Next]_vars =>
        [\A r \in Requests : Accepted(r) => req[r].tok = latest[req[r].sid]]_vars
  <2> SUFFICES ASSUME RowInv, SerialInv, Apart, Apart', [Next]_vars,
                      NEW r \in Requests, Accepted(r)
               PROVE  req[r].tok = latest[req[r].sid]
    BY DEF Serial
  <2>1. CacheHit(r)
    BY OnlyWay DEF Accepted, SerialInv, HandlerInv, RowInv
  <2> QED
    BY <2>1, SerialMint
<1> QED
  BY <1>1, SerialInvariant, PTL DEF Spec, AcceptsLatest

\* Handlers of one session that do not overlap: a session is revoked for an
\* older token only (auth_service.py 382-432).
THEOREM SerialRevokesOnReuse == Lossy => (Spec /\ []Serial => RevokedOnlyOnReuse)
<1> SUFFICES ASSUME Lossy PROVE Spec /\ []Serial => RevokedOnlyOnReuse
  OBVIOUS
<1>1. RowInv /\ SerialInv /\ [Next]_vars =>
        [\A s \in Sessions : db[s].state = "active" /\ db'[s].state = "revoked" =>
            \E r \in Requests : /\ req[r].pc = "revoke"
                                /\ req[r].sid = s
                                /\ req[r].tok # latest[s]]_vars
  <2> SUFFICES ASSUME RowInv, SerialInv, [Next]_vars, NEW s \in Sessions,
                      db[s].state = "active", db'[s].state = "revoked"
               PROVE  \E r \in Requests : /\ req[r].pc = "revoke"
                                          /\ req[r].sid = s
                                          /\ req[r].tok # latest[s]
    OBVIOUS
  <2>1. PICK r \in Requests : req[r].sid = s /\ DeactivateRow(r)
    BY RowStep DEF RowInv
  <2> QED
    BY <2>1 DEF DeactivateRow, SerialInv, HandlerInv
<1> QED
  BY <1>1, SerialInvariant, PTL DEF Spec, RevokedOnlyOnReuse

\* Handlers of one session that do not overlap: at rest a revoked session is not
\* cached (auth_service.py 495-549).
THEOREM SerialRevokesEverywhere == Lossy => (Spec /\ []Serial => []RevokedEverywhere)
<1> SUFFICES ASSUME Lossy PROVE Spec /\ []Serial => []RevokedEverywhere
  OBVIOUS
<1>1. SerialInv => RevokedEverywhere
  <2> SUFFICES ASSUME SerialInv, NEW s \in Sessions, AtRest(s), db[s].state = "revoked"
               PROVE  cache[s] = None
    BY DEF RevokedEverywhere
  <2>1. ~Due(s, "drop")
    BY DEF AtRest, InFlight, Due, Stages
  <2> QED
    BY <2>1 DEF SerialInv, SessionInv
<1> QED
  BY <1>1, SerialInvariant, PTL

\* A cached session is in the index of its user, or the handler that stores it
\* has the SADD to run yet, or the one that drops it the DEL.
CoverOf(s) ==
    /\ \A r \in Requests : req[r].pc = "store" /\ req[r].sid = s =>
                            "name" \in req[r].todo \/ s \in index
    /\ cache[s] # None => s \in index \/ InFlight(s, {"store"}) \/ Due(s, "drop")

CoverInv == \A s \in Sessions : CoverOf(s)

\* The step of a handler concerns the index and the payload of its own session.
LEMMA CoverFrame ==
    ASSUME CoverInv, NEW r \in Requests, NEW s,
           req[r].pc \in Stages => req[r].sid = s,
           req'[r].pc \in Stages => req'[r].sid = s,
           \A q \in Requests \ {r} : req'[q] = req[q],
           \A u \in Sessions \ {s} : cache'[u] = cache[u] /\ (u \in index => u \in index'),
           s \in Sessions => CoverOf(s)'
    PROVE  CoverInv'
<1> SUFFICES ASSUME NEW u \in Sessions \ {s} PROVE CoverOf(u)'
  BY DEF CoverInv
<1>1. CoverOf(u)
  BY DEF CoverInv
<1>2. /\ InFlight(u, {"store"}) => InFlight(u, {"store"})'
      /\ Due(u, "drop") => Due(u, "drop")'
  BY DEF InFlight, Due, Stages
<1>3. ASSUME NEW q \in Requests, req'[q].pc = "store", req'[q].sid = u
      PROVE  "name" \in req'[q].todo \/ u \in index'
  <2>1. q # r
    BY <1>3 DEF Stages
  <2> QED
    BY <1>1, <1>3, <2>1 DEF CoverOf
<1> QED
  BY <1>1, <1>2, <1>3 DEF CoverOf

\* Whatever order the two commands of a gather run in.
LEMMA CoverStep ==
    ASSUME Lossy, RowInv, SerialInv, CoverInv, Apart, Apart', [Next]_vars
    PROVE  CoverInv'
<1> USE DEF RowInv, TypeOK
<1>1. CASE Quiet
  BY <1>1 DEF Quiet, CoverInv, CoverOf, Due, InFlight
<1>2. ASSUME NEW r \in Requests, Arrive(r) PROVE CoverInv'
  <2>1. PICK s \in Sessions : BeginLogin(r, s) \/ \E t \in Seconds : Refresh(r, s, t)
    BY <1>2 DEF Arrive
  <2>2. /\ req[r].pc = "idle" /\ req'[r].pc \in {"insert", "get"} /\ req'[r].sid = s
        /\ \A q \in Requests \ {r} : req'[q] = req[q]
        /\ UNCHANGED <<cache, index>>
    BY <2>1 DEF BeginLogin, Refresh, Call, Idle
  <2>3. CoverOf(s)'
    <3>1. CoverOf(s)
      BY DEF CoverInv
    <3>2. /\ InFlight(s, {"store"}) => InFlight(s, {"store"})'
          /\ Due(s, "drop") => Due(s, "drop")'
      BY <2>2 DEF InFlight, Due
    <3> QED
      BY <2>2, <3>1, <3>2 DEF CoverOf
  <2> QED
    BY <2>2, <2>3, CoverFrame DEF Stages
<1>3. ASSUME NEW r \in Requests,
             CacheReuse(r) \/ CacheMiss(r) \/ RowRefused(r) \/ RowMatches(r)
               \/ CreateSession(r) \/ CacheHit(r) \/ DeactivateRow(r)
      PROVE  CoverInv'
  <2> PICK s : s = req[r].sid
    OBVIOUS
  <2>1. /\ req[r].pc \in Stages \ {"store", "drop", "orphan"}
        /\ UNCHANGED <<cache, index>>
        /\ \E p \in Stages : MoveTo(r, p)
    BY <1>3
    DEF CacheReuse, CacheMiss, RowRefused, RowMatches, CreateSession, CacheHit,
        DeactivateRow, Stages
  <2>2. req[r] \in Calls
    BY <2>1, CallShape
  <2>3. PICK p \in Stages : MoveTo(r, p)
    BY <2>1
  <2>4. /\ req'[r].pc = p /\ req'[r].sid = s
        /\ p \in {"store", "drop"} => req'[r].todo = Commands
        /\ \A q \in Requests \ {r} : req'[q] = req[q]
    BY <2>2, <2>3 DEF MoveTo, Calls
  <2>5. ASSUME s \in Sessions PROVE CoverOf(s)'
    <3>1. CoverOf(s)
      BY <2>5 DEF CoverInv
    <3>2. /\ InFlight(s, {"store"}) => InFlight(s, {"store"})'
          /\ Due(s, "drop") => Due(s, "drop")'
      BY <2>1, <2>4 DEF InFlight, Due
    <3> QED
      BY <2>1, <2>4, <3>1, <3>2 DEF CoverOf, Commands
  <2> QED
    BY <2>1, <2>4, <2>5, CoverFrame
<1>4. ASSUME NEW r \in Requests, NEW c \in Commands, CacheCommand(r, c) PROVE CoverInv'
  <2> PICK s : s = req[r].sid
    OBVIOUS
  <2>1. /\ req[r].pc \in {"store", "drop"} /\ req[r].pc \in Stages /\ c \in req[r].todo
        /\ \/ req'[r] = Idle /\ req[r].pc = "drop" /\ req[r].todo = {c}
           \/ /\ req'[r].pc = req[r].pc /\ req'[r].sid = s
              /\ req'[r].todo = req[r].todo \ {c}
        /\ \A q \in Requests \ {r} : req'[q] = req[q]
        /\ \A u \in Sessions :
             cache'[u] = IF u = s /\ c = "key"
                         THEN IF req[r].pc = "store" THEN req[r].now ELSE None
                         ELSE cache[u]
        /\ index' = IF c = "name"
                    THEN IF req[r].pc = "store" THEN index \cup {s} ELSE index \ {s}
                    ELSE index
    BY <1>4, SerialEffect
  <2>2. /\ s \in Sessions /\ CoverOf(s) /\ HandlerInv(r) /\ SessionInv(s)
        /\ Due(s, "store") => req[r].pc = "store" /\ "key" \in req[r].todo
        /\ Due(s, "drop") => req[r].pc = "drop" /\ "key" \in req[r].todo
    BY <2>1, SerialHandler DEF CoverInv
  <2>3. ASSUME NEW q \in Requests \ {r} PROVE ~(req[q].pc = "store" /\ req[q].sid = s)
    BY <2>1, <2>3 DEF Apart, Stages
  <2>3a. \A q \in Requests \ {r} : ~(req'[q].pc = "store" /\ req'[q].sid = s)
    BY <2>1, <2>3
  <2>4. ASSUME req[r].pc = "store" PROVE CoverOf(s)'
    <3>1. req'[r].pc = "store" /\ req'[r].sid = s
      BY <2>1, <2>4
    <3>2. InFlight(s, {"store"})'
      BY <3>1 DEF InFlight
    <3>3. "name" \in req'[r].todo \/ s \in index'
      BY <2>1, <2>2, <2>4 DEF CoverOf, Commands
    <3>4. \A q \in Requests : req'[q].pc = "store" /\ req'[q].sid = s =>
                             "name" \in req'[q].todo \/ s \in index'
      BY <2>3a, <3>3
    <3> QED
      BY <3>2, <3>4 DEF CoverOf
  <2>5. ASSUME req[r].pc = "drop" PROVE CoverOf(s)'
    <3>1. ~InFlight(s, {"store"})
      BY <2>3, <2>5 DEF InFlight
    <3>4. req'[r].pc # "store"
      BY <2>1, <2>5 DEF Idle
    <3>5. \A q \in Requests : ~(req'[q].pc = "store" /\ req'[q].sid = s)
      BY <2>3a, <3>4
    <3>2. ASSUME c = "key" PROVE CoverOf(s)'
      BY <2>1, <2>2, <2>5, <3>2, <3>5 DEF CoverOf
    <3>3. ASSUME c = "name" PROVE CoverOf(s)'
      <4>1. cache[s] = None \/ "key" \in req[r].todo
        BY <2>2, <2>5 DEF HandlerInv, SessionInv
      <4>2. "key" \in req[r].todo => Due(s, "drop")'
        BY <2>1, <2>5, <3>3 DEF Due
      <4> QED
        BY <2>1, <2>2, <3>1, <3>3, <3>5, <4>1, <4>2 DEF CoverOf
    <3> QED
      BY <3>2, <3>3 DEF Commands
  <2>6. CoverOf(s)'
    BY <2>1, <2>4, <2>5
  <2>7. req'[r].pc \in Stages => req'[r].sid = s
    BY <2>1 DEF Idle, Stages
  <2>8. \A u \in Sessions \ {s} : cache'[u] = cache[u] /\ (u \in index => u \in index')
    BY <2>1
  <2> QED
    BY <2>1, <2>2, <2>6, <2>7, <2>8, CoverFrame
<1>5. ASSUME NEW r \in Requests, Reply(r) \/ LoseReply(r) PROVE CoverInv'
  <2> PICK s : s = req[r].sid
    OBVIOUS
  <2>1. req[r].pc = "store" /\ req[r].pc \in Stages
    BY <1>5 DEF Reply, LoseReply, Finish, Stages
  <2>2. s \in Sessions /\ HandlerInv(r) /\ CoverOf(s) /\ ~Due(s, "drop")
    BY <2>1, SerialHandler DEF CoverInv
  <2>3. req[r].todo = {}
    BY <1>5, <2>1, <2>2 DEF Reply, LoseReply, Finish, HandlerInv
  <2>4. /\ req'[r] = Idle /\ UNCHANGED <<cache, index>>
        /\ \A q \in Requests \ {r} : req'[q] = req[q]
    BY <1>5, <2>3 DEF Reply, LoseReply, Finish
  <2>5. req'[r].pc \notin Stages /\ s \in index'
    <3>1. s \in index
      BY <2>1, <2>2, <2>3 DEF CoverOf
    <3>2. req'[r].pc \notin Stages
      BY <2>4, IdleIsNoStage
    <3> QED
      BY <2>4, <3>1, <3>2
  <2>6. CoverOf(s)'
    BY <2>5 DEF CoverOf
  <2>7. \A u \in Sessions \ {s} : cache'[u] = cache[u] /\ (u \in index => u \in index')
    BY <2>4
  <2> QED
    BY <2>4, <2>5, <2>6, <2>7, CoverFrame
<1> QED
  BY <1>1, <1>2, <1>3, <1>4, <1>5, NoCommit, SerialNext DEF Step

\* Handlers of one session that do not overlap: at rest every cached session is
\* in the index of its user, whatever order SET and SADD, or DEL and SREM, reach
\* Redis in (auth_service.py 606-637).
THEOREM SerialIndexCovers == Lossy => (Spec /\ []Serial => []IndexCovers)
<1> SUFFICES ASSUME Lossy PROVE Spec /\ []Serial => []IndexCovers
  OBVIOUS
<1>1. Init => CoverInv
  BY DEF Init, CoverInv, CoverOf, Idle
<1>2. RowInv /\ SerialInv /\ CoverInv /\ Serial /\ Serial' /\ [Next]_vars => CoverInv'
  BY CoverStep DEF Serial
<1>3. CoverInv => IndexCovers
  <2> SUFFICES ASSUME CoverInv, NEW s \in Sessions, AtRest(s), cache[s] # None
               PROVE  s \in index
    BY DEF IndexCovers
  <2> QED
    BY DEF CoverInv, CoverOf, Due, AtRest, InFlight, Stages
<1> QED
  BY <1>1, <1>2, <1>3, SerialInvariant, PTL DEF Spec
=============================================================================
