------------------------ MODULE SessionRotationProofs ------------------------
(***************************************************************************)
(* Proofs about SessionRotation, for every set of sessions and of          *)
(* concurrent requests and every length of the run.                        *)
(***************************************************************************)
EXTENDS SessionRotation, TLAPS

USE ClockAssumption DEF Seconds, Tokens, None

(***************************************************************************)
(* Shapes of the record of a request.                                      *)
(***************************************************************************)

\* Stages of a request that exists: "idle" is none of them.
LEMMA IdleIsNoStage == Idle.pc \notin Stages /\ Idle \notin Calls
BY DEF Idle, Stages, Calls

\* A request at some stage is a full record.
LEMMA CallShape ==
    ASSUME TypeOK, NEW r \in Requests, req[r].pc \in Stages
    PROVE  req[r] \in Calls
BY DEF TypeOK, Idle, Stages

\* A request enters with a full record.
LEMMA CallType ==
    ASSUME TypeOK, NEW s \in Sessions, NEW t \in Tokens, NEW p \in Stages
    PROVE  Call(p, s, t) \in Calls
BY DEF TypeOK, Call, Calls

\* MoveTo changes one request's stage and commands and nothing else of it.
LEMMA MoveToType ==
    ASSUME TypeOK, NEW r \in Requests, req[r].pc \in Stages,
           NEW p \in Stages, MoveTo(r, p)
    PROVE  req' \in [Requests -> {Idle} \cup Calls]
<1>1. req[r] \in Calls
  BY CallShape
<1>2. [req[r] EXCEPT !.pc = p,
                     !.todo = IF p \in {"store", "drop"} THEN Commands ELSE {}] \in Calls
  BY <1>1 DEF Calls, Stages, Commands
<1> QED
  BY <1>2 DEF MoveTo, TypeOK

\* A command that leaves its gather leaves a well-formed request.
LEMMA RetireType ==
    ASSUME TypeOK, NEW r \in Requests, req[r].pc \in Stages,
           NEW c \in Commands, NEW e \in BOOLEAN, Retire(r, c, e)
    PROVE  req' \in [Requests -> {Idle} \cup Calls]
<1>1. req[r] \in Calls
  BY CallShape
<1>2. [req[r] EXCEPT !.todo = req[r].todo \ {c},
                     !.failed = req[r].failed \/ e] \in Calls
  BY <1>1 DEF Calls
<1> QED
  BY <1>2 DEF Retire, TypeOK

\* The two Redis commands keep the types of the payload and of the index.
LEMMA EffectType ==
    ASSUME TypeOK, NEW r \in Requests, req[r].pc \in Stages,
           NEW c \in Commands, CommandEffect(r, c)
    PROVE  cache' \in [Sessions -> Tokens] /\ index' \in SUBSET Sessions
<1>1. req[r] \in Calls
  BY CallShape
<1>2. req[r].sid \in Sessions /\ req[r].now \in Tokens
  BY <1>1 DEF Calls
<1> QED
  BY <1>2 DEF CommandEffect, TypeOK

(***************************************************************************)
(* Types.                                                                  *)
(***************************************************************************)

\* Every step keeps the variables in their types.
LEMMA TypeStep == TypeOK /\ [Next]_vars => TypeOK'
<1> SUFFICES ASSUME TypeOK, [Next]_vars PROVE TypeOK'
  OBVIOUS
<1> USE DEF States
<1>1. CASE Tick
  BY <1>1 DEF Tick, TypeOK
<1>2. ASSUME NEW r \in Requests, NEW s \in Sessions, BeginLogin(r, s) PROVE TypeOK'
  <2>1. Call("insert", s, None) \in Calls
    BY CallType DEF Stages
  <2> QED
    BY <1>2, <2>1 DEF BeginLogin, TypeOK
<1>3. ASSUME NEW r \in Requests, NEW s \in Sessions, NEW t \in Seconds, Refresh(r, s, t)
      PROVE  TypeOK'
  <2>1. Call("get", s, t) \in Calls
    BY CallType DEF Stages
  <2> QED
    BY <1>3, <2>1 DEF Refresh, TypeOK
<1>4. ASSUME NEW r \in Requests, CreateSession(r) PROVE TypeOK'
  <2>1. req[r] \in Calls
    BY <1>4, CallShape DEF CreateSession, Stages
  <2>2. req' \in [Requests -> {Idle} \cup Calls]
    BY <1>4, MoveToType DEF CreateSession, Stages
  <2> QED
    BY <1>4, <2>1, <2>2 DEF CreateSession, TypeOK, Calls
<1>5. ASSUME NEW r \in Requests, CacheHit(r) PROVE TypeOK'
  <2>1. req[r] \in Calls
    BY <1>5, CallShape DEF CacheHit, Stages
  <2>2. req' \in [Requests -> {Idle} \cup Calls]
    BY <1>5, MoveToType DEF CacheHit, Stages
  <2> QED
    BY <1>5, <2>1, <2>2 DEF CacheHit, TypeOK, Calls
<1>6. ASSUME NEW r \in Requests,
             CacheReuse(r) \/ CacheMiss(r) \/ RowMatches(r) \/ RowRefused(r)
                           \/ DeactivateFails(r)
      PROVE  TypeOK'
  <2>1. req' \in [Requests -> {Idle} \cup Calls]
    BY <1>6, MoveToType
    DEF CacheReuse, CacheMiss, RowMatches, RowRefused, DeactivateFails, Stages
  <2> QED
    BY <1>6, <2>1
    DEF CacheReuse, CacheMiss, RowMatches, RowRefused, DeactivateFails, TypeOK
<1>7. ASSUME NEW r \in Requests, CommitRotation(r) PROVE TypeOK'
  <2>1. req[r] \in Calls
    BY <1>7, CallShape DEF CommitRotation, Stages
  <2>2. req' \in [Requests -> {Idle} \cup Calls]
    BY <1>7, MoveToType DEF CommitRotation, Stages
  <2>3. req[r].sid \in Sessions /\ req[r].now \in Tokens
    BY <2>1 DEF Calls
  <2>4. db' \in [Sessions -> [state : States, hash : Tokens]]
    BY <1>7, <2>3 DEF CommitRotation, TypeOK
  <2>5. latest' \in [Sessions -> Tokens]
    BY <1>7, <2>3 DEF CommitRotation, TypeOK
  <2> QED
    BY <1>7, <2>2, <2>4, <2>5 DEF CommitRotation, TypeOK
<1>8. ASSUME NEW r \in Requests, DeactivateRow(r) PROVE TypeOK'
  <2>1. req' \in [Requests -> {Idle} \cup Calls]
    BY <1>8, MoveToType DEF DeactivateRow, Stages
  <2> QED
    BY <1>8, <2>1 DEF DeactivateRow, TypeOK
<1>9. ASSUME NEW r \in Requests, NEW c \in Commands, CacheCommand(r, c) \/ CommandFails(r, c)
      PROVE  TypeOK'
  <2>1. req[r].pc \in Stages
    BY <1>9 DEF CacheCommand, CommandFails, Stages
  <2>2. req' \in [Requests -> {Idle} \cup Calls]
    BY <1>9, <2>1, RetireType DEF CacheCommand, CommandFails
  <2>3. cache' \in [Sessions -> Tokens] /\ index' \in SUBSET Sessions
    BY <1>9, <2>1, EffectType DEF CacheCommand, CommandFails, TypeOK
  <2> QED
    BY <1>9, <2>2, <2>3 DEF CacheCommand, CommandFails, TypeOK
<1>10. ASSUME NEW r \in Requests, Reply(r) \/ LoseReply(r) PROVE TypeOK'
  <2>1. Finish(r) /\ req[r] \in Calls
    BY <1>10, CallShape DEF Reply, LoseReply, Finish, Stages
  <2>2. [req[r] EXCEPT !.pc = "orphan"] \in Calls
    BY <2>1 DEF Calls, Stages
  <2>3. req' \in [Requests -> {Idle} \cup Calls]
    BY <2>1, <2>2 DEF Finish, TypeOK
  <2>4. CASE Reply(r)
    BY <2>1, <2>3, <2>4 DEF Reply, TypeOK, Calls
  <2>5. CASE LoseReply(r)
    BY <2>3, <2>5 DEF LoseReply, TypeOK
  <2> QED
    BY <1>10, <2>4, <2>5
<1>11. ASSUME NEW r \in Requests, Abort(r) PROVE TypeOK'
  BY <1>11 DEF Abort, TypeOK
<1>12. ASSUME NEW s \in Sessions, NEW t \in Seconds,
              SyncSessionRotationDb(s, t) \/ SyncFails(s, t)
       PROVE  TypeOK'
  <2>1. sync[s][t] - 1 \in Nat
    BY <1>12 DEF SyncSessionRotationDb, SyncFails, TypeOK
  <2>2. [sync EXCEPT ![s][t] = @ - 1] \in [Sessions -> [Seconds -> Nat]]
    BY <2>1 DEF TypeOK
  <2>3. CASE SyncSessionRotationDb(s, t)
    BY <2>2, <2>3 DEF SyncSessionRotationDb, TypeOK
  <2>4. CASE SyncFails(s, t)
    BY <2>2, <2>4 DEF SyncFails, TypeOK
  <2> QED
    BY <1>12, <2>3, <2>4
<1>13. ASSUME NEW s \in Sessions, Evict(s) PROVE TypeOK'
  BY <1>13 DEF Evict, TypeOK
<1>14. CASE Crash
  BY <1>14 DEF Crash, TypeOK
<1>15. CASE UNCHANGED vars
  BY <1>15 DEF vars, TypeOK
<1> QED
  BY <1>1, <1>2, <1>3, <1>4, <1>5, <1>6, <1>7, <1>8, <1>9, <1>10, <1>11, <1>12,
     <1>13, <1>14, <1>15
  DEF Next, Arrive, Step, Fail, Background

\* The variables keep their types: no background copy is counted below zero,
\* and nothing but a full record takes the place of a request.
THEOREM TypeCorrect == Spec => []TypeOK
<1>1. Init => TypeOK
  BY DEF Init, TypeOK, States
<1> QED
  BY <1>1, TypeStep, PTL DEF Spec

(***************************************************************************)
(* Control flow: what one step does to one request.                        *)
(***************************************************************************)

\* The stages that may follow one another in a handler.
Follows == {<<"insert", "store">>, <<"get", "store">>, <<"get", "revoke">>,
            <<"get", "load">>, <<"load", "commit">>, <<"load", "revoke">>,
            <<"commit", "store">>, <<"revoke", "drop">>, <<"store", "orphan">>}

\* A request keeps its session, token and clock reading, and moves from stage
\* to stage along Follows.
Advances(r) ==
    /\ req'[r].sid = req[r].sid
    /\ req'[r].tok = req[r].tok
    /\ req'[r].now = req[r].now
    /\ \/ req'[r].pc = req[r].pc
       \/ <<req[r].pc, req'[r].pc>> \in Follows

\* A request enters, at the start of a handler.
Enters(r) ==
    \/ \E s \in Sessions : BeginLogin(r, s)
    \/ \E s \in Sessions, t \in Seconds : Refresh(r, s, t)

\* Every step of a handler leads to a stage that follows its own, or ends it.
LEMMA ControlFlow ==
    ASSUME TypeOK, [Next]_vars, NEW r \in Requests
    PROVE  req'[r] = Idle \/ Enters(r) \/ (req[r].pc \in Stages /\ Advances(r))
<1> USE DEF Advances, Follows, TypeOK
<1> DEFINE Goal == \/ req'[r] = Idle
                   \/ Enters(r)
                   \/ req[r].pc \in Stages /\ Advances(r)
<1> SUFFICES Goal
  OBVIOUS
<1>0. CASE req'[r] = req[r]
  <2>1. req[r] = Idle \/ req[r].pc \in Stages
    BY DEF Calls
  <2> QED
    BY <1>0, <2>1
<1>1. CASE Tick \/ Background \/ UNCHANGED vars
  BY <1>0, <1>1 DEF Tick, Background, SyncSessionRotationDb, SyncFails, Evict, vars
<1>2. ASSUME NEW q \in Requests, Arrive(q) PROVE Goal
  <2>1. CASE q = r
    BY <1>2, <2>1 DEF Arrive, Enters
  <2>2. CASE q # r
    BY <1>0, <1>2, <2>2 DEF Arrive, BeginLogin, Refresh
  <2> QED
    BY <2>1, <2>2
<1>3. ASSUME NEW q \in Requests, NEW p \in Stages, MoveTo(q, p), req[q].pc \in Stages,
             <<req[q].pc, p>> \in Follows
      PROVE  Goal
  <2>1. CASE q = r
    <3>1. req[r] \in Calls
      BY <1>3, <2>1, CallShape
    <3>2. req'[r] = [req[r] EXCEPT !.pc = p,
                     !.todo = IF p \in {"store", "drop"} THEN Commands ELSE {}]
      BY <1>3, <2>1 DEF MoveTo
    <3> QED
      BY <1>3, <2>1, <3>1, <3>2 DEF Calls
  <2>2. CASE q # r
    BY <1>0, <1>3, <2>2 DEF MoveTo
  <2> QED
    BY <2>1, <2>2
<1>4. ASSUME NEW q \in Requests,
             \/ CreateSession(q) \/ CacheHit(q) \/ CacheReuse(q) \/ CacheMiss(q)
             \/ RowMatches(q) \/ RowRefused(q) \/ CommitRotation(q)
             \/ DeactivateRow(q) \/ DeactivateFails(q)
      PROVE  Goal
  BY <1>3, <1>4
  DEF CreateSession, CacheHit, CacheReuse, CacheMiss, RowMatches, RowRefused,
      CommitRotation, DeactivateRow, DeactivateFails, Stages
<1>5. ASSUME NEW q \in Requests, NEW c \in Commands, CacheCommand(q, c) \/ CommandFails(q, c)
      PROVE  Goal
  <2>1. CASE q = r
    <3>1. req[r] \in Calls
      BY <1>5, <2>1, CallShape DEF CacheCommand, CommandFails, Stages
    <3>2. PICK e \in BOOLEAN : Retire(r, c, e)
      BY <1>5, <2>1 DEF CacheCommand, CommandFails
    <3>3. \/ req'[r] = Idle
          \/ req'[r] = [req[r] EXCEPT !.todo = req[r].todo \ {c},
                                      !.failed = req[r].failed \/ e]
      BY <3>2 DEF Retire
    <3> QED
      BY <3>1, <3>3 DEF Calls
  <2>2. CASE q # r
    BY <1>0, <1>5, <2>2 DEF CacheCommand, CommandFails, Retire
  <2> QED
    BY <2>1, <2>2
<1>6. ASSUME NEW q \in Requests, Reply(q) \/ LoseReply(q) PROVE Goal
  <2>1. CASE q = r
    <3>1. req[r] \in Calls /\ req[r].pc = "store"
      BY <1>6, <2>1, CallShape DEF Reply, LoseReply, Finish, Stages
    <3>2. req'[r] = Idle \/ req'[r] = [req[r] EXCEPT !.pc = "orphan"]
      BY <1>6, <2>1 DEF Reply, LoseReply, Finish
    <3> QED
      BY <3>1, <3>2 DEF Calls
  <2>2. CASE q # r
    BY <1>0, <1>6, <2>2 DEF Reply, LoseReply, Finish
  <2> QED
    BY <2>1, <2>2
<1>7. ASSUME NEW q \in Requests, Abort(q) PROVE Goal
  BY <1>0, <1>7 DEF Abort
<1>8. CASE Crash
  BY <1>8 DEF Crash
<1> QED
  BY <1>1, <1>2, <1>4, <1>5, <1>6, <1>7, <1>8 DEF Next, Step, Fail

(***************************************************************************)
(* Data flow: which handler's step explains a change of a session's data.  *)
(***************************************************************************)

\* The state of a row changes by the INSERT of a login or by a revocation.
LEMMA RowStep ==
    ASSUME TypeOK, [Next]_vars, NEW s \in Sessions, db'[s].state # db[s].state
    PROVE  \E r \in Requests :
             /\ req[r].pc \in Stages /\ req[r].sid = s
             /\ \/ CreateSession(r) /\ db'[s].state = "active"
                \/ DeactivateRow(r) /\ db'[s].state = "revoked"
<1> USE DEF TypeOK
<1>1. ASSUME NEW r \in Requests, CreateSession(r) PROVE req[r].sid = s /\ db'[s].state = "active"
  <2>1. req[r] \in Calls
    BY <1>1, CallShape DEF CreateSession, Stages
  <2> QED
    BY <1>1, <2>1 DEF CreateSession, Calls
<1>2. ASSUME NEW r \in Requests, DeactivateRow(r) PROVE req[r].sid = s /\ db'[s].state = "revoked"
  <2>1. req[r] \in Calls
    BY <1>2, CallShape DEF DeactivateRow, Stages
  <2> QED
    BY <1>2, <2>1 DEF DeactivateRow, Calls
<1>3. ASSUME NEW r \in Requests PROVE ~CommitRotation(r)
  <2> SUFFICES ASSUME CommitRotation(r) PROVE FALSE
    OBVIOUS
  <2>1. req[r] \in Calls
    BY CallShape DEF CommitRotation, Stages
  <2> QED
    BY <2>1 DEF CommitRotation, Calls
<1>4. ASSUME NEW q \in Sessions, NEW t \in Seconds PROVE ~SyncSessionRotationDb(q, t)
  <2> SUFFICES ASSUME SyncSessionRotationDb(q, t) PROVE db'[s].state = db[s].state
    OBVIOUS
  <2>1. PICK h : db' = [db EXCEPT ![q].hash = h]
    BY DEF SyncSessionRotationDb
  <2> QED
    BY <2>1
<1>5. db' # db
  OBVIOUS
<1>6. PICK r \in Requests : CreateSession(r) \/ DeactivateRow(r)
  BY <1>3, <1>4, <1>5
  DEF Next, Arrive, Step, Fail, Background, Tick, BeginLogin, Refresh, CacheHit,
      CacheReuse, CacheMiss, RowMatches, RowRefused, DeactivateFails, CacheCommand,
      CommandFails, Reply, LoseReply, Abort, SyncFails, Evict, Crash, vars
<1> QED
  BY <1>1, <1>2, <1>6 DEF CreateSession, DeactivateRow, Stages

\* A session's payload changes by a SET or a DEL of one of its handlers, or
\* because Redis lets it go.
LEMMA CacheStep ==
    ASSUME TypeOK, [Next]_vars, NEW s \in Sessions, cache'[s] # cache[s]
    PROVE  \/ Evict(s) /\ cache'[s] = None
           \/ \E r \in Requests :
                /\ req[r].sid = s
                /\ \/ req[r].pc \in {"store", "orphan"} /\ cache'[s] = req[r].now
                                                        /\ "key" \in req[r].todo
                   \/ req[r].pc = "drop" /\ cache'[s] = None
<1> USE DEF TypeOK
<1>1. cache' # cache
  OBVIOUS
<1>2. CASE \E q \in Sessions : Evict(q)
  BY <1>2 DEF Evict
<1>3. CASE \E r \in Requests, c \in Commands : CacheCommand(r, c) \/ CommandFails(r, c)
  <2>1. PICK r \in Requests, c \in Commands :
          /\ req[r].pc \in {"store", "orphan", "drop"}
          /\ c \in req[r].todo
          /\ CommandEffect(r, c)
    BY <1>1, <1>3 DEF CacheCommand, CommandFails
  <2>2. req[r] \in Calls
    BY <2>1, CallShape DEF Stages
  <2> QED
    BY <2>1, <2>2 DEF CommandEffect, Calls
<1> QED
  BY <1>1, <1>2, <1>3
  DEF Next, Arrive, Step, Fail, Background, Tick, BeginLogin, Refresh, CreateSession,
      CacheHit, CacheReuse, CacheMiss, RowMatches, RowRefused, CommitRotation,
      DeactivateRow, DeactivateFails, Reply, LoseReply, Abort, SyncSessionRotationDb,
      SyncFails, Crash, vars

\* The latest token changes when a handler of the session accepts or opens it.
LEMMA LatestStep ==
    ASSUME TypeOK, [Next]_vars, NEW s \in Sessions, latest'[s] # latest[s]
    PROVE  \E r \in Requests :
             /\ req[r].sid = s /\ latest'[s] = req[r].now
             /\ CreateSession(r) \/ CacheHit(r) \/ CommitRotation(r)
<1> USE DEF TypeOK
<1>1. PICK r \in Requests : CreateSession(r) \/ CacheHit(r) \/ CommitRotation(r)
  <2>1. latest' # latest
    OBVIOUS
  <2> QED
    BY <2>1
    DEF Next, Arrive, Step, Fail, Background, Tick, BeginLogin, Refresh,
        CacheReuse, CacheMiss, RowMatches, RowRefused, DeactivateRow, DeactivateFails,
        CacheCommand, CommandFails, Reply, LoseReply, Abort, SyncSessionRotationDb,
        SyncFails, Evict, Crash, vars
<1>2. req[r] \in Calls
  BY <1>1, CallShape DEF CreateSession, CacheHit, CommitRotation, Stages
<1> QED
  BY <1>1, <1>2 DEF CreateSession, CacheHit, CommitRotation, Calls

\* A token reaches a client by the response of a handler of its session.
LEMMA HeldStep ==
    ASSUME TypeOK, [Next]_vars, NEW s \in Sessions, held'[s] # held[s]
    PROVE  \E r \in Requests : Reply(r) /\ req[r].sid = s /\ req[r].pc = "store"
<1> USE DEF TypeOK
<1>1. PICK r \in Requests : Reply(r)
  <2>1. held' # held
    OBVIOUS
  <2> QED
    BY <2>1
    DEF Next, Arrive, Step, Fail, Background, Tick, BeginLogin, Refresh, CreateSession,
        CacheHit, CacheReuse, CacheMiss, RowMatches, RowRefused, CommitRotation,
        DeactivateRow, DeactivateFails, CacheCommand, CommandFails, LoseReply, Abort,
        SyncSessionRotationDb, SyncFails, Evict, Crash, vars
<1>2. req[r] \in Calls
  BY <1>1, CallShape DEF Reply, Finish, Stages
<1> QED
  BY <1>1, <1>2 DEF Reply, Finish, Calls

\* A background copy is started by a hit of its session, and by nothing else.
LEMMA SyncStep ==
    ASSUME TypeOK, [Next]_vars, NEW s \in Sessions, NEW t \in Seconds,
           sync'[s][t] > 0, ~(sync[s][t] > 0)
    PROVE  \E r \in Requests : req[r].pc = "get" /\ req[r].sid = s
<1> USE DEF TypeOK
<1>1. CASE \E r \in Requests : CacheHit(r)
  <2>1. PICK r \in Requests : CacheHit(r)
    BY <1>1
  <2>2. req[r] \in Calls
    BY <2>1, CallShape DEF CacheHit, Stages
  <2> QED
    BY <2>1, <2>2 DEF CacheHit, Calls
<1>2. ASSUME NEW q \in Sessions, NEW u \in Seconds,
             SyncSessionRotationDb(q, u) \/ SyncFails(q, u)
      PROVE  FALSE
  <2>1. sync[q][u] > 0 /\ sync' = [sync EXCEPT ![q][u] = @ - 1]
    BY <1>2 DEF SyncSessionRotationDb, SyncFails
  <2>2. q # s \/ u # t
    BY <2>1
  <2> QED
    BY <2>1, <2>2
<1>3. CASE Crash
  BY <1>3 DEF Crash
<1> QED
  BY <1>1, <1>2, <1>3
  DEF Next, Arrive, Step, Fail, Background, Tick, BeginLogin, Refresh, CreateSession,
      CacheReuse, CacheMiss, RowMatches, RowRefused, CommitRotation, DeactivateRow,
      DeactivateFails, CacheCommand, CommandFails, Reply, LoseReply, Abort, Evict, vars

\* A request in flight that changes and is not over took a step of its own.
LEMMA OwnStep ==
    ASSUME TypeOK, [Next]_vars, NEW r \in Requests, req[r].pc \in Stages,
           req'[r] # req[r], req'[r] # Idle
    PROVE  Step(r) \/ Fail(r)
<1> USE DEF TypeOK
<1>1. PICK q \in Requests : Arrive(q) \/ Step(q) \/ Fail(q)
  BY DEF Next, Tick, Background, SyncSessionRotationDb, SyncFails, Evict, Crash, vars
<1>2. q = r
  <2> SUFFICES ASSUME q # r PROVE req'[r] = req[r]
    OBVIOUS
  <2> QED
    BY <1>1
    DEF Arrive, Step, Fail, BeginLogin, Refresh, CreateSession, CacheHit, CacheReuse,
        CacheMiss, RowMatches, RowRefused, CommitRotation, DeactivateRow,
        DeactivateFails, CacheCommand, CommandFails, Retire, Reply, LoseReply, Finish,
        Abort, MoveTo
<1>3. req[r] # Idle
  BY DEF Idle, Stages
<1> QED
  BY <1>1, <1>2, <1>3 DEF Arrive, BeginLogin, Refresh

\* A login leaves the INSERT only by committing it, a refresh leaves the GET for
\* the gather only by a hit, and the SELECT for the COMMIT only by a match.
LEMMA OnlyWay ==
    ASSUME TypeOK, [Next]_vars, NEW r \in Requests
    PROVE  /\ req[r].pc = "insert" /\ req'[r].pc \in Stages \ {"insert"} => CreateSession(r)
           /\ req[r].pc = "get" /\ req'[r].pc = "store" => CacheHit(r)
           /\ req[r].pc = "load" /\ req'[r].pc = "commit" => RowMatches(r)
<1>1. ASSUME NEW p \in Stages, MoveTo(r, p), req[r].pc \in Stages PROVE req'[r].pc = p
  BY <1>1, CallShape DEF MoveTo, Calls, TypeOK
<1>2. ~Abort(r) \/ req'[r] = Idle
  BY DEF Abort, TypeOK
<1>3. ASSUME req[r].pc = "insert", req'[r].pc \in Stages \ {"insert"} PROVE CreateSession(r)
  <2>1. Step(r) \/ Fail(r)
    BY <1>3, OwnStep DEF Idle, Stages
  <2> QED
    BY <1>2, <1>3, <2>1
    DEF Step, Fail, CacheHit, CacheReuse, CacheMiss, RowMatches, RowRefused,
        CommitRotation, DeactivateRow, DeactivateFails, CacheCommand, CommandFails,
        Reply, LoseReply, Finish, Idle, Stages
<1>4. ASSUME req[r].pc = "get", req'[r].pc = "store" PROVE CacheHit(r)
  <2>1. Step(r) \/ Fail(r)
    BY <1>4, OwnStep DEF Idle, Stages
  <2>2. ~CacheReuse(r) /\ ~CacheMiss(r)
    BY <1>1, <1>4 DEF CacheReuse, CacheMiss, Stages
  <2> QED
    BY <1>2, <1>4, <2>1, <2>2
    DEF Step, Fail, CreateSession, RowMatches, RowRefused, CommitRotation,
        DeactivateRow, DeactivateFails, CacheCommand, CommandFails, Reply, LoseReply,
        Finish, Idle
<1>5. ASSUME req[r].pc = "load", req'[r].pc = "commit" PROVE RowMatches(r)
  <2>1. Step(r) \/ Fail(r)
    BY <1>5, OwnStep DEF Idle, Stages
  <2>2. ~RowRefused(r)
    BY <1>1, <1>5 DEF RowRefused, Stages
  <2> QED
    BY <1>2, <1>5, <2>1, <2>2
    DEF Step, Fail, CreateSession, CacheHit, CacheReuse, CacheMiss, CommitRotation,
        DeactivateRow, DeactivateFails, CacheCommand, CommandFails, Reply, LoseReply,
        Finish, Idle
<1> QED
  BY <1>3, <1>4, <1>5

(***************************************************************************)
(* Sessions exist before they are used.                                    *)
(***************************************************************************)

\* Neither is inductive without the other: a second login of a session whose
\* INSERT is pending is excluded by LoginAlone, a refresh of it by
\* NoPhantomSession.
RowInv == TypeOK /\ LoginAlone /\ NoPhantomSession

\* A login stays alone with its session until its row is inserted.
LEMMA LoginAloneStep == RowInv /\ [Next]_vars => LoginAlone'
<1> SUFFICES ASSUME RowInv, [Next]_vars,
                    NEW r \in Requests, req'[r].pc = "insert"
             PROVE  /\ db'[req'[r].sid].state = "absent"
                    /\ \A q \in Requests \ {r} :
                         req'[q].pc \in Stages => req'[q].sid # req'[r].sid
  BY DEF LoginAlone
<1> USE DEF RowInv
<1>1. CASE Enters(r)
  <2>1. PICK s \in Sessions : BeginLogin(r, s)
    BY <1>1 DEF Enters, Refresh, Call, TypeOK
  <2> QED
    BY <2>1 DEF BeginLogin, Call, InFlight, TypeOK
<1>2. CASE req[r].pc \in Stages /\ Advances(r)
  <2>1. req[r].pc = "insert" /\ req'[r].sid = req[r].sid /\ req[r].sid \in Sessions
    BY <1>2, CallShape DEF Advances, Follows, Calls
  <2> DEFINE s == req[r].sid
  <2>2. db[s].state = "absent"
    BY <2>1 DEF LoginAlone
  <2>3. db'[s].state = "absent"
    <3> SUFFICES ASSUME db'[s].state # db[s].state PROVE FALSE
      BY <2>2
    <3>1. PICK q \in Requests : /\ req[q].pc \in Stages /\ req[q].sid = s
                                /\ CreateSession(q) \/ DeactivateRow(q)
      BY <2>1, RowStep
    <3>2. q = r
      BY <2>1, <3>1 DEF LoginAlone
    <3>3. req[r] \in Calls /\ req'[r].pc = "insert"
      BY <1>2, CallShape
    <3> QED
      BY <2>1, <3>1, <3>2, <3>3 DEF CreateSession, DeactivateRow, MoveTo, Calls, TypeOK
  <2>4. ASSUME NEW q \in Requests \ {r}, req'[q].pc \in Stages PROVE req'[q].sid # s
    <3>1. CASE Enters(q)
      <4>1. CASE \E u \in Sessions : BeginLogin(q, u)
        BY <2>1, <4>1 DEF BeginLogin, Call, InFlight, TypeOK, Stages
      <4>2. CASE \E u \in Sessions, t \in Seconds : Refresh(q, u, t)
        BY <2>2, <4>2 DEF Refresh, Call, NoPhantomSession, TypeOK
      <4> QED
        BY <3>1, <4>1, <4>2 DEF Enters
    <3>2. CASE req[q].pc \in Stages /\ Advances(q)
      BY <2>1, <3>2 DEF Advances, LoginAlone
    <3> QED
      BY <2>4, <3>1, <3>2, ControlFlow, IdleIsNoStage
  <2> QED
    BY <2>1, <2>3, <2>4
<1> QED
  BY <1>1, <1>2, ControlFlow DEF Idle

\* No step uses a session that has no row.
LEMMA PhantomStep == RowInv /\ [Next]_vars => NoPhantomSession'
<1> SUFFICES ASSUME RowInv, [Next]_vars PROVE NoPhantomSession'
  OBVIOUS
<1> USE DEF RowInv
<1>1. ASSUME NEW s \in Sessions, db[s].state # "absent" PROVE db'[s].state # "absent"
  BY <1>1, RowStep
<1>2. ASSUME NEW s \in Sessions,
             NEW r \in Requests, req[r].pc \in Stages \ {"insert"}, req[r].sid = s
      PROVE  db'[s].state # "absent"
  BY <1>1, <1>2 DEF NoPhantomSession
<1>3. ASSUME NEW s \in Sessions, cache'[s] # None PROVE db'[s].state # "absent"
  <2>1. CASE cache[s] # None
    BY <1>1, <2>1 DEF NoPhantomSession
  <2>2. CASE cache[s] = None
    <3>1. PICK r \in Requests : req[r].sid = s /\ req[r].pc \in {"store", "orphan"}
      BY <1>3, <2>2, CacheStep
    <3> QED
      BY <1>2, <3>1 DEF Stages
  <2> QED
    BY <2>1, <2>2
<1>4. ASSUME NEW s \in Sessions, held'[s] # {} PROVE db'[s].state # "absent"
  <2>1. CASE held[s] # {}
    BY <1>1, <2>1 DEF NoPhantomSession
  <2>2. CASE held[s] = {}
    BY <1>2, <1>4, <2>2, HeldStep DEF Stages
  <2> QED
    BY <2>1, <2>2
<1>5. ASSUME NEW s \in Sessions, latest'[s] # None PROVE db'[s].state # "absent"
  <2>1. CASE latest[s] # None
    BY <1>1, <2>1 DEF NoPhantomSession
  <2>2. CASE latest[s] = None
    <3>1. PICK r \in Requests :
            req[r].sid = s /\ (CreateSession(r) \/ CacheHit(r) \/ CommitRotation(r))
      BY <1>5, <2>2, LatestStep
    <3>2. CASE CreateSession(r)
      BY <3>1, <3>2 DEF CreateSession, TypeOK
    <3>3. CASE CacheHit(r) \/ CommitRotation(r)
      BY <1>2, <3>1, <3>3 DEF CacheHit, CommitRotation, Stages
    <3> QED
      BY <3>1, <3>2, <3>3
  <2> QED
    BY <2>1, <2>2
<1>6. ASSUME NEW s \in Sessions, NEW t \in Seconds, sync'[s][t] > 0
      PROVE  db'[s].state # "absent"
  <2>1. CASE sync[s][t] > 0
    BY <1>1, <2>1 DEF NoPhantomSession
  <2>2. CASE ~(sync[s][t] > 0)
    <3>1. PICK r \in Requests : req[r].pc = "get" /\ req[r].sid = s
      BY <1>6, <2>2, SyncStep
    <3> QED
      BY <1>2, <3>1 DEF Stages
  <2> QED
    BY <2>1, <2>2
<1>7. ASSUME NEW r \in Requests, req'[r].pc \in Stages \ {"insert"}
      PROVE  db'[req'[r].sid].state # "absent"
  <2>1. CASE Enters(r)
    <3>1. PICK s \in Sessions, t \in Seconds : Refresh(r, s, t)
      BY <1>7, <2>1 DEF Enters, BeginLogin, Call, TypeOK
    <3> QED
      BY <1>1, <3>1 DEF Refresh, Call, NoPhantomSession, TypeOK
  <2>2. CASE req[r].pc \in Stages /\ Advances(r)
    <3>1. req[r] \in Calls /\ req'[r].sid = req[r].sid
      BY <2>2, CallShape DEF Advances
    <3>2. CASE req[r].pc # "insert"
      BY <1>2, <2>2, <3>1, <3>2 DEF Calls
    <3>3. CASE req[r].pc = "insert"
      <4>1. CreateSession(r)
        BY <1>7, <3>3, OnlyWay
      <4> QED
        BY <3>1, <4>1 DEF CreateSession, Calls, TypeOK
    <3> QED
      BY <3>2, <3>3
  <2> QED
    BY <1>7, <2>1, <2>2, ControlFlow, IdleIsNoStage
<1> QED
  BY <1>3, <1>4, <1>5, <1>6, <1>7 DEF NoPhantomSession

\* The three parts hold together in every reachable state.
THEOREM RowInvariant == Spec => []RowInv
<1>1. Init => RowInv
  BY DEF Init, RowInv, TypeOK, LoginAlone, NoPhantomSession, States, Idle, Stages
<1>2. RowInv /\ [Next]_vars => RowInv'
  BY TypeStep, LoginAloneStep, PhantomStep DEF RowInv
<1> QED
  BY <1>1, <1>2, PTL DEF Spec

\* A session is cached, answered for, synchronised or worked on only once its
\* row was inserted.
THEOREM NoPhantoms == Spec => []NoPhantomSession
BY RowInvariant, PTL DEF RowInv

(***************************************************************************)
(* A dead session stays dead.                                              *)
(***************************************************************************)

\* The next stage of a handler of a dead session is not a writer's.
LEMMA NoNewWriter ==
    ASSUME RowInv, [Next]_vars, NEW s \in Sessions, Dead(s),
           NEW r \in Requests, req'[r].sid = s
    PROVE  req'[r].pc \notin Writers
<1> USE DEF RowInv
<1> SUFFICES ASSUME req'[r].pc \in Writers PROVE FALSE
  OBVIOUS
<1>1. ~Enters(r)
  BY DEF Enters, BeginLogin, Refresh, Call, Writers, TypeOK
<1>2. req[r].pc \in Stages /\ Advances(r)
  BY <1>1, ControlFlow DEF Idle, Writers
<1>3. req[r].sid = s /\ req[r].pc \notin Writers
  BY <1>2 DEF Advances, Dead, InFlight
<1>4. CASE req[r].pc = "insert"
  BY <1>3, <1>4 DEF LoginAlone, Dead
<1>5. CASE req[r].pc = "get" /\ req'[r].pc = "store"
  BY <1>3, <1>5, OnlyWay DEF CacheHit, Dead
<1>6. CASE req[r].pc = "load" /\ req'[r].pc = "commit"
  BY <1>3, <1>6, OnlyWay DEF RowMatches, RowUsable, Dead
<1> QED
  BY <1>2, <1>3, <1>4, <1>5, <1>6 DEF Advances, Follows, Writers

\* No step makes its row active, fills its cache or starts a writer.
LEMMA DeadStep ==
    ASSUME RowInv, [Next]_vars, NEW s \in Sessions, Dead(s)
    PROVE  Dead(s)'
<1> USE DEF RowInv
<1>1. db'[s].state = "revoked"
  <2> SUFFICES ASSUME db'[s].state # db[s].state PROVE db'[s].state = "revoked"
    BY DEF Dead
  <2>1. PICK r \in Requests : /\ req[r].sid = s
                              /\ \/ CreateSession(r)
                                 \/ db'[s].state = "revoked"
    BY RowStep
  <2> QED
    BY <2>1 DEF CreateSession, LoginAlone, Dead
<1>2. cache'[s] = None
  BY CacheStep DEF Dead, InFlight, Writers
<1>3. \A r \in Requests : req'[r].sid = s => req'[r].pc \notin Writers
  BY NoNewWriter
<1> QED
  BY <1>1, <1>2, <1>3 DEF Dead, InFlight

\* Once a revoked session's in-flight writers have drained, nothing re-admits it.
THEOREM RevocationIsFinal == Spec => NoRevival
<1>1. RowInv /\ [Next]_vars => [\A s \in Sessions : Dead(s) => Dead(s)']_vars
  BY DeadStep
<1> QED
  BY <1>1, RowInvariant, PTL DEF Spec, NoRevival

(***************************************************************************)
(* The row is revoked before the payload is dropped.                       *)
(***************************************************************************)

\* Calls do not fail, and Redis keeps its keys for their TTL.
Reliable == Env \cap {"evict", "fault"} = {}

\* A handler that deletes the payload has seen its UPDATE of the row commit.
DropInv == \A r \in Requests : req[r].pc = "drop" => db[req[r].sid].state = "revoked"

\* Revoked is the last state of a row.
LEMMA RevokedStays ==
    ASSUME RowInv, [Next]_vars, NEW s \in Sessions, db[s].state = "revoked"
    PROVE  db'[s].state = "revoked"
BY RowStep DEF RowInv, CreateSession, LoginAlone

\* The UPDATE precedes the DEL, and a failed UPDATE is the only other way there.
LEMMA DropStep == Reliable /\ RowInv /\ DropInv /\ [Next]_vars => DropInv'
<1> SUFFICES ASSUME Reliable, RowInv, DropInv, [Next]_vars,
                    NEW r \in Requests, req'[r].pc = "drop"
             PROVE  db'[req'[r].sid].state = "revoked"
  BY DEF DropInv
<1> USE DEF RowInv
<1>1. req[r].pc \in Stages /\ Advances(r)
  <2>1. ~Enters(r)
    BY DEF Enters, BeginLogin, Refresh, Call, TypeOK
  <2> QED
    BY <2>1, ControlFlow DEF Idle
<1>2. req[r] \in Calls /\ req'[r].sid = req[r].sid
  BY <1>1, CallShape DEF Advances
<1>3. CASE req[r].pc = "drop"
  BY <1>2, <1>3, RevokedStays DEF DropInv, Calls
<1>4. CASE req[r].pc = "revoke"
  <2>1. DeactivateRow(r)
    <3>1. Step(r) \/ Fail(r)
      BY <1>4, OwnStep DEF Idle, Stages
    <3> QED
      BY <1>2, <1>4, <3>1
      DEF Step, Fail, CreateSession, CacheHit, CacheReuse, CacheMiss, RowMatches,
          RowRefused, CommitRotation, DeactivateFails, CacheCommand, CommandFails,
          Reply, LoseReply, Finish, Abort, Reliable
  <2> QED
    BY <1>2, <2>1 DEF DeactivateRow, Calls, TypeOK
<1> QED
  BY <1>1, <1>3, <1>4 DEF Advances, Follows

\* With no failing call and no early eviction, an unexpired payload leaves the
\* cache only after its session's row was revoked.
THEOREM RowGoesFirst == Reliable => (Spec => RevokedBeforeDropped)
<1> SUFFICES ASSUME Reliable PROVE Spec => RevokedBeforeDropped
  OBVIOUS
<1>1. Init => DropInv
  BY DEF Init, DropInv, Idle
<1>2. RowInv /\ DropInv /\ [Next]_vars => DropInv'
  BY DropStep
<1>3. RowInv /\ DropInv /\ [Next]_vars =>
        [\A s \in Sessions :
           /\ cache[s] # None
           /\ cache'[s] = None
           /\ clock < cache[s] + RefreshLife
           => db[s].state = "revoked"]_vars
  <2> SUFFICES ASSUME RowInv, DropInv, [Next]_vars, NEW s \in Sessions,
                      cache[s] # None, cache'[s] = None, clock < cache[s] + RefreshLife
               PROVE  db[s].state = "revoked"
    OBVIOUS
  <2>1. ~Evict(s)
    BY LifeAssumption DEF Evict, Reliable, RowInv, TypeOK
  <2>2. PICK r \in Requests : /\ req[r].sid = s
                              /\ \/ req[r].pc \in {"store", "orphan"} /\ req[r].now = None
                                 \/ req[r].pc = "drop"
    BY <2>1, CacheStep DEF RowInv
  <2>3. req[r] \in Calls
    BY <2>2, CallShape DEF RowInv, Stages
  <2> QED
    BY <2>2, <2>3 DEF Calls, DropInv
<1> QED
  BY <1>1, <1>2, <1>3, RowInvariant, PTL DEF Spec, RevokedBeforeDropped

(***************************************************************************)
(* Handlers of one session that do not overlap.                            *)
(***************************************************************************)

\* No two handlers of one session are served at the same time.  Handlers of
\* different sessions may be.
Apart == \A q, r \in Requests :
    q # r /\ req[q].pc \in Stages /\ req[r].pc \in Stages => req[q].sid # req[r].sid

\* A handler of session s at stage pc has yet to run its command on the key.
Due(s, pc) == \E r \in Requests : req[r].pc = pc /\ req[r].sid = s /\ "key" \in req[r].todo

\* With one slot there is nothing to overlap.
LEMMA OneSlotIsApart == (\A q, r \in Requests : q = r) => Apart
BY DEF Apart

\* What is due for the session of a handler is due in that handler.
LEMMA OwnDue ==
    ASSUME TypeOK, Apart, NEW r \in Requests, req[r].pc \in Stages
    PROVE  /\ req[r] \in Calls /\ req[r].sid \in Sessions
           /\ \A pc \in Stages : Due(req[r].sid, pc) => req[r].pc = pc /\ "key" \in req[r].todo
<1>1. req[r] \in Calls /\ req[r].sid \in Sessions
  BY CallShape DEF Calls
<1>2. ASSUME NEW pc \in Stages, Due(req[r].sid, pc)
      PROVE  req[r].pc = pc /\ "key" \in req[r].todo
  BY <1>2 DEF Due, Apart
<1> QED
  BY <1>1, <1>2
=============================================================================
