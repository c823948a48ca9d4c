-------------------------- MODULE AccessGuardProofs --------------------------
(***************************************************************************)
(* Proofs about AccessGuard, for any number of sessions, logins, refreshes *)
(* and private requests and every environment.                             *)
(***************************************************************************)
EXTENDS AccessGuard, SessionRotationProofs

(***************************************************************************)
(* The composition does nothing to a session that rotation does not do.    *)
(***************************************************************************)
LEMMA StepIsRotation == [AccessNext]_allVars => [Next]_vars
<1> SUFFICES ASSUME [AccessNext]_allVars PROVE [Next]_vars
  OBVIOUS
<1>1. ASSUME NEW r \in Requests, Arrive(r) \/ Step(r) \/ Fail(r) PROVE Next
  BY <1>1 DEF Next
<1>2. ASSUME NEW r \in Requests, NEW s \in Sessions, Login(r, s) PROVE Next
  BY <1>1, <1>2 DEF Login, Arrive
<1>3. ASSUME NEW r \in Requests, NEW s \in Sessions, NEW t \in Seconds, Refresh(r, s, t)
      PROVE  Next
  BY <1>1, <1>3 DEF Arrive
<1>4. ASSUME NEW r \in Requests, HandlerStep(r) PROVE Next \/ UNCHANGED vars
  <2>1. CASE LookUpProfile(r) \/ FillAtLogin(r)
    BY <2>1 DEF LookUpProfile, FillAtLogin
  <2>2. CASE InsertSession(r) \/ CopyPayload(r) \/ Rewarm(r) \/ Elsewhere(r) \/ Answer(r)
    BY <1>1, <2>2 DEF InsertSession, CopyPayload, Rewarm, Elsewhere, Answer, Step
  <2>3. ASSUME NEW c \in Commands, Command(r, c) PROVE Next
    BY <1>1, <2>3 DEF Command, Step
  <2> QED
    BY <1>4, <2>1, <2>2, <2>3 DEF HandlerStep
<1>5. ASSUME NEW r \in Requests, HandlerFails(r) PROVE Next \/ UNCHANGED vars
  <2>1. CASE FillAtLoginFails(r)
    BY <2>1 DEF FillAtLoginFails
  <2>2. ASSUME NEW c \in Commands, FailedCommand(r, c) PROVE Next
    <3>1. CommandFails(r, c)
      BY <2>2 DEF FailedCommand, CommandFails
    <3> QED
      BY <1>1, <3>1 DEF Fail
  <2>3. CASE FailedDeactivation(r) \/ Abandon(r) \/ LostAnswer(r)
    BY <1>1, <2>3 DEF FailedDeactivation, Abandon, LostAnswer, Fail
  <2> QED
    BY <1>5, <2>1, <2>2, <2>3 DEF HandlerFails
<1>6. ASSUME NEW p \in Probes, NEW s \in Sessions, NEW t \in Seconds, Private(p, s, t)
      PROVE  UNCHANGED vars
  BY <1>6 DEF Private
<1>7. ASSUME NEW p \in Probes, ProbeStep(p) \/ PrivateFails(p) PROVE UNCHANGED vars
  BY <1>7 DEF ProbeStep, Admit, Refuse, ReadFlag, ReadProfile, FillFlag, Respond, PrivateFails
<1>8. ASSUME NEW s \in Sessions,
             \/ \E t \in Seconds : SyncSessionRotationDb(s, t) \/ SyncFails(s, t)
             \/ Drop(s)
      PROVE  Next
  BY <1>8 DEF Drop, Next, Background
<1>9. CASE Tick \/ Restart
  BY <1>9 DEF Restart, Next
<1>10. CASE CreateProfile \/ ExpireFlag \/ UNCHANGED allVars
  BY <1>10 DEF CreateProfile, ExpireFlag, allVars
<1> QED
  BY <1>2, <1>3, <1>4, <1>5, <1>6, <1>7, <1>8, <1>9, <1>10 DEF AccessNext

\* Every behaviour of the composition is one of rotation alone, so what is
\* proved about SessionRotation holds next to the guard and the profile gate
\* as well (auth_service.py 193-287, 300-476 with jwt_validator.py and
\* current_user.py, which only read what the former write).
THEOREM GuardKeepsRotation == AccessSpec => Spec
<1>1. AccessInit => Init
  BY DEF AccessInit
<1> QED
  BY <1>1, StepIsRotation, PTL DEF AccessSpec, Spec

(***************************************************************************)
(* Types.                                                                  *)
(***************************************************************************)

\* What handlers carry keeps its type: nothing but the lookup, the copy and
\* the re-warm change it, besides forgetting it.
LEMMA CarryType ==
    ASSUME AccessTypeOK, [AccessNext]_allVars
    PROVE  carry' \in [Requests -> [complete : BOOLEAN, todo : SUBSET Chores]]
<1> USE DEF AccessTypeOK, Chores, Blank
<1>1. ASSUME NEW r \in Requests, Forget(r)
      PROVE  carry' \in [Requests -> [complete : BOOLEAN, todo : SUBSET Chores]]
  BY <1>1, Zenon DEF Forget
<1>2. ASSUME NEW r \in Requests, NEW s \in Sessions, Login(r, s)
      PROVE  carry' \in [Requests -> [complete : BOOLEAN, todo : SUBSET Chores]]
  BY <1>2 DEF Login
<1>3. ASSUME NEW r \in Requests, HandlerStep(r)
      PROVE  carry' \in [Requests -> [complete : BOOLEAN, todo : SUBSET Chores]]
  <2>1. CASE LookUpProfile(r)
    BY <2>1 DEF LookUpProfile
  <2>2. CASE InsertSession(r) \/ Elsewhere(r)
    BY <2>2 DEF InsertSession, Elsewhere, guardVars
  <2>3. CASE FillAtLogin(r)
    BY <2>3 DEF FillAtLogin, Filling
  <2>4. CASE CopyPayload(r)
    <3>1. req[r].sid \in Sessions
      BY <2>4, CallShape DEF CopyPayload, CacheHit, Stages, Calls
    <3>2. payload[req[r].sid] \in BOOLEAN
      BY <3>1
    <3> QED
      BY <2>4, <3>2 DEF CopyPayload
  <2>5. CASE Rewarm(r)
    BY <2>5 DEF Rewarm
  <2>6. CASE (\E c \in Commands : Command(r, c)) \/ Answer(r)
    BY <1>1, <2>6 DEF Command, Answer
  <2> QED
    BY <1>3, <2>1, <2>2, <2>3, <2>4, <2>5, <2>6 DEF HandlerStep
<1>4. ASSUME NEW r \in Requests, HandlerFails(r)
      PROVE  carry' \in [Requests -> [complete : BOOLEAN, todo : SUBSET Chores]]
  <2>1. CASE FillAtLoginFails(r)
    BY <2>1 DEF FillAtLoginFails, Filling
  <2>2. CASE FailedDeactivation(r)
    BY <2>2 DEF FailedDeactivation
  <2>3. CASE (\E c \in Commands : FailedCommand(r, c)) \/ Abandon(r) \/ LostAnswer(r)
    BY <1>1, <2>3 DEF FailedCommand, Abandon, LostAnswer
  <2> QED
    BY <1>4, <2>1, <2>2, <2>3 DEF HandlerFails
<1>5. CASE Restart
  BY <1>5 DEF Restart
<1>6. CASE carry' = carry
  BY <1>6
<1> QED
  BY <1>2, <1>3, <1>4, <1>5, <1>6
  DEF AccessNext, allVars, guardVars, Private, ProbeStep, Admit, Refuse, ReadFlag,
      ReadProfile, FillFlag, Respond, PrivateFails, Drop, CreateProfile, ExpireFlag

\* Private requests keep the shape of their record.
LEMMA ProbeType ==
    ASSUME AccessTypeOK, [AccessNext]_allVars
    PROVE  probe' \in [Probes -> {Idle} \cup [pc : ProbeStages, sid : Sessions,
                                              tok : Seconds, complete : BOOLEAN]]
<1> DEFINE Records == [pc : ProbeStages, sid : Sessions, tok : Seconds, complete : BOOLEAN]
           Good == probe' \in [Probes -> {Idle} \cup Records]
<1>1. ASSUME NEW p \in Probes, probe[p].pc \in ProbeStages PROVE probe[p] \in Records
  BY <1>1 DEF AccessTypeOK, Idle, ProbeStages
<1>2. ASSUME NEW p \in Probes, probe[p].pc \in ProbeStages,
             \/ EndProbe(p)
             \/ \E c \in ProbeStages : ProbeTo(p, c)
             \/ \E c \in ProbeStages, b \in BOOLEAN :
                  probe' = [probe EXCEPT ![p].pc = c, ![p].complete = b]
      PROVE  Good
  <2>1. ASSUME NEW c \in ProbeStages, NEW b \in BOOLEAN
        PROVE  /\ [probe[p] EXCEPT !.pc = c] \in Records
               /\ [probe[p] EXCEPT !.pc = c, !.complete = b] \in Records
    BY <1>1, <1>2
  <2>2. CASE EndProbe(p)
    BY <2>2 DEF EndProbe, AccessTypeOK
  <2>3. CASE \E c \in ProbeStages : ProbeTo(p, c)
    <3>1. PICK c \in ProbeStages : ProbeTo(p, c)
      BY <2>3
    <3>2. probe' = [probe EXCEPT ![p] = [probe[p] EXCEPT !.pc = c]]
      BY <3>1 DEF ProbeTo
    <3> QED
      BY <2>1, <3>2 DEF AccessTypeOK
  <2>4. CASE \E c \in ProbeStages, b \in BOOLEAN :
               probe' = [probe EXCEPT ![p].pc = c, ![p].complete = b]
    <3>1. PICK c \in ProbeStages, b \in BOOLEAN :
               probe' = [probe EXCEPT ![p].pc = c, ![p].complete = b]
      BY <2>4
    <3>2. probe' = [probe EXCEPT ![p] = [probe[p] EXCEPT !.pc = c, !.complete = b]]
      BY <1>1, <1>2, <3>1 DEF AccessTypeOK
    <3> QED
      BY <2>1, <3>2 DEF AccessTypeOK
  <2> QED
    BY <1>2, <2>2, <2>3, <2>4
<1>3. ASSUME NEW p \in Probes, NEW s \in Sessions, NEW t \in Seconds, Private(p, s, t)
      PROVE  Good
  BY <1>3 DEF Private, AccessTypeOK, ProbeStages
<1>4. ASSUME NEW p \in Probes, ProbeStep(p) \/ PrivateFails(p) PROVE Good
  <2>1. CASE Admit(p)
    <3>1. probe[p].sid \in Sessions
      BY <1>1, <2>1 DEF Admit, ProbeStages
    <3>2. payload[probe[p].sid] \in BOOLEAN
      BY <3>1 DEF AccessTypeOK
    <3> QED
      BY <1>2, <2>1, <3>2 DEF Admit, ProbeStages
  <2>2. CASE Refuse(p)
    BY <1>2, <2>2 DEF Refuse, ProbeStages
  <2>3. CASE ReadFlag(p)
    BY <1>2, <2>3 DEF ReadFlag, ProbeStages
  <2>4. CASE ReadProfile(p)
    BY <1>2, <2>4 DEF ReadProfile, ProbeStages, AccessTypeOK
  <2>5. CASE FillFlag(p)
    BY <1>2, <2>5, Zenon DEF FillFlag, Gate, ProbeStages
  <2>6. CASE Respond(p)
    BY <1>2, <2>6 DEF Respond, ProbeStages
  <2>7. CASE PrivateFails(p)
    BY <1>2, <2>7, Zenon DEF PrivateFails, Gate, ProbeStages
  <2> QED
    BY <1>4, <2>1, <2>2, <2>3, <2>4, <2>5, <2>6, <2>7 DEF ProbeStep
<1>5. CASE Restart
  BY <1>5 DEF Restart
<1>6. CASE probe' = probe
  BY <1>6 DEF AccessTypeOK
<1> QED
  BY <1>3, <1>4, <1>5, <1>6
  DEF AccessNext, HandlerStep, HandlerFails, allVars, guardVars, Login, LookUpProfile,
      InsertSession, FillAtLogin, CopyPayload, Rewarm, Elsewhere, Command, Answer,
      FillAtLoginFails, FailedCommand, FailedDeactivation, Abandon, LostAnswer, Drop,
      CreateProfile, ExpireFlag

\* The flag, the payloads' profile flags and the history keep their types.
LEMMA RestType ==
    ASSUME AccessTypeOK, [AccessNext]_allVars
    PROVE  /\ profile' \in BOOLEAN
           /\ payload' \in [Sessions -> BOOLEAN]
           /\ flag' \in Flags
           /\ hurt' \in SUBSET Sessions
<1> DEFINE Good == /\ profile' \in BOOLEAN
                   /\ payload' \in [Sessions -> BOOLEAN]
                   /\ flag' \in Flags
                   /\ hurt' \in SUBSET Sessions
<1> USE DEF AccessTypeOK
<1>1. \A complete : FlagOf(complete) \in Flags
  BY DEF FlagOf, Flags
<1>2. ASSUME NEW r \in Requests, NEW c, req[r].pc \in Stages, PayloadEffect(r, c)
      PROVE  payload' \in [Sessions -> BOOLEAN]
  <2>1. (req[r].pc \in {"store", "orphan"} /\ carry[r].complete) \in BOOLEAN
    OBVIOUS
  <2>2. PICK b \in BOOLEAN : b = (req[r].pc \in {"store", "orphan"} /\ carry[r].complete)
    BY <2>1, Zenon
  <2> QED
    BY <1>2, <2>1, <2>2 DEF PayloadEffect
<1>3. ASSUME NEW r \in Requests, HandlerStep(r) \/ HandlerFails(r) PROVE Good
  <2>1. CASE LookUpProfile(r) \/ InsertSession(r) \/ CopyPayload(r) \/ Rewarm(r)
               \/ Elsewhere(r) \/ Answer(r) \/ Abandon(r) \/ LostAnswer(r)
    BY <2>1
    DEF LookUpProfile, InsertSession, CopyPayload, Rewarm, Elsewhere, Answer, Abandon,
        LostAnswer, guardVars
  <2>2. CASE FillAtLogin(r) \/ FillAtLoginFails(r)
    BY <1>1, <2>2 DEF FillAtLogin, FillAtLoginFails
  <2>3. ASSUME NEW c \in Commands, Command(r, c) PROVE Good
    BY <1>2, <2>3 DEF Command, CacheCommand, Stages
  <2>4. ASSUME NEW c \in Commands, FailedCommand(r, c) PROVE Good
    <3>1. req[r].pc \in Stages
      BY <2>4 DEF FailedCommand, Stages
    <3>2. req[r].sid \in Sessions
      BY <3>1, CallShape DEF Calls
    <3> QED
      BY <1>2, <2>4, <3>1, <3>2 DEF FailedCommand
  <2>5. CASE FailedDeactivation(r)
    <3>1. req[r].sid \in Sessions
      BY <2>5, CallShape DEF FailedDeactivation, DeactivateFails, Stages, Calls
    <3> QED
      BY <2>5, <3>1 DEF FailedDeactivation
  <2> QED
    BY <1>3, <2>1, <2>2, <2>3, <2>4, <2>5 DEF HandlerStep, HandlerFails
<1>4. ASSUME NEW p \in Probes, ProbeStep(p) \/ PrivateFails(p) PROVE Good
  BY <1>1, <1>4
  DEF ProbeStep, Admit, Refuse, ReadFlag, ReadProfile, FillFlag, Respond, PrivateFails
<1>5. CASE Restart
  BY <1>5 DEF Restart
<1>6. CASE CreateProfile \/ ExpireFlag \/ \E s \in Sessions : Drop(s)
  BY <1>6 DEF CreateProfile, ExpireFlag, Drop, Flags
<1>7. CASE UNCHANGED <<profile, payload, flag, hurt>>
  BY <1>7
<1> QED
  BY <1>3, <1>4, <1>5, <1>6, <1>7 DEF AccessNext, allVars, guardVars, Login, Private

\* The composition starts with every variable in its type.
LEMMA AccessInitType == AccessInit => AccessTypeOK
<1>1. Init => TypeOK
  BY ClockAssumption DEF Init, TypeOK, States, Seconds, Tokens, None
<1>2. ASSUME AccessInit PROVE AccessTypeOK
  <2>1. /\ profile \in BOOLEAN
        /\ payload \in [Sessions -> BOOLEAN]
        /\ flag \in Flags
        /\ hurt \in SUBSET Sessions
    BY <1>2 DEF AccessInit, Flags
  <2>2. carry \in [Requests -> [complete : BOOLEAN, todo : SUBSET Chores]]
    BY <1>2 DEF AccessInit, Blank
  <2> QED
    BY <1>1, <1>2, <2>1, <2>2 DEF AccessInit, AccessTypeOK
<1> QED
  BY <1>2

\* Every variable of the composition keeps its type, whatever clients and the
\* environment do next to rotation (jwt_validator.py, current_user.py).
THEOREM AccessTypeCorrect == AccessSpec => []AccessTypeOK
<1>1. AccessInit => AccessTypeOK
  BY AccessInitType
<1>2. AccessTypeOK /\ [AccessNext]_allVars => AccessTypeOK'
  <2> SUFFICES ASSUME AccessTypeOK, [AccessNext]_allVars PROVE AccessTypeOK'
    OBVIOUS
  <2>1. TypeOK'
    BY StepIsRotation, TypeStep DEF AccessTypeOK
  <2> QED
    BY <2>1, CarryType, ProbeType, RestType DEF AccessTypeOK
<1> QED
  BY <1>1, <1>2, PTL DEF AccessSpec

(***************************************************************************)
(* The profile gate.                                                       *)
(***************************************************************************)

\* A login that has looked the profile up, and has not written the flag yet,
\* says the profile is there only when it is.
CarryOf(r) ==
    /\ carry[r].todo # {} => req[r].pc \in {"insert", "store"}
    /\ "lookup" \in carry[r].todo => req[r].pc = "insert"
    /\ "fill" \in carry[r].todo /\ "lookup" \notin carry[r].todo /\ carry[r].complete
         => profile

\* So does the flag, and a private request that is about to write it, which
\* forgets what the middleware found in the payload.
ProbeOf(p) ==
    /\ probe[p].pc = "fill" /\ probe[p].complete => profile
    /\ probe[p].pc = "handler" => profile

GateInv ==
    /\ AccessTypeOK
    /\ flag = "yes" => profile
    /\ \A r \in Requests : CarryOf(r)
    /\ \A p \in Probes : ProbeOf(p)

\* A handler that has nothing left to do about the profile says nothing of it.
LEMMA NothingToSay ==
    ASSUME NEW r \in Requests, carry'[r].todo = {}
    PROVE  CarryOf(r)'
BY DEF CarryOf

\* A step of one handler leaves what the others carry alone.
LEMMA OneCarries ==
    ASSUME GateInv, NEW r \in Requests, CarryOf(r)', profile' = profile,
           \A q \in Requests \ {r} : req'[q] = req[q] /\ carry'[q] = carry[q]
    PROVE  \A q \in Requests : CarryOf(q)'
BY DEF GateInv, CarryOf

\* Forgetting touches the record of one handler.
LEMMA Forgets ==
    ASSUME AccessTypeOK, NEW r \in Requests, Forget(r)
    PROVE  /\ \A q \in Requests \ {r} : carry'[q] = carry[q]
           /\ carry'[r] = IF req'[r] = Idle THEN Blank ELSE carry[r]
BY Zenon DEF Forget, AccessTypeOK

\* What logins carry stays true, up to the write of the flag.
LEMMA CarryStep ==
    ASSUME GateInv, [AccessNext]_allVars
    PROVE  \A r \in Requests : CarryOf(r)'
<1> DEFINE Good == \A r \in Requests : CarryOf(r)'
<1> USE DEF Blank
<1>1. AccessTypeOK /\ TypeOK
  BY DEF GateInv, AccessTypeOK
<1>2. ASSUME NEW r \in Requests, NEW s \in Sessions, Login(r, s) PROVE Good
  <2>1. req' = [req EXCEPT ![r] = Call("insert", s, None)]
    BY <1>2 DEF Login, BeginLogin
  <2>2. /\ req'[r].pc = "insert"
        /\ \A q \in Requests \ {r} : req'[q] = req[q] /\ carry'[q] = carry[q]
    BY <1>1, <1>2, <2>1 DEF Login, Call, AccessTypeOK, TypeOK
  <2>3. carry'[r].todo = Chores
    BY <1>1, <1>2 DEF Login, AccessTypeOK
  <2> QED
    BY <1>2, <2>2, <2>3, OneCarries DEF Login, CarryOf, Chores
<1>3. ASSUME NEW r \in Requests, NEW s \in Sessions, NEW t \in Seconds,
             Refresh(r, s, t), UNCHANGED guardVars
      PROVE  Good
  <2>1. carry'[r].todo = {}
    BY <1>3 DEF Refresh, GateInv, CarryOf, Idle, guardVars
  <2>2. \A q \in Requests \ {r} : req'[q] = req[q] /\ carry'[q] = carry[q]
    BY <1>1, <1>3 DEF Refresh, TypeOK, guardVars
  <2> QED
    BY <1>3, <2>1, <2>2, NothingToSay, OneCarries DEF guardVars
<1>4. ASSUME NEW r \in Requests, HandlerStep(r) \/ HandlerFails(r) PROVE Good
  <2>1. CASE LookUpProfile(r)
    <3>1. /\ req' = req
          /\ carry'[r].complete = profile
          /\ carry'[r].todo = {"fill"}
          /\ \A q \in Requests \ {r} : carry'[q] = carry[q]
      BY <1>1, <2>1 DEF LookUpProfile, AccessTypeOK, vars
    <3> QED
      BY <2>1, <3>1, OneCarries DEF LookUpProfile, CarryOf
  <2>2. CASE InsertSession(r)
    <3>1. /\ req'[r].pc = "store"
          /\ \A q \in Requests \ {r} : req'[q] = req[q]
      BY <1>1, <2>2, CallShape
      DEF InsertSession, CreateSession, MoveTo, TypeOK, Stages, Calls
    <3> QED
      BY <2>2, <3>1, OneCarries DEF InsertSession, CarryOf, guardVars, GateInv
  <2>3. CASE FillAtLogin(r) \/ FillAtLoginFails(r)
    <3>1. /\ req' = req
          /\ carry'[r].todo = {}
          /\ \A q \in Requests \ {r} : carry'[q] = carry[q]
      BY <1>1, <2>3 DEF FillAtLogin, FillAtLoginFails, Filling, AccessTypeOK, vars
    <3> QED
      BY <2>3, <3>1, NothingToSay, OneCarries DEF FillAtLogin, FillAtLoginFails
  <2>4. CASE CopyPayload(r) \/ Rewarm(r) \/ Elsewhere(r) \/ FailedDeactivation(r)
    <3>1. /\ req[r].pc \in {"get", "load", "commit", "revoke"}
          /\ \E c \in Stages : MoveTo(r, c)
      BY <2>4
      DEF CopyPayload, Rewarm, Elsewhere, FailedDeactivation, CacheHit, CommitRotation,
          CacheReuse, CacheMiss, RowMatches, RowRefused, DeactivateRow, DeactivateFails,
          Stages
    <3>2. \A q \in Requests \ {r} : req'[q] = req[q]
      BY <1>1, <3>1 DEF MoveTo, TypeOK
    <3>3. carry[r].todo = {}
      BY <3>1 DEF GateInv, CarryOf
    <3>4. /\ carry'[r].todo = carry[r].todo
          /\ \A q \in Requests \ {r} : carry'[q] = carry[q]
          /\ profile' = profile
      BY <1>1, <2>4
      DEF CopyPayload, Rewarm, Elsewhere, FailedDeactivation, guardVars, AccessTypeOK
    <3> QED
      BY <3>2, <3>3, <3>4, NothingToSay, OneCarries
  <2>5. ASSUME NEW c \in Commands, Command(r, c) \/ FailedCommand(r, c) PROVE Good
    <3>1. /\ req[r].pc \in {"store", "orphan", "drop"}
          /\ \E err \in BOOLEAN : Retire(r, c, err)
          /\ Forget(r)
          /\ profile' = profile
      BY <2>5, Zenon DEF Command, FailedCommand, CacheCommand
    <3>2. /\ \A q \in Requests \ {r} : req'[q] = req[q]
          /\ req[r].pc = "store" => req'[r].pc = "store"
      <4>1. req[r] \in Calls
        BY <1>1, <3>1, CallShape DEF Stages
      <4> QED
        BY <1>1, <3>1, <4>1 DEF Retire, TypeOK, Calls
    <3>3. carry'[r] = Blank \/ carry'[r] = carry[r]
      BY <1>1, <3>1, Forgets
    <3>4. CarryOf(r)'
      BY <3>1, <3>2, <3>3 DEF GateInv, CarryOf
    <3> QED
      BY <1>1, <3>1, <3>2, <3>4, Forgets, OneCarries
  <2>6. CASE Answer(r) \/ LostAnswer(r)
    <3>1. Finish(r) /\ Forget(r) /\ "fill" \notin carry[r].todo /\ profile' = profile
      BY <2>6 DEF Answer, LostAnswer, Reply, LoseReply
    <3>2. req[r].pc = "store" /\ \A q \in Requests \ {r} : req'[q] = req[q]
      BY <1>1, <3>1 DEF Finish, TypeOK
    <3>3. carry[r].todo = {}
      BY <1>1, <3>1, <3>2 DEF GateInv, CarryOf, AccessTypeOK, Chores
    <3>4. carry'[r].todo = {}
      BY <1>1, <3>1, <3>3, Forgets
    <3> QED
      BY <1>1, <3>1, <3>2, <3>4, Forgets, NothingToSay, OneCarries
  <2>7. CASE Abandon(r)
    <3>1. /\ req'[r] = Idle /\ Forget(r) /\ profile' = profile
          /\ \A q \in Requests \ {r} : req'[q] = req[q]
      BY <1>1, <2>7 DEF Abandon, Abort, TypeOK
    <3>2. carry'[r].todo = {}
      BY <1>1, <3>1, Forgets
    <3> QED
      BY <1>1, <3>1, <3>2, Forgets, NothingToSay, OneCarries
  <2> QED
    BY <1>4, <2>1, <2>2, <2>3, <2>4, <2>5, <2>6, <2>7 DEF HandlerStep, HandlerFails
<1>5. CASE Restart
  BY <1>5, NothingToSay DEF Restart
<1>6. ASSUME req' = req, carry' = carry, profile => profile' PROVE Good
  BY <1>6 DEF GateInv, CarryOf
<1>7. ASSUME NEW p \in Probes, ProbeStep(p) \/ PrivateFails(p) PROVE Good
  BY <1>6, <1>7
  DEF ProbeStep, Admit, Refuse, ReadFlag, ReadProfile, FillFlag, Respond, PrivateFails, vars
<1>8. ASSUME NEW s \in Sessions,
             \/ \E t \in Seconds :
                  (SyncSessionRotationDb(s, t) \/ SyncFails(s, t)) /\ UNCHANGED guardVars
             \/ Drop(s)
      PROVE  Good
  BY <1>6, <1>8 DEF SyncSessionRotationDb, SyncFails, Drop, Evict, guardVars
<1>9. CASE (Tick /\ UNCHANGED guardVars) \/ CreateProfile \/ ExpireFlag \/ UNCHANGED allVars
  BY <1>6, <1>9 DEF Tick, CreateProfile, ExpireFlag, allVars, vars, guardVars
<1>10. ASSUME NEW p \in Probes, NEW s \in Sessions, NEW t \in Seconds, Private(p, s, t)
       PROVE  Good
  BY <1>6, <1>10 DEF Private, vars
<1> QED
  BY <1>2, <1>3, <1>4, <1>5, <1>7, <1>8, <1>9, <1>10 DEF AccessNext

\* Whoever writes the flag writes "yes" only on an existing profile.
LEMMA FlagStep ==
    ASSUME GateInv, [AccessNext]_allVars, flag' = "yes"
    PROVE  profile'
<1> USE DEF GateInv
<1>1. profile => profile'
  BY DEF AccessNext, HandlerStep, HandlerFails, ProbeStep, Login, LookUpProfile, InsertSession,
         FillAtLogin, CopyPayload, Rewarm, Elsewhere, Command, Answer, FillAtLoginFails,
         FailedCommand, FailedDeactivation, Abandon, LostAnswer, Private, Admit, Refuse,
         ReadFlag, ReadProfile, FillFlag, Respond, PrivateFails, Drop, CreateProfile,
         ExpireFlag, Restart, allVars, guardVars
<1>2. CASE flag = "yes"
  BY <1>1, <1>2
<1>3. CASE flag # "yes"
  <2>1. \A complete : FlagOf(complete) = "yes" => complete
    BY DEF FlagOf
  <2>2. ASSUME NEW r \in Requests, FillAtLogin(r) \/ FillAtLoginFails(r) PROVE profile'
    <3>1. Filling(r) /\ flag' = FlagOf(carry[r].complete) /\ profile' = profile
      BY <1>3, <2>2 DEF FillAtLogin, FillAtLoginFails
    <3> QED
      BY <2>1, <3>1 DEF Filling, CarryOf
  <2>3. ASSUME NEW p \in Probes, FillFlag(p) \/ PrivateFails(p) PROVE profile'
    <3>1. probe[p].pc = "fill" /\ flag' = FlagOf(probe[p].complete) /\ profile' = profile
      BY <1>3, <2>3 DEF FillFlag, PrivateFails
    <3> QED
      BY <2>1, <3>1 DEF ProbeOf
  <2> QED
    BY <1>3, <2>2, <2>3
    DEF AccessNext, HandlerStep, HandlerFails, ProbeStep, Login, LookUpProfile, InsertSession,
        CopyPayload, Rewarm, Elsewhere, Command, Answer, FailedCommand, FailedDeactivation,
        Abandon, LostAnswer, Private, Admit, Refuse, ReadFlag, ReadProfile, Respond, Drop,
        CreateProfile, ExpireFlag, Restart, allVars, guardVars
<1> QED
  BY <1>2, <1>3

\* A private request passes on a flag that says "yes" or on the row it read.
LEMMA GateStep ==
    ASSUME GateInv, [AccessNext]_allVars
    PROVE  \A p \in Probes : ProbeOf(p)'
<1> DEFINE Good == \A p \in Probes : ProbeOf(p)'
<1> SUFFICES Good
  OBVIOUS
<1>1. AccessTypeOK
  BY DEF GateInv
<1>2. ASSUME NEW p \in Probes, ProbeOf(p)', profile' = profile,
             \A q \in Probes \ {p} : probe'[q] = probe[q]
      PROVE  Good
  BY <1>2 DEF GateInv, ProbeOf
<1>3. ASSUME NEW p \in Probes, NEW s \in Sessions, NEW t \in Seconds, Private(p, s, t)
      PROVE  Good
  <2>1. probe'[p].pc = "session" /\ \A q \in Probes \ {p} : probe'[q] = probe[q]
    BY <1>1, <1>3 DEF Private, AccessTypeOK
  <2> QED
    BY <1>2, <1>3, <2>1 DEF Private, ProbeOf
<1>4. ASSUME NEW p \in Probes, EndProbe(p), profile' = profile PROVE Good
  <2>1. probe'[p].pc = "idle" /\ \A q \in Probes \ {p} : probe'[q] = probe[q]
    BY <1>1, <1>4 DEF EndProbe, AccessTypeOK, Idle
  <2> QED
    BY <1>2, <1>4, <2>1 DEF ProbeOf
<1>5. ASSUME NEW p \in Probes, probe[p].pc \in ProbeStages, NEW c, ProbeTo(p, c),
             c = "handler" => profile, c # "fill", profile' = profile
      PROVE  Good
  <2>1. probe'[p].pc = c /\ \A q \in Probes \ {p} : probe'[q] = probe[q]
    BY <1>1, <1>5 DEF ProbeTo, AccessTypeOK, Idle, ProbeStages
  <2> QED
    BY <1>2, <1>5, <2>1 DEF ProbeOf
<1>6. ASSUME NEW p \in Probes, probe[p].pc = "fill", Gate(p), profile' = profile PROVE Good
  <2>1. CASE probe[p].complete
    BY <1>5, <1>6, <2>1 DEF Gate, GateInv, ProbeOf, ProbeStages
  <2>2. CASE ~probe[p].complete
    BY <1>4, <1>6, <2>2 DEF Gate
  <2> QED
    BY <2>1, <2>2
<1>7. ASSUME NEW p \in Probes, ProbeStep(p) PROVE Good
  <2>1. CASE Admit(p)
    <3>1. probe'[p].pc = "flag" /\ \A q \in Probes \ {p} : probe'[q] = probe[q]
      BY <1>1, <2>1 DEF Admit, AccessTypeOK, Idle
    <3> QED
      BY <1>2, <2>1, <3>1 DEF Admit, ProbeOf
  <2>2. CASE Refuse(p)
    BY <1>5, <2>2 DEF Refuse, ProbeStages
  <2>3. CASE ReadFlag(p)
    BY <1>4, <1>5, <2>3 DEF ReadFlag, ProbeStages, GateInv
  <2>4. CASE ReadProfile(p)
    <3>1. /\ probe'[p].pc = "fill" /\ probe'[p].complete = profile
          /\ \A q \in Probes \ {p} : probe'[q] = probe[q]
      BY <1>1, <2>4 DEF ReadProfile, AccessTypeOK, Idle
    <3> QED
      BY <1>2, <2>4, <3>1 DEF ReadProfile, ProbeOf
  <2>5. CASE FillFlag(p)
    BY <1>6, <2>5 DEF FillFlag
  <2>6. CASE Respond(p)
    BY <1>4, <2>6 DEF Respond
  <2> QED
    BY <1>7, <2>1, <2>2, <2>3, <2>4, <2>5, <2>6 DEF ProbeStep
<1>8. ASSUME NEW p \in Probes, PrivateFails(p) PROVE Good
  <2>1. CASE EndProbe(p)
    BY <1>4, <1>8, <2>1 DEF PrivateFails
  <2>2. CASE probe[p].pc = "flag" /\ ProbeTo(p, "profile")
    BY <1>5, <1>8, <2>2 DEF PrivateFails, ProbeStages
  <2>3. CASE probe[p].pc = "fill" /\ Gate(p)
    BY <1>6, <1>8, <2>3 DEF PrivateFails
  <2> QED
    BY <1>8, <2>1, <2>2, <2>3 DEF PrivateFails
<1>9. CASE Restart
  BY <1>9 DEF Restart, ProbeOf, Idle
<1>10. CASE probe' = probe /\ (profile => profile')
  BY <1>10 DEF GateInv, ProbeOf
<1>11. ASSUME NEW r \in Requests, HandlerStep(r) \/ HandlerFails(r)
       PROVE  probe' = probe /\ profile' = profile
  BY <1>11
  DEF HandlerStep, HandlerFails, LookUpProfile, InsertSession, FillAtLogin, CopyPayload,
      Rewarm, Elsewhere, Command, Answer, FillAtLoginFails, FailedCommand,
      FailedDeactivation, Abandon, LostAnswer, guardVars
<1>12. ASSUME \/ \E r \in Requests, s \in Sessions : Login(r, s)
              \/ \E s \in Sessions : Drop(s)
              \/ CreateProfile
              \/ ExpireFlag
              \/ UNCHANGED guardVars
       PROVE  probe' = probe /\ (profile => profile')
  BY <1>12 DEF Login, Drop, CreateProfile, ExpireFlag, guardVars
<1> HIDE DEF Good
<1>13. CASE \E r \in Requests : HandlerStep(r) \/ HandlerFails(r)
  BY <1>10, <1>11, <1>13
<1>14. CASE UNCHANGED allVars
  BY <1>10, <1>14 DEF allVars, guardVars
<1>15. CASE AccessNext
  BY <1>3, <1>7, <1>8, <1>9, <1>10, <1>12, <1>13, <1>15 DEF AccessNext
<1> QED
  BY <1>14, <1>15

\* Nobody is served behind the profile gate without a profile, however login,
\* refresh, evictions, failures and restarts interleave with it: payloads
\* re-warmed by the fallback claim a profile (auth_service.py:443), the gate's
\* flag never takes it from them (current_user.py 70-107).
THEOREM GateHolds == AccessSpec => []NoUnearnedPass
<1>1. ASSUME AccessInit PROVE GateInv
  <2>1. \A r \in Requests : carry[r].todo = {}
    BY <1>1 DEF AccessInit, Blank
  <2>2. \A p \in Probes : probe[p].pc = "idle"
    BY <1>1 DEF AccessInit, Idle
  <2>3. flag = "absent"
    BY <1>1 DEF AccessInit
  <2> QED
    BY <1>1, <2>1, <2>2, <2>3, AccessInitType DEF GateInv, CarryOf, ProbeOf
<1>2. GateInv /\ AccessTypeOK' /\ [AccessNext]_allVars => GateInv'
  <2> SUFFICES ASSUME GateInv, AccessTypeOK', [AccessNext]_allVars PROVE GateInv'
    OBVIOUS
  <2> QED
    BY CarryStep, FlagStep, GateStep DEF GateInv
<1>3. GateInv => NoUnearnedPass
  BY DEF GateInv, ProbeOf, NoUnearnedPass
<1> QED
  BY <1>1, <1>2, <1>3, AccessTypeCorrect, PTL DEF AccessSpec

(***************************************************************************)
(* Whom the guard admits, when no two handlers of one session overlap.     *)
(***************************************************************************)

\* Nothing but the latest token is cached for an active session, or its SET is
\* due; it is cached, or it is too old to be presented, or nobody has it yet.
\* Nothing is cached for a revoked session, or the DEL is due.  No client holds
\* a token later than the latest.
CurrentOf(s) ==
    /\ latest[s] <= clock
    /\ \A t \in held[s] : t <= latest[s]
    /\ s \notin hurt /\ db[s].state = "active" =>
          /\ cache[s] \in {None, latest[s]} \/ Due(s, "store")
          /\ \/ cache[s] = latest[s]
             \/ clock >= latest[s] + AccessLife
             \/ latest[s] \notin held[s] /\ Due(s, "store")
    /\ s \notin hurt /\ db[s].state = "revoked" => cache[s] = None \/ Due(s, "drop")

\* What a handler knows of its session: no token is later than the one it will
\* mint, and a row it has seen active still is.
HandlerOf(r) == req[r].pc \in Stages =>
    /\ latest[req[r].sid] <= req[r].now /\ req[r].now <= clock
    /\ req[r].pc \in {"store", "orphan"} => req[r].now = latest[req[r].sid]
    /\ req[r].pc = "commit" => db[req[r].sid].state = "active"
    /\ req[r].sid \notin hurt =>
          /\ ~req[r].failed /\ req[r].pc # "orphan"
          /\ req[r].pc = "store" => db[req[r].sid].state = "active"
          /\ req[r].pc = "drop" => db[req[r].sid].state = "revoked"

\* A private request carries a token that some client holds.
TokenOf(p) == probe[p].pc \in ProbeStages => probe[p].tok \in held[probe[p].sid]

\* SerialInv without its assumptions: calls may fail, payloads expire or be
\* evicted, the process crash, and sessions overlap; hurt sessions are exempt.
GuardInv ==
    /\ \A s \in Sessions : CurrentOf(s)
    /\ \A r \in Requests : HandlerOf(r)
    /\ \A p \in Probes : TokenOf(p)

\* The handler of a session is the only one that has something due.
LEMMA OnlyHandler ==
    ASSUME TypeOK, GuardInv, Apart, NEW r \in Requests, req[r].pc \in Stages
    PROVE  /\ req[r] \in Calls /\ req[r].sid \in Sessions
           /\ HandlerOf(r) /\ CurrentOf(req[r].sid)
           /\ \A pc \in Stages : Due(req[r].sid, pc) => req[r].pc = pc /\ "key" \in req[r].todo
<1>1. /\ req[r] \in Calls /\ req[r].sid \in Sessions
      /\ \A pc \in Stages : Due(req[r].sid, pc) => req[r].pc = pc /\ "key" \in req[r].todo
  BY OwnDue
<1> QED
  BY <1>1 DEF GuardInv

\* A step of one handler concerns its own session.
LEMMA OneSession ==
    ASSUME GuardInv, Apart, Apart', NEW r \in Requests, NEW s \in Sessions,
           req[r].pc \in Stages => req[r].sid = s,
           req'[r].pc \in Stages => req'[r].sid = s,
           req[r].pc \in Stages \/ req'[r].pc \in Stages,
           \A q \in Requests \ {r} : req'[q] = req[q],
           \A u \in Sessions \ {s} : /\ db'[u].state = db[u].state /\ cache'[u] = cache[u]
                                     /\ latest'[u] = latest[u] /\ held'[u] = held[u],
           clock' = clock, hurt \subseteq hurt',
           TypeOK, CurrentOf(s)', HandlerOf(r)'
    PROVE  (\A u \in Sessions : CurrentOf(u)') /\ (\A q \in Requests : HandlerOf(q)')
<1>1. ASSUME NEW u \in Sessions \ {s} PROVE CurrentOf(u)'
  <2>1. ASSUME NEW pc \in Stages, Due(u, pc) PROVE Due(u, pc)'
    BY <2>1 DEF Due
  <2>2. (Due(u, "store") => Due(u, "store")') /\ (Due(u, "drop") => Due(u, "drop")')
    BY <2>1 DEF Stages
  <2>3. CurrentOf(u)
    BY DEF GuardInv
  <2> QED
    BY <2>2, <2>3 DEF CurrentOf
<1>2. ASSUME NEW q \in Requests \ {r}, req'[q].pc \in Stages PROVE HandlerOf(q)'
  <2>1. req'[q] = req[q] /\ req[q].sid \in Sessions /\ req[q].sid # s
    BY <1>2, CallShape DEF Apart, Calls
  <2>2. HandlerOf(q)
    BY DEF GuardInv
  <2> QED
    BY <1>2, <2>1, <2>2 DEF HandlerOf
<1> QED
  BY <1>1, <1>2 DEF HandlerOf

GuardKept == (\A u \in Sessions : CurrentOf(u)') /\ (\A q \in Requests : HandlerOf(q)')

\* Arrivals.
LEMMA GuardArrives ==
    ASSUME RowInv, GuardInv, Apart, Apart', NEW r \in Requests, NEW s \in Sessions,
           Login(r, s) \/ (\E t \in Seconds : Refresh(r, s, t) /\ UNCHANGED guardVars)
    PROVE  GuardKept
<1>1. TypeOK /\ CurrentOf(s)
  BY DEF RowInv, GuardInv
<1>2. PICK pc \in {"insert", "get"}, t \in Tokens : req' = [req EXCEPT ![r] = Call(pc, s, t)]
  <2>1. None \in Tokens /\ Seconds \subseteq Tokens
    BY ClockAssumption DEF Tokens, Seconds, None
  <2>2. CASE Login(r, s)
    BY <2>1, <2>2 DEF Login, BeginLogin
  <2>3. ASSUME NEW t \in Seconds, Refresh(r, s, t)
        PROVE  \E pc \in {"insert", "get"}, v \in Tokens : req' = [req EXCEPT ![r] = Call(pc, s, v)]
    BY <2>1, <2>3 DEF Refresh
  <2> QED
    BY <2>2, <2>3
<1>3. /\ req[r].pc \notin Stages /\ UNCHANGED <<clock, db, cache, held, latest, hurt>>
  BY DEF Login, BeginLogin, Refresh, guardVars, Idle, Stages
<1>4. req'[r] = Call(pc, s, t) /\ \A q \in Requests \ {r} : req'[q] = req[q]
  BY <1>1, <1>2 DEF TypeOK
<1>5. /\ req'[r].pc = pc /\ req'[r].sid = s /\ req'[r].now = clock /\ ~req'[r].failed
  BY <1>4 DEF Call
<1>6. HandlerOf(r)'
  BY <1>1, <1>3, <1>5 DEF HandlerOf, CurrentOf, TypeOK, Seconds
<1>7. ASSUME NEW c \in Stages, Due(s, c) PROVE Due(s, c)'
  <2>1. PICK q \in Requests : req[q].pc = c /\ req[q].sid = s /\ "key" \in req[q].todo
    BY <1>7 DEF Due
  <2>2. CASE q # r
    BY <1>4, <2>1, <2>2 DEF Due
  <2>3. CASE q = r
    BY <1>3, <2>1, <2>3
  <2> QED
    BY <2>2, <2>3
<1>8. CurrentOf(s)'
  <2>1. (Due(s, "store") => Due(s, "store")') /\ (Due(s, "drop") => Due(s, "drop")')
    BY <1>7 DEF Stages
  <2> QED
    BY <1>1, <1>3, <2>1 DEF CurrentOf
<1>9. \A u \in Sessions : /\ db'[u].state = db[u].state /\ cache'[u] = cache[u]
                          /\ latest'[u] = latest[u] /\ held'[u] = held[u]
  BY <1>3
<1>10. req'[r].pc \in Stages
  BY <1>5 DEF Stages
<1> QED
  BY <1>1, <1>3, <1>4, <1>5, <1>6, <1>8, <1>9, <1>10, OneSession DEF GuardKept

\* A handler that moves on to a stage at which no SET or DEL is due, and to the
\* COMMIT only when it has seen an active row.
LEMMA GuardMoves ==
    ASSUME RowInv, GuardInv, Apart, Apart', NEW r \in Requests,
           CacheReuse(r) \/ CacheMiss(r) \/ RowMatches(r) \/ RowRefused(r),
           UNCHANGED guardVars
    PROVE  GuardKept
<1> PICK s : s = req[r].sid
  OBVIOUS
<1>1. TypeOK /\ req[r].pc \in {"get", "load"} /\ req[r].pc \in Stages
  BY DEF RowInv, CacheReuse, CacheMiss, RowMatches, RowRefused, Stages
<1>2. /\ req[r] \in Calls /\ s \in Sessions /\ HandlerOf(r) /\ CurrentOf(s)
      /\ ~Due(s, "store") /\ ~Due(s, "drop")
  BY <1>1, OnlyHandler DEF Stages
<1>3. PICK pc \in {"revoke", "load", "commit"} :
          /\ MoveTo(r, pc) /\ UNCHANGED <<clock, db, cache, held, latest, hurt>>
          /\ pc = "commit" => db[s].state = "active"
  BY DEF CacheReuse, CacheMiss, RowMatches, RowRefused, RowUsable, guardVars
<1>4. /\ req'[r].pc = pc /\ req'[r].sid = s /\ req'[r].now = req[r].now
      /\ req'[r].failed = req[r].failed /\ req'[r].pc \in Stages
      /\ \A q \in Requests \ {r} : req'[q] = req[q]
  BY <1>1, <1>2, <1>3 DEF MoveTo, Calls, TypeOK, Stages
<1>5. HandlerOf(r)'
  BY <1>1, <1>2, <1>3, <1>4 DEF HandlerOf
<1>6. CurrentOf(s)'
  BY <1>2, <1>3 DEF CurrentOf
<1>7. \A u \in Sessions : /\ db'[u].state = db[u].state /\ cache'[u] = cache[u]
                          /\ latest'[u] = latest[u] /\ held'[u] = held[u]
  BY <1>3
<1> QED
  BY <1>1, <1>2, <1>3, <1>4, <1>5, <1>6, <1>7, OneSession DEF GuardKept

\* A new token is the latest, its SET is due, and either it equals the one before,
\* minted in the same second, or nobody holds it.
LEMMA GuardMints ==
    ASSUME RowInv, GuardInv, Apart, Apart', NEW r \in Requests,
           InsertSession(r) \/ CopyPayload(r) \/ Rewarm(r)
    PROVE  GuardKept
<1> PICK s : s = req[r].sid
  OBVIOUS
<1>1. /\ TypeOK /\ req[r].pc \in {"insert", "get", "commit"} /\ req[r].pc \in Stages
      /\ UNCHANGED <<clock, cache, held, hurt>>
      /\ MoveTo(r, "store") /\ latest' = [latest EXCEPT ![s] = req[r].now]
  BY DEF RowInv, InsertSession, CopyPayload, Rewarm, CreateSession, CacheHit, CommitRotation,
         guardVars, Stages
<1>2. /\ req[r] \in Calls /\ s \in Sessions /\ HandlerOf(r) /\ CurrentOf(s)
      /\ ~Due(s, "store") /\ ~Due(s, "drop")
  BY <1>1, OnlyHandler DEF Stages
<1>3. /\ req'[r].pc = "store" /\ req'[r].sid = s /\ req'[r].now = req[r].now
      /\ req'[r].failed = req[r].failed /\ "key" \in req'[r].todo /\ req'[r].pc \in Stages
      /\ \A q \in Requests \ {r} : req'[q] = req[q]
  BY <1>1, <1>2 DEF MoveTo, Calls, TypeOK, Commands, Stages
<1>4. Due(s, "store")'
  BY <1>3 DEF Due
<1>5. /\ latest'[s] = req[r].now /\ req[r].now \in Nat /\ latest[s] \in Nat /\ clock \in Nat
      /\ latest[s] <= req[r].now /\ req[r].now <= clock
      /\ held[s] \subseteq Nat /\ \A t \in held[s] : t <= latest[s]
  BY <1>1, <1>2, ClockAssumption
  DEF TypeOK, Calls, HandlerOf, CurrentOf, Seconds, Tokens, None
<1>6. \/ CreateSession(r) /\ held[s] = {} /\ db'[s].state = "active"
      \/ /\ CacheHit(r) \/ CommitRotation(r)
         /\ db'[s].state = db[s].state
         /\ s \notin hurt => db[s].state = "active" /\ (cache[s] = latest[s] \/ clock >= latest[s] + AccessLife)
  <2>1. CASE InsertSession(r)
    <3>1. CreateSession(r) /\ req[r].pc = "insert"
      BY <2>1 DEF InsertSession, CreateSession
    <3>2. held[s] = {}
      BY <1>2, <3>1 DEF RowInv, LoginAlone, NoPhantomSession
    <3>3. db'[s].state = "active"
      BY <1>1, <1>2, <3>1 DEF CreateSession, TypeOK
    <3> QED
      BY <3>1, <3>2, <3>3
  <2>2. CASE CopyPayload(r)
    <3>1. CacheHit(r) /\ cache[s] # None /\ db' = db
      BY <2>2 DEF CopyPayload, CacheHit
    <3>2. db[s].state # "absent" /\ db[s].state \in States
      BY <1>1, <1>2, <3>1 DEF RowInv, NoPhantomSession, TypeOK
    <3>3. s \notin hurt => db[s].state = "active"
      BY <1>2, <3>1, <3>2 DEF CurrentOf, States
    <3>4. s \notin hurt => cache[s] = latest[s]
      BY <1>2, <3>1, <3>3 DEF CurrentOf
    <3> QED
      BY <3>1, <3>3, <3>4
  <2>3. CASE Rewarm(r)
    <3>1. CommitRotation(r) /\ req[r].pc = "commit"
      BY <2>3 DEF Rewarm, CommitRotation
    <3>2. db'[s].state = db[s].state /\ db[s].state = "active"
      <4>1. PICK h : db' = [db EXCEPT ![s].hash = h]
        BY <3>1 DEF CommitRotation
      <4>2. db[s].state = "active"
        BY <1>1, <1>2, <3>1 DEF HandlerOf
      <4> QED
        BY <1>1, <1>2, <4>1, <4>2 DEF TypeOK
    <3>3. s \notin hurt => cache[s] = latest[s] \/ clock >= latest[s] + AccessLife
      BY <1>2, <3>2 DEF CurrentOf
    <3> QED
      BY <3>1, <3>2, <3>3
  <2> QED
    BY <2>1, <2>2, <2>3
<1>7. s \notin hurt => db'[s].state = "active"
  BY <1>6
<1>8. HandlerOf(r)'
  BY <1>1, <1>2, <1>3, <1>5, <1>7 DEF HandlerOf
<1>9. CurrentOf(s)'
  <2>1. \A t \in held[s] : t <= req[r].now
    BY <1>5
  <2>2. \/ req[r].now \notin held[s]
        \/ s \in hurt
        \/ cache[s] = req[r].now \/ clock >= req[r].now + AccessLife
    <3>1. CASE held[s] = {}
      BY <3>1
    <3>2. CASE req[r].now = latest[s]
      BY <1>6, <3>2
    <3>3. CASE req[r].now > latest[s]
      BY <1>5, <3>3
    <3> QED
      BY <1>5, <1>6, <3>1, <3>2, <3>3
  <2>3. held'[s] = held[s] /\ cache'[s] = cache[s] /\ hurt' = hurt /\ clock' = clock
    BY <1>1
  <2>4. s \notin hurt' => db'[s].state # "revoked"
    BY <1>7, <2>3
  <2> QED
    BY <1>4, <1>5, <2>1, <2>2, <2>3, <2>4 DEF CurrentOf
<1>10. \A u \in Sessions \ {s} : /\ db'[u].state = db[u].state /\ cache'[u] = cache[u]
                                 /\ latest'[u] = latest[u] /\ held'[u] = held[u]
  <2>1. \A u \in Sessions \ {s} : db'[u] = db[u]
    BY <1>1, <1>2, <1>6 DEF CreateSession, CacheHit, CommitRotation, TypeOK
  <2> QED
    BY <1>1, <1>2, <2>1 DEF TypeOK
<1> QED
  BY <1>1, <1>2, <1>3, <1>8, <1>9, <1>10, OneSession DEF GuardKept

\* A revocation: the row first, the DEL is due; or the UPDATE fails.
LEMMA GuardRevokes ==
    ASSUME RowInv, GuardInv, Apart, Apart', NEW r \in Requests,
           (DeactivateRow(r) /\ UNCHANGED guardVars) \/ FailedDeactivation(r)
    PROVE  GuardKept
<1> PICK s : s = req[r].sid
  OBVIOUS
<1>1. /\ TypeOK /\ req[r].pc = "revoke" /\ req[r].pc \in Stages /\ MoveTo(r, "drop")
      /\ UNCHANGED <<clock, cache, held, latest>> /\ hurt \subseteq hurt'
  BY DEF RowInv, DeactivateRow, FailedDeactivation, DeactivateFails, guardVars, Stages
<1>2. /\ req[r] \in Calls /\ s \in Sessions /\ HandlerOf(r) /\ CurrentOf(s)
  BY <1>1, OnlyHandler
<1>3. /\ req'[r].pc = "drop" /\ req'[r].sid = s /\ req'[r].now = req[r].now
      /\ req'[r].failed = req[r].failed /\ "key" \in req'[r].todo /\ req'[r].pc \in Stages
      /\ \A q \in Requests \ {r} : req'[q] = req[q]
  BY <1>1, <1>2 DEF MoveTo, Calls, TypeOK, Commands, Stages
<1>4. Due(s, "drop")'
  BY <1>3 DEF Due
<1>5. /\ s \notin hurt' => db'[s].state = "revoked"
      /\ \A u \in Sessions \ {s} : db'[u] = db[u]
  BY <1>1, <1>2 DEF DeactivateRow, FailedDeactivation, DeactivateFails, TypeOK
<1>6. HandlerOf(r)'
  BY <1>1, <1>2, <1>3, <1>5 DEF HandlerOf
<1>7. CurrentOf(s)'
  BY <1>1, <1>2, <1>4, <1>5 DEF CurrentOf
<1>8. \A u \in Sessions \ {s} : /\ db'[u].state = db[u].state /\ cache'[u] = cache[u]
                                /\ latest'[u] = latest[u] /\ held'[u] = held[u]
  BY <1>1, <1>5
<1> QED
  BY <1>1, <1>2, <1>3, <1>6, <1>7, <1>8, OneSession DEF GuardKept

\* A command of a gather, which may raise.
LEMMA GuardCommands ==
    ASSUME RowInv, GuardInv, Apart, Apart', NEW r \in Requests, NEW c \in Commands,
           Command(r, c) \/ FailedCommand(r, c)
    PROVE  GuardKept
<1> PICK s : s = req[r].sid
  OBVIOUS
<1>1. /\ TypeOK /\ req[r].pc \in {"store", "orphan", "drop"} /\ req[r].pc \in Stages
      /\ UNCHANGED <<clock, db, held, latest>> /\ c \in req[r].todo
      /\ \/ hurt' = hurt /\ CommandEffect(r, c) /\ Retire(r, c, FALSE)
         \/ hurt' = hurt \cup {s} /\ Retire(r, c, TRUE)
            /\ (CommandEffect(r, c) \/ UNCHANGED cache)
  BY Zenon DEF RowInv, Command, FailedCommand, CacheCommand, Stages
<1>2. /\ req[r] \in Calls /\ s \in Sessions /\ HandlerOf(r) /\ CurrentOf(s)
      /\ Due(s, "store") => req[r].pc = "store" /\ "key" \in req[r].todo
      /\ Due(s, "drop") => req[r].pc = "drop" /\ "key" \in req[r].todo
  BY <1>1, OnlyHandler DEF Stages
<1>3. /\ \/ req'[r] = Idle /\ req[r].pc \in {"drop", "orphan"} /\ req[r].todo = {c}
         \/ /\ req'[r].pc = req[r].pc /\ req'[r].sid = s /\ req'[r].now = req[r].now
            /\ req'[r].todo = req[r].todo \ {c}
            /\ s \notin hurt' => req'[r].failed = req[r].failed
      /\ \A q \in Requests \ {r} : req'[q] = req[q]
  <2>1. PICK e \in BOOLEAN : Retire(r, c, e) /\ (s \notin hurt' => e = FALSE)
    BY <1>1
  <2>2. \A q \in Requests \ {r} : req'[q] = req[q]
    BY <1>1, <2>1 DEF Retire, TypeOK
  <2>3. CASE req[r].pc \in {"drop", "orphan"} /\ req[r].todo = {c}
    <3>1. req'[r] = Idle
      BY <1>1, <2>1, <2>3 DEF Retire, TypeOK
    <3> QED
      BY <2>2, <2>3, <3>1
  <2>4. CASE ~(req[r].pc \in {"drop", "orphan"} /\ req[r].todo = {c})
    <3>1. req'[r] = [req[r] EXCEPT !.todo = req[r].todo \ {c}, !.failed = req[r].failed \/ e]
      BY <1>1, <2>1, <2>4 DEF Retire, TypeOK
    <3>2. /\ req'[r].pc = req[r].pc /\ req'[r].sid = req[r].sid /\ req'[r].now = req[r].now
          /\ req'[r].todo = req[r].todo \ {c} /\ req'[r].failed = (req[r].failed \/ e)
      BY <1>2, <3>1 DEF Calls
    <3>3. s \notin hurt' => req'[r].failed = req[r].failed
      BY <1>2, <2>1, <3>2 DEF Calls
    <3> QED
      BY <2>2, <3>2, <3>3
  <2> QED
    BY <2>3, <2>4
<1>4. \A u \in Sessions \ {s} : cache'[u] = cache[u]
  BY <1>1, <1>2 DEF CommandEffect, TypeOK
<1>5. HandlerOf(r)'
  <2>1. hurt \subseteq hurt'
    BY <1>1
  <2> QED
    BY <1>1, <1>2, <1>3, <2>1 DEF HandlerOf, Idle, Stages
<1>6. CurrentOf(s)'
  <2>1. CASE s \in hurt'
    BY <1>1, <1>2, <2>1 DEF CurrentOf
  <2>2. CASE s \notin hurt'
    <3>1. hurt' = hurt /\ s \notin hurt /\ CommandEffect(r, c)
      BY <1>1, <2>2
    <3>2. \/ req[r].pc = "store" /\ db[s].state = "active" /\ req[r].now = latest[s]
          \/ req[r].pc = "drop" /\ db[s].state = "revoked"
      BY <1>1, <1>2, <3>1 DEF HandlerOf
    <3>3. CASE c = "key"
      <4>1. cache'[s] = IF req[r].pc = "store" THEN req[r].now ELSE None
        BY <1>1, <1>2, <3>1, <3>2, <3>3 DEF CommandEffect, TypeOK
      <4> QED
        BY <1>1, <1>2, <3>1, <3>2, <4>1 DEF CurrentOf
    <3>4. CASE c = "name"
      <4>1. cache' = cache
        BY <3>1, <3>4 DEF CommandEffect
      <4>2. "key" \in req[r].todo => /\ req'[r].pc = req[r].pc /\ req'[r].sid = s
                                    /\ "key" \in req'[r].todo
        BY <1>3, <3>4
      <4>3. (Due(s, "store") => Due(s, "store")') /\ (Due(s, "drop") => Due(s, "drop")')
        BY <1>2, <4>2 DEF Due
      <4> QED
        BY <1>1, <1>2, <3>1, <4>1, <4>3 DEF CurrentOf
    <3> QED
      BY <3>3, <3>4 DEF Commands
  <2> QED
    BY <2>1, <2>2
<1>7. \A u \in Sessions \ {s} : /\ db'[u].state = db[u].state /\ cache'[u] = cache[u]
                                /\ latest'[u] = latest[u] /\ held'[u] = held[u]
  BY <1>1, <1>4
<1>8. req'[r].pc \in Stages => req'[r].sid = s
  BY <1>3 DEF Idle, Stages
<1>9. hurt \subseteq hurt'
  BY <1>1
<1> QED
  BY <1>1, <1>2, <1>3, <1>5, <1>6, <1>7, <1>8, <1>9, OneSession DEF GuardKept

\* An answer, a lost answer, and a 500 before anything was written.
LEMMA GuardAnswers ==
    ASSUME RowInv, GuardInv, Apart, Apart', NEW r \in Requests,
           Answer(r) \/ LostAnswer(r) \/ Abandon(r)
    PROVE  GuardKept
<1> PICK s : s = req[r].sid
  OBVIOUS
<1>1. /\ TypeOK /\ req[r].pc \in {"store", "insert", "get", "load", "commit"}
      /\ req[r].pc \in Stages
      /\ UNCHANGED <<clock, db, cache, latest, hurt>>
      /\ req[r].pc = "store" => Finish(r)
      /\ req[r].pc # "store" => req' = [req EXCEPT ![r] = Idle]
      /\ held' = held \/ (req[r].pc = "store" /\ held' = [held EXCEPT ![s] = @ \cup {req[r].now}])
  BY DEF RowInv, Answer, LostAnswer, Abandon, Reply, LoseReply, Abort, Finish, Stages
<1>2. /\ req[r] \in Calls /\ s \in Sessions /\ HandlerOf(r) /\ CurrentOf(s)
      /\ Due(s, "store") => req[r].pc = "store" /\ "key" \in req[r].todo
      /\ ~Due(s, "drop")
  BY <1>1, OnlyHandler DEF Stages
<1>3. /\ \/ req'[r] = Idle /\ (req[r].pc = "store" => req[r].todo = {})
         \/ /\ req[r].pc = "store" /\ req[r].failed
            /\ req'[r].pc = "orphan" /\ req'[r].sid = s /\ req'[r].now = req[r].now
      /\ \A q \in Requests \ {r} : req'[q] = req[q]
  BY <1>1, <1>2 DEF Finish, TypeOK, Calls
<1>4. s \notin hurt => ~Due(s, "store")
  BY <1>1, <1>2, <1>3 DEF HandlerOf
<1>5. HandlerOf(r)'
  BY <1>1, <1>2, <1>3 DEF HandlerOf, Idle, Stages
<1>6. held'[s] = held[s] \/ (req[r].pc = "store" /\ held'[s] = held[s] \cup {req[r].now})
  BY <1>1, <1>2 DEF TypeOK
<1>7. \A t \in held'[s] : t <= latest[s]
  <2>1. req[r].pc = "store" => req[r].now = latest[s] /\ req[r].now \in Nat
    BY <1>1, <1>2, ClockAssumption DEF HandlerOf, Calls, Seconds
  <2>2. \A t \in held[s] : t <= latest[s]
    BY <1>2 DEF CurrentOf
  <2> QED
    BY <1>6, <2>1, <2>2
<1>8. CurrentOf(s)'
  BY <1>1, <1>2, <1>4, <1>7 DEF CurrentOf
<1>9. \A u \in Sessions \ {s} : /\ db'[u].state = db[u].state /\ cache'[u] = cache[u]
                                /\ latest'[u] = latest[u] /\ held'[u] = held[u]
  BY <1>1, <1>2 DEF TypeOK
<1>10. req'[r].pc \in Stages => req'[r].sid = s
  BY <1>3 DEF Idle, Stages
<1> QED
  BY <1>1, <1>2, <1>3, <1>5, <1>8, <1>9, <1>10, OneSession DEF GuardKept

\* A payload that goes at the end of its TTL is too old for the guard; one that
\* goes earlier hurts its session.
LEMMA GuardDrops ==
    ASSUME RowInv, GuardInv, NEW s \in Sessions, Drop(s)
    PROVE  GuardKept
<1>1. /\ TypeOK /\ UNCHANGED <<clock, db, held, latest, req>> /\ hurt \subseteq hurt'
      /\ cache' = [cache EXCEPT ![s] = None]
  BY DEF RowInv, Drop, Evict
<1>2. s \notin hurt' => ~(cache[s] + RefreshLife > clock)
  BY DEF Drop
<1>3. \A u \in Sessions, pc \in Stages : Due(u, pc) => Due(u, pc)'
  BY <1>1 DEF Due
<1>4. ASSUME NEW u \in Sessions PROVE CurrentOf(u)'
  <2>1. CurrentOf(u)
    BY DEF GuardInv
  <2>2. (Due(u, "store") => Due(u, "store")') /\ (Due(u, "drop") => Due(u, "drop")')
    BY <1>3 DEF Stages
  <2>3. CASE u # s
    <3>1. cache'[u] = cache[u]
      BY <1>1, <2>3 DEF TypeOK
    <3> QED
      BY <1>1, <2>1, <2>2, <3>1 DEF CurrentOf
  <2>4. CASE u = s
    <3>1. cache'[u] = None
      BY <1>1, <2>4 DEF TypeOK
    <3>2. u \notin hurt' /\ cache[u] = latest[u] => clock >= latest[u] + AccessLife
      <4>1. /\ clock \in Nat /\ latest[u] \in Nat /\ RefreshLife \in Nat
            /\ AccessLife \in 1..RefreshLife
        BY <1>1, AccessAssumption, LifeAssumption, ClockAssumption
        DEF TypeOK, Seconds, Tokens
      <4> QED
        BY <1>2, <2>4, <4>1
    <3> QED
      BY <1>1, <2>1, <2>2, <3>1, <3>2 DEF CurrentOf
  <2> QED
    BY <2>3, <2>4
<1>5. ASSUME NEW r \in Requests PROVE HandlerOf(r)'
  <2>1. HandlerOf(r)
    BY DEF GuardInv
  <2> QED
    BY <1>1, <2>1 DEF HandlerOf
<1> QED
  BY <1>4, <1>5 DEF GuardKept

\* The process restarts: the sessions of its handlers are hurt.
LEMMA GuardRestarts ==
    ASSUME RowInv, GuardInv, Restart
    PROVE  GuardKept
<1>1. /\ UNCHANGED <<clock, db, cache, held, latest>>
      /\ hurt' = hurt \cup {s \in Sessions : InFlight(s, Stages)}
      /\ \A r \in Requests : req'[r] = Idle
  BY DEF Restart, Crash
<1>2. ASSUME NEW u \in Sessions PROVE CurrentOf(u)'
  <2>1. CurrentOf(u)
    BY DEF GuardInv
  <2>2. u \notin hurt' => u \notin hurt /\ ~Due(u, "store") /\ ~Due(u, "drop")
    BY <1>1 DEF Due, InFlight, Stages
  <2> QED
    BY <1>1, <2>1, <2>2 DEF CurrentOf
<1>3. ASSUME NEW r \in Requests PROVE HandlerOf(r)'
  BY <1>1 DEF HandlerOf, Idle, Stages
<1> QED
  BY <1>2, <1>3 DEF GuardKept

\* Time, background copies, and steps that do not concern sessions.
LEMMA GuardRests ==
    ASSUME RowInv, GuardInv, UNCHANGED <<cache, req, held, latest, hurt>>,
           \A s \in Sessions : db'[s].state = db[s].state,
           clock' \in {clock, clock + 1}
    PROVE  GuardKept
<1>1. clock \in Nat /\ \A s \in Sessions : latest[s] \in Nat
  BY ClockAssumption DEF RowInv, TypeOK, Seconds, Tokens
<1>2. \A u \in Sessions, pc \in Stages : Due(u, pc) => Due(u, pc)'
  BY DEF Due
<1>3. ASSUME NEW u \in Sessions PROVE CurrentOf(u)'
  <2>1. CurrentOf(u)
    BY DEF GuardInv
  <2>2. (Due(u, "store") => Due(u, "store")') /\ (Due(u, "drop") => Due(u, "drop")')
    BY <1>2 DEF Stages
  <2>3. AccessLife \in Nat
    BY AccessAssumption, LifeAssumption
  <2> QED
    BY <1>1, <2>1, <2>2, <2>3 DEF CurrentOf
<1>4. ASSUME NEW r \in Requests, req[r].pc \in Stages PROVE HandlerOf(r)'
  <2>1. HandlerOf(r) /\ req[r].sid \in Sessions /\ req[r].now \in Nat
    BY <1>4, CallShape, ClockAssumption DEF GuardInv, RowInv, Calls, Seconds
  <2> QED
    BY <1>1, <1>4, <2>1 DEF HandlerOf
<1> QED
  BY <1>3, <1>4 DEF GuardKept, HandlerOf

\* Every step of the composition keeps what the guard relies on.
LEMMA GuardStep ==
    ASSUME RowInv, GuardInv, Apart, Apart', [AccessNext]_allVars
    PROVE  GuardKept
<1>1. ASSUME UNCHANGED <<vars, hurt>> PROVE GuardKept
  BY <1>1, GuardRests DEF vars
<1>2. ASSUME NEW r \in Requests, HandlerStep(r) PROVE GuardKept
  BY <1>1, <1>2, GuardMoves, GuardMints, GuardRevokes, GuardCommands, GuardAnswers
  DEF HandlerStep, LookUpProfile, FillAtLogin, Elsewhere
<1>3. ASSUME NEW r \in Requests, HandlerFails(r) PROVE GuardKept
  BY <1>1, <1>3, GuardRevokes, GuardCommands, GuardAnswers
  DEF HandlerFails, FillAtLoginFails
<1>4. ASSUME NEW p \in Probes,
             \/ \E s \in Sessions, t \in Seconds : Private(p, s, t)
             \/ ProbeStep(p)
             \/ PrivateFails(p)
      PROVE  GuardKept
  BY <1>1, <1>4 DEF Private, ProbeStep, Admit, Refuse, ReadFlag, ReadProfile, FillFlag,
                    Respond, PrivateFails
<1>5. ASSUME NEW s \in Sessions, NEW t \in Seconds,
             SyncSessionRotationDb(s, t) \/ SyncFails(s, t), UNCHANGED guardVars
      PROVE  GuardKept
  <2>1. \A u \in Sessions : db'[u].state = db[u].state
    <3>1. CASE SyncSessionRotationDb(s, t)
      <4>1. PICK h : db' = [db EXCEPT ![s].hash = h]
        BY <3>1 DEF SyncSessionRotationDb
      <4> QED
        BY <4>1 DEF RowInv, TypeOK
    <3> QED
      BY <1>5, <3>1 DEF SyncFails
  <2> QED
    BY <1>5, <2>1, GuardRests DEF SyncSessionRotationDb, SyncFails, guardVars
<1>6. CASE (Tick /\ UNCHANGED guardVars) \/ CreateProfile \/ ExpireFlag \/ UNCHANGED allVars
  <2>1. CASE Tick /\ UNCHANGED guardVars
    BY <2>1, GuardRests DEF Tick, guardVars
  <2> QED
    BY <1>1, <1>6, <2>1 DEF CreateProfile, ExpireFlag, allVars, guardVars
<1> QED
  BY <1>2, <1>3, <1>4, <1>5, <1>6, GuardArrives, GuardDrops, GuardRestarts DEF AccessNext

\* A private request brings a token that a client holds, and clients lose none.
LEMMA TokenStep ==
    ASSUME AccessTypeOK, GuardInv, [AccessNext]_allVars
    PROVE  \A p \in Probes : TokenOf(p)'
<1>1. TypeOK /\ [Next]_vars
  BY StepIsRotation DEF AccessTypeOK
<1>2. \A s \in Sessions : held[s] \subseteq held'[s]
  <2> SUFFICES ASSUME NEW s \in Sessions, held'[s] # held[s] PROVE held[s] \subseteq held'[s]
    OBVIOUS
  <2>1. PICK r \in Requests : Reply(r) /\ req[r].sid = s
    BY <1>1, HeldStep
  <2> QED
    BY <1>1, <2>1 DEF Reply, TypeOK
<1>3. ASSUME NEW p \in Probes, probe'[p].pc \in ProbeStages,
             probe[p].pc \in ProbeStages, probe'[p].sid = probe[p].sid,
             probe'[p].tok = probe[p].tok
      PROVE  TokenOf(p)'
  <2>1. probe[p].sid \in Sessions
    BY <1>3 DEF AccessTypeOK, Idle, ProbeStages
  <2> QED
    BY <1>2, <1>3, <2>1 DEF GuardInv, TokenOf
<1>4. ASSUME NEW p \in Probes, probe'[p] = probe[p] \/ probe'[p] = Idle PROVE TokenOf(p)'
  BY <1>3, <1>4 DEF TokenOf, Idle, ProbeStages
<1>5. ASSUME NEW q \in Probes, NEW s \in Sessions, NEW t \in Seconds, Private(q, s, t),
             NEW p \in Probes
      PROVE  TokenOf(p)'
  <2>1. CASE p = q
    <3>1. probe'[p].sid = s /\ probe'[p].tok = t /\ t \in held[s]
      BY <1>5, <2>1 DEF Private, AccessTypeOK
    <3> QED
      BY <1>2, <3>1 DEF TokenOf
  <2>2. CASE p # q
    BY <1>4, <1>5, <2>2 DEF Private, AccessTypeOK
  <2> QED
    BY <2>1, <2>2
<1>6. ASSUME NEW q \in Probes, ProbeStep(q) \/ PrivateFails(q), NEW p \in Probes
      PROVE  TokenOf(p)'
  <2>1. CASE p # q
    BY <1>4, <1>6, <2>1
    DEF ProbeStep, Admit, Refuse, ReadFlag, ReadProfile, FillFlag, Respond, PrivateFails,
        ProbeTo, EndProbe, Gate, AccessTypeOK
  <2>2. CASE p = q
    <3>1. /\ probe[p].pc \in ProbeStages
          /\ \/ EndProbe(p)
             \/ \E c : ProbeTo(p, c)
             \/ \E c, b : probe' = [probe EXCEPT ![p].pc = c, ![p].complete = b]
      BY <1>6, <2>2
      DEF ProbeStep, Admit, Refuse, ReadFlag, ReadProfile, FillFlag, Respond, PrivateFails,
          Gate, ProbeStages
    <3>2. probe[p] \in [pc : ProbeStages, sid : Sessions, tok : Seconds, complete : BOOLEAN]
      BY <3>1 DEF AccessTypeOK, Idle, ProbeStages
    <3>3. CASE EndProbe(p)
      BY <1>4, <3>3 DEF EndProbe, AccessTypeOK
    <3>4. ASSUME NEW c, ProbeTo(p, c) PROVE TokenOf(p)'
      <4>1. probe'[p].sid = probe[p].sid /\ probe'[p].tok = probe[p].tok
        BY <3>2, <3>4 DEF ProbeTo, AccessTypeOK
      <4> QED
        BY <1>3, <3>1, <4>1 DEF TokenOf
    <3>5. ASSUME NEW c, NEW b, probe' = [probe EXCEPT ![p].pc = c, ![p].complete = b]
          PROVE  TokenOf(p)'
      <4>1. probe'[p].sid = probe[p].sid /\ probe'[p].tok = probe[p].tok
        BY <3>2, <3>5 DEF AccessTypeOK
      <4> QED
        BY <1>3, <3>1, <4>1 DEF TokenOf
    <3> QED
      BY <3>1, <3>3, <3>4, <3>5
  <2> QED
    BY <2>1, <2>2
<1>7. CASE Restart
  BY <1>4, <1>7 DEF Restart
<1>8. CASE probe' = probe
  BY <1>4, <1>8
<1>9. ASSUME \/ \E r \in Requests, s \in Sessions : Login(r, s)
             \/ \E s \in Sessions : Drop(s)
             \/ CreateProfile
             \/ ExpireFlag
             \/ UNCHANGED guardVars
             \/ \E r \in Requests : HandlerStep(r) \/ HandlerFails(r)
      PROVE  probe' = probe
  BY <1>9
  DEF Login, Drop, CreateProfile, ExpireFlag, guardVars, HandlerStep, HandlerFails,
      LookUpProfile, InsertSession, FillAtLogin, CopyPayload, Rewarm, Elsewhere, Command,
      Answer, FillAtLoginFails, FailedCommand, FailedDeactivation, Abandon, LostAnswer
<1>10. CASE UNCHANGED allVars
  BY <1>8, <1>10 DEF allVars, guardVars
<1> QED
  BY <1>5, <1>6, <1>7, <1>8, <1>9, <1>10 DEF AccessNext

\* As long as no two handlers of one session overlap.
LEMMA GuardInvariant == AccessSpec /\ []Apart => [](RowInv /\ AccessTypeOK /\ GuardInv)
<1>1. AccessInit => GuardInv
  <2> SUFFICES ASSUME AccessInit PROVE GuardInv
    OBVIOUS
  <2>1. /\ \A r \in Requests : req[r] = Idle
        /\ \A p \in Probes : probe[p] = Idle
        /\ \A s \in Sessions : latest[s] = 0 /\ held[s] = {} /\ db[s].state = "absent"
        /\ clock = 1
    BY DEF AccessInit, Init, None
  <2> QED
    BY <2>1 DEF GuardInv, CurrentOf, HandlerOf, TokenOf, Idle, Stages, ProbeStages
<1>2. RowInv /\ AccessTypeOK /\ GuardInv /\ Apart /\ Apart' /\ [AccessNext]_allVars => GuardInv'
  BY GuardStep, TokenStep DEF GuardInv, GuardKept
<1> QED
  BY <1>1, <1>2, GuardKeepsRotation, RowInvariant, AccessTypeCorrect, PTL DEF AccessSpec

\* The guard's two answers are given on the payload alone.
LEMMA GuardAnswer ==
    ASSUME AccessTypeOK, [AccessNext]_allVars, NEW p \in Probes
    PROVE  /\ Admitted(p) => cache[probe[p].sid] = probe[p].tok
           /\ Refused(p) => cache[probe[p].sid] # probe[p].tok
<1> SUFFICES ASSUME Admitted(p) \/ Refused(p)
             PROVE  \/ Admit(p) /\ probe'[p].pc = "flag"
                    \/ Refuse(p) /\ probe'[p].pc = "denied"
  BY DEF Admitted, Refused, Admit, Refuse, TokenCurrent
<1>1. probe[p].pc = "session" /\ probe'[p].pc \in {"flag", "denied"}
  BY DEF Admitted, Refused
<1>2. probe' # probe /\ probe'[p] # Idle
  BY <1>1 DEF Idle
<1>3. PICK q \in Probes :
          \/ \E s \in Sessions, t \in Seconds : Private(q, s, t)
          \/ ProbeStep(q)
          \/ PrivateFails(q)
  BY <1>2
  DEF AccessNext, Login, Drop, CreateProfile, ExpireFlag, guardVars, allVars, HandlerStep,
      HandlerFails, LookUpProfile, InsertSession, FillAtLogin, CopyPayload, Rewarm, Elsewhere,
      Command, Answer, FillAtLoginFails, FailedCommand, FailedDeactivation, Abandon,
      LostAnswer, Restart
<1>4. p = q
  <2>1. p # q => probe'[p] = probe[p]
    BY <1>3
    DEF Private, ProbeStep, Admit, Refuse, ReadFlag, ReadProfile, FillFlag, Respond,
        PrivateFails, ProbeTo, EndProbe, Gate, AccessTypeOK
  <2> QED
    BY <1>1, <2>1
<1>5. Admit(p) \/ Refuse(p) \/ EndProbe(p)
  BY <1>1, <1>3, <1>4
  DEF Private, ProbeStep, ReadFlag, ReadProfile, FillFlag, Respond, PrivateFails, Idle
<1>6. probe[p] \in [pc : ProbeStages, sid : Sessions, tok : Seconds, complete : BOOLEAN]
  BY <1>1 DEF AccessTypeOK, Idle
<1>7. ~EndProbe(p)
  BY <1>2 DEF EndProbe, AccessTypeOK
<1>8. Admit(p) => probe'[p].pc = "flag"
  BY <1>6 DEF Admit, AccessTypeOK
<1>9. Refuse(p) => probe'[p].pc = "denied"
  BY <1>6 DEF Refuse, ProbeTo, AccessTypeOK
<1> QED
  BY <1>5, <1>7, <1>8, <1>9

\* The session of a private request that the guard is about to judge.
LEMMA ProbeFacts ==
    ASSUME RowInv, AccessTypeOK, GuardInv, NEW p \in Probes, probe[p].pc = "session"
    PROVE  /\ probe[p].sid \in Sessions /\ probe[p].tok # None
           /\ probe[p].tok \in held[probe[p].sid]
           /\ CurrentOf(probe[p].sid)
           /\ db[probe[p].sid].state \in {"active", "revoked"}
<1>1. probe[p] \in [pc : ProbeStages, sid : Sessions, tok : Seconds, complete : BOOLEAN]
  BY DEF AccessTypeOK, Idle
<1>2. probe[p].sid \in Sessions /\ probe[p].tok \in Seconds /\ probe[p].pc \in ProbeStages
  BY <1>1
<1>3. probe[p].tok \in held[probe[p].sid] /\ CurrentOf(probe[p].sid)
  BY <1>2 DEF GuardInv, TokenOf
<1>4. db[probe[p].sid].state # "absent"
  BY <1>2, <1>3 DEF RowInv, NoPhantomSession
<1> QED
  BY <1>2, <1>3, <1>4 DEF RowInv, TypeOK, States, Seconds, None

\* For any number of sessions, handlers and private requests and every
\* environment, as long as handlers of one session do not overlap: a superseded
\* token, or one of a revoked session, is admitted only while the handler that
\* superseded or revoked it is on its way to Redis, or after one of the session's
\* calls failed (jwt_validator.py 154-164).
THEOREM AdmissionsAreCurrent == AccessSpec /\ []Apart => AdmitsCurrent
<1>1. RowInv /\ AccessTypeOK /\ GuardInv /\ [AccessNext]_allVars =>
        [\A p \in Probes : Admitted(p) =>
            LET s == probe[p].sid IN
              \/ probe[p].tok = latest[s] /\ db[s].state = "active"
              \/ InFlight(s, {"store", "drop"})
              \/ s \in hurt]_allVars
  <2> SUFFICES ASSUME RowInv, AccessTypeOK, GuardInv, [AccessNext]_allVars,
                      NEW p \in Probes, Admitted(p), probe[p].sid \notin hurt,
                      ~InFlight(probe[p].sid, {"store", "drop"})
               PROVE  /\ probe[p].tok = latest[probe[p].sid]
                      /\ db[probe[p].sid].state = "active"
    BY Zenon
  <2>1. cache[probe[p].sid] = probe[p].tok /\ probe[p].pc = "session"
    BY GuardAnswer DEF Admitted
  <2>2. /\ probe[p].sid \in Sessions /\ probe[p].tok # None /\ CurrentOf(probe[p].sid)
        /\ db[probe[p].sid].state \in {"active", "revoked"}
    BY <2>1, ProbeFacts
  <2>3. ~Due(probe[p].sid, "store") /\ ~Due(probe[p].sid, "drop")
    BY DEF Due, InFlight
  <2> QED
    BY <2>1, <2>2, <2>3 DEF CurrentOf
<1> QED
  BY <1>1, GuardInvariant, PTL DEF AccessSpec, AdmitsCurrent

\* And nobody who brings the latest token is turned away, unless the session was
\* revoked, one of its calls failed or its payload was evicted, or the token has
\* expired on the way (auth_service.py:258, jwt_validator.py 122-164).
THEOREM LatestIsServed == AccessSpec /\ []Apart => ServesLatest
<1>1. RowInv /\ AccessTypeOK /\ GuardInv /\ [AccessNext]_allVars =>
        [\A p \in Probes : Refused(p) /\ probe[p].tok = latest[probe[p].sid] =>
            LET s == probe[p].sid IN
              \/ db[s].state = "revoked"
              \/ s \in hurt
              \/ clock >= probe[p].tok + AccessLife]_allVars
  <2> SUFFICES ASSUME RowInv, AccessTypeOK, GuardInv, [AccessNext]_allVars,
                      NEW p \in Probes, Refused(p), probe[p].tok = latest[probe[p].sid],
                      db[probe[p].sid].state # "revoked", probe[p].sid \notin hurt
               PROVE  clock >= probe[p].tok + AccessLife
    BY Zenon
  <2>1. cache[probe[p].sid] # probe[p].tok /\ probe[p].pc = "session"
    BY GuardAnswer DEF Refused
  <2>2. /\ CurrentOf(probe[p].sid) /\ db[probe[p].sid].state = "active"
        /\ latest[probe[p].sid] \in held[probe[p].sid]
    BY <2>1, ProbeFacts
  <2> QED
    BY <2>1, <2>2 DEF CurrentOf
<1> QED
  BY <1>1, GuardInvariant, PTL DEF AccessSpec, ServesLatest

\* What the run checks: with one request slot nothing overlaps.
THEOREM OneAtATime ==
    (\A q, r \in Requests : q = r) => (AccessSpec => AdmitsCurrent /\ ServesLatest)
<1> SUFFICES ASSUME \A q, r \in Requests : q = r
             PROVE  AccessSpec => AdmitsCurrent /\ ServesLatest
  OBVIOUS
<1>1. Apart
  BY OneSlotIsApart
<1> QED
  BY <1>1, AdmissionsAreCurrent, LatestIsServed, PTL
=============================================================================
