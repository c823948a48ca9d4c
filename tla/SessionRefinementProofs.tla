----------------------- MODULE SessionRefinementProofs -----------------------
(***************************************************************************)
(* Proof that rotation implements the token authority when handlers of one *)
(* session do not overlap: the refinement mapping is that of               *)
(* SessionRotationRefines, the invariant that of SessionSerialProofs.      *)
(***************************************************************************)
EXTENDS SessionSerialProofs, SessionRotationRefines

\* The authority's view of the sessions and of the requests.
StatusView  == [s \in Sessions |-> db[s].state]
CurrentView == [s \in Sessions |->
                  IF db[s].state = "active" THEN latest[s] ELSE None]
AskView     == [r \in Requests |-> AskOf(r)]

USE ClockAssumption, LifeAssumption DEF Seconds, Tokens, None

\* What the authority sees of a request at each stage.
LEMMA AskAt ==
    ASSUME NEW r \in Requests
    PROVE  /\ req[r].pc \in {"get", "load", "commit", "revoke"} =>
                AskOf(r) = [kind |-> "asked", sid |-> req[r].sid, tok |-> req[r].tok]
           /\ req[r].pc = "store" =>
                AskOf(r) = [kind |-> "granted", sid |-> req[r].sid, tok |-> req[r].now]
           /\ req[r].pc \notin {"get", "load", "commit", "revoke", "store"} =>
                AskOf(r) = [kind |-> "none"]
BY DEF AskOf

\* The same after a step.
LEMMA AskAfter ==
    ASSUME NEW r \in Requests
    PROVE  /\ req'[r].pc \in {"get", "load", "commit", "revoke"} =>
                AskOf(r)' = [kind |-> "asked", sid |-> req'[r].sid, tok |-> req'[r].tok]
           /\ req'[r].pc = "store" =>
                AskOf(r)' = [kind |-> "granted", sid |-> req'[r].sid, tok |-> req'[r].now]
           /\ req'[r].pc \notin {"get", "load", "commit", "revoke", "store"} =>
                AskOf(r)' = [kind |-> "none"]
BY DEF AskOf

\* A step of a handler leaves the other handlers alone.
LEMMA OthersStay ==
    ASSUME TypeOK, NEW r \in Requests, Arrive(r) \/ Step(r) \/ LoseReply(r)
    PROVE  \A q \in Requests \ {r} : req'[q] = req[q]
<1> USE DEF TypeOK
<1>1. CASE Arrive(r)
  BY <1>1 DEF Arrive, BeginLogin, Refresh
<1>2. CASE Reply(r) \/ LoseReply(r)
  BY <1>2 DEF Reply, LoseReply, Finish
<1>3. CASE \E c \in Commands : CacheCommand(r, c)
  BY <1>3 DEF CacheCommand, Retire
<1>4. ASSUME NEW p, MoveTo(r, p) PROVE \A q \in Requests \ {r} : req'[q] = req[q]
  BY <1>4 DEF MoveTo
<1> QED
  BY <1>1, <1>2, <1>3, <1>4
  DEF Step, CreateSession, CacheHit, CacheReuse, CacheMiss, RowMatches, RowRefused,
      CommitRotation, DeactivateRow

\* Only the acting request's view changes.
LEMMA AskUpdate ==
    ASSUME TypeOK, NEW r \in Requests, Arrive(r) \/ Step(r) \/ LoseReply(r)
    PROVE  AskView' = [AskView EXCEPT ![r] = AskOf(r)']
<1>1. \A q \in Requests \ {r} : AskOf(q)' = AskOf(q)
  BY OthersStay DEF AskOf
<1> QED
  BY <1>1 DEF AskView

\* Two views that agree on the handler's session and on the rest agree.
LEMMA ViewsSame ==
    ASSUME \A s \in Sessions : db'[s].state = db[s].state, latest' = latest
    PROVE  StatusView' = StatusView /\ CurrentView' = CurrentView
BY DEF StatusView, CurrentView

\* A fresh start of the service is a fresh start of the authority.
LEMMA InitRefines == Init => Authority!Init
BY DEF Init, Authority!Init, Authority!NoAsk, AskOf, Idle

(***************************************************************************)
(* Each step of rotation is a step of the authority, or none.              *)
(***************************************************************************)

AuthorityStep == [Authority!Next]_<<StatusView, CurrentView, held, AskView>>

\* Arrivals: a login is not seen before its INSERT, a refresh presents a token.
LEMMA ArriveRefines ==
    ASSUME RowInv, NEW r \in Requests, Arrive(r)
    PROVE  AuthorityStep
<1> USE DEF RowInv, TypeOK
<1>1. StatusView' = StatusView /\ CurrentView' = CurrentView /\ held' = held
  BY ViewsSame DEF Arrive, BeginLogin, Refresh
<1>2. AskOf(r) = [kind |-> "none"] /\ AskView[r] = AskOf(r)
  BY AskAt DEF Arrive, BeginLogin, Refresh, Idle, AskView
<1>3. CASE \E s \in Sessions : BeginLogin(r, s)
  <2>1. AskOf(r)' = [kind |-> "none"]
    BY <1>3, AskAfter DEF BeginLogin, Call
  <2>2. AskView' = AskView
    BY <1>2, <2>1, AskUpdate DEF AskView
  <2> QED
    BY <1>1, <2>2 DEF AuthorityStep
<1>4. CASE \E s \in Sessions, t \in Seconds : Refresh(r, s, t)
  <2>1. PICK s \in Sessions, t \in Seconds : Refresh(r, s, t)
    BY <1>4
  <2>2. AskOf(r)' = [kind |-> "asked", sid |-> s, tok |-> t]
    BY <2>1, AskAfter DEF Refresh, Call
  <2>3. Authority!Ask(r, s, t)
    BY <1>1, <1>2, <2>1, <2>2, AskUpdate
    DEF Authority!Ask, Authority!NoAsk, Authority!Asked, Refresh, StatusView,
        CurrentView, AskView
  <2> QED
    BY <2>3 DEF AuthorityStep, Authority!Next
<1> QED
  BY <1>3, <1>4 DEF Arrive

\* From await to await nothing is decided.
LEMMA MoveRefines ==
    ASSUME RowInv, SerialInv, Apart, Apart', NEW r \in Requests,
           CacheReuse(r) \/ CacheMiss(r) \/ RowRefused(r) \/ RowMatches(r)
    PROVE  AuthorityStep
<1> USE DEF RowInv, TypeOK
<1>1. StatusView' = StatusView /\ CurrentView' = CurrentView /\ held' = held
  BY ViewsSame DEF CacheReuse, CacheMiss, RowRefused, RowMatches
<1>2. req[r] \in Calls
  BY CallShape DEF CacheReuse, CacheMiss, RowRefused, RowMatches, Stages
<1>3. /\ req[r].pc \in {"get", "load"} /\ req'[r].pc \in {"revoke", "load", "commit"}
      /\ req'[r].sid = req[r].sid /\ req'[r].tok = req[r].tok
  BY <1>2 DEF CacheReuse, CacheMiss, RowRefused, RowMatches, MoveTo, Calls
<1>4. AskOf(r)' = AskOf(r)
  BY <1>3, AskAt, AskAfter
<1>5. AskView' = AskView
  BY <1>4, AskUpdate DEF AskView, Step
<1> QED
  BY <1>1, <1>5 DEF AuthorityStep

\* The INSERT opens the session with its first token granted.
LEMMA CreateRefines ==
    ASSUME RowInv, NEW r \in Requests, CreateSession(r)
    PROVE  AuthorityStep
<1> USE DEF RowInv, TypeOK
<1>1. req[r] \in Calls
  BY CallShape DEF CreateSession, Stages
<1>2. PICK s \in Sessions, n \in Seconds : req[r].sid = s /\ req[r].now = n
  BY <1>1 DEF Calls
<1>3. AskOf(r) = [kind |-> "none"] /\ AskView[r] = AskOf(r)
  BY AskAt DEF CreateSession, AskView
<1>4. AskOf(r)' = [kind |-> "granted", sid |-> s, tok |-> n]
  BY <1>1, <1>2, AskAfter DEF CreateSession, MoveTo, Calls
<1>5. db[s].state = "absent"
  BY <1>2 DEF CreateSession, LoginAlone
<1>6. /\ StatusView' = [StatusView EXCEPT ![s] = "active"]
      /\ CurrentView' = [CurrentView EXCEPT ![s] = n]
  BY <1>2 DEF CreateSession, StatusView, CurrentView
<1>7. /\ AskView[r] = Authority!NoAsk
      /\ StatusView[s] = "absent"
      /\ AskView' = [AskView EXCEPT ![r] = Authority!Granted(s, n)]
      /\ UNCHANGED held
  BY <1>3, <1>4, <1>5, AskUpdate
  DEF Authority!NoAsk, Authority!Granted, CreateSession, StatusView, Step
<1>8. Authority!Open(r, s, n)
  BY <1>6, <1>7 DEF Authority!Open, StatusView, CurrentView, AskView
<1> QED
  BY <1>8 DEF AuthorityStep, Authority!Next

\* A hit is the acceptance of the current token.
LEMMA HitRefines ==
    ASSUME RowInv, SerialInv, Apart, Apart', NEW r \in Requests, CacheHit(r)
    PROVE  AuthorityStep
<1> USE DEF RowInv, TypeOK
<1>1. req[r] \in Calls
  BY CallShape DEF CacheHit, Stages
<1>2. PICK s \in Sessions, n \in Seconds : req[r].sid = s /\ req[r].now = n
  BY <1>1 DEF Calls
<1>3. AskOf(r) = [kind |-> "asked", sid |-> s, tok |-> req[r].tok] /\ AskView[r] = AskOf(r)
  BY <1>2, AskAt DEF CacheHit, AskView
<1>4. AskOf(r)' = [kind |-> "granted", sid |-> s, tok |-> n]
  BY <1>1, <1>2, AskAfter DEF CacheHit, MoveTo, Calls
<1>5. req[r].tok = latest[s]
  BY <1>2, SerialMint
<1>6. db[s].state = "active"
  <2>1. SessionInv(s) /\ ~Due(s, "drop") /\ cache[s] # None
    BY <1>2, SerialHandler DEF CacheHit, Stages
  <2> QED
    BY <1>2, <2>1 DEF SessionInv, NoPhantomSession, States
<1>7. /\ StatusView' = StatusView
      /\ CurrentView' = [CurrentView EXCEPT ![s] = n]
  BY <1>2, <1>6 DEF CacheHit, StatusView, CurrentView
<1>8. CurrentView[s] = req[r].tok
  BY <1>2, <1>5, <1>6 DEF CurrentView
<1>9. /\ AskView[r].kind = "asked"
      /\ CurrentView[AskView[r].sid] = AskView[r].tok
      /\ CurrentView' = [CurrentView EXCEPT ![AskView[r].sid] = n]
      /\ AskView' = [AskView EXCEPT ![r] = Authority!Granted(AskView[r].sid, n)]
      /\ StatusView' = StatusView /\ UNCHANGED held
  <2>1. AskView' = [AskView EXCEPT ![r] = AskOf(r)']
    BY AskUpdate DEF Step
  <2> QED
    BY <1>3, <1>4, <1>7, <1>8, <2>1 DEF Authority!Granted, CacheHit
<1>10. Authority!Accept(r, n)
  BY <1>9 DEF Authority!Accept, StatusView, CurrentView, AskView
<1> QED
  BY <1>10 DEF AuthorityStep, Authority!Next

\* The UPDATE of the row is the rejection of an older token.
LEMMA RevokeRefines ==
    ASSUME RowInv, SerialInv, Apart, Apart', NEW r \in Requests, DeactivateRow(r)
    PROVE  AuthorityStep
<1> USE DEF RowInv, TypeOK
<1>1. req[r] \in Calls
  BY CallShape DEF DeactivateRow, Stages
<1>2. PICK s \in Sessions : req[r].sid = s
  BY <1>1 DEF Calls
<1>3. AskOf(r) = [kind |-> "asked", sid |-> s, tok |-> req[r].tok] /\ AskView[r] = AskOf(r)
  BY <1>2, AskAt DEF DeactivateRow, AskView
<1>4. AskOf(r)' = [kind |-> "none"]
  BY <1>1, AskAfter DEF DeactivateRow, MoveTo, Calls
<1>5. CurrentView[s] # req[r].tok
  BY <1>2 DEF DeactivateRow, SerialInv, HandlerInv, CurrentView
<1>6. /\ StatusView' = [StatusView EXCEPT ![s] = "revoked"]
      /\ CurrentView' = [CurrentView EXCEPT ![s] = None]
  BY <1>2 DEF DeactivateRow, StatusView, CurrentView
<1>7. /\ AskView[r].kind = "asked"
      /\ CurrentView[AskView[r].sid] # AskView[r].tok
      /\ StatusView' = [StatusView EXCEPT ![AskView[r].sid] = "revoked"]
      /\ CurrentView' = [CurrentView EXCEPT ![AskView[r].sid] = None]
      /\ AskView' = [AskView EXCEPT ![r] = Authority!NoAsk]
      /\ UNCHANGED held
  <2>1. AskView' = [AskView EXCEPT ![r] = AskOf(r)']
    BY AskUpdate DEF Step
  <2> QED
    BY <1>3, <1>4, <1>5, <1>6, <2>1 DEF Authority!NoAsk, DeactivateRow
<1>8. Authority!Reject(r)
  BY <1>7 DEF Authority!Reject, StatusView, CurrentView, AskView
<1> QED
  BY <1>8 DEF AuthorityStep, Authority!Next

\* Cache commands are not seen.
LEMMA CommandRefines ==
    ASSUME RowInv, SerialInv, Apart, Apart', NEW r \in Requests,
           NEW c \in Commands, CacheCommand(r, c)
    PROVE  AuthorityStep
<1> USE DEF RowInv, TypeOK
<1>1. StatusView' = StatusView /\ CurrentView' = CurrentView /\ held' = held
  BY ViewsSame DEF CacheCommand
<1>2. req[r] \in Calls
  BY CallShape DEF CacheCommand, Stages
<1>3. req[r].pc \in {"store", "drop"}
  BY DEF CacheCommand, SerialInv, HandlerInv
<1>4. \/ req'[r] = Idle /\ req[r].pc = "drop"
      \/ /\ req'[r].pc = req[r].pc /\ req'[r].sid = req[r].sid
         /\ req'[r].now = req[r].now
  BY <1>2, <1>3 DEF CacheCommand, Retire, Calls
<1>5. AskOf(r)' = AskOf(r)
  <2>1. CASE req'[r] = Idle /\ req[r].pc = "drop"
    <3>1. AskOf(r) = [kind |-> "none"]
      BY <2>1, AskAt
    <3>2. AskOf(r)' = [kind |-> "none"]
      BY <2>1, AskAfter DEF Idle
    <3> QED
      BY <3>1, <3>2
  <2>2. CASE /\ req'[r].pc = req[r].pc /\ req'[r].sid = req[r].sid
             /\ req'[r].now = req[r].now
    BY <1>3, <2>2, AskAt, AskAfter
  <2> QED
    BY <1>4, <2>1, <2>2
<1>6. AskView' = AskView
  BY <1>5, AskUpdate DEF AskView, Step
<1> QED
  BY <1>1, <1>6 DEF AuthorityStep

\* A response delivers the granted token, or loses it.
LEMMA AnswerRefines ==
    ASSUME RowInv, SerialInv, Apart, Apart', NEW r \in Requests, Reply(r) \/ LoseReply(r)
    PROVE  AuthorityStep
<1> USE DEF RowInv, TypeOK
<1>1. StatusView' = StatusView /\ CurrentView' = CurrentView
  BY ViewsSame DEF Reply, LoseReply
<1>2. req[r].pc = "store" /\ ~req[r].failed
  BY DEF Reply, LoseReply, Finish, SerialInv, HandlerInv, Stages
<1>3. req'[r] = Idle
  BY <1>2 DEF Reply, LoseReply, Finish
<1>4. AskOf(r) = [kind |-> "granted", sid |-> req[r].sid, tok |-> req[r].now]
      /\ AskView[r] = AskOf(r)
  BY <1>2, AskAt DEF AskView
<1>5. AskOf(r)' = [kind |-> "none"]
  BY <1>3, AskAfter DEF Idle
<1>6. \/ held' = [held EXCEPT ![req[r].sid] = @ \cup {req[r].now}]
      \/ held' = held
  BY DEF Reply, LoseReply
<1>7. /\ AskView[r].kind = "granted"
      /\ \/ held' = [held EXCEPT ![AskView[r].sid] = @ \cup {AskView[r].tok}]
         \/ UNCHANGED held
      /\ AskView' = [AskView EXCEPT ![r] = Authority!NoAsk]
      /\ StatusView' = StatusView /\ CurrentView' = CurrentView
  BY <1>1, <1>4, <1>5, <1>6, AskUpdate DEF Authority!NoAsk, Step
<1>8. Authority!Deliver(r)
  BY <1>7 DEF Authority!Deliver, StatusView, CurrentView, AskView
<1> QED
  BY <1>8 DEF AuthorityStep, Authority!Next

\* Every step as long as handlers of one session do not overlap.
LEMMA StepRefines ==
    ASSUME Lossy, RowInv, SerialInv, Apart, Apart', [Next]_vars
    PROVE  AuthorityStep
<1>1. CASE Quiet
  <2>1. StatusView' = StatusView /\ CurrentView' = CurrentView /\ held' = held
    BY <1>1, ViewsSame DEF Quiet
  <2>2. AskView' = AskView
    BY <1>1 DEF Quiet, AskView, AskOf
  <2> QED
    BY <2>1, <2>2 DEF AuthorityStep
<1> QED
  BY <1>1, NoCommit, SerialNext, ArriveRefines, MoveRefines, CreateRefines, HitRefines,
     RevokeRefines, CommandRefines, AnswerRefines
  DEF Step, RowInv

\* For any number of sessions and handlers, as long as those of one session do
\* not overlap, the cached and asynchronously backed rotation is the token
\* authority.
THEOREM SerialRefinement == Lossy => (Spec /\ []Serial => ImplementsAuthority)
<1> SUFFICES ASSUME Lossy PROVE Spec /\ []Serial => ImplementsAuthority
  OBVIOUS
<1>1. RowInv /\ SerialInv /\ Serial /\ Serial' /\ [Next]_vars => [Authority!Next]_(Authority!vars)
  BY StepRefines DEF Serial, AuthorityStep, Authority!vars, StatusView, CurrentView, AskView
<1> QED
  BY <1>1, InitRefines, SerialInvariant, PTL
  DEF Spec, ImplementsAuthority, Authority!Spec
=============================================================================
