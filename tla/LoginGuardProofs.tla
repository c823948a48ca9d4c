--------------------------- MODULE LoginGuardProofs ---------------------------
(***************************************************************************)
(* Proofs about LoginGuard, for every limit and window and any number of   *)
(* addresses and of logins served at the same time.                        *)
(***************************************************************************)
EXTENDS LoginGuard, SequenceTheorems, FiniteSetTheorems, TLAPS

USE LimitAssumption, WindowAssumption, BoundAssumption
    DEF Ticks, NoBan, NoTtl, NoBlock, NotYet

(***************************************************************************)
(* What one step does to one login.                                        *)
(***************************************************************************)

\* A login at some stage is a full record.
LEMMA CallShape ==
    ASSUME TypeOK, NEW r \in Requests, req[r].pc \in Stages
    PROVE  req[r] \in Calls
BY DEF TypeOK, Idle, Stages

\* An idle slot is at no stage.
LEMMA IdleIsNoStage == Idle.pc \notin Stages
BY DEF Idle, Stages

\* GoTo changes the stage of one login and nothing else of it.
LEMMA GoToType ==
    ASSUME TypeOK, NEW r \in Requests, req[r].pc \in Stages, NEW p \in Stages, GoTo(r, p)
    PROVE  /\ req' \in [Requests -> {Idle} \cup Calls]
           /\ req'[r] = [req[r] EXCEPT !.pc = p]
<1>1. [req[r] EXCEPT !.pc = p] \in Calls
  BY CallShape DEF Calls
<1> QED
  BY <1>1 DEF GoTo, TypeOK

\* Records changes the stage of one login and stamps it with the tick.
LEMMA RecordsType ==
    ASSUME TypeOK, NEW r \in Requests, req[r].pc \in Stages, NEW p \in Stages, Records(r, p)
    PROVE  /\ req' \in [Requests -> {Idle} \cup Calls]
           /\ req'[r] = [req[r] EXCEPT !.pc = p, !.since = clock]
<1>1. [req[r] EXCEPT !.pc = p, !.since = clock] \in Calls
  BY CallShape DEF Calls, TypeOK
<1> QED
  BY <1>1 DEF Records, TypeOK

\* Answer ends one login.
LEMMA AnswerType ==
    ASSUME TypeOK, NEW r \in Requests, Answer(r)
    PROVE  req' \in [Requests -> {Idle} \cup Calls]
BY DEF Answer, TypeOK

\* A counted failure is the last entry of a history that keeps Limit of them.
LEMMA CountedType ==
    ASSUME TypeOK, NEW i \in Ips, Counted(i)
    PROVE  /\ count' \in [Ips -> [n : Nat, until : Nat]]
           /\ failed' \in [Ips -> Seq(Ticks)]
<1>1. failed[i] \in Seq(Ticks) /\ clock \in Ticks /\ count[i] \in [n : Nat, until : Nat]
  BY DEF TypeOK
<1>2. Append(failed[i], clock) \in Seq(Ticks) /\ Append(failed[i], clock) # <<>>
  <2> HIDE DEF Ticks
  <2>1. failed[i] \in Seq(Ticks) /\ clock \in Ticks
    BY <1>1
  <2> QED
    BY <2>1, AppendProperties
<1>3. Tail(Append(failed[i], clock)) \in Seq(Ticks)
  BY <1>2, HeadTailProperties
<1>4. [count[i] EXCEPT !.n = count[i].n + 1] \in [n : Nat, until : Nat]
  BY <1>1
<1> QED
  BY <1>2, <1>3, <1>4 DEF Counted, TypeOK

\* What is left to the desk is a state of the desk.
LEMMA RemainingType ==
    ASSUME TypeOK, NEW c, NEW b
    PROVE  Remaining(c, b) \in [phase : {"off", "blocks", "counts"}, todo : SUBSET Ips]
BY DEF Remaining, TypeOK

(***************************************************************************)
(* Types.                                                                  *)
(***************************************************************************)

\* Every step keeps the types.
LEMMA GuardTypeStep == TypeOK /\ [Next]_vars => TypeOK'
<1> SUFFICES ASSUME TypeOK, [Next]_vars PROVE TypeOK'
  OBVIOUS
<1> USE DEF TypeOK
<1>1. CASE Tick
  <2>1. count' \in [Ips -> [n : Nat, until : Nat]]
    BY <1>1 DEF Tick, NoKey
  <2>2. desk' \in [phase : {"off", "blocks", "counts"}, todo : SUBSET Ips]
    BY <1>1, RemainingType DEF Tick
  <2>3. block' \in [Ips -> Nat] /\ clock' \in Ticks
    BY <1>1 DEF Tick
  <2>4. late' \in SUBSET Ips
    <3>1. \A q \in Requests : Overdue(q) => req[q].ip \in Ips
      BY CallShape DEF Overdue, Stages, Calls
    <3> QED
      BY <1>1, <3>1 DEF Tick
  <2> QED
    BY <1>1, <2>1, <2>2, <2>3, <2>4 DEF Tick
<1>2. ASSUME NEW r \in Requests, Serve(r) PROVE TypeOK'
  <2>1. ASSUME NEW i \in Ips, BeginLogin(r, i) PROVE TypeOK'
    <3>1. [pc |-> "user", ip |-> i, row |-> NoRow, since |-> NotYet] \in Calls
      BY DEF Calls, Stages, NoRow, Rows, Statuses
    <3> QED
      BY <2>1, <3>1 DEF BeginLogin
  <2>2. CASE GetUser(r)
    <3>1. req[r] \in Calls
      BY <2>2, CallShape DEF GetUser, At, Stages
    <3>2. [req[r] EXCEPT !.pc = "locked", !.row = account] \in Calls
      BY <3>1 DEF Calls, Stages
    <3> QED
      BY <2>2, <3>2 DEF GetUser
  <2>3. CASE RefuseBlocked(r) \/ Abort(r)
    BY <2>3, AnswerType DEF RefuseBlocked, Abort
  <2>4. ASSUME At(r, "locked"), Admit(r) PROVE req' \in [Requests -> {Idle} \cup Calls]
    BY <2>4, GoToType, AnswerType DEF Admit, At, Stages
  <2>5. CASE NotBlocked(r) \/ LookupFails(r)
    <3>1. req[r].ip \in Ips
      BY <2>5, CallShape DEF NotBlocked, LookupFails, At, Stages, Calls
    <3> QED
      BY <2>4, <2>5, <3>1 DEF NotBlocked, LookupFails
  <2>6. CASE LiftBan(r)
    <3>1. account' \in Rows
      BY <2>6 DEF LiftBan, Rows, Statuses
    <3> QED
      BY <2>6, <3>1, GoToType, AnswerType DEF LiftBan, At, Stages
  <2>7. CASE Mismatch(r) \/ Match(r)
    BY <2>7, GoToType DEF Mismatch, Match, At, Stages
  <2>8. CASE RecordFailedLogin(r)
    <3>1. req[r].ip \in Ips
      BY <2>8, CallShape DEF RecordFailedLogin, At, Stages, Calls
    <3> QED
      BY <2>8, <3>1, CountedType, RecordsType, AnswerType DEF RecordFailedLogin, At, Stages
  <2>9. CASE OpenWindow(r) \/ BlockPair(r)
    <3>1. req[r].ip \in Ips
      BY <2>9, CallShape DEF OpenWindow, BlockPair, At, Stages, Calls
    <3>2. clock + Window \in Nat
      OBVIOUS
    <3>3. count[req[r].ip] \in [n : Nat, until : Nat]
      BY <3>1
    <3>4. [count[req[r].ip] EXCEPT !.until = clock + Window] \in [n : Nat, until : Nat]
      BY <3>2, <3>3
    <3>5. req' \in [Requests -> {Idle} \cup Calls]
      BY <2>9, AnswerType DEF OpenWindow, BlockPair
    <3>6. [count EXCEPT ![req[r].ip].until = clock + Window] \in [Ips -> [n : Nat, until : Nat]]
      BY <3>4
    <3>7. \/ count' = count
          \/ count' = [count EXCEPT ![req[r].ip].until = clock + Window]
      BY <2>9, Zenon DEF OpenWindow, BlockPair
    <3>8. block' \in [Ips -> Nat]
      BY <2>9, <3>2 DEF OpenWindow, BlockPair
    <3> QED
      BY <2>9, <3>5, <3>6, <3>7, <3>8 DEF OpenWindow, BlockPair
  <2>10. CASE RecordFails(r)
    <3>1. req[r].ip \in Ips
      BY <2>10, CallShape DEF RecordFails, At, Stages, Calls
    <3> QED
      BY <2>10, <3>1, CountedType, AnswerType DEF RecordFails
  <2>11. CASE ClearFailedLogin(r)
    <3>1. count' \in [Ips -> [n : Nat, until : Nat]] /\ block' \in [Ips -> Nat]
      BY <2>11 DEF ClearFailedLogin, NoKey
    <3>2. desk' \in [phase : {"off", "blocks", "counts"}, todo : SUBSET Ips]
      BY <2>11, RemainingType DEF ClearFailedLogin
    <3> QED
      BY <2>11, <3>1, <3>2, AnswerType DEF ClearFailedLogin
  <2> QED
    BY <1>2, <2>1, <2>2, <2>3, <2>5, <2>6, <2>7, <2>8, <2>9, <2>10, <2>11 DEF Serve
<1>3. CASE Unblock
  <2>1. CASE BeginUnblock \/ ScanCounts \/ EndUnblock \/ UnblockFails
    BY <2>1 DEF BeginUnblock, ScanCounts, EndUnblock, UnblockFails, Away
  <2>2. ASSUME NEW i \in Ips, UnblockPair(i) PROVE TypeOK'
    BY <2>2, RemainingType DEF UnblockPair
  <2>3. ASSUME NEW i \in Ips, ForgetCount(i) PROVE TypeOK'
    <3>1. count' \in [Ips -> [n : Nat, until : Nat]]
      BY <2>3 DEF ForgetCount, NoKey
    <3>2. desk' \in [phase : {"off", "blocks", "counts"}, todo : SUBSET Ips]
      BY <2>3, RemainingType DEF ForgetCount
    <3> QED
      BY <2>3, <3>1, <3>2 DEF ForgetCount
  <2> QED
    BY <1>3, <2>1, <2>2, <2>3 DEF Unblock
<1>4. ASSUME NEW row \in Rows, AdminUpdate(row) PROVE TypeOK'
  BY <1>4 DEF AdminUpdate
<1>5. CASE Crash
  BY <1>5 DEF Crash, Away
<1>6. CASE UNCHANGED vars
  BY <1>6 DEF vars
<1> QED
  BY <1>1, <1>2, <1>3, <1>4, <1>5, <1>6 DEF Next

\* The variables keep their types.
THEOREM GuardTypeCorrect == Spec => []TypeOK
<1>1. Init => TypeOK
  BY DEF Init, TypeOK, Rows, Statuses, NoKey, Away
<1> QED
  BY <1>1, GuardTypeStep, PTL DEF Spec

(***************************************************************************)
(* Bans.  While a login is between its SELECT and its COMMIT the row can   *)
(* only lose its ban, as long as administrators keep away.                 *)
(***************************************************************************)

\* The row a login holds still tells the ban, or the ban has been lifted.
FreshRow(r) ==
    /\ req[r].pc \in {"locked", "lift"} => account.ban \in {NoBan, req[r].row.ban}
    /\ req[r].pc = "lift" => req[r].row.ban <= clock

FreshRows == \A r \in Requests : FreshRow(r)

\* A login that stays as it is keeps a fresh row when the row loses its ban.
LEMMA KeptFresh ==
    ASSUME TypeOK, FreshRows, NEW r \in Requests, req'[r] = req[r],
           account'.ban \in {NoBan, account.ban}, clock' \in {clock, clock + 1}
    PROVE  FreshRow(r)'
<1>1. req[r].pc \in {"locked", "lift"} => req[r].row.ban \in Nat
  <2>1. req[r].pc \in {"locked", "lift"} => req[r].row.ban \in BanEnds \cup {NoBan}
    BY CallShape DEF Stages, Calls, Rows
  <2>2. \A t \in BanEnds : t \in Nat
    BY BanAssumption
  <2> QED
    BY <2>1, <2>2
<1>2. clock \in Nat /\ FreshRow(r)
  BY DEF TypeOK, FreshRows
<1> QED
  BY <1>1, <1>2 DEF FreshRow

\* A login beyond both stages, or ended, has nothing to keep.
LEMMA PastFresh ==
    ASSUME NEW r \in Requests, req'[r].pc \notin {"locked", "lift"}
    PROVE  FreshRow(r)'
BY DEF FreshRow

\* The checks past the lockout: what a login goes on with, it has just seen.
LEMMA FreshAdmit ==
    ASSUME TypeOK, FreshRows, NEW r \in Requests, At(r, "locked"), Admit(r),
           UNCHANGED <<clock, account>>
    PROVE  FreshRows'
<1>1. req[r] \in Calls
  BY CallShape DEF At, Stages
<1>2. \A q \in Requests \ {r} : req'[q] = req[q]
  BY DEF Admit, GoTo, Answer, TypeOK
<1>3. FreshRow(r)'
  <2>1. CASE GoTo(r, "lift") /\ req[r].row.ban <= clock
    <3>1. req'[r] = [req[r] EXCEPT !.pc = "lift"]
      BY <2>1, GoToType DEF At, Stages
    <3>2. req'[r].row = req[r].row
      BY <1>1, <3>1 DEF Calls
    <3> QED
      BY <2>1, <3>2 DEF FreshRows, FreshRow, At
  <2>2. CASE GoTo(r, "verify")
    <3>1. req'[r] = [req[r] EXCEPT !.pc = "verify"]
      BY <2>2, GoToType DEF At, Stages
    <3>2. req'[r].pc = "verify"
      BY <1>1, <3>1 DEF Calls
    <3> QED
      BY <3>2, PastFresh
  <2>3. CASE Answer(r)
    BY <2>3, PastFresh DEF Answer, TypeOK, Idle
  <2> QED
    BY <2>1, <2>2, <2>3 DEF Admit
<1> QED
  BY <1>2, <1>3, KeptFresh DEF FreshRows

\* Every step of a login keeps the rows that others hold up to date.
LEMMA FreshServe ==
    ASSUME TypeOK, FreshRows, NEW r \in Requests, Serve(r)
    PROVE  FreshRows'
<1>1. CASE NotBlocked(r) \/ LookupFails(r)
  BY <1>1, FreshAdmit DEF NotBlocked, LookupFails
<1>2. CASE GetUser(r)
  <2>1. req[r] \in Calls /\ req'[r] = [req[r] EXCEPT !.pc = "locked", !.row = account]
    BY <1>2, CallShape DEF GetUser, At, Stages, TypeOK
  <2>2. req'[r].pc = "locked" /\ req'[r].row = account
    BY <2>1 DEF Calls
  <2>3. \A q \in Requests \ {r} : req'[q] = req[q]
    BY <1>2 DEF GetUser, TypeOK
  <2>4. UNCHANGED <<clock, account>>
    BY <1>2 DEF GetUser
  <2>5. FreshRow(r)'
    BY <2>2, <2>4 DEF FreshRow
  <2> QED
    BY <2>3, <2>4, <2>5, KeptFresh DEF FreshRows
<1>3. ASSUME clock' = clock, account'.ban \in {NoBan, account.ban},
             \/ Answer(r)
             \/ \E p \in {"verify", "count", "clear"} : GoTo(r, p)
             \/ \E p \in {"window", "block"} : Records(r, p),
             req[r].pc \in Stages
      PROVE  FreshRows'
  <2>1. req'[r].pc \notin {"locked", "lift"}
    <3>1. CASE Answer(r)
      BY <3>1 DEF Answer, TypeOK, Idle
    <3>2. ASSUME NEW p \in {"verify", "count", "clear"}, GoTo(r, p)
          PROVE  req'[r].pc = p
      <4>1. req'[r] = [req[r] EXCEPT !.pc = p] /\ req[r] \in Calls
        BY <1>3, <3>2, GoToType, CallShape DEF Stages
      <4> QED
        BY <4>1 DEF Calls
    <3>3. ASSUME NEW p \in {"window", "block"}, Records(r, p)
          PROVE  req'[r].pc = p
      <4>1. req'[r] = [req[r] EXCEPT !.pc = p, !.since = clock] /\ req[r] \in Calls
        BY <1>3, <3>3, RecordsType, CallShape DEF Stages
      <4> QED
        BY <4>1 DEF Calls
    <3> QED
      BY <1>3, <3>1, <3>2, <3>3
  <2>2. \A q \in Requests \ {r} : req'[q] = req[q]
    BY <1>3 DEF GoTo, Records, Answer, TypeOK
  <2> QED
    BY <1>3, <2>1, <2>2, KeptFresh, PastFresh DEF FreshRows
<1>4. CASE RefuseBlocked(r) \/ Abort(r) \/ Mismatch(r) \/ Match(r)
  BY <1>3, <1>4 DEF RefuseBlocked, Abort, Mismatch, Match, At, Stages
<1>5. CASE LiftBan(r)
  BY <1>3, <1>5 DEF LiftBan, At, Stages
<1>6. CASE RecordFailedLogin(r)
  BY <1>3, <1>6 DEF RecordFailedLogin, At, Stages
<1>7. CASE OpenWindow(r) \/ BlockPair(r) \/ RecordFails(r) \/ ClearFailedLogin(r)
  BY <1>3, <1>7 DEF OpenWindow, BlockPair, RecordFails, ClearFailedLogin, At, Stages
<1>8. ASSUME NEW i \in Ips, BeginLogin(r, i) PROVE FreshRows'
  <2>1. req'[r].pc = "user" /\ \A q \in Requests \ {r} : req'[q] = req[q]
    BY <1>8 DEF BeginLogin, TypeOK
  <2> QED
    BY <1>8, <2>1, KeptFresh, PastFresh DEF BeginLogin, FreshRows
<1> QED
  BY <1>1, <1>2, <1>4, <1>5, <1>6, <1>7, <1>8 DEF Serve

\* Without administrators a login holds the row there is, or one with a lifted ban.
LEMMA FreshInvariant ==
    ASSUME "admin" \notin Env
    PROVE  Spec => [](TypeOK /\ FreshRows)
<1>1. Init => TypeOK /\ FreshRows
  BY DEF Init, TypeOK, FreshRows, FreshRow, Rows, Statuses, NoKey, Away, Idle
<1>2. TypeOK /\ FreshRows /\ [Next]_vars => TypeOK' /\ FreshRows'
  <2> SUFFICES ASSUME TypeOK, FreshRows, [Next]_vars PROVE FreshRows'
    BY GuardTypeStep
  <2>1. ASSUME NEW row \in Rows, AdminUpdate(row) PROVE FreshRows'
    BY <2>1, PastFresh DEF AdminUpdate, FreshRows, Idle
  <2>2. CASE Tick \/ Unblock \/ UNCHANGED vars
    BY <2>2, KeptFresh DEF Tick, Unblock, BeginUnblock, ScanCounts, EndUnblock, UnblockFails,
       UnblockPair, ForgetCount, vars, FreshRows
  <2>3. CASE Crash
    BY <2>3, PastFresh DEF Crash, FreshRows, Idle
  <2> QED
    BY <2>1, <2>2, <2>3, FreshServe DEF Next
<1> QED
  BY <1>1, <1>2, PTL DEF Spec

\* As long as administrators do not write the row while a login is served, a
\* login lifts a ban only when it is over (auth_service.py:160).
THEOREM BansRunOut ==
    ASSUME "admin" \notin Env
    PROVE  Spec => LiftsOnlyExpired
<1>1. TypeOK /\ FreshRows /\ [Next]_vars =>
        [\A r \in Requests :
            /\ At(r, "lift")
            /\ req'[r] # req[r]
            /\ account' # account
            => account.ban <= clock]_vars
  <2> SUFFICES ASSUME TypeOK, FreshRows, NEW r \in Requests, At(r, "lift")
               PROVE  account.ban <= clock
    OBVIOUS
  <2>1. account.ban = NoBan \/ account.ban <= clock
    BY DEF FreshRows, FreshRow, At
  <2> QED
    BY <2>1 DEF TypeOK
<1>2. Spec => [](TypeOK /\ FreshRows)
  BY FreshInvariant
<1> QED
  BY <1>1, <1>2, PTL DEF Spec, LiftsOnlyExpired
=============================================================================
