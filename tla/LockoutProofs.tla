----------------------------- MODULE LockoutProofs -----------------------------
(***************************************************************************)
(* What the lockout promises for an address none of whose calls failed and *)
(* whose EXPIREs and SETs were on time, for every limit, window and delay, *)
(* and any number of addresses and logins: its counter ends, at the limit  *)
(* a block stands until the counter is about to end, it is locked only for *)
(* recent failures, and it is tried only so often.                         *)
(***************************************************************************)
EXTENDS LoginGuardProofs

USE LimitAssumption, WindowAssumption, BoundAssumption
    DEF Ticks, NoBan, NoTtl, NoBlock, NotYet

(***************************************************************************)
(* The logins at a stage, and their number.                                *)
(***************************************************************************)

\* The logins from i at one of the stages ps.
Logins(i, ps) == {r \in Requests : req[r].pc \in ps /\ req[r].ip = i}

\* About to send EXPIRE, about to send SET, and past the lockout check with the
\* count still to come.
Opening(i)  == Logins(i, {"window"})
Locking(i)  == Logins(i, {"block"})
Guessing(i) == Logins(i, {"lift", "verify", "count"})

Slots == Cardinality(Requests)

\* Every login but r stays as it is.
Others(r) == \A q \in Requests \ {r} : req'[q] = req[q]

\* There are at most as many logins at a stage as there are slots, and a slot.
LEMMA LoginsFinite ==
    ASSUME NEW i, NEW ps
    PROVE  /\ IsFiniteSet(Logins(i, ps)) /\ Cardinality(Logins(i, ps)) \in Nat
           /\ Slots \in Nat \ {0} /\ Cardinality(Logins(i, ps)) <= Slots
<1>1. Logins(i, ps) \subseteq Requests
  BY DEF Logins
<1>2. Slots \in Nat /\ Slots # 0
  BY RequestsAssumption, FS_CardinalityType, FS_EmptySet DEF Slots
<1> QED
  BY <1>1, <1>2, RequestsAssumption, FS_Subset, FS_CardinalityType DEF Slots

\* The same of the next state.
LEMMA LoginsFiniteNext ==
    ASSUME NEW i, NEW ps
    PROVE  /\ Cardinality(Logins(i, ps)') \in Nat
           /\ Cardinality(Logins(i, ps)') <= Slots
<1>1. Logins(i, ps)' \subseteq Requests
  BY DEF Logins
<1> QED
  BY <1>1, RequestsAssumption, FS_Subset, FS_CardinalityType DEF Slots

\* Their number is monotone.
LEMMA FewerLogins ==
    ASSUME NEW i, NEW ps, Logins(i, ps)' \subseteq Logins(i, ps)
    PROVE  Cardinality(Logins(i, ps)') <= Cardinality(Logins(i, ps))
BY LoginsFinite, FS_Subset

\* A login that neither is nor ends up at one of the stages ps for i leaves
\* open who is there.
LEMMA SameLogins ==
    ASSUME NEW r \in Requests, Others(r), NEW i, NEW ps,
           req[r].pc \in ps => req[r].ip # i,
           req'[r].pc \in ps => req'[r].ip # i
    PROVE  Logins(i, ps)' = Logins(i, ps)
BY DEF Others, Logins

\* One login that comes to the stages ps adds one.
LEMMA OneMoreLogin ==
    ASSUME NEW r \in Requests, Others(r), NEW i, NEW ps,
           req[r].pc \notin ps, req'[r].pc \in ps, req'[r].ip = i
    PROVE  /\ Logins(i, ps)' = Logins(i, ps) \cup {r}
           /\ Cardinality(Logins(i, ps)') = Cardinality(Logins(i, ps)) + 1
<1>1. Logins(i, ps)' = Logins(i, ps) \cup {r} /\ r \notin Logins(i, ps)
  BY DEF Others, Logins
<1> QED
  BY <1>1, LoginsFinite, FS_AddElement

\* One login that leaves the stages ps takes one away.
LEMMA OneLoginLess ==
    ASSUME NEW r \in Requests, Others(r), NEW i, NEW ps,
           req[r].pc \in ps, req[r].ip = i, req'[r].pc \notin ps
    PROVE  /\ Logins(i, ps)' = Logins(i, ps) \ {r}
           /\ Cardinality(Logins(i, ps)') = Cardinality(Logins(i, ps)) - 1
<1>1. Logins(i, ps)' = Logins(i, ps) \ {r} /\ r \in Logins(i, ps)
  BY DEF Others, Logins
<1>2. IsFiniteSet(Logins(i, ps))
  BY LoginsFinite
<1>3. Cardinality(Logins(i, ps) \ {r}) = Cardinality(Logins(i, ps)) - 1
  BY <1>1, <1>2, FS_RemoveElement
<1> QED
  BY <1>1, <1>3

\* A login is at one stage at a time.
LEMMA StagesApart ==
    ASSUME NEW i, NEW ps, NEW qs, ps \cap qs = {}
    PROVE  /\ Cardinality(Logins(i, ps \cup qs)) =
                Cardinality(Logins(i, ps)) + Cardinality(Logins(i, qs))
           /\ Cardinality(Logins(i, ps)) + Cardinality(Logins(i, qs)) <= Slots
<1>1. PICK S, T : S = Logins(i, ps) /\ T = Logins(i, qs)
  OBVIOUS
<1>2. S \cap T = {} /\ S \cup T = Logins(i, ps \cup qs)
  BY <1>1 DEF Logins
<1>3. IsFiniteSet(S) /\ IsFiniteSet(T) /\ Cardinality(S) \in Nat /\ Cardinality(T) \in Nat
  BY <1>1, LoginsFinite
<1>4. Cardinality(S \cup T) = Cardinality(S) + Cardinality(T)
  BY <1>2, <1>3, FS_Union, FS_EmptySet
<1>5. Cardinality(Logins(i, ps \cup qs)) <= Slots
  BY LoginsFinite
<1> QED
  BY <1>1, <1>2, <1>4, <1>5

\* A login that waits leaves at most the other slots to the rest.
LEMMA OneSlotTaken ==
    ASSUME NEW i, NEW ps, NEW qs, ps \cap qs = {}, Logins(i, ps) # {}
    PROVE  Cardinality(Logins(i, qs)) + 1 <= Slots
<1>1. Cardinality(Logins(i, ps)) \in Nat /\ Cardinality(Logins(i, ps)) # 0
  BY LoginsFinite, FS_EmptySet
<1>2. Cardinality(Logins(i, ps)) + Cardinality(Logins(i, qs)) <= Slots
  BY StagesApart
<1>3. Cardinality(Logins(i, qs)) \in Nat /\ Slots \in Nat
  BY LoginsFinite
<1> QED
  BY <1>1, <1>2, <1>3

(***************************************************************************)
(* What the steps do to an address.  One login at a time works on counter  *)
(* and block; for all other addresses, and in all other steps, keys stay   *)
(* or disappear and the logins at work on them are the same.               *)
(***************************************************************************)

\* The desk has nothing to say about the counter of i, or has dealt with it.
Settled(i) == desk.phase = "off" \/ (desk.phase = "counts" /\ i \notin desk.todo)

\* The logins about to write a key of i are the same, and as old.
Alike(i) ==
    /\ Opening(i)' = Opening(i) /\ Locking(i)' = Locking(i)
    /\ \A q \in Opening(i) \cup Locking(i) : req'[q].since = req[q].since

\* Counter and block of i stay, and the desk had no say or had nothing to find;
\* or the counter goes; or the desk takes the block and has the counter to find.
Kept(i)      == /\ count'[i] = count[i] /\ block'[i] = block[i]
                /\ Settled(i)' => Settled(i) \/ count[i].n = 0
Gone(i)      == count'[i] = NoKey /\ block'[i] \in {block[i], NoBlock}
Unblocked(i) == count'[i] = count[i] /\ block'[i] = NoBlock /\ ~Settled(i)'

\* Nothing is recorded for i, and nobody passes a block but by a failed call.
Quiet(i) ==
    /\ UNCHANGED clock /\ failed'[i] = failed[i]
    /\ faulted \subseteq faulted' /\ late \subseteq late'
    /\ Alike(i)
    /\ block[i] # NoBlock /\ i \notin faulted' => Guessing(i)' \subseteq Guessing(i)
    /\ i \notin faulted' => Kept(i) \/ Gone(i) \/ Unblocked(i)
    /\ Gone(i) \/ (count'[i] = count[i] /\ block'[i] \in {block[i], NoBlock})

\* INCR by r, EXPIRE, SET, and a command that raises.
Counts(r, i) ==
    /\ UNCHANGED <<clock, block, desk, faulted, late>> /\ Counted(i) /\ Others(r)
    /\ req[r].pc = "count" /\ req[r].ip = i
    /\ count'[i].n = count[i].n + 1 /\ count'[i].until = count[i].until
    /\ req'[r].pc \in {"idle", "window", "block"}
    /\ req'[r].pc # "idle" => req'[r].ip = i /\ req'[r].since = clock
    /\ req'[r].pc = "window" <=> count[i].n = 0
    /\ req'[r].pc = "block" <=> count[i].n + 1 >= Limit

Opens(r, i) ==
    /\ UNCHANGED <<clock, block, desk, failed, faulted, late>> /\ Others(r)
    /\ req[r].pc = "window" /\ req[r].ip = i /\ req'[r].pc = "idle"
    /\ count'[i].n = count[i].n
    /\ count'[i].until = IF count[i].n > 0 THEN clock + Window ELSE count[i].until

Sets(r, i) ==
    /\ UNCHANGED <<clock, count, desk, failed, faulted, late>> /\ Others(r)
    /\ req[r].pc = "block" /\ req[r].ip = i /\ req'[r].pc = "idle"
    /\ block'[i] = clock + Window

Fails(r, i) ==
    /\ UNCHANGED <<clock, block, desk, late>> /\ Others(r) /\ req'[r].pc = "idle"
    /\ count'[i].until = count[i].until /\ count'[i].n \in {count[i].n, count[i].n + 1}
    /\ i \in faulted'

\* One login's work on the keys of i.
Writes(r, i) == Counts(r, i) \/ Opens(r, i) \/ Sets(r, i) \/ Fails(r, i)

\* A login that neither was nor is about to write a key of i changes nothing for it.
LEMMA OthersAlike ==
    ASSUME NEW r \in Requests, Others(r), NEW i,
           req[r].pc \in {"window", "block"} => req[r].ip # i,
           req'[r].pc \in {"window", "block"} => req'[r].ip # i
    PROVE  Alike(i)
<1>1. Opening(i)' = Opening(i) /\ Locking(i)' = Locking(i)
  BY SameLogins DEF Opening, Locking
<1>2. r \notin Opening(i) \cup Locking(i) /\ Opening(i) \cup Locking(i) \subseteq Requests
  BY DEF Opening, Locking, Logins
<1> QED
  BY <1>1, <1>2 DEF Alike, Others

\* When r writes for another address, i is left alone.
LEMMA OtherAddress ==
    ASSUME NEW r \in Requests, Others(r), NEW i \in Ips, req[r].ip # i,
           req'[r].pc # "idle" => req'[r].ip # i,
           UNCHANGED <<clock, desk, late>>, faulted \subseteq faulted',
           count'[i] = count[i], block'[i] = block[i], failed'[i] = failed[i]
    PROVE  Quiet(i)
<1>1. Alike(i)
  BY OthersAlike
<1>2. Guessing(i)' = Guessing(i)
  BY SameLogins DEF Guessing
<1>3. Kept(i)
  BY DEF Kept, Settled
<1> QED
  BY <1>1, <1>2, <1>3 DEF Quiet

\* What a login does to itself when it answers or changes stage.
LEMMA ReqStep ==
    ASSUME TypeOK, NEW r \in Requests, NEW p \in Stages,
           Answer(r) \/ (req[r].pc \in Stages /\ GoTo(r, p))
    PROVE  /\ Others(r) /\ req'[r].pc \in {"idle", p}
           /\ req'[r].pc # "idle" => req'[r].pc = p /\ req'[r].ip = req[r].ip
<1>1. CASE Answer(r)
  BY <1>1 DEF Answer, TypeOK, Idle, Others
<1>2. CASE req[r].pc \in Stages /\ GoTo(r, p)
  <2>1. req'[r] = [req[r] EXCEPT !.pc = p] /\ req[r] \in Calls
    BY <1>2, GoToType, CallShape
  <2> QED
    BY <1>2, <2>1 DEF GoTo, TypeOK, Calls, Others
<1> QED
  BY <1>1, <1>2

\* The stages of a login before its failure is recorded.
Calm(r) ==
    \/ \E i \in Ips : BeginLogin(r, i)
    \/ GetUser(r) \/ RefuseBlocked(r) \/ NotBlocked(r) \/ LookupFails(r)
    \/ LiftBan(r) \/ Mismatch(r) \/ Match(r) \/ Abort(r)

\* Such a step leaves the keys alone, and stays away from the stages that write.
LEMMA CalmStep ==
    ASSUME TypeOK, NEW r \in Requests, Calm(r)
    PROVE  /\ UNCHANGED <<clock, count, block, desk, failed, late>>
           /\ faulted \subseteq faulted' /\ Others(r)
           /\ req[r].pc \notin {"window", "block"}
           /\ req'[r].pc \notin {"window", "block"}
<1>1. ASSUME NEW i \in Ips, BeginLogin(r, i)
      PROVE  Others(r) /\ req[r].pc = "idle" /\ req'[r].pc = "user"
  BY <1>1 DEF BeginLogin, TypeOK, Idle, Others
<1>2. CASE GetUser(r)
  <2>1. req[r] \in Calls
    BY <1>2, CallShape DEF GetUser, At, Stages
  <2> QED
    BY <1>2, <2>1 DEF GetUser, At, TypeOK, Calls, Others
<1>3. CASE RefuseBlocked(r) \/ Abort(r)
  BY <1>3 DEF RefuseBlocked, Abort, At, Answer, TypeOK, Idle, Others
<1>4. CASE NotBlocked(r) \/ LookupFails(r)
  <2>1. Answer(r) \/ GoTo(r, "lift") \/ GoTo(r, "verify")
    BY <1>4 DEF NotBlocked, LookupFails, Admit
  <2>2. req[r].pc = "locked"
    BY <1>4 DEF NotBlocked, LookupFails, At
  <2>3. Others(r) /\ req'[r].pc \in {"idle", "lift", "verify"}
    BY <2>1, <2>2, ReqStep DEF Stages
  <2> QED
    BY <1>4, <2>2, <2>3 DEF NotBlocked, LookupFails
<1>5. CASE LiftBan(r)
  <2>1. Answer(r) \/ GoTo(r, "verify")
    BY <1>5 DEF LiftBan
  <2>2. req[r].pc = "lift"
    BY <1>5 DEF LiftBan, At
  <2>3. Others(r) /\ req'[r].pc \in {"idle", "verify"}
    BY <2>1, <2>2, ReqStep DEF Stages
  <2> QED
    BY <1>5, <2>2, <2>3 DEF LiftBan
<1>6. CASE Mismatch(r) \/ Match(r)
  <2>1. Others(r) /\ req[r].pc = "verify" /\ req'[r].pc \in {"idle", "count", "clear"}
    BY <1>6, ReqStep DEF Mismatch, Match, At, Stages
  <2> QED
    BY <1>6, <2>1 DEF Mismatch, Match
<1> QED
  BY <1>1, <1>2, <1>3, <1>4, <1>5, <1>6 DEF Calm, BeginLogin

\* Nobody passes a block, except when the look-up fails.
LEMMA CalmAdmits ==
    ASSUME TypeOK, NEW r \in Requests, Calm(r), NEW i \in Ips,
           block[i] # NoBlock, i \notin faulted'
    PROVE  Guessing(i)' \subseteq Guessing(i)
<1> DEFINE Admitted == {"lift", "verify", "count"}
<1> SUFFICES ASSUME req'[r].pc \in Admitted, req'[r].ip = i
             PROVE  req[r].pc \in Admitted /\ req[r].ip = i
  BY CalmStep DEF Guessing, Logins, Others
<1>1. CASE GetUser(r) \/ \E j \in Ips : BeginLogin(r, j)
  <2>1. CASE GetUser(r)
    <3>1. req[r] \in Calls
      BY <2>1, CallShape DEF GetUser, At, Stages
    <3>2. req'[r].pc = "locked"
      BY <2>1, <3>1 DEF GetUser, TypeOK, Calls
    <3> QED
      BY <3>2
  <2>2. ASSUME NEW j \in Ips, BeginLogin(r, j) PROVE req'[r].pc = "user"
    BY <2>2 DEF BeginLogin, TypeOK
  <2> QED
    BY <1>1, <2>1, <2>2
<1>2. CASE RefuseBlocked(r) \/ Abort(r)
  BY <1>2 DEF RefuseBlocked, Abort, Answer, TypeOK, Idle
<1>3. CASE NotBlocked(r) \/ LookupFails(r)
  <2>1. Answer(r) \/ GoTo(r, "lift") \/ GoTo(r, "verify")
    BY <1>3 DEF NotBlocked, LookupFails, Admit
  <2>2. req[r].pc \in Stages
    BY <1>3 DEF NotBlocked, LookupFails, At, Stages
  <2>3. req'[r].pc # "idle" => req'[r].ip = req[r].ip
    BY <2>1, <2>2, ReqStep DEF Stages
  <2>4. req[r].ip # i
    BY <1>3 DEF NotBlocked, LookupFails
  <2> QED
    BY <2>3, <2>4
<1>4. CASE LiftBan(r) \/ Mismatch(r) \/ Match(r)
  <2>1. Answer(r) \/ GoTo(r, "verify") \/ GoTo(r, "count") \/ GoTo(r, "clear")
    BY <1>4 DEF LiftBan, Mismatch, Match
  <2>2. req[r].pc \in Stages /\ req[r].pc \in Admitted
    BY <1>4 DEF LiftBan, Mismatch, Match, At, Stages
  <2>3. req'[r].pc # "idle" => req'[r].ip = req[r].ip
    BY <2>1, <2>2, ReqStep DEF Stages
  <2> QED
    BY <2>2, <2>3
<1> QED
  BY <1>1, <1>2, <1>3, <1>4 DEF Calm

\* So it is quiet for every address.
LEMMA CalmIsQuiet ==
    ASSUME TypeOK, NEW r \in Requests, Calm(r), NEW i \in Ips
    PROVE  Quiet(i)
<1>1. Alike(i)
  BY CalmStep, OthersAlike
<1>2. block[i] # NoBlock /\ i \notin faulted' => Guessing(i)' \subseteq Guessing(i)
  BY CalmAdmits
<1>3. Kept(i)
  BY CalmStep DEF Kept, Settled
<1> QED
  BY <1>1, <1>2, <1>3, CalmStep DEF Quiet, Kept

\* INCR, and the stage that its answer leads to.
LEMMA RecordCounts ==
    ASSUME TypeOK, NEW r \in Requests, RecordFailedLogin(r)
    PROVE  \E i \in Ips : Counts(r, i) /\ \A k \in Ips \ {i} : Quiet(k)
<1>1. PICK i \in Ips : req[r].ip = i
  BY CallShape DEF RecordFailedLogin, At, Stages, Calls
<1>2. req[r].pc = "count" /\ req[r].pc \in Stages /\ req[r] \in Calls /\ count[i].n \in Nat
  BY <1>1, CallShape DEF RecordFailedLogin, At, Stages, TypeOK
<1>3. Counted(i) /\ UNCHANGED <<clock, block, desk, faulted, late>>
  BY <1>1 DEF RecordFailedLogin
<1>4. /\ count'[i].n = count[i].n + 1 /\ count'[i].until = count[i].until
      /\ \A k \in Ips \ {i} : count'[k] = count[k] /\ failed'[k] = failed[k]
  BY <1>3 DEF Counted, TypeOK
<1>5. \/ count[i].n + 1 = 1 /\ Records(r, "window")
      \/ count[i].n + 1 > 1 /\ count[i].n + 1 < Limit /\ Answer(r)
      \/ count[i].n + 1 >= Limit /\ Records(r, "block")
  BY <1>1, Zenon DEF RecordFailedLogin
<1>6. ASSUME NEW p \in {"window", "block"}, Records(r, p)
      PROVE  req'[r].pc = p /\ req'[r].ip = i /\ req'[r].since = clock /\ Others(r)
  <2>1. req'[r] = [req[r] EXCEPT !.pc = p, !.since = clock]
    BY <1>2, <1>6, RecordsType DEF Stages
  <2> QED
    BY <1>1, <1>2, <1>6, <2>1 DEF Records, TypeOK, Calls, Others
<1>7. Answer(r) => req'[r].pc = "idle" /\ Others(r)
  BY DEF Answer, TypeOK, Idle, Others
<1>8. /\ Others(r) /\ req'[r].pc \in {"idle", "window", "block"}
      /\ req'[r].pc # "idle" => req'[r].ip = i /\ req'[r].since = clock
      /\ req'[r].pc = "window" <=> count[i].n = 0
      /\ req'[r].pc = "block" <=> count[i].n + 1 >= Limit
  BY <1>2, <1>5, <1>6, <1>7
<1>9. Counts(r, i)
  BY <1>1, <1>2, <1>3, <1>4, <1>8 DEF Counts
<1>10. ASSUME NEW k \in Ips \ {i} PROVE Quiet(k)
  BY <1>1, <1>3, <1>4, <1>8, OtherAddress
<1> QED
  BY <1>9, <1>10

\* EXPIRE of the counter, for a window from now on.
LEMMA OpenOpens ==
    ASSUME TypeOK, NEW r \in Requests, OpenWindow(r)
    PROVE  \E i \in Ips : Opens(r, i) /\ \A k \in Ips \ {i} : Quiet(k)
<1>1. PICK i \in Ips : req[r].ip = i
  BY CallShape DEF OpenWindow, At, Stages, Calls
<1>2. /\ req[r].pc = "window" /\ req'[r].pc = "idle" /\ Others(r)
      /\ UNCHANGED <<clock, block, desk, failed, faulted, late>>
      /\ count[i].n \in Nat /\ count[i].until \in Nat
  BY <1>1 DEF OpenWindow, At, Answer, TypeOK, Idle, Others
<1>3. count' = IF count[i].n > 0 THEN [count EXCEPT ![i].until = clock + Window] ELSE count
  BY <1>1 DEF OpenWindow
<1>4. /\ count'[i].n = count[i].n
      /\ count'[i].until = IF count[i].n > 0 THEN clock + Window ELSE count[i].until
      /\ \A k \in Ips \ {i} : count'[k] = count[k]
  <2>1. CASE count[i].n > 0
    <3>1. count' = [count EXCEPT ![i].until = clock + Window]
      BY <1>3, <2>1
    <3> QED
      BY <2>1, <3>1 DEF TypeOK
  <2>2. CASE ~(count[i].n > 0)
    BY <1>3, <2>2
  <2> QED
    BY <2>1, <2>2
<1>5. \A k \in Ips \ {i} : Quiet(k)
  BY <1>1, <1>2, <1>4, OtherAddress
<1> QED
  BY <1>1, <1>2, <1>4, <1>5 DEF Opens

\* SET of the block.
LEMMA BlockSets ==
    ASSUME TypeOK, NEW r \in Requests, BlockPair(r)
    PROVE  \E i \in Ips : Sets(r, i) /\ \A k \in Ips \ {i} : Quiet(k)
<1>1. PICK i \in Ips : req[r].ip = i
  BY CallShape DEF BlockPair, At, Stages, Calls
<1>2. /\ req[r].pc = "block" /\ req'[r].pc = "idle" /\ Others(r)
      /\ UNCHANGED <<clock, count, desk, failed, faulted, late>>
      /\ block'[i] = clock + Window /\ \A k \in Ips \ {i} : block'[k] = block[k]
  BY <1>1 DEF BlockPair, At, Answer, TypeOK, Idle, Others
<1>3. \A k \in Ips \ {i} : Quiet(k)
  BY <1>1, <1>2, OtherAddress
<1> QED
  BY <1>1, <1>2, <1>3 DEF Sets

\* A record that fails half way.
LEMMA RecordFailsFails ==
    ASSUME TypeOK, NEW r \in Requests, RecordFails(r)
    PROVE  \E i \in Ips : Fails(r, i) /\ \A k \in Ips \ {i} : Quiet(k)
<1>1. PICK i \in Ips : req[r].ip = i
  BY CallShape DEF RecordFails, At, Stages, Calls
<1>2. /\ req'[r].pc = "idle" /\ Others(r) /\ UNCHANGED <<clock, block, desk, late>>
      /\ i \in faulted' /\ faulted \subseteq faulted'
  BY <1>1 DEF RecordFails, Answer, TypeOK, Idle, Others
<1>3. Counted(i) \/ UNCHANGED <<count, failed>>
  BY <1>1 DEF RecordFails
<1>4. /\ count'[i].until = count[i].until /\ count'[i].n \in {count[i].n, count[i].n + 1}
      /\ \A k \in Ips \ {i} : count'[k] = count[k] /\ failed'[k] = failed[k]
  BY <1>3 DEF Counted, TypeOK
<1>5. \A k \in Ips \ {i} : Quiet(k)
  BY <1>1, <1>2, <1>4, OtherAddress
<1> QED
  BY <1>2, <1>4, <1>5 DEF Fails

\* A counter the desk need not find any more was not its business, or is gone.
LEMMA RemainingSettles ==
    ASSUME TypeOK, desk' = Remaining(count', block'), NEW i \in Ips, Settled(i)',
           count'[i] = count[i]
    PROVE  Settled(i) \/ count[i].n = 0
BY DEF Remaining, Settled, TypeOK

\* DEL of counter and block after the right password.
LEMMA ClearIsQuiet ==
    ASSUME TypeOK, NEW r \in Requests, ClearFailedLogin(r), NEW i \in Ips
    PROVE  Quiet(i)
<1>1. /\ req[r].pc = "clear" /\ req'[r].pc = "idle" /\ Others(r)
      /\ UNCHANGED <<clock, failed, faulted, late>> /\ desk' = Remaining(count', block')
  BY DEF ClearFailedLogin, At, Answer, TypeOK, Idle, Others
<1>2. Alike(i) /\ Guessing(i)' = Guessing(i)
  BY <1>1, OthersAlike, SameLogins DEF Guessing
<1>3. Kept(i) \/ Gone(i)
  <2>1. \/ count'[i] = NoKey /\ block'[i] = NoBlock
        \/ count'[i] = count[i] /\ block'[i] = block[i]
    BY DEF ClearFailedLogin, TypeOK
  <2> QED
    BY <1>1, <2>1, RemainingSettles DEF Kept, Gone
<1> QED
  BY <1>1, <1>2, <1>3 DEF Quiet, Kept

\* The unblock tool, which removes blocks first and counters after.
LEMMA UnblockIsQuiet ==
    ASSUME TypeOK, Unblock, NEW i \in Ips
    PROVE  Quiet(i)
<1>1. UNCHANGED <<clock, req, failed, late>> /\ faulted \subseteq faulted'
  BY DEF Unblock, BeginUnblock, ScanCounts, EndUnblock, UnblockFails, UnblockPair, ForgetCount, TypeOK
<1>2. Alike(i) /\ Guessing(i)' = Guessing(i)
  BY <1>1 DEF Alike, Opening, Locking, Guessing, Logins
<1>3. CASE BeginUnblock \/ ScanCounts \/ EndUnblock \/ UnblockFails
  <2>1. count' = count /\ block' = block
    BY <1>3 DEF BeginUnblock, ScanCounts, EndUnblock, UnblockFails
  <2>2. i \notin faulted' => Kept(i)
    BY <1>3, <2>1 DEF BeginUnblock, ScanCounts, EndUnblock, UnblockFails, Settled, Away, Kept, TypeOK
  <2> QED
    BY <1>1, <1>2, <2>1, <2>2 DEF Quiet
<1>4. ASSUME NEW j \in Ips, UnblockPair(j) PROVE Quiet(i)
  <2>1. count' = count /\ block'[i] \in {block[i], NoBlock} /\ ~Settled(i)'
    BY <1>4 DEF UnblockPair, Settled, Remaining, TypeOK
  <2>2. Kept(i) \/ Unblocked(i)
    BY <2>1 DEF Kept, Unblocked
  <2> QED
    BY <1>1, <1>2, <2>1, <2>2 DEF Quiet
<1>5. ASSUME NEW j \in Ips, ForgetCount(j) PROVE Quiet(i)
  <2>1. /\ block' = block /\ desk' = Remaining(count', block')
        /\ count'[i] = NoKey \/ count'[i] = count[i]
    BY <1>5 DEF ForgetCount, TypeOK
  <2>2. Kept(i) \/ Gone(i)
    BY <2>1, RemainingSettles DEF Kept, Gone
  <2> QED
    BY <1>1, <1>2, <2>1, <2>2 DEF Quiet, Kept
<1> QED
  BY <1>3, <1>4, <1>5 DEF Unblock

\* Every step is a tick, a crash, quiet, or one login's work on one address.
LEMMA StepShape ==
    ASSUME TypeOK, [Next]_vars
    PROVE  \/ Tick
           \/ Crash
           \/ \A i \in Ips : Quiet(i)
           \/ \E r \in Requests, i \in Ips : Writes(r, i) /\ \A k \in Ips \ {i} : Quiet(k)
<1>1. ASSUME NEW r \in Requests, Serve(r)
      PROVE  \/ \A i \in Ips : Quiet(i)
             \/ \E i \in Ips : Writes(r, i) /\ \A k \in Ips \ {i} : Quiet(k)
  <2>1. Calm(r) \/ ClearFailedLogin(r) => \A i \in Ips : Quiet(i)
    BY CalmIsQuiet, ClearIsQuiet
  <2>2. RecordFailedLogin(r) \/ OpenWindow(r) \/ BlockPair(r) \/ RecordFails(r) =>
          \E i \in Ips : Writes(r, i) /\ \A k \in Ips \ {i} : Quiet(k)
    BY RecordCounts, OpenOpens, BlockSets, RecordFailsFails DEF Writes
  <2> QED
    BY <1>1, <2>1, <2>2 DEF Serve, Calm
<1>2. ASSUME UNCHANGED <<clock, count, block, req, desk, failed, faulted, late>>, NEW i \in Ips
      PROVE  Quiet(i)
  BY <1>2 DEF Quiet, Alike, Opening, Locking, Guessing, Logins, Kept, Settled
<1>3. ASSUME NEW row \in Rows, AdminUpdate(row) PROVE \A i \in Ips : Quiet(i)
  BY <1>2, <1>3 DEF AdminUpdate
<1>4. UNCHANGED vars => \A i \in Ips : Quiet(i)
  BY <1>2 DEF vars
<1> QED
  BY <1>1, <1>3, <1>4, UnblockIsQuiet DEF Next

(***************************************************************************)
(* Counter and block.  LockedAtLimit is not inductive: it must say what    *)
(* holds while EXPIREs and SETs are under way and while the desk is        *)
(* between its two scans.                                                  *)
(***************************************************************************)

\* Who is about to write a key of i has not waited for long, if i is not late.
Aged(i) == \A q \in Opening(i) \cup Locking(i) :
    /\ req[q].since \in Nat /\ req[q].since <= clock
    /\ i \notin late => clock <= req[q].since + Delay

\* Deadlines belong to keys and lie ahead, the counter's at most one window away.
Deadline(i) ==
    /\ count[i].n = 0 => count[i].until = NoTtl
    /\ count[i].until # NoTtl => clock < count[i].until /\ count[i].until <= clock + Window
    /\ block[i] # NoBlock => clock < block[i]

\* The counter of i has a deadline, or its creator is about to set one.
Timed(i) == count[i].n > 0 /\ count[i].until = NoTtl => Opening(i) # {}

\* The counter of i is in the last Delay ticks of its life, and none more come.
Final(i) ==
    /\ Opening(i) = {}
    /\ count[i].until # NoTtl /\ count[i].until <= clock + Delay

\* The block of i ends at most Delay ticks before the counter, which no EXPIRE
\* still under way will change.
Covers(i) ==
    /\ count[i].until <= block[i] + Delay
    /\ \A q \in Opening(i) : req[q].since + Window <= block[i]

\* Every failure from the limit on has its login about to set a block, or there
\* is a block, or there was one and the counter ends too.
Blocked(i) ==
    \/ count[i].n < Limit + Cardinality(Locking(i))
    \/ IF block[i] = NoBlock THEN Final(i) ELSE Covers(i)

\* What counter, block and the logins at work on them have to do with each other.
Lock(i) ==
    /\ Aged(i)
    /\ Deadline(i)
    /\ i \notin faulted => Timed(i)
    /\ i \in Regular /\ Settled(i) => Blocked(i)

\* An address nobody is counted for is not at the limit.
LEMMA NoneCounted ==
    ASSUME NEW i \in Ips, count'[i].n = 0
    PROVE  Blocked(i)'
<1>1. Cardinality(Locking(i)') \in Nat
  BY LoginsFiniteNext DEF Locking
<1> QED
  BY <1>1 DEF Blocked

\* Keys that stay or disappear.
LEMMA QuietKeepsLock ==
    ASSUME TypeOK, NEW i \in Ips, Lock(i), Quiet(i)
    PROVE  Lock(i)'
<1>1. /\ clock' = clock /\ Opening(i)' = Opening(i) /\ Locking(i)' = Locking(i)
      /\ \A q \in Opening(i) \cup Locking(i) : req'[q].since = req[q].since
      /\ faulted \subseteq faulted' /\ late \subseteq late'
  BY DEF Quiet, Alike
<1>2. Gone(i) => count'[i].n = 0 /\ count'[i].until = NoTtl
  BY DEF Gone, NoKey
<1>3. Aged(i)'
  BY <1>1 DEF Lock, Aged
<1>4. Deadline(i)'
  <2>1. Gone(i) \/ count'[i] = count[i]
    BY DEF Quiet
  <2>2. block'[i] \in {block[i], NoBlock}
    BY DEF Quiet, Gone
  <2> QED
    BY <1>1, <1>2, <2>1, <2>2 DEF Lock, Deadline
<1>5. i \notin faulted' => Timed(i)'
  BY <1>1, <1>2 DEF Lock, Timed, Quiet
<1>6. ASSUME i \in Regular', Settled(i)' PROVE Blocked(i)'
  <2>1. i \in Regular /\ i \notin faulted'
    BY <1>1, <1>6 DEF Regular
  <2>2. CASE count'[i].n = 0
    BY <2>2, NoneCounted
  <2>3. CASE count'[i].n # 0
    <3>1. Kept(i)
      BY <1>2, <1>6, <2>1, <2>3 DEF Quiet, Unblocked
    <3>2. Blocked(i) /\ count'[i] = count[i] /\ block'[i] = block[i]
      BY <1>6, <2>1, <2>3, <3>1 DEF Lock, Kept
    <3> QED
      BY <1>1, <3>2 DEF Blocked, Final, Covers
  <2> QED
    BY <2>2, <2>3
<1> QED
  BY <1>3, <1>4, <1>5, <1>6 DEF Lock

\* Work on the keys of i adds at most its own login, as of now.
LEMMA WritersAge ==
    ASSUME TypeOK, NEW r \in Requests, NEW i \in Ips, Aged(i), Writes(r, i)
    PROVE  Aged(i)'
<1>1. /\ Others(r) /\ clock' = clock /\ late' = late /\ clock \in Nat
      /\ req'[r].pc \in {"window", "block"} => req'[r].since = clock
  BY DEF Writes, Counts, Opens, Sets, Fails, TypeOK
<1>2. ASSUME NEW q \in Opening(i)' \cup Locking(i)'
      PROVE  /\ req'[q].since \in Nat /\ req'[q].since <= clock
             /\ i \notin late => clock <= req'[q].since + Delay
  <2>1. q \in Requests /\ req'[q].pc \in {"window", "block"} /\ req'[q].ip = i
    BY <1>2 DEF Opening, Locking, Logins
  <2>2. CASE q = r
    BY <1>1, <2>1, <2>2, DelayAssumption
  <2>3. CASE q # r
    <3>1. req'[q] = req[q] /\ q \in Opening(i) \cup Locking(i)
      BY <1>1, <2>1, <2>3 DEF Others, Opening, Locking, Logins
    <3> QED
      BY <3>1 DEF Aged
  <2> QED
    BY <2>2, <2>3
<1> QED
  BY <1>1, <1>2 DEF Aged

\* INCR: at the limit its login is about to set the block.
LEMMA CountsKeepsLock ==
    ASSUME TypeOK, NEW r \in Requests, NEW i \in Ips, Lock(i), Counts(r, i)
    PROVE  Lock(i)'
<1>1. /\ UNCHANGED <<clock, block, desk, faulted, late>> /\ Others(r)
      /\ req[r].pc = "count" /\ req[r].ip = i /\ count[i].n \in Nat /\ count[i].until \in Nat
      /\ count'[i].n = count[i].n + 1 /\ count'[i].until = count[i].until
      /\ req'[r].pc # "idle" => req'[r].ip = i
      /\ req'[r].pc = "window" <=> count[i].n = 0
      /\ req'[r].pc = "block" <=> count[i].n + 1 >= Limit
  BY DEF Counts, TypeOK
<1>2. Aged(i)'
  BY WritersAge DEF Writes, Lock
<1>3. Deadline(i)'
  BY <1>1 DEF Lock, Deadline
<1>4. count[i].n = 0 => r \in Opening(i)'
  BY <1>1 DEF Opening, Logins
<1>5. count[i].n # 0 => Opening(i)' = Opening(i)
  BY <1>1, SameLogins DEF Opening
<1>6. i \notin faulted' => Timed(i)'
  BY <1>1, <1>4, <1>5 DEF Lock, Timed
<1>7. ASSUME i \in Regular', Settled(i)' PROVE Blocked(i)'
  <2>1. Blocked(i)
    BY <1>1, <1>7 DEF Lock, Regular, Settled
  <2>2. /\ Cardinality(Locking(i)) \in Nat /\ Cardinality(Locking(i)') \in Nat
    BY LoginsFinite, LoginsFiniteNext DEF Locking
  <2>3. CASE count[i].n + 1 < Limit
    BY <1>1, <2>2, <2>3 DEF Blocked
  <2>4. CASE count[i].n + 1 >= Limit
    <3>1. Cardinality(Locking(i)') = Cardinality(Locking(i)) + 1
      BY <1>1, <2>4, OneMoreLogin DEF Locking
    <3>2. count[i].n < Limit + Cardinality(Locking(i)) =>
            count'[i].n < Limit + Cardinality(Locking(i)')
      BY <1>1, <2>2, <3>1
    <3>3. Opening(i)' = Opening(i) /\ \A q \in Opening(i) : req'[q].since = req[q].since
      <4>1. count[i].n # 0
        BY <1>1, <2>4
      <4>2. r \notin Opening(i) /\ Opening(i) \subseteq Requests
        BY <1>1 DEF Opening, Logins
      <4> QED
        BY <1>1, <1>5, <4>1, <4>2 DEF Others
    <3>4. (Final(i) => Final(i)') /\ (Covers(i) => Covers(i)')
      BY <1>1, <3>3 DEF Final, Covers
    <3> QED
      BY <1>1, <2>1, <3>2, <3>4, Zenon DEF Blocked
  <2> QED
    BY <1>1, <2>3, <2>4
<1> QED
  BY <1>2, <1>3, <1>6, <1>7 DEF Lock

\* EXPIRE: on time it cannot take the counter further beyond the block.
LEMMA OpensKeepsLock ==
    ASSUME TypeOK, NEW r \in Requests, NEW i \in Ips, Lock(i), Opens(r, i)
    PROVE  Lock(i)'
<1>1. /\ UNCHANGED <<clock, block, desk, faulted, late>> /\ Others(r)
      /\ req[r].pc = "window" /\ req[r].ip = i /\ req'[r].pc = "idle"
      /\ count[i].n \in Nat /\ count[i].until \in Nat /\ block[i] \in Nat /\ clock \in Nat
      /\ count'[i].n = count[i].n
      /\ count'[i].until = IF count[i].n > 0 THEN clock + Window ELSE count[i].until
  BY DEF Opens, TypeOK
<1>2. Aged(i)'
  BY WritersAge DEF Writes, Lock
<1>3. Deadline(i)'
  BY <1>1 DEF Lock, Deadline
<1>4. Timed(i)'
  BY <1>1 DEF Timed
<1>5. ASSUME i \in Regular', Settled(i)' PROVE Blocked(i)'
  <2>1. Blocked(i) /\ i \notin late
    BY <1>1, <1>5 DEF Lock, Regular, Settled
  <2>2. Locking(i)' = Locking(i)
    BY <1>1, SameLogins DEF Locking
  <2>3. r \in Opening(i) /\ Opening(i)' = Opening(i) \ {r}
    BY <1>1 DEF Opening, Logins, Others
  <2>4. CASE count[i].n < Limit + Cardinality(Locking(i))
    BY <1>1, <2>2, <2>4 DEF Blocked
  <2>5. CASE ~(count[i].n < Limit + Cardinality(Locking(i)))
    <3>1. block[i] # NoBlock /\ Covers(i)
      BY <2>1, <2>3, <2>5 DEF Blocked, Final
    <3>2. /\ req[r].since \in Nat /\ clock <= req[r].since + Delay
          /\ req[r].since + Window <= block[i]
      BY <2>1, <2>3, <3>1 DEF Lock, Aged, Covers
    <3>3. count'[i].until <= block[i] + Delay
      <4>1. count[i].until <= block[i] + Delay
        BY <3>1 DEF Covers
      <4>2. Delay \in Nat /\ clock + Window <= block[i] + Delay
        BY <1>1, <3>2, DelayAssumption
      <4> QED
        BY <1>1, <4>1, <4>2
    <3>4. \A q \in Opening(i)' : req'[q].since + Window <= block[i]
      <4>1. Opening(i) \subseteq Requests
        BY DEF Opening, Logins
      <4> QED
        BY <1>1, <2>3, <3>1, <4>1 DEF Covers, Others
    <3> QED
      BY <1>1, <3>1, <3>3, <3>4 DEF Blocked, Covers
  <2> QED
    BY <2>4, <2>5
<1> QED
  BY <1>2, <1>3, <1>4, <1>5 DEF Lock

\* SET: the block lasts at least as long as the counter does, or will by an
\* EXPIRE sent now.
LEMMA SetsKeepsLock ==
    ASSUME TypeOK, NEW r \in Requests, NEW i \in Ips, Lock(i), Sets(r, i)
    PROVE  Lock(i)'
<1>1. /\ UNCHANGED <<clock, count, desk, faulted, late>> /\ Others(r)
      /\ req[r].pc = "block" /\ req'[r].pc = "idle" /\ block'[i] = clock + Window
      /\ count[i].until \in Nat /\ clock \in Nat /\ Delay \in Nat
  BY DelayAssumption DEF Sets, TypeOK
<1>2. Aged(i)'
  BY WritersAge DEF Writes, Lock
<1>3. Deadline(i)'
  BY <1>1 DEF Lock, Deadline
<1>4. Opening(i)' = Opening(i) /\ \A q \in Opening(i) : req'[q].since = req[q].since
  <2>1. r \notin Opening(i) /\ Opening(i) \subseteq Requests
    BY <1>1 DEF Opening, Logins
  <2> QED
    BY <1>1, <2>1, SameLogins DEF Opening, Others
<1>5. i \notin faulted' => Timed(i)'
  BY <1>1, <1>4 DEF Lock, Timed
<1>6. Blocked(i)'
  <2>1. count[i].until <= clock + Window
    BY <1>1 DEF Lock, Deadline
  <2>2. \A q \in Opening(i) : req[q].since \in Nat /\ req[q].since <= clock
    BY DEF Lock, Aged
  <2>3. Covers(i)' /\ block'[i] # NoBlock
    BY <1>1, <1>4, <2>1, <2>2 DEF Covers
  <2> QED
    BY <2>3, Zenon DEF Blocked
<1> QED
  BY <1>2, <1>3, <1>5, <1>6 DEF Lock

\* A record that fails half way exempts its address.
LEMMA FailsKeepsLock ==
    ASSUME TypeOK, NEW r \in Requests, NEW i \in Ips, Lock(i), Fails(r, i)
    PROVE  Lock(i)'
<1>1. /\ UNCHANGED <<clock, block>> /\ i \in faulted'
      /\ count[i].n \in Nat /\ count'[i].n \in {count[i].n, count[i].n + 1}
      /\ count'[i].until = count[i].until
  BY DEF Fails, TypeOK
<1>2. Aged(i)'
  BY WritersAge DEF Writes, Lock
<1>3. Deadline(i)'
  BY <1>1 DEF Lock, Deadline
<1> QED
  BY <1>1, <1>2, <1>3 DEF Lock, Regular

\* What a tick does to the keys of i, and to who is about to write them.
LEMMA TickEffect ==
    ASSUME TypeOK, Tick, NEW i \in Ips
    PROVE  /\ clock \in Nat \ {0} /\ clock' = clock + 1
           /\ count'[i] = IF count[i].until = clock + 1 THEN NoKey ELSE count[i]
           /\ block'[i] = IF block[i] = clock + 1 THEN NoBlock ELSE block[i]
           /\ UNCHANGED <<req, failed, faulted>> /\ late \subseteq late'
           /\ desk' = Remaining(count', block')
           /\ count[i].n \in Nat /\ count[i].until \in Nat /\ block[i] \in Nat
           /\ Opening(i)' = Opening(i) /\ Locking(i)' = Locking(i)
           /\ Guessing(i)' = Guessing(i)
           /\ i \notin late' => \A q \in Opening(i) \cup Locking(i) : ~Overdue(q)
<1>1. /\ clock \in Nat \ {0} /\ clock' = clock + 1
      /\ UNCHANGED <<req, failed, faulted>> /\ late \subseteq late'
      /\ desk' = Remaining(count', block')
      /\ count[i].n \in Nat /\ count[i].until \in Nat /\ block[i] \in Nat
      /\ late' = late \cup {req[r].ip : r \in {q \in Requests : Overdue(q)}}
  BY DEF Tick, TypeOK
<1>2. /\ count'[i] = IF count[i].until = clock + 1 THEN NoKey ELSE count[i]
      /\ block'[i] = IF block[i] = clock + 1 THEN NoBlock ELSE block[i]
  BY <1>1 DEF Tick
<1>3. /\ Opening(i)' = Opening(i) /\ Locking(i)' = Locking(i)
      /\ Guessing(i)' = Guessing(i)
  BY <1>1 DEF Opening, Locking, Guessing, Logins
<1>4. ASSUME NEW q \in Opening(i) \cup Locking(i), Overdue(q) PROVE i \in late'
  <2>1. q \in Requests /\ req[q].ip = i
    BY <1>4 DEF Opening, Locking, Logins
  <2> QED
    BY <1>1, <1>4, <2>1
<1> QED
  BY <1>1, <1>2, <1>3, <1>4, Zenon

\* Time: when a block ends, all EXPIREs sent before it are through, and the
\* counter is about to end too.
LEMMA TickKeepsLock ==
    ASSUME TypeOK, NEW i \in Ips, Lock(i), Tick
    PROVE  Lock(i)'
<1>1. /\ clock \in Nat \ {0} /\ clock' = clock + 1
      /\ count'[i] = IF count[i].until = clock + 1 THEN NoKey ELSE count[i]
      /\ block'[i] = IF block[i] = clock + 1 THEN NoBlock ELSE block[i]
      /\ UNCHANGED <<req, faulted>> /\ late \subseteq late'
      /\ desk' = Remaining(count', block')
      /\ count[i].n \in Nat /\ count[i].until \in Nat /\ block[i] \in Nat
  BY TickEffect
<1>2. Opening(i)' = Opening(i) /\ Locking(i)' = Locking(i)
  BY TickEffect
<1>3. i \notin late' => \A q \in Opening(i) \cup Locking(i) : ~Overdue(q)
  BY TickEffect
<1>4. Delay \in Nat /\ Delay < Window
  BY DelayAssumption
<1>5. Aged(i)'
  <2>1. ASSUME NEW q \in Opening(i) \cup Locking(i)
        PROVE  /\ req[q].since \in Nat /\ req[q].since <= clock + 1
               /\ i \notin late' => clock + 1 <= req[q].since + Delay
    <3>1. req[q].since \in Nat /\ req[q].since <= clock
      BY DEF Lock, Aged
    <3>2. req[q].pc \in {"window", "block"}
      BY DEF Opening, Locking, Logins
    <3> QED
      BY <1>1, <1>3, <1>4, <3>1, <3>2 DEF Overdue
  <2> QED
    BY <1>1, <1>2, <2>1 DEF Aged
<1>6. Deadline(i)'
  BY <1>1 DEF Lock, Deadline, NoKey
<1>7. i \notin faulted' => Timed(i)'
  BY <1>1, <1>2 DEF Lock, Timed, NoKey
<1>8. ASSUME i \in Regular', Settled(i)', count'[i].n # 0 PROVE Blocked(i)'
  <2>1. count'[i] = count[i] /\ count[i].n # 0 /\ count[i].until # clock + 1
    BY <1>1, <1>8 DEF NoKey
  <2>2. Settled(i)
    BY <1>1, <1>8, <2>1, RemainingSettles
  <2>3. i \in Regular /\ i \notin late' /\ i \notin faulted
    BY <1>1, <1>8 DEF Regular
  <2>4. Blocked(i) /\ Timed(i) /\ Deadline(i)
    BY <2>2, <2>3 DEF Lock
  <2>5. CASE count[i].n < Limit + Cardinality(Locking(i))
    BY <1>2, <2>1, <2>5 DEF Blocked
  <2>6. CASE ~(count[i].n < Limit + Cardinality(Locking(i))) /\ block[i] = NoBlock
    <3>1. Final(i)
      BY <2>4, <2>6 DEF Blocked
    <3>2. Final(i)' /\ block'[i] = NoBlock
      BY <1>1, <1>2, <1>4, <2>1, <2>6, <3>1 DEF Final
    <3> QED
      BY <3>2 DEF Blocked
  <2>7. CASE ~(count[i].n < Limit + Cardinality(Locking(i))) /\ block[i] # NoBlock
    <3>1. Covers(i)
      BY <2>4, <2>7 DEF Blocked
    <3>2. CASE block[i] # clock + 1
      <4>1. Covers(i)' /\ block'[i] # NoBlock
        BY <1>1, <1>2, <2>1, <2>7, <3>1, <3>2 DEF Covers
      <4> QED
        BY <4>1, Zenon DEF Blocked
    <3>3. CASE block[i] = clock + 1
      <4>1. ASSUME NEW q \in Opening(i) PROVE FALSE
        <5>1. req[q].since \in Nat /\ req[q].since + Window <= clock + 1
          BY <3>1, <3>3 DEF Covers, Lock, Aged
        <5>2. req[q].pc = "window"
          BY DEF Opening, Logins
        <5>3. clock < req[q].since + Delay
          BY <1>1, <1>3, <1>4, <2>3, <5>1, <5>2 DEF Overdue
        <5> QED
          BY <1>1, <1>4, <5>1, <5>3
      <4>2. Opening(i) = {}
        BY <4>1
      <4>3. count[i].until # NoTtl /\ count[i].until <= clock + 1 + Delay
        BY <1>1, <2>1, <2>4, <3>1, <3>3, <4>2 DEF Timed, Covers
      <4>4. Final(i)' /\ block'[i] = NoBlock
        BY <1>1, <1>2, <2>1, <3>3, <4>2, <4>3 DEF Final
      <4> QED
        BY <4>4 DEF Blocked
    <3> QED
      BY <3>2, <3>3
  <2> QED
    BY <2>5, <2>6, <2>7
<1> QED
  BY <1>5, <1>6, <1>7, <1>8, NoneCounted DEF Lock

\* A crash: nobody is left to write, and nothing is promised.
LEMMA CrashKeepsLock ==
    ASSUME TypeOK, NEW i \in Ips, Lock(i), Crash
    PROVE  Lock(i)'
<1>1. UNCHANGED <<clock, count, block>> /\ i \in faulted'
  BY DEF Crash
<1>2. Opening(i)' = {} /\ Locking(i)' = {}
  BY DEF Crash, Opening, Locking, Logins, Idle
<1>3. Aged(i)'
  BY <1>2 DEF Aged
<1>4. Deadline(i)'
  BY <1>1 DEF Lock, Deadline
<1> QED
  BY <1>1, <1>3, <1>4 DEF Lock, Regular

\* The inductive invariant of counter and block.
IInv == TypeOK /\ \A i \in Ips : Lock(i)

\* It holds at first.
LEMMA LockInit == Init => IInv
<1> SUFFICES ASSUME Init PROVE IInv
  OBVIOUS
<1>0. TypeOK
  BY DEF Init, TypeOK, Rows, Statuses, NoKey, Away, Idle
<1> SUFFICES ASSUME NEW i \in Ips PROVE Lock(i)
  BY <1>0 DEF IInv
<1>1. Opening(i) = {} /\ Locking(i) = {}
  BY DEF Init, Opening, Locking, Logins, Idle
<1>2. count[i].n = 0 /\ count[i].until = NoTtl /\ block[i] = NoBlock
  BY DEF Init, NoKey
<1>3. Blocked(i)
  <2>1. Cardinality(Locking(i)) \in Nat
    BY LoginsFinite DEF Locking
  <2> QED
    BY <1>2, <2>1 DEF Blocked
<1> QED
  BY <1>1, <1>2, <1>3 DEF Lock, Aged, Deadline, Timed

\* Every step keeps it.
LEMMA LockStep == IInv /\ [Next]_vars => IInv'
<1> SUFFICES ASSUME IInv, [Next]_vars, NEW i \in Ips PROVE Lock(i)'
  BY GuardTypeStep DEF IInv
<1>1. TypeOK /\ Lock(i)
  BY DEF IInv
<1>2. CASE Tick
  BY <1>1, <1>2, TickKeepsLock
<1>3. CASE Crash
  BY <1>1, <1>3, CrashKeepsLock
<1>4. CASE Quiet(i)
  BY <1>1, <1>4, QuietKeepsLock
<1>5. ASSUME NEW r \in Requests, Writes(r, i) PROVE Lock(i)'
  BY <1>1, <1>5, CountsKeepsLock, OpensKeepsLock, SetsKeepsLock, FailsKeepsLock DEF Writes
<1>6. \/ Tick \/ Crash \/ Quiet(i)
      \/ \E r \in Requests : Writes(r, i)
  BY <1>1, StepShape
<1> QED
  BY <1>2, <1>3, <1>4, <1>5, <1>6

\* Counter and block are as Lock says in every reachable state.
THEOREM LockInvariant == Spec => []IInv
BY LockInit, LockStep, PTL DEF Spec

\* Nobody is busy at the stages ps exactly when there is no login there.
LEMMA BusyLogins ==
    ASSUME NEW i, NEW ps
    PROVE  Busy(i, ps) <=> Logins(i, ps) # {}
BY DEF Busy, Logins

\* No pair is counted for ever: a counter none of whose calls failed has a
\* deadline once its creator has sent EXPIRE (maintain_cache_key.py:46).
THEOREM CountersEnd == Spec => []CountersExpire
<1>1. IInv => CountersExpire
  BY BusyLogins DEF IInv, Lock, Timed, CountersExpire, Opening
<1> QED
  BY <1>1, LockInvariant, PTL

\* At the limit a block stands until the counter is about to end, with EXPIRE
\* and SET sent at any time from their INCR to Delay ticks later
\* (maintain_cache_key.py:44-49).
THEOREM LockHolds == Spec => []LockedAtLimit
<1>1. IInv => LockedAtLimit
  <2> SUFFICES ASSUME IInv, NEW i \in Regular,
                      count[i].n >= Limit, desk.phase = "off", ~Busy(i, {"block"})
               PROVE  IF block[i] # NoBlock
                      THEN count[i].until <= block[i] + Delay
                      ELSE count[i].until # NoTtl /\ count[i].until <= clock + Delay
    BY DEF LockedAtLimit
  <2>1. Blocked(i) /\ i \in Ips /\ count[i].n \in Nat
    BY DEF IInv, Lock, Regular, Settled, TypeOK
  <2>2. Locking(i) = {}
    BY BusyLogins DEF Locking
  <2>3. Cardinality(Locking(i)) = 0
    BY <2>2, FS_EmptySet
  <2> QED
    BY <2>1, <2>3 DEF Blocked, Final, Covers
<1> QED
  BY <1>1, LockInvariant, PTL

(***************************************************************************)
(* The window.  The failures a counter stands for are the last ones of the *)
(* history, and they are as recent as the counter is young.                *)
(***************************************************************************)

\* The f-th failure of the history of i is one of those its counter stands for.
Counting(i, f) == f \in 1..Len(failed[i]) /\ f > Len(failed[i]) - count[i].n

\* They came after the INCR that created it, and its EXPIRE came Delay ticks
\* after that at the latest.
Young(i) == \A f \in 1..Len(failed[i]) : Counting(i, f) =>
    /\ count[i].until <= failed[i][f] + Window + Delay
    /\ \A q \in Opening(i) : req[q].since <= failed[i][f]

\* The limit has been reached by failures that were recent at tick t.
Reached(i, t) ==
    /\ Len(failed[i]) = Limit
    /\ \A f \in 1..Limit : failed[i][f] > t - (Window + Delay)

\* A counter's failures are the last ones, and recent; so are those of a login that
\* is about to lock.
Recent(i) ==
    /\ Len(failed[i]) <= Limit
    /\ count[i].n <= Len(failed[i]) \/ Len(failed[i]) = Limit
    /\ Young(i)
    /\ \A q \in Locking(i) : Reached(i, req[q].since)

\* The inductive invariant of counters and past failures.
Windows == IInv /\ \A i \in Regular : Recent(i)

\* failed'[i] is failed[i] without its first d failures, and a failure now.
Shifted(i, d) ==
    /\ Len(failed'[i]) = Len(failed[i]) + 1 - d
    /\ failed'[i][Len(failed'[i])] = clock
    /\ \A j \in 1..(Len(failed[i]) - d) : failed'[i][j] = failed[i][j + d]

\* A history grows by one failure, the oldest forgotten when it is full.
LEMMA CountedHistory ==
    ASSUME TypeOK, NEW i \in Ips, Counted(i), Len(failed[i]) <= Limit
    PROVE  \/ Len(failed[i]) < Limit /\ Shifted(i, 0)
           \/ Len(failed[i]) = Limit /\ Shifted(i, 1)
<1>1. failed[i] \in Seq(Ticks) /\ clock \in Ticks
  BY DEF TypeOK
<1>2. failed'[i] = LET all == Append(failed[i], clock) IN IF Len(all) > Limit THEN Tail(all) ELSE all
  BY DEF Counted, TypeOK
<1>3. PICK all : all = Append(failed[i], clock)
  OBVIOUS
<1>4. /\ all \in Seq(Ticks) /\ all # <<>> /\ Len(all) = Len(failed[i]) + 1
      /\ \A j \in 1..Len(failed[i]) : all[j] = failed[i][j]
      /\ all[Len(failed[i]) + 1] = clock
  BY <1>1, <1>3, AppendProperties
<1>5. Len(failed[i]) \in Nat
  BY <1>1, LenProperties
<1>6. CASE Len(failed[i]) = Limit
  <2>1. failed'[i] = Tail(all)
    BY <1>2, <1>3, <1>4, <1>6
  <2>2. Len(Tail(all)) = Limit /\ \A j \in 1..Limit : Tail(all)[j] = all[j + 1]
    BY <1>4, <1>6, HeadTailProperties
  <2>3. Len(failed'[i]) = Len(failed[i]) + 1 - 1
    BY <1>6, <2>1, <2>2
  <2>4. failed'[i][Limit] = clock
    BY <1>4, <1>6, <2>1, <2>2
  <2>5. ASSUME NEW j \in 1..(Limit - 1) PROVE failed'[i][j] = failed[i][j + 1]
    <3>1. j \in 1..Limit /\ j + 1 \in 1..Limit
      OBVIOUS
    <3>2. Tail(all)[j] = all[j + 1] /\ all[j + 1] = failed[i][j + 1]
      BY <1>4, <1>6, <2>2, <3>1
    <3> QED
      BY <2>1, <3>2
  <2>6. Len(failed[i]) + 1 - 1 = Limit
    BY <1>6
  <2>7. Shifted(i, 1)
    BY <1>6, <2>3, <2>4, <2>5, <2>6 DEF Shifted
  <2> QED
    BY <1>6, <2>7
<1>7. CASE Len(failed[i]) < Limit
  <2>1. failed'[i] = all
    BY <1>2, <1>3, <1>4, <1>5, <1>7
  <2>2. Shifted(i, 0)
    BY <1>4, <1>5, <1>7, <2>1 DEF Shifted
  <2> QED
    BY <1>7, <2>2
<1>8. Len(failed[i]) = Limit \/ Len(failed[i]) < Limit
  BY <1>5
<1> QED
  BY <1>6, <1>7, <1>8, Zenon

\* A counter that stays or disappears, and no new writer.
LEMMA StayKeepsRecent ==
    ASSUME TypeOK, NEW i \in Ips, Recent(i), failed'[i] = failed[i],
           count'[i] = count[i] \/ count'[i].n = 0,
           Opening(i)' \subseteq Opening(i), Locking(i)' \subseteq Locking(i),
           \A q \in Opening(i)' \cup Locking(i)' : req'[q].since = req[q].since
    PROVE  Recent(i)'
<1>1. Len(failed[i]) \in Nat /\ count[i].n \in Nat
  BY LenProperties DEF TypeOK
<1>2. count'[i].n <= Len(failed[i]) \/ Len(failed[i]) = Limit
  BY <1>1 DEF Recent
<1>3. \A f \in 1..Len(failed[i]) : Counting(i, f)' => Counting(i, f) /\ count'[i] = count[i]
  BY <1>1 DEF Counting
<1>4. Young(i)'
  BY <1>3 DEF Recent, Young
<1>5. \A q \in Locking(i)' : Reached(i, req[q].since)'
  BY DEF Recent, Reached
<1> QED
  BY <1>2, <1>4, <1>5 DEF Recent, Reached

\* INCR: a failure joins those the counter stands for, or begins a counter.
LEMMA CountsKeepsRecent ==
    ASSUME TypeOK, NEW r \in Requests, NEW i \in Regular, Lock(i), Recent(i), Counts(r, i)
    PROVE  Recent(i)'
<1>1. /\ UNCHANGED clock /\ clock \in Nat /\ Counted(i) /\ Others(r)
      /\ i \in Ips /\ i \notin late /\ i \notin faulted
      /\ count[i].n \in Nat /\ count[i].until \in Nat
      /\ req[r].pc = "count" /\ req[r].ip = i
      /\ count'[i].n = count[i].n + 1 /\ count'[i].until = count[i].until
      /\ req'[r].pc # "idle" => req'[r].ip = i /\ req'[r].since = clock
      /\ req'[r].pc = "window" <=> count[i].n = 0
      /\ req'[r].pc = "block" <=> count[i].n + 1 >= Limit
      /\ Delay \in Nat
  BY DelayAssumption DEF Counts, TypeOK, Regular
<1>2. PICK d \in {0, 1} : Shifted(i, d) /\ (d = 1 <=> Len(failed[i]) = Limit)
  BY <1>1, CountedHistory DEF Recent
<1>3. PICK n, len : n = count[i].n /\ len = Len(failed[i])
  OBVIOUS
<1>4. /\ n \in Nat /\ len \in Nat /\ len <= Limit /\ (n <= len \/ len = Limit)
      /\ d = 1 <=> len = Limit
      /\ Len(failed'[i]) = len + 1 - d /\ count'[i].n = n + 1
  BY <1>1, <1>2, <1>3, LenProperties DEF Recent, TypeOK, Shifted
<1>5. \A f \in 1..len : failed[i][f] \in Nat
  BY <1>1, <1>3, ElementOfSeq DEF TypeOK
<1>6. Len(failed'[i]) <= Limit /\ (count'[i].n <= Len(failed'[i]) \/ Len(failed'[i]) = Limit)
  BY <1>4
<1>7. ASSUME NEW f \in 1..Len(failed'[i]), f # Len(failed'[i])
      PROVE  /\ f + d \in 1..len /\ failed'[i][f] = failed[i][f + d]
             /\ Counting(i, f)' => Counting(i, f + d)
  <2>1. f \in 1..(len - d) /\ f + d \in 1..len
    BY <1>4, <1>7
  <2>2. failed'[i][f] = failed[i][f + d]
    BY <1>2, <1>3, <2>1 DEF Shifted
  <2>3. f > (len + 1 - d) - (n + 1) => f + d > len - n
    BY <1>4, <2>1
  <2>4. Counting(i, f)' => f > (len + 1 - d) - (n + 1)
    BY <1>4, Zenon DEF Counting
  <2>5. f + d > len - n => Counting(i, f + d)
    BY <1>3, <2>1, Zenon DEF Counting
  <2> QED
    BY <2>1, <2>2, <2>3, <2>4, <2>5
<1>8. failed'[i][Len(failed'[i])] = clock
  BY <1>2 DEF Shifted
<1>9. /\ \A q \in Opening(i) : req[q].since \in Nat /\ req[q].since <= clock
                                /\ clock <= req[q].since + Delay
      /\ \A q \in Opening(i) \cup Locking(i) : q \in Requests /\ q # r
      /\ \A q \in Locking(i) : req[q].since \in Nat /\ req[q].since <= clock
  BY <1>1 DEF Lock, Aged, Opening, Locking, Logins
<1>10. ASSUME NEW q \in Opening(i)'
       PROVE  req'[q].since = clock \/ (q \in Opening(i) /\ req'[q] = req[q])
  BY <1>1, <1>10 DEF Opening, Logins, Others
<1>11. ASSUME NEW q \in Locking(i)'
       PROVE  \/ req'[q].since = clock /\ n + 1 >= Limit
              \/ q \in Locking(i) /\ req'[q] = req[q]
  BY <1>1, <1>3, <1>11 DEF Locking, Logins, Others
<1>12. ASSUME NEW f \in 1..Len(failed'[i]), Counting(i, f)'
       PROVE  /\ count[i].until <= failed'[i][f] + Window + Delay
              /\ \A q \in Opening(i)' : req'[q].since <= failed'[i][f]
  <2>1. CASE f = Len(failed'[i])
    <3>1. failed'[i][f] = clock
      BY <1>8, <2>1
    <3>2. count[i].until <= clock + Window + Delay
      BY <1>1 DEF Lock, Deadline
    <3>3. \A q \in Opening(i)' : req'[q].since <= clock
      BY <1>1, <1>9, <1>10
    <3> QED
      BY <3>1, <3>2, <3>3
  <2>2. CASE f # Len(failed'[i])
    <3>1. /\ Counting(i, f + d) /\ f + d \in 1..len
          /\ failed'[i][f] = failed[i][f + d]
      BY <1>7, <1>12, <2>2
    <3>2. /\ count[i].until <= failed[i][f + d] + Window + Delay
          /\ \A q \in Opening(i) : req[q].since <= failed[i][f + d]
      BY <1>3, <3>1 DEF Recent, Young
    <3>3. n # 0
      BY <1>3, <1>4, <3>1 DEF Counting
    <3>4. Opening(i)' = Opening(i)
      BY <1>1, <1>3, <3>3, SameLogins DEF Opening
    <3>5. \A q \in Opening(i)' : req'[q].since = req[q].since
      BY <1>1, <1>9, <3>4 DEF Others
    <3> QED
      BY <3>1, <3>2, <3>4, <3>5
  <2> QED
    BY <2>1, <2>2
<1>13. Young(i)'
  BY <1>1, <1>12 DEF Young
<1>14. ASSUME NEW q \in Locking(i)' PROVE Reached(i, req[q].since)'
  <2>1. CASE req'[q].since = clock /\ n + 1 >= Limit
    <3>1. Len(failed'[i]) = Limit
      BY <1>4, <2>1
    <3>2. ASSUME NEW f \in 1..Limit PROVE failed'[i][f] > clock - (Window + Delay)
      <4>1. CASE f = Limit
        BY <1>1, <1>8, <3>1, <4>1
      <4>2. CASE f # Limit
        <5>1. Counting(i, f)'
          <6>1. f > Limit - (n + 1)
            BY <1>4, <2>1
          <6> QED
            BY <1>4, <3>1, <6>1, Zenon DEF Counting
        <5>2. failed'[i][f] \in Nat
          BY <1>5, <1>7, <3>1, <4>2
        <5>3. CASE count[i].until # NoTtl
          <6>1. clock < count[i].until
            BY <5>3 DEF Lock, Deadline
          <6> QED
            BY <1>1, <1>12, <3>1, <5>1, <5>2, <6>1
        <5>4. CASE count[i].until = NoTtl
          <6>1. n # 0
            BY <1>4, <2>1
          <6>2. Opening(i)' = Opening(i) /\ Opening(i) # {}
            BY <1>1, <1>3, <1>4, <5>4, <6>1, SameLogins DEF Opening, Lock, Timed
          <6>3. PICK p \in Opening(i) : p \in Opening(i)'
            BY <6>2
          <6>4. req'[p].since = req[p].since
            BY <1>1, <1>9 DEF Others
          <6>5. req[p].since <= failed'[i][f]
            BY <1>12, <3>1, <5>1, <6>3, <6>4
          <6> QED
            BY <1>1, <1>9, <5>2, <6>5
        <5> QED
          BY <5>3, <5>4
      <4> QED
        BY <4>1, <4>2
    <3> QED
      BY <2>1, <3>1, <3>2 DEF Reached
  <2>2. CASE q \in Locking(i) /\ req'[q] = req[q]
    <3>1. Reached(i, req[q].since) /\ req[q].since \in Nat /\ req[q].since <= clock
      BY <1>9, <2>2 DEF Recent
    <3>2. len = Limit /\ d = 1 /\ Len(failed'[i]) = Limit
      BY <1>3, <1>4, <3>1 DEF Reached
    <3>3. ASSUME NEW f \in 1..Limit
          PROVE  failed'[i][f] > req[q].since - (Window + Delay)
      <4>1. CASE f = Limit
        BY <1>1, <1>8, <3>1, <3>2, <4>1
      <4>2. CASE f # Limit
        <5>1. f + 1 \in 1..Limit /\ failed'[i][f] = failed[i][f + 1]
          BY <1>7, <3>2, <4>2
        <5> QED
          BY <3>1, <5>1 DEF Reached
      <4> QED
        BY <4>1, <4>2
    <3> QED
      BY <2>2, <3>2, <3>3 DEF Reached
  <2> QED
    BY <1>11, <1>14, <2>1, <2>2
<1> QED
  BY <1>6, <1>13, <1>14 DEF Recent

\* EXPIRE on time: the counter ends at most Delay ticks after its window.
LEMMA OpensKeepsRecent ==
    ASSUME TypeOK, NEW r \in Requests, NEW i \in Regular, Lock(i), Recent(i), Opens(r, i)
    PROVE  Recent(i)'
<1>1. /\ UNCHANGED <<clock, failed>> /\ Others(r) /\ clock \in Nat /\ Delay \in Nat
      /\ i \in Ips /\ i \notin late /\ count[i].n \in Nat
      /\ req[r].pc = "window" /\ req[r].ip = i /\ req'[r].pc = "idle"
      /\ count'[i].n = count[i].n
      /\ count'[i].until = IF count[i].n > 0 THEN clock + Window ELSE count[i].until
  BY DelayAssumption DEF Opens, TypeOK, Regular
<1>2. /\ r \in Opening(i) /\ Locking(i)' = Locking(i) /\ Opening(i)' \subseteq Opening(i)
      /\ \A q \in Opening(i)' \cup Locking(i)' : req'[q].since = req[q].since
  BY <1>1 DEF Opening, Locking, Logins, Others
<1>3. req[r].since \in Nat /\ clock <= req[r].since + Delay
  BY <1>1, <1>2 DEF Lock, Aged
<1>4. ASSUME NEW f \in 1..Len(failed[i]), Counting(i, f)'
      PROVE  /\ count'[i].until <= failed[i][f] + Window + Delay
             /\ \A q \in Opening(i)' : req'[q].since <= failed[i][f]
  <2>1. Counting(i, f) /\ Len(failed[i]) \in Nat /\ failed[i][f] \in Nat
    BY <1>1, <1>4, LenProperties, ElementOfSeq DEF Counting, TypeOK
  <2>2. /\ count[i].until <= failed[i][f] + Window + Delay
        /\ \A q \in Opening(i) : req[q].since <= failed[i][f]
    BY <2>1 DEF Recent, Young
  <2>3. clock + Window <= failed[i][f] + Window + Delay
    BY <1>1, <1>2, <1>3, <2>1, <2>2
  <2> QED
    BY <1>1, <1>2, <2>2, <2>3
<1>5. Young(i)'
  BY <1>1, <1>4 DEF Young
<1>6. \A q \in Locking(i)' : Reached(i, req[q].since)'
  BY <1>1, <1>2 DEF Recent, Reached
<1> QED
  BY <1>1, <1>5, <1>6 DEF Recent

\* Every step keeps the relation of counters and past failures.
LEMMA WindowStep == Windows /\ [Next]_vars => Windows'
<1> SUFFICES ASSUME Windows, [Next]_vars, NEW i \in Regular' PROVE Recent(i)'
  BY LockStep DEF Windows
<1>1. TypeOK /\ \A k \in Ips : Lock(k)
  BY DEF Windows, IInv
<1>2. faulted \subseteq faulted' /\ late \subseteq late' => i \in Ips /\ Recent(i)
  BY DEF Windows, Regular
<1>3. CASE Tick
  <2>1. i \in Ips
    BY DEF Regular
  <2>2. /\ faulted \subseteq faulted' /\ late \subseteq late' /\ failed'[i] = failed[i]
        /\ count'[i] = count[i] \/ count'[i].n = 0
        /\ Opening(i)' = Opening(i) /\ Locking(i)' = Locking(i) /\ req' = req
    BY <1>1, <1>3, <2>1, TickEffect DEF NoKey
  <2> QED
    BY <1>1, <1>2, <2>2, StayKeepsRecent
<1>4. CASE Crash
  BY <1>4 DEF Crash, Regular
<1>5. CASE Quiet(i)
  <2>1. /\ faulted \subseteq faulted' /\ late \subseteq late' /\ failed'[i] = failed[i]
        /\ count'[i] = count[i] \/ count'[i].n = 0
        /\ Opening(i)' = Opening(i) /\ Locking(i)' = Locking(i)
        /\ \A q \in Opening(i)' \cup Locking(i)' : req'[q].since = req[q].since
    BY <1>5 DEF Quiet, Gone, NoKey, Alike
  <2> QED
    BY <1>1, <1>2, <2>1, StayKeepsRecent
<1>6. ASSUME NEW r \in Requests, Counts(r, i) \/ Opens(r, i) PROVE Recent(i)'
  <2>1. i \in Regular
    BY <1>6 DEF Counts, Opens, Regular
  <2> QED
    BY <1>1, <1>6, <2>1, CountsKeepsRecent, OpensKeepsRecent DEF Windows, Regular
<1>7. ASSUME NEW r \in Requests, Sets(r, i) PROVE Recent(i)'
  <2>1. /\ Opening(i)' \subseteq Opening(i) /\ Locking(i)' \subseteq Locking(i)
        /\ \A q \in Opening(i)' \cup Locking(i)' : req'[q].since = req[q].since
    BY <1>7 DEF Sets, Opening, Locking, Logins, Others
  <2>2. UNCHANGED <<count, failed, faulted, late>>
    BY <1>7 DEF Sets
  <2> QED
    BY <1>1, <1>2, <2>1, <2>2, StayKeepsRecent
<1>8. ASSUME NEW r \in Requests, Fails(r, i) PROVE FALSE
  BY <1>8 DEF Fails, Regular
<1>9. Tick \/ Crash \/ Quiet(i) \/ \E r \in Requests : Writes(r, i)
  BY <1>1, StepShape DEF Regular
<1> QED
  BY <1>3, <1>4, <1>5, <1>6, <1>7, <1>8, <1>9 DEF Writes

\* A block is set only by the SET of a login that reached the limit.
LEMMA OnlyBlockLocks ==
    ASSUME Windows, [Next]_vars, NEW i \in Regular, Locks(i)
    PROVE  Within(i, Window + Margin)
<1>1. TypeOK /\ Lock(i) /\ Recent(i) /\ i \in Ips /\ i \notin late
  BY DEF Windows, IInv, Regular
<1>2. PICK r \in Requests : Sets(r, i)
  <2>1. ~Tick
    BY <1>1, TickEffect DEF Locks
  <2>2. ~Crash
    BY DEF Crash, Locks
  <2>3. ~Quiet(i)
    BY DEF Quiet, Gone, Locks
  <2>4. ASSUME NEW r \in Requests, Writes(r, i) PROVE Sets(r, i)
    BY <2>4 DEF Writes, Counts, Opens, Fails, Locks
  <2> QED
    BY <1>1, <2>1, <2>2, <2>3, <2>4, StepShape
<1>3. r \in Locking(i)
  BY <1>2 DEF Sets, Locking, Logins
<1>4. /\ Reached(i, req[r].since) /\ req[r].since \in Nat
      /\ clock <= req[r].since + Delay /\ clock \in Nat /\ Delay \in Nat
  BY <1>1, <1>3, DelayAssumption DEF Recent, Lock, Aged, TypeOK
<1>5. failed[i][1] > req[r].since - (Window + Delay) /\ Len(failed[i]) = Limit
  <2>1. 1 \in 1..Limit
    OBVIOUS
  <2> QED
    BY <1>4, <2>1, Zenon DEF Reached
<1>6. failed[i][1] \in Nat
  BY <1>1, <1>5, ElementOfSeq DEF TypeOK
<1> QED
  BY <1>4, <1>5, <1>6 DEF Within, Margin

\* A pair is locked only for Limit failures within the window and twice the time
\* an EXPIRE or a SET may take (maintain_cache_key.py:44-49).
THEOREM LocksAreEarned == Spec => ReliableLock
<1>1. Init => Windows
  <2> SUFFICES ASSUME Init, NEW i \in Regular PROVE Recent(i)
    BY LockInit DEF Windows
  <2>1. i \in Ips /\ failed[i] = <<>> /\ count[i].n = 0 /\ Locking(i) = {} /\ Len(failed[i]) = 0
    BY DEF Init, Regular, NoKey, Locking, Logins, Idle
  <2> QED
    BY <2>1 DEF Recent, Young
<1>2. Windows /\ [Next]_vars => [\A i \in Regular : Locks(i) => Within(i, Window + Margin)]_vars
  BY OnlyBlockLocks
<1> QED
  BY <1>1, <1>2, WindowStep, PTL DEF Spec, ReliableLock

(***************************************************************************)
(* How often a pair is tried.  Below the limit any login may pass; once a  *)
(* block is set, those that have passed may still guess; and between the   *)
(* end of a block and that of its counter others pass once more.           *)
(***************************************************************************)

\* The counter of i may stay on when its block ends.
Outlives(i) == Opening(i) # {} \/ count[i].until > block[i]

\* How far beyond the limit a counter behind a block may still get.
Room(i) ==
    IF Outlives(i) THEN Slots - 1
    ELSE IF Final(i) THEN 2 * Slots - 1
    ELSE Slots

\* How far the counter may be, given the logins that may still move it.
Bounded(i) ==
    IF block[i] = NoBlock
    THEN count[i].n < Limit + Cardinality(Locking(i)) + Slots - 1
    ELSE count[i].n + Cardinality(Guessing(i)) < Limit + Room(i)

\* The inductive invariant of counters and logins past the check.
Tried == IInv /\ \A i \in Regular : Settled(i) => Bounded(i)

\* How many log in at once, and how many of them are where: a login is at one
\* stage at a time.
LEMMA SlotsShared ==
    ASSUME NEW i
    PROVE  /\ Slots \in Nat \ {0}
           /\ Cardinality(Guessing(i)) \in Nat /\ Cardinality(Locking(i)) \in Nat
           /\ Cardinality(Guessing(i)) <= Slots
           /\ Cardinality(Guessing(i)) + Cardinality(Locking(i)) <= Slots
           /\ Opening(i) # {} => Cardinality(Guessing(i)) + Cardinality(Locking(i)) + 1 <= Slots
<1>1. /\ Slots \in Nat \ {0}
      /\ Cardinality(Guessing(i)) \in Nat /\ Cardinality(Locking(i)) \in Nat
      /\ Cardinality(Guessing(i)) <= Slots
  BY LoginsFinite DEF Guessing, Locking
<1>2. {"lift", "verify", "count"} \cap {"block"} = {}
  OBVIOUS
<1>3. /\ Cardinality(Logins(i, {"lift", "verify", "count"} \cup {"block"})) =
           Cardinality(Guessing(i)) + Cardinality(Locking(i))
      /\ Cardinality(Guessing(i)) + Cardinality(Locking(i)) <= Slots
  BY <1>2, StagesApart DEF Guessing, Locking
<1>4. {"window"} \cap ({"lift", "verify", "count"} \cup {"block"}) = {}
  OBVIOUS
<1>5. Opening(i) # {} =>
        Cardinality(Logins(i, {"lift", "verify", "count"} \cup {"block"})) + 1 <= Slots
  BY <1>4, OneSlotTaken DEF Opening
<1> QED
  BY <1>1, <1>3, <1>5

\* The room never falls short of the other slots.
LEMMA RoomEnough ==
    ASSUME NEW i
    PROVE  Room(i) \in Nat /\ Slots - 1 <= Room(i)
<1>1. Slots \in Nat \ {0}
  BY SlotsShared
<1> QED
  BY <1>1 DEF Room

\* The same of the next state.
LEMMA RoomEnoughNext ==
    ASSUME NEW i
    PROVE  /\ Room(i)' \in Nat /\ Slots - 1 <= Room(i)' /\ Slots \in Nat \ {0}
           /\ Cardinality(Guessing(i)') \in Nat /\ Cardinality(Guessing(i)') <= Slots
           /\ Cardinality(Locking(i)') \in Nat
<1>1. Slots \in Nat \ {0}
  BY SlotsShared
<1>2. Room(i)' = IF Outlives(i)' THEN Slots - 1
                 ELSE IF Final(i)' THEN 2 * Slots - 1 ELSE Slots
  BY DEF Room, Slots
<1>3. /\ Cardinality(Guessing(i)') \in Nat /\ Cardinality(Guessing(i)') <= Slots
      /\ Cardinality(Locking(i)') \in Nat
  BY LoginsFiniteNext DEF Guessing, Locking
<1> QED
  BY <1>1, <1>2, <1>3

\* An address nobody is counted for is far from the bound.
LEMMA NoneBounded ==
    ASSUME NEW i \in Ips, count'[i].n = 0
    PROVE  Bounded(i)'
<1>1. Slots' = Slots
  BY DEF Slots
<1>2. count'[i].n < Limit + Cardinality(Locking(i)') + Slots - 1
  BY RoomEnoughNext
<1>3. count'[i].n + Cardinality(Guessing(i)') < Limit + Room(i)'
  BY RoomEnoughNext
<1> QED
  BY <1>1, <1>2, <1>3 DEF Bounded

\* Keys that stay or disappear.
LEMMA QuietKeepsBound ==
    ASSUME TypeOK, NEW i \in Ips, Quiet(i), i \notin faulted', Settled(i)',
           Settled(i) => Bounded(i)
    PROVE  Bounded(i)'
<1>1. CASE count'[i].n = 0
  BY <1>1, NoneBounded
<1>2. CASE count'[i].n # 0
  <2>1. Kept(i)
    BY <1>2 DEF Quiet, Gone, NoKey, Unblocked
  <2>2. /\ Bounded(i) /\ clock' = clock /\ count'[i] = count[i] /\ block'[i] = block[i]
        /\ Opening(i)' = Opening(i) /\ Locking(i)' = Locking(i)
        /\ block[i] # NoBlock => Guessing(i)' \subseteq Guessing(i)
    BY <1>2, <2>1 DEF Quiet, Kept, Alike
  <2>3. Room(i)' = Room(i)
    BY <2>2 DEF Room, Outlives, Final, Slots
  <2>4. block[i] # NoBlock => Cardinality(Guessing(i)') <= Cardinality(Guessing(i))
    BY <2>2, FewerLogins DEF Guessing
  <2>5. count[i].n \in Nat /\ Room(i) \in Nat
    BY RoomEnough DEF TypeOK
  <2> QED
    BY <2>2, <2>3, <2>4, <2>5, SlotsShared, RoomEnoughNext DEF Bounded, Slots
<1> QED
  BY <1>1, <1>2

\* INCR: a guess becomes a failure.
LEMMA CountsKeepsBound ==
    ASSUME TypeOK, NEW r \in Requests, NEW i \in Ips, Counts(r, i), Bounded(i)
    PROVE  Bounded(i)'
<1>1. /\ UNCHANGED <<clock, block>> /\ Others(r) /\ count[i].n \in Nat
      /\ req[r].pc = "count" /\ req[r].ip = i /\ req'[r].pc \in {"idle", "window", "block"}
      /\ count'[i].n = count[i].n + 1 /\ count'[i].until = count[i].until
      /\ req'[r].pc # "idle" => req'[r].ip = i
      /\ req'[r].pc = "window" <=> count[i].n = 0
      /\ req'[r].pc = "block" <=> count[i].n + 1 >= Limit
  BY DEF Counts, TypeOK
<1>2. Cardinality(Guessing(i)') = Cardinality(Guessing(i)) - 1
  BY <1>1, OneLoginLess DEF Guessing
<1>3. IF count[i].n + 1 >= Limit
      THEN Cardinality(Locking(i)') = Cardinality(Locking(i)) + 1
      ELSE Cardinality(Locking(i)') = Cardinality(Locking(i))
  <2>1. CASE count[i].n + 1 >= Limit
    BY <1>1, <2>1, OneMoreLogin DEF Locking
  <2>2. CASE ~(count[i].n + 1 >= Limit)
    BY <1>1, <2>2, SameLogins DEF Locking
  <2> QED
    BY <2>1, <2>2
<1>4. Slots' = Slots
  BY DEF Slots
<1>5. CASE block[i] = NoBlock
  <2>1. count[i].n < Limit + Cardinality(Locking(i)) + Slots - 1
    BY <1>5 DEF Bounded
  <2>2. count'[i].n < Limit + Cardinality(Locking(i)') + Slots - 1
    BY <1>1, <1>3, <2>1, SlotsShared
  <2> QED
    BY <1>1, <1>4, <1>5, <2>2 DEF Bounded
<1>6. CASE block[i] # NoBlock /\ count[i].n = 0
  <2>1. count'[i].n + Cardinality(Guessing(i)') < Limit + Room(i)'
    BY <1>1, <1>2, <1>6, SlotsShared, RoomEnoughNext
  <2> QED
    BY <1>1, <1>6, <2>1 DEF Bounded
<1>7. CASE block[i] # NoBlock /\ count[i].n # 0
  <2>1. Opening(i)' = Opening(i)
    BY <1>1, <1>7, SameLogins DEF Opening
  <2>2. Room(i)' = Room(i)
    BY <1>1, <2>1 DEF Room, Outlives, Final, Slots
  <2>3. count[i].n + Cardinality(Guessing(i)) < Limit + Room(i)
    BY <1>7 DEF Bounded
  <2>4. count'[i].n + Cardinality(Guessing(i)') < Limit + Room(i)'
    BY <1>1, <1>2, <2>2, <2>3, SlotsShared, RoomEnough
  <2> QED
    BY <1>1, <1>7, <2>4 DEF Bounded
<1> QED
  BY <1>5, <1>6, <1>7

\* EXPIRE: room had been kept for a counter that would outlive its block.
LEMMA OpensKeepsBound ==
    ASSUME TypeOK, NEW r \in Requests, NEW i \in Ips, Opens(r, i), Bounded(i)
    PROVE  Bounded(i)'
<1>1. /\ block' = block /\ Others(r) /\ count'[i].n = count[i].n /\ count[i].n \in Nat
      /\ req[r].pc = "window" /\ req[r].ip = i /\ req'[r].pc = "idle"
  BY DEF Opens, TypeOK
<1>2. Guessing(i)' = Guessing(i) /\ Locking(i)' = Locking(i)
  BY <1>1, SameLogins DEF Guessing, Locking
<1>3. Outlives(i)
  BY <1>1 DEF Outlives, Opening, Logins
<1>4. Slots' = Slots
  BY DEF Slots
<1>5. CASE block[i] = NoBlock
  BY <1>1, <1>2, <1>4, <1>5 DEF Bounded
<1>6. CASE block[i] # NoBlock
  <2>1. count[i].n + Cardinality(Guessing(i)) < Limit + (Slots - 1)
    BY <1>3, <1>6 DEF Bounded, Room
  <2>2. count'[i].n + Cardinality(Guessing(i)') < Limit + Room(i)'
    BY <1>1, <1>2, <2>1, SlotsShared, RoomEnoughNext
  <2> QED
    BY <1>1, <1>6, <2>2 DEF Bounded
<1> QED
  BY <1>5, <1>6

\* SET: who has passed may still guess, and that is all.
LEMMA SetsKeepsBound ==
    ASSUME TypeOK, NEW r \in Requests, NEW i \in Ips, Sets(r, i), Bounded(i), Blocked(i),
           Deadline(i)
    PROVE  Bounded(i)'
<1>1. /\ UNCHANGED <<clock, count>> /\ Others(r) /\ block'[i] = clock + Window
      /\ req[r].pc = "block" /\ req[r].ip = i /\ req'[r].pc = "idle"
      /\ clock \in Nat \ {0} /\ count[i].n \in Nat /\ count[i].until \in Nat /\ block[i] \in Nat
  BY DEF Sets, TypeOK
<1>2. Guessing(i)' = Guessing(i) /\ Opening(i)' = Opening(i)
  BY <1>1, SameLogins DEF Guessing, Opening
<1>3. PICK n, A, B, S :
        /\ n = count[i].n /\ A = Cardinality(Guessing(i)) /\ B = Cardinality(Locking(i))
        /\ S = Slots
  OBVIOUS
<1>4. /\ n \in Nat /\ A \in Nat /\ B \in Nat /\ S \in Nat \ {0} /\ A + B <= S
      /\ Opening(i) # {} => A + B + 1 <= S
  BY <1>1, <1>3, SlotsShared
<1>5. Room(i)' = IF Opening(i) # {} THEN S - 1 ELSE IF Final(i) THEN 2 * S - 1 ELSE S
  <2>1. count[i].until <= clock + Window
    BY <1>1 DEF Deadline
  <2>2. Outlives(i)' <=> Opening(i) # {}
    BY <1>1, <1>2, <2>1 DEF Outlives
  <2>3. Final(i)' <=> Final(i)
    BY <1>1, <1>2 DEF Final
  <2> QED
    BY <1>3, <2>2, <2>3 DEF Room, Slots
<1>6. n + A < Limit + Room(i)'
  <2>1. CASE block[i] = NoBlock
    <3>1. n < Limit + B + S - 1 /\ (n < Limit + B \/ Final(i))
      BY <1>3, <2>1 DEF Bounded, Blocked
    <3>2. Final(i) => Opening(i) = {}
      BY DEF Final
    <3> QED
      BY <1>4, <1>5, <3>1, <3>2
  <2>2. CASE block[i] # NoBlock
    <3>1. n + A < Limit + Room(i)
      BY <1>3, <2>2 DEF Bounded
    <3>2. Room(i) = IF Outlives(i) THEN S - 1 ELSE IF Final(i) THEN 2 * S - 1 ELSE S
      BY <1>3 DEF Room
    <3>3. Opening(i) # {} => Outlives(i)
      BY DEF Outlives
    <3> QED
      BY <1>4, <1>5, <3>1, <3>2, <3>3
  <2> QED
    BY <2>1, <2>2
<1> QED
  BY <1>1, <1>2, <1>3, <1>6 DEF Bounded

\* Time: a counter that stays on when its block ends had outlived it.
LEMMA TickKeepsBound ==
    ASSUME TypeOK, NEW i \in Ips, Tick, Deadline(i), Timed(i), Settled(i)',
           Settled(i) => Bounded(i)
    PROVE  Bounded(i)'
<1>1. /\ clock \in Nat \ {0} /\ clock' = clock + 1
      /\ count'[i] = IF count[i].until = clock + 1 THEN NoKey ELSE count[i]
      /\ block'[i] = IF block[i] = clock + 1 THEN NoBlock ELSE block[i]
      /\ desk' = Remaining(count', block')
      /\ count[i].n \in Nat /\ count[i].until \in Nat /\ block[i] \in Nat
      /\ Opening(i)' = Opening(i) /\ Locking(i)' = Locking(i) /\ Guessing(i)' = Guessing(i)
  BY TickEffect
<1>2. CASE count'[i].n = 0
  BY <1>2, NoneBounded
<1>3. CASE count'[i].n # 0
  <2>1. count'[i] = count[i] /\ count[i].n # 0 /\ count[i].until # clock + 1
    BY <1>1, <1>3 DEF NoKey
  <2>2. Bounded(i)
    BY <1>1, <2>1, RemainingSettles
  <2>3. Slots' = Slots
    BY DEF Slots
  <2>4. CASE block[i] = NoBlock
    BY <1>1, <2>1, <2>2, <2>3, <2>4 DEF Bounded
  <2>5. CASE block[i] # NoBlock /\ block[i] # clock + 1
    <3>1. Outlives(i)' <=> Outlives(i)
      BY <1>1, <2>1, <2>5 DEF Outlives
    <3>2. Final(i) => Final(i)'
      <4>1. Delay \in Nat
        BY DelayAssumption
      <4> QED
        BY <1>1, <2>1, <4>1 DEF Final
    <3>3. Room(i) <= Room(i)'
      BY <3>1, <3>2, <2>3, SlotsShared DEF Room
    <3>4. count'[i].n + Cardinality(Guessing(i)') < Limit + Room(i)'
      BY <1>1, <2>1, <2>2, <2>5, <3>3, SlotsShared, RoomEnough, RoomEnoughNext DEF Bounded
    <3> QED
      BY <1>1, <2>5, <3>4 DEF Bounded
  <2>6. CASE block[i] = clock + 1
    <3>1. Outlives(i)
      BY <1>1, <2>1, <2>6 DEF Outlives, Deadline, Timed
    <3>2. count[i].n + Cardinality(Guessing(i)) < Limit + (Slots - 1)
      BY <1>1, <2>2, <2>6, <3>1 DEF Bounded, Room
    <3>3. count'[i].n < Limit + Cardinality(Locking(i)') + Slots - 1
      BY <1>1, <2>1, <3>2, SlotsShared
    <3> QED
      BY <1>1, <2>3, <2>6, <3>3 DEF Bounded
  <2> QED
    BY <2>4, <2>5, <2>6
<1> QED
  BY <1>2, <1>3

\* Every step keeps the bound.
LEMMA TriedStep == Tried /\ [Next]_vars => Tried'
<1> SUFFICES ASSUME Tried, [Next]_vars, NEW i \in Regular', Settled(i)' PROVE Bounded(i)'
  BY LockStep DEF Tried
<1>1. TypeOK /\ i \in Ips /\ Lock(i) /\ i \notin faulted'
  BY DEF Tried, IInv, Regular
<1>2. faulted \subseteq faulted' /\ late \subseteq late' =>
        /\ Timed(i)
        /\ Settled(i) => Bounded(i) /\ Blocked(i)
  BY <1>1 DEF Tried, Regular, Lock
<1>3. CASE Tick
  <2>1. faulted \subseteq faulted' /\ late \subseteq late'
    BY <1>1, <1>3, TickEffect
  <2> QED
    BY <1>1, <1>2, <1>3, <2>1, TickKeepsBound DEF Lock
<1>4. CASE Crash
  BY <1>1, <1>4 DEF Crash
<1>5. CASE Quiet(i)
  <2>1. faulted \subseteq faulted' /\ late \subseteq late'
    BY <1>5 DEF Quiet
  <2> QED
    BY <1>1, <1>2, <1>5, <2>1, QuietKeepsBound
<1>6. ASSUME NEW r \in Requests, Counts(r, i) \/ Opens(r, i) \/ Sets(r, i)
      PROVE  Bounded(i)'
  <2>1. UNCHANGED <<desk, faulted, late>>
    BY <1>6 DEF Counts, Opens, Sets
  <2>2. Settled(i)
    BY <2>1 DEF Settled
  <2> QED
    BY <1>1, <1>2, <1>6, <2>1, <2>2, CountsKeepsBound, OpensKeepsBound, SetsKeepsBound DEF Lock
<1>7. ASSUME NEW r \in Requests, Fails(r, i) PROVE FALSE
  BY <1>1, <1>7 DEF Fails
<1>8. Tick \/ Crash \/ Quiet(i) \/ \E r \in Requests : Writes(r, i)
  BY <1>1, StepShape
<1> QED
  BY <1>3, <1>4, <1>5, <1>6, <1>7, <1>8 DEF Writes

\* A counter exceeds the limit by twice the logins served at the same time as
\* the one that reached it (auth_service.py:145, maintain_cache_key.py:44-49).
THEOREM AttemptsAreBounded == Spec => []AttemptsBounded
<1>1. Init => Tried
  <2> SUFFICES ASSUME Init, NEW i \in Regular PROVE Bounded(i)
    BY LockInit DEF Tried
  <2>1. count[i].n = 0 /\ block[i] = NoBlock
    BY DEF Init, Regular, NoKey
  <2> QED
    BY <2>1, SlotsShared DEF Bounded
<1>2. Tried => AttemptsBounded
  <2> SUFFICES ASSUME Tried, NEW i \in Regular, desk.phase = "off"
               PROVE  count[i].n <= Limit + 2 * (Slots - 1)
    BY DEF AttemptsBounded, Slots
  <2>1. Bounded(i) /\ count[i].n \in Nat
    BY DEF Tried, Settled, IInv, TypeOK, Regular
  <2>2. Room(i) <= 2 * Slots - 1
    BY SlotsShared DEF Room
  <2> QED
    BY <2>1, <2>2, SlotsShared, RoomEnough DEF Bounded
<1> QED
  BY <1>1, <1>2, TriedStep, PTL DEF Spec

=============================================================================
