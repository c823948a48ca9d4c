------------------------------ MODULE LoginGuard ------------------------------
(***************************************************************************)
(* What stands before a session is opened: authenticate_user up to its     *)
(* clear_failed_login (auth_service.py 129-187) for one account, with the  *)
(* lockout of (IP, username) pairs (maintain_cache_key.py 34-91), bans     *)
(* that end by themselves, and administrators.                             *)
(*                                                                         *)
(* A tick may pass between any two steps.  A login whose EXPIRE or SET     *)
(* takes effect within Delay ticks of its INCR is on time: a Redis call    *)
(* that takes longer than socket_timeout, 5 s, raises.  One that is held   *)
(* up for longer, by a stalled event loop, makes its address late.         *)
(***************************************************************************)
EXTENDS Integers, Sequences, FiniteSets

CONSTANTS
    Ips,        \* client addresses
    Requests,   \* slots for logins being served at the same time
    Limit,      \* max_attempts
    Window,     \* window_sec, life of a counter and of a block, in ticks
    Delay,      \* ticks after its INCR at which an EXPIRE or SET is still on time
    MaxClock,   \* bound: last tick of the run
    BanEnds,    \* bound: ticks at which bans that administrators set may end
    MaxCount,   \* bound: counter at which logins stop arriving
    Env         \* what may go wrong, see EnvKinds

EnvKinds == {"fault",   \* a Redis or Postgres call raises
             "crash",   \* the process dies and restarts
             "admin"}   \* administrators write the row while a login is served

ASSUME RequestsAssumption == IsFiniteSet(Requests) /\ Requests # {}
ASSUME LimitAssumption  == Limit \in Nat \ {0, 1}
ASSUME WindowAssumption == Window \in Nat \ {0}
ASSUME DelayAssumption  == Delay \in 1..(Window - 1)
ASSUME BoundAssumption  == MaxClock \in Nat \ {0} /\ MaxCount \in Nat
ASSUME BanAssumption    == BanEnds \subseteq Nat \ {0}
ASSUME EnvAssumption    == Env \subseteq EnvKinds

Ticks    == 1..MaxClock
Statuses == {"ACTIVE", "SUSPENDED", "PENDING"}   \* INACTIVE is as PENDING
NoBan    == 0
NoTtl    == 0
NoBlock  == 0
NotYet   == 0
NoKey    == [n |-> 0, until |-> NoTtl]

VARIABLES
    clock,
    account,   \* row of auth.users: status, banned_until_time
    count,     \* failed_login_count:{ip}:{username} of each ip: value and deadline
    block,     \* deadline of failed_login_block:{ip}:{username}, NoBlock if there is none
    req,       \* the logins being served
    desk,      \* admin_unblock_user: which keys it scans for, and those it must find
    failed,    \* history: ticks of an ip's last Limit recorded failures
    faulted,   \* history: ips a call for which failed or was cut short
    late       \* history: ips an EXPIRE or SET for which was not on time

vars == <<clock, account, count, block, req, desk, failed, faulted, late>>

Stages == {"user",     \* awaiting SELECT of the account
           "locked",   \* awaiting EXISTS of the block key
           "lift",     \* awaiting COMMIT of the lifted ban
           "verify",   \* awaiting the password check in its thread
           "count",    \* awaiting INCR of the counter
           "window",   \* awaiting EXPIRE of the counter
           "block",    \* awaiting SET of the block key
           "clear"}    \* awaiting DEL of both keys
Idle   == [pc |-> "idle"]
Rows   == [status : Statuses, ban : BanEnds \cup {NoBan}]
Calls  == [pc : Stages, ip : Ips, row : Rows,
           since : Ticks \cup {NotYet}]   \* tick of the login's INCR
NoRow  == [status |-> "PENDING", ban |-> NoBan]   \* before the SELECT
Away   == [phase |-> "off", todo |-> {}]

TypeOK ==
    /\ clock \in Ticks
    /\ account \in Rows
    /\ count \in [Ips -> [n : Nat, until : Nat]]
    /\ block \in [Ips -> Nat]
    /\ req \in [Requests -> {Idle} \cup Calls]
    /\ desk \in [phase : {"off", "blocks", "counts"}, todo : SUBSET Ips]
    /\ failed \in [Ips -> Seq(Ticks)]
    /\ faulted \in SUBSET Ips
    /\ late \in SUBSET Ips

Init ==
    /\ clock = 1
    /\ account = [status |-> "ACTIVE", ban |-> NoBan]
    /\ count = [i \in Ips |-> NoKey]
    /\ block = [i \in Ips |-> NoBlock]
    /\ req = [r \in Requests |-> Idle]
    /\ desk = Away
    /\ failed = [i \in Ips |-> <<>>]
    /\ faulted = {}
    /\ late = {}

At(r, pc)   == req[r].pc = pc
GoTo(r, pc) == req' = [req EXCEPT ![r].pc = pc]
Answer(r)   == req' = [req EXCEPT ![r] = Idle]

\* What the desk still has to find when the keys are c and b: SCAN is bound to
\* return only the keys that stay for the whole of the iteration.
Remaining(c, b) == [desk EXCEPT !.todo =
    {i \in desk.todo : IF desk.phase = "blocks" THEN b[i] # NoBlock ELSE c[i].n > 0}]

(***************************************************************************)
(* Time: keys end at their deadline, and a record under way grows old.     *)
(***************************************************************************)
Overdue(r) == req[r].pc \in {"window", "block"} /\ req[r].since + Delay <= clock

Tick ==
    /\ clock < MaxClock
    /\ clock' = clock + 1
    /\ count' = [i \in Ips |-> IF count[i].until = clock' THEN NoKey ELSE count[i]]
    /\ block' = [i \in Ips |-> IF block[i] = clock' THEN NoBlock ELSE block[i]]
    /\ desk' = Remaining(count', block')
    /\ late' = late \cup {req[r].ip : r \in {q \in Requests : Overdue(q)}}
    /\ UNCHANGED <<account, req, failed, faulted>>

(***************************************************************************)
(* A login: the account, the lockout, the ban, the status.                 *)
(***************************************************************************)
BeginLogin(r, i) ==
    /\ req[r] = Idle
    /\ count[i].n < MaxCount
    /\ req' = [req EXCEPT ![r] = [pc |-> "user", ip |-> i, row |-> NoRow,
                                         since |-> NotYet]]
    /\ UNCHANGED <<clock, account, count, block, desk, failed, faulted, late>>

GetUser(r) ==
    /\ At(r, "user")
    /\ req' = [req EXCEPT ![r].pc = "locked", ![r].row = account]
    /\ UNCHANGED <<clock, account, count, block, desk, failed, faulted, late>>

RefuseBlocked(r) ==
    /\ At(r, "locked")
    /\ block[req[r].ip] # NoBlock
    /\ Answer(r)
    /\ UNCHANGED <<clock, account, count, block, desk, failed, faulted, late>>

\* Faulty variant of Admit: any ban is lifted, whether over or not.
LiftsAnyBan(r) ==
    LET row == req[r].row IN
      \/ row.ban # NoBan /\ GoTo(r, "lift")
      \/ row.ban = NoBan /\ row.status = "ACTIVE" /\ GoTo(r, "verify")
      \/ row.ban = NoBan /\ row.status # "ACTIVE" /\ Answer(r)

\* Past the lockout: what the row says, at this tick.
Admit(r) ==
    LET row == req[r].row IN
      \/ /\ row.ban # NoBan /\ clock < row.ban
         /\ Answer(r)
      \/ /\ row.ban # NoBan /\ row.ban <= clock
         /\ GoTo(r, "lift")
      \/ /\ row.ban = NoBan /\ row.status = "ACTIVE"
         /\ GoTo(r, "verify")
      \/ /\ row.ban = NoBan /\ row.status # "ACTIVE"
         /\ Answer(r)

\* Faulty variant of NotBlocked: the lockout is not looked up.
SkipsLookup(r) ==
    /\ At(r, "locked")
    /\ Admit(r)
    /\ UNCHANGED <<clock, account, count, block, desk, failed, faulted, late>>

NotBlocked(r) ==
    /\ At(r, "locked")
    /\ block[req[r].ip] = NoBlock
    /\ Admit(r)
    /\ UNCHANGED <<clock, account, count, block, desk, failed, faulted, late>>

\* EXISTS raised: the pair passes for free.
LookupFails(r) ==
    /\ "fault" \in Env
    /\ At(r, "locked")
    /\ Admit(r)
    /\ faulted' = faulted \cup {req[r].ip}
    /\ UNCHANGED <<clock, account, count, block, desk, failed, late>>

\* The COMMIT writes the columns that differ from the row as it was read.
LiftBan(r) ==
    /\ At(r, "lift")
    /\ LET was == req[r].row.status IN
         /\ account' = [status |-> IF was = "SUSPENDED" THEN "ACTIVE" ELSE account.status,
                        ban |-> NoBan]
         /\ IF was = "PENDING" THEN Answer(r) ELSE GoTo(r, "verify")
    /\ UNCHANGED <<clock, count, block, desk, failed, faulted, late>>

(***************************************************************************)
(* The password, and the failure's record: INCR, then EXPIRE or SET.       *)
(***************************************************************************)
Mismatch(r) ==
    /\ At(r, "verify")
    /\ GoTo(r, "count")
    /\ UNCHANGED <<clock, account, count, block, desk, failed, faulted, late>>

Match(r) ==
    /\ At(r, "verify")
    /\ GoTo(r, "clear")
    /\ UNCHANGED <<clock, account, count, block, desk, failed, faulted, late>>

\* INCR took effect, and the failure joins the history.
Counted(i) ==
    /\ count' = [count EXCEPT ![i].n = count[i].n + 1]
    /\ failed' = [failed EXCEPT ![i] =
                    LET all == Append(failed[i], clock) IN
                      IF Len(all) > Limit THEN Tail(all) ELSE all]

\* The login goes on with what its INCR asks for.
Records(r, pc) == req' = [req EXCEPT ![r].pc = pc, ![r].since = clock]

\* Faulty variant of RecordFailedLogin: the EXPIRE comes with the block only.
ForgetsExpire(r) ==
    /\ At(r, "count")
    /\ Counted(req[r].ip)
    /\ IF count[req[r].ip].n + 1 < Limit THEN Answer(r) ELSE Records(r, "block")
    /\ UNCHANGED <<clock, account, block, desk, faulted, late>>

RecordFailedLogin(r) ==
    /\ At(r, "count")
    /\ Counted(req[r].ip)
    /\ LET n == count[req[r].ip].n + 1 IN
         \/ n = 1 /\ Records(r, "window")
         \/ n > 1 /\ n < Limit /\ Answer(r)
         \/ n >= Limit /\ Records(r, "block")
    /\ UNCHANGED <<clock, account, block, desk, faulted, late>>

\* Faulty variant of OpenWindow: the counter lives longer than the window.
OpensLongWindow(r) ==
    /\ At(r, "window")
    /\ LET i == req[r].ip IN
         count' = IF count[i].n > 0
                  THEN [count EXCEPT ![i].until = clock + Window + Delay] ELSE count
    /\ Answer(r)
    /\ UNCHANGED <<clock, account, block, desk, failed, faulted, late>>

\* EXPIRE finds the counter, or finds it deleted.
OpenWindow(r) ==
    /\ At(r, "window")
    /\ LET i == req[r].ip IN
         count' = IF count[i].n > 0
                  THEN [count EXCEPT ![i].until = clock + Window] ELSE count
    /\ Answer(r)
    /\ UNCHANGED <<clock, account, block, desk, failed, faulted, late>>

BlockPair(r) ==
    /\ At(r, "block")
    /\ block' = [block EXCEPT ![req[r].ip] = clock + Window]
    /\ Answer(r)
    /\ UNCHANGED <<clock, account, count, desk, failed, faulted, late>>

\* A command of the record raises, an INCR having reached Redis or not; the
\* exception is logged, and the client is answered 401 as ever.
RecordFails(r) ==
    /\ "fault" \in Env
    /\ \/ At(r, "count") /\ Counted(req[r].ip)
       \/ req[r].pc \in {"count", "window", "block"} /\ UNCHANGED <<count, failed>>
    /\ Answer(r)
    /\ faulted' = faulted \cup {req[r].ip}
    /\ UNCHANGED <<clock, account, block, desk, late>>

\* Faulty variant of ClearFailedLogin: only the block key is deleted.
ClearsBlockOnly(r) ==
    /\ At(r, "clear")
    /\ block' = [block EXCEPT ![req[r].ip] = NoBlock]
    /\ desk' = Remaining(count, block')
    /\ Answer(r)
    /\ UNCHANGED <<clock, account, count, failed, faulted, late>>

\* Faulty variant of ClearFailedLogin: DECR instead of DEL.
TakesOneBack(r) ==
    /\ At(r, "clear")
    /\ count' = [count EXCEPT ![req[r].ip].n = count[req[r].ip].n - 1]
    /\ block' = [block EXCEPT ![req[r].ip] = NoBlock]
    /\ desk' = Remaining(count', block')
    /\ Answer(r)
    /\ UNCHANGED <<clock, account, failed, faulted, late>>

\* The right password: one DEL of both keys, then the session is opened.
ClearFailedLogin(r) ==
    /\ At(r, "clear")
    /\ count' = [count EXCEPT ![req[r].ip] = NoKey]
    /\ block' = [block EXCEPT ![req[r].ip] = NoBlock]
    /\ desk' = Remaining(count', block')
    /\ Answer(r)
    /\ UNCHANGED <<clock, account, failed, faulted, late>>

\* SELECT or COMMIT raises: a 500.  DEL raises: logged, and on with the session.
Abort(r) ==
    /\ "fault" \in Env
    /\ req[r].pc \in {"user", "lift", "clear"}
    /\ Answer(r)
    /\ UNCHANGED <<clock, account, count, block, desk, failed, faulted, late>>

(***************************************************************************)
(* Administrators.  They write the row from outside of src/, and           *)
(* admin_unblock_user scans for and deletes block keys, then counters.     *)
(***************************************************************************)
AdminUpdate(row) ==
    /\ "admin" \in Env \/ \A r \in Requests : req[r] = Idle
    /\ account' = row
    /\ UNCHANGED <<clock, count, block, req, desk, failed, faulted, late>>

BeginUnblock ==
    /\ desk.phase = "off"
    /\ desk' = [phase |-> "blocks", todo |-> {i \in Ips : block[i] # NoBlock}]
    /\ UNCHANGED <<clock, account, count, block, req, failed, faulted, late>>

UnblockPair(i) ==
    /\ desk.phase = "blocks"
    /\ block[i] # NoBlock
    /\ block' = [block EXCEPT ![i] = NoBlock]
    /\ desk' = Remaining(count, block')
    /\ UNCHANGED <<clock, account, count, req, failed, faulted, late>>

ScanCounts ==
    /\ desk.phase = "blocks"
    /\ desk.todo = {}
    /\ desk' = [phase |-> "counts", todo |-> {i \in Ips : count[i].n > 0}]
    /\ UNCHANGED <<clock, account, count, block, req, failed, faulted, late>>

ForgetCount(i) ==
    /\ desk.phase = "counts"
    /\ count[i].n > 0
    /\ count' = [count EXCEPT ![i] = NoKey]
    /\ desk' = Remaining(count', block)
    /\ UNCHANGED <<clock, account, block, req, failed, faulted, late>>

EndUnblock ==
    /\ desk.phase = "counts"
    /\ desk.todo = {}
    /\ desk' = Away
    /\ UNCHANGED <<clock, account, count, block, req, failed, faulted, late>>

\* A scan or a delete raises, and nothing catches it.
UnblockFails ==
    /\ "fault" \in Env
    /\ desk.phase # "off"
    /\ desk' = Away
    /\ faulted' = Ips
    /\ UNCHANGED <<clock, account, count, block, req, failed, late>>

Crash ==
    /\ "crash" \in Env
    /\ req' = [r \in Requests |-> Idle]
    /\ desk' = Away
    /\ faulted' = Ips
    /\ UNCHANGED <<clock, account, count, block, failed, late>>

-----------------------------------------------------------------------------
Serve(r) ==
    \/ \E i \in Ips : BeginLogin(r, i)
    \/ GetUser(r)
    \/ RefuseBlocked(r)
    \/ NotBlocked(r)
    \/ LookupFails(r)
    \/ LiftBan(r)
    \/ Mismatch(r)
    \/ Match(r)
    \/ RecordFailedLogin(r)
    \/ OpenWindow(r)
    \/ BlockPair(r)
    \/ RecordFails(r)
    \/ ClearFailedLogin(r)
    \/ Abort(r)

Unblock ==
    \/ BeginUnblock
    \/ ScanCounts
    \/ EndUnblock
    \/ UnblockFails
    \/ \E i \in Ips : UnblockPair(i) \/ ForgetCount(i)

Next ==
    \/ Tick
    \/ \E r \in Requests : Serve(r)
    \/ Unblock
    \/ \E row \in Rows : AdminUpdate(row)
    \/ Crash

Spec == Init /\ [][Next]_vars

-----------------------------------------------------------------------------
\* Some login from ip i is at one of the stages pcs.
Busy(i, pcs) == \E r \in Requests : req[r].pc \in pcs /\ req[r].ip = i

\* A counter has a deadline, or the login that created it is about to set one
\* (maintain_cache_key.py:46): no pair is counted for ever.
CountersExpire == \A i \in Ips \ faulted :
    count[i].n > 0 /\ count[i].until = NoTtl => Busy(i, {"window"})

\* The addresses whose calls were all answered, and on time.
Regular == Ips \ (faulted \cup late)

\* A counter at the limit has a block, unless the SET is under way or an
\* administrator is at work, but for the end of its life: counter and block get
\* their deadlines from different calls (maintain_cache_key.py:46, 49), so the
\* counter may outlive the block, and then by Delay ticks at most.
LockedAtLimit == \A i \in Regular :
    count[i].n >= Limit /\ desk.phase = "off" /\ ~Busy(i, {"block"}) =>
        IF block[i] # NoBlock
        THEN count[i].until <= block[i] + Delay
        ELSE count[i].until # NoTtl /\ count[i].until <= clock + Delay

\* Guesses beyond the limit come from logins served at the same time as the one
\* that reaches it: those that had passed the lockout check before (auth_service.py
\* :145), and those that pass in the moment between the end of the block and that
\* of the counter.  Each of the two adds one per other login, and no more.
AttemptsBounded == \A i \in Regular :
    desk.phase = "off" => count[i].n <= Limit + 2 * (Cardinality(Requests) - 1)

\* Limit failures were recorded for ip i within the last w ticks.
Within(i, w) == Len(failed[i]) = Limit /\ failed[i][1] > clock - w

\* A block is set for ip i, or its deadline moved.
Locks(i) == block'[i] \notin {NoBlock, block[i]}

\* What EXPIRE and SET may add to the window, each.
Margin == 2 * Delay

\* A pair all of whose calls are answered on time is locked out only for Limit
\* failures within one window, and the time its EXPIRE and its SET took.
ReliableLock == [][\A i \in Regular : Locks(i) => Within(i, Window + Margin)]_vars

\* So it is of every pair whose calls take no longer than that, failing or not
\* (AUTHENTICATION_README.md:150, "attempts >= 5 in 15 mins?").
LocksOnlyInWindow == [][\A i \in Ips \ late : Locks(i) => Within(i, Window + Margin)]_vars

\* A login lifts a ban only when it is over (AUTHENTICATION_README.md:120, "If
\* `banned_until_time` has expired, the system automatically restores").
LiftsOnlyExpired == [][\A r \in Requests :
    /\ At(r, "lift")
    /\ req'[r] # req[r]
    /\ account' # account
    => account.ban <= clock]_vars
=============================================================================
