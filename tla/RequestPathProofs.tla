-------------------------- MODULE RequestPathProofs --------------------------
(***************************************************************************)
(* Proofs about RequestPath, for every limit, pool, bound and environment  *)
(* and any number of requests.                                             *)
(***************************************************************************)
EXTENDS RequestPath, FiniteSetTheorems, TLAPS

Counters == [n : Nat, ttl : BOOLEAN]

\* AtMostLimit is not inductive: that the next request to pass is still within
\* the limit follows from the counter, which no more requests have passed than.
WindowInv ==
    /\ counter \in Counters
    /\ passed \in Nat
    /\ passed <= counter.n
    /\ AtMostLimit

\* The counter grows by one, and the record keeps its type.
LEMMA CountUp ==
    ASSUME WindowInv, counter' = [counter EXCEPT !.n = @ + 1]
    PROVE  counter' \in Counters /\ counter'.n = counter.n + 1
BY DEF WindowInv, Counters

\* The TTL says nothing about the count.
LEMMA GetsTtl ==
    ASSUME WindowInv, counter' = [counter EXCEPT !.ttl = counter.n > 0]
    PROVE  counter' \in Counters /\ counter'.n = counter.n
<1>1. PICK b \in BOOLEAN : counter' = [counter EXCEPT !.ttl = b]
  <2>1. (counter.n > 0) \in BOOLEAN
    BY DEF WindowInv, Counters
  <2> QED
    BY <2>1, Zenon
<1> QED
  BY <1>1 DEF WindowInv, Counters

\* A step that does not lower the counter and lets nobody pass.
LEMMA NobodyPasses ==
    ASSUME WindowInv, UNCHANGED passed, counter' \in Counters, counter'.n >= counter.n
    PROVE  WindowInv'
BY DEF WindowInv, AtMostLimit, Counters

\* Every step keeps the count ahead of those who passed.
LEMMA WindowStep == WindowInv /\ [Next]_vars => WindowInv'
<1> SUFFICES ASSUME WindowInv, [Next]_vars PROVE WindowInv'
  OBVIOUS
<1>1. ASSUME UNCHANGED <<counter, passed>> PROVE WindowInv'
  BY <1>1 DEF WindowInv, AtMostLimit
<1>2. ASSUME NEW r \in Requests, Count(r) PROVE WindowInv'
  <2>1. counter' \in Counters /\ counter'.n = counter.n + 1
    BY <1>2, CountUp DEF Count
  <2>2. passed' = IF counter.n + 1 > Limit THEN passed ELSE passed + 1
    BY <1>2 DEF Count, AfterCount
  <2>3. counter.n \in Nat /\ passed \in Nat /\ passed <= counter.n /\ passed <= Limit
    BY DEF WindowInv, AtMostLimit, Counters
  <2> QED
    BY <2>1, <2>2, <2>3, LimitAssumption DEF WindowInv, AtMostLimit
<1>3. ASSUME NEW r \in Requests, StartWindow(r) PROVE WindowInv'
  <2>1. counter' \in Counters /\ counter'.n = counter.n
    BY <1>3, GetsTtl DEF StartWindow
  <2>2. counter.n \in Nat
    BY DEF WindowInv, Counters
  <2> QED
    BY <1>3, <2>1, <2>2, NobodyPasses DEF StartWindow
<1>4. ASSUME NEW r \in Requests, Bypass(r) PROVE WindowInv'
  <2>1. counter' \in Counters /\ counter'.n >= counter.n
    <3>1. counter \in Counters /\ counter.n \in Nat
      BY DEF WindowInv, Counters
    <3>2. CASE counter' = counter
      BY <3>1, <3>2
    <3>3. CASE At(r, "incr") /\ counter' = [counter EXCEPT !.n = @ + 1]
      BY <3>1, <3>3, CountUp
    <3>4. CASE At(r, "expire") /\ counter' = [counter EXCEPT !.ttl = counter.n > 0]
      BY <3>1, <3>4, GetsTtl
    <3> QED
      BY <1>4, <3>2, <3>3, <3>4 DEF Bypass, At, Limiter
  <2> QED
    BY <1>4, <2>1, NobodyPasses DEF Bypass
<1>5. CASE WindowEnds
  BY <1>5, LimitAssumption DEF WindowEnds, WindowInv, AtMostLimit, NoKey, Counters
<1>6. CASE Crash
  <2>1. counter' \in Counters /\ counter'.n >= counter.n
    <3>1. counter \in Counters /\ counter.n \in Nat
      BY DEF WindowInv, Counters
    <3>2. counter' = counter \/ counter' = [counter EXCEPT !.n = @ + 1]
      BY <1>6, Zenon DEF Crash
    <3> QED
      BY <3>1, <3>2, CountUp
  <2> QED
    BY <1>6, <2>1, NobodyPasses DEF Crash
<1>7. ASSUME NEW r \in Requests, Step(r) PROVE WindowInv'
  <2>1. CASE Count(r)
    BY <1>2, <2>1
  <2>2. CASE StartWindow(r)
    BY <1>3, <2>2
  <2>3. CASE \/ Limited(r) \/ LookUp(r) \/ CheckOut(r) \/ PoolTimeout(r)
             \/ ReadRow(r) \/ CheckIn(r) \/ Answer(r)
    BY <1>1, <2>3 DEF Limited, LookUp, CheckOut, PoolTimeout, ReadRow, CheckIn, Answer
  <2> QED
    BY <1>7, <2>1, <2>2, <2>3 DEF Step
<1>8. ASSUME NEW r \in Requests, Arrive(r) \/ CallFails(r) PROVE WindowInv'
  BY <1>1, <1>8 DEF Arrive, CallFails
<1>9. CASE SyncCheckOut \/ SyncTimeout \/ SyncEnds \/ Stop \/ Shutdown \/ Start
  BY <1>1, <1>9 DEF SyncCheckOut, SyncTimeout, SyncEnds, Stop, Shutdown, Start
<1>10. CASE UNCHANGED vars
  BY <1>1, <1>10 DEF vars
<1> QED
  BY <1>4, <1>5, <1>6, <1>7, <1>8, <1>9, <1>10 DEF Next

\* One window lets at most max_requests counted requests pass, for every limit
\* and however many requests are between INCR and EXPIRE, fail or are cut short
\* (rate_limit.py 39-60).
THEOREM LimitHolds == Spec => []AtMostLimit
<1>1. Init => WindowInv
  BY LimitAssumption DEF Init, WindowInv, AtMostLimit, NoKey, Counters
<1>2. WindowInv => AtMostLimit
  BY DEF WindowInv
<1> QED
  BY <1>1, <1>2, WindowStep, PTL DEF Spec

(***************************************************************************)
(* Connections.                                                            *)
(***************************************************************************)

\* What a request has in hand at each stage.
Hands == [idle |-> {0}, incr |-> {0}, expire |-> {0}, ttl |-> {0}, get |-> {0},
          select |-> {0}, row |-> {1}, commit |-> {1},
          revoke |-> {0, 1}, update |-> {1, 2}, tail |-> {0, 1}]

Pcs   == {"idle"} \cup Limiter \cup Queued \cup Working
Tasks == [pc : Pcs, conns : 0..2]

\* NoLeak is not inductive: that a connection is there to be returned, and that
\* none is taken twice, is known from the stage.
Pooled ==
    /\ req \in [Requests -> Tasks]
    /\ busy \in 0..PoolSize
    /\ sync \in [waiting : Nat, holding : Nat]
    /\ \A r \in Requests : req[r].conns \in Hands[req[r].pc]
    /\ NoLeak

\* The requests with a k-th connection, when only r moves.
LEMMA HoldingStep ==
    ASSUME req \in [Requests -> Tasks], req' \in [Requests -> Tasks],
           NEW r \in Requests, \A q \in Requests \ {r} : req'[q] = req[q],
           NEW k \in {1, 2}
    PROVE  /\ Cardinality(Holding(k)) \in Nat
           /\ Cardinality(Holding(k)') = Cardinality(Holding(k))
                  + (IF req'[r].conns >= k THEN 1 ELSE 0)
                  - (IF req[r].conns >= k THEN 1 ELSE 0)
<1>1. req[r].conns \in 0..2 /\ req'[r].conns \in 0..2
  BY DEF Tasks
<1>2. IsFiniteSet(Holding(k)) /\ Cardinality(Holding(k)) \in Nat
  BY RequestsAssumption, FS_Subset, FS_CardinalityType DEF Holding
<1>3. r \in Holding(k) <=> req[r].conns >= k
  BY DEF Holding
<1>4. Holding(k)' = IF req'[r].conns >= k THEN Holding(k) \cup {r} ELSE Holding(k) \ {r}
  BY <1>1 DEF Holding
<1>5. CASE req'[r].conns >= k
  <2>1. Cardinality(Holding(k) \cup {r})
          = IF r \in Holding(k) THEN Cardinality(Holding(k)) ELSE Cardinality(Holding(k)) + 1
    BY <1>2, FS_AddElement
  <2> QED
    BY <1>2, <1>3, <1>4, <1>5, <2>1
<1>6. CASE ~(req'[r].conns >= k)
  <2>1. Cardinality(Holding(k) \ {r})
          = IF r \in Holding(k) THEN Cardinality(Holding(k)) - 1 ELSE Cardinality(Holding(k))
    BY <1>2, FS_RemoveElement
  <2> QED
    BY <1>2, <1>3, <1>4, <1>6, <2>1
<1> QED
  BY <1>5, <1>6

\* All connections in hand change by what r takes or returns.
LEMMA InHandStep ==
    ASSUME req \in [Requests -> Tasks], req' \in [Requests -> Tasks],
           NEW r \in Requests, \A q \in Requests \ {r} : req'[q] = req[q]
    PROVE  /\ InHand \in Nat
           /\ InHand' = InHand + req'[r].conns - req[r].conns
<1>1. req[r].conns \in 0..2 /\ req'[r].conns \in 0..2
  BY DEF Tasks
<1>2. /\ Cardinality(Holding(1)) \in Nat /\ Cardinality(Holding(2)) \in Nat
      /\ Cardinality(Holding(1)') = Cardinality(Holding(1))
                  + (IF req'[r].conns >= 1 THEN 1 ELSE 0)
                  - (IF req[r].conns >= 1 THEN 1 ELSE 0)
      /\ Cardinality(Holding(2)') = Cardinality(Holding(2))
                  + (IF req'[r].conns >= 2 THEN 1 ELSE 0)
                  - (IF req[r].conns >= 2 THEN 1 ELSE 0)
  BY HoldingStep
<1> QED
  BY <1>1, <1>2 DEF InHand

\* What r has in hand is among what all have in hand.
LEMMA OwnInHand ==
    ASSUME req \in [Requests -> Tasks], NEW r \in Requests
    PROVE  InHand \in Nat /\ InHand >= req[r].conns
<1>1. ASSUME NEW k \in {1, 2}
      PROVE  Cardinality(Holding(k)) \in Nat /\ (req[r].conns >= k => Cardinality(Holding(k)) >= 1)
  <2>1. IsFiniteSet(Holding(k)) /\ Cardinality(Holding(k)) \in Nat
    BY RequestsAssumption, FS_Subset, FS_CardinalityType DEF Holding
  <2>2. Cardinality(Holding(k)) = 0 <=> Holding(k) = {}
    BY <2>1, FS_EmptySet
  <2> QED
    BY <2>1, <2>2 DEF Holding
<1>2. req[r].conns \in 0..2
  BY DEF Tasks
<1>3. /\ Cardinality(Holding(1)) \in Nat /\ (req[r].conns >= 1 => Cardinality(Holding(1)) >= 1)
      /\ Cardinality(Holding(2)) \in Nat /\ (req[r].conns >= 2 => Cardinality(Holding(2)) >= 1)
  BY <1>1
<1> QED
  BY <1>2, <1>3 DEF InHand

\* Nobody holds anything once all requests have ended.
LEMMA NoneInHand ==
    ASSUME \A r \in Requests : req[r] = Idle
    PROVE  InHand = 0
<1>1. Holding(1) = {} /\ Holding(2) = {}
  BY DEF Holding, Idle
<1> QED
  BY <1>1, FS_EmptySet DEF InHand

(***************************************************************************)
(* Steps of requests.                                                      *)
(***************************************************************************)

\* One request takes or returns what its next stage has in hand, and the pool
\* books it.
Moves(r) ==
    /\ req' \in [Requests -> Tasks]
    /\ \A q \in Requests \ {r} : req'[q] = req[q]
    /\ req'[r].conns \in Hands[req'[r].pc]
    /\ busy' = busy + req'[r].conns - req[r].conns
    /\ busy' <= PoolSize

\* A request that takes or returns connections keeps the books, if the pool does.
LEMMA MovesKeepPooled ==
    ASSUME Pooled, NEW r \in Requests, Moves(r),
           sync' \in [waiting : Nat, holding : Nat], sync'.holding = sync.holding
    PROVE  Pooled'
<1>1. InHand \in Nat /\ InHand' = InHand + req'[r].conns - req[r].conns
  BY InHandStep DEF Pooled, Moves
<1>2. InHand' \in Nat
  BY OwnInHand, <1>1 DEF Pooled, Moves, Tasks
<1>3. sync.holding \in Nat /\ busy \in Nat /\ busy = sync.holding + InHand
  BY DEF Pooled, NoLeak
<1>4. req[r].conns \in 0..2 /\ req'[r].conns \in 0..2
  BY DEF Pooled, Moves, Tasks
<1>5. busy' = sync'.holding + InHand'
  BY <1>1, <1>3, <1>4 DEF Moves
<1>6. busy' \in 0..PoolSize
  BY <1>2, <1>3, <1>5, PoolAssumption DEF Moves
<1>7. \A q \in Requests : req'[q].conns \in Hands[req'[q].pc]
  BY DEF Pooled, Moves
<1> QED
  BY <1>5, <1>6, <1>7 DEF Pooled, Moves, NoLeak

\* A change of stage that leaves the pool alone.
LEMMA GoToMoves ==
    ASSUME Pooled, NEW r \in Requests, NEW p \in Pcs, GoTo(r, p), busy' = busy,
           Hands[req[r].pc] \subseteq Hands[p]
    PROVE  Moves(r)
<1>1. req[r] \in Tasks /\ req[r].conns \in Hands[p]
  BY DEF Pooled
<1>2. req'[r] = [req[r] EXCEPT !.pc = p] /\ req' \in [Requests -> Tasks]
  BY <1>1 DEF GoTo, Pooled, Tasks
<1>3. req'[r].pc = p /\ req'[r].conns = req[r].conns
  BY <1>1, <1>2 DEF Tasks
<1>4. \A q \in Requests \ {r} : req'[q] = req[q]
  BY DEF GoTo, Pooled
<1>5. busy \in 0..PoolSize /\ req[r].conns \in 0..2
  BY <1>1 DEF Pooled, Tasks
<1> QED
  BY <1>1, <1>2, <1>3, <1>4, <1>5, PoolAssumption DEF Moves

\* The end of a request returns all that it holds.
LEMMA EndMoves ==
    ASSUME Pooled, NEW r \in Requests, End(r)
    PROVE  Moves(r)
<1>1. req[r].conns \in 0..2 /\ busy \in 0..PoolSize
  BY DEF Pooled, Tasks
<1>2. Idle \in Tasks /\ Idle.conns = 0 /\ 0 \in Hands[Idle.pc]
  BY DEF Idle, Tasks, Pcs, Hands
<1>3. req' = [req EXCEPT ![r] = Idle] /\ busy' = busy - req[r].conns
  BY DEF End
<1> QED
  BY <1>1, <1>2, <1>3, PoolAssumption DEF Moves, Pooled

\* A check-out takes one connection from the pool.
LEMMA CheckOutMoves ==
    ASSUME Pooled, NEW r \in Requests, CheckOut(r)
    PROVE  Moves(r)
<1>1. PICK p \in {"row", "update"} : /\ p = IF req[r].pc = "select" THEN "row" ELSE "update"
                                     /\ req[r].pc \in {"select", "revoke"}
  BY Zenon DEF CheckOut, Queued
<1>2. req' = [req EXCEPT ![r].pc = p, ![r].conns = req[r].conns + 1]
  BY <1>1 DEF CheckOut
<1>3. req[r] \in Tasks /\ req[r].conns \in Hands[req[r].pc]
  BY DEF Pooled
<1>4. req[r].conns \in {0, 1} /\ req[r].conns + 1 \in Hands[p]
  BY <1>1, <1>3 DEF Hands
<1>5. p \in Pcs
  BY <1>1 DEF Pcs, Working
<1>6. /\ req' \in [Requests -> Tasks] /\ \A q \in Requests \ {r} : req'[q] = req[q]
      /\ req'[r].pc = p /\ req'[r].conns = req[r].conns + 1
  BY <1>2, <1>3, <1>4, <1>5 DEF Pooled, Tasks
<1> QED
  BY <1>4, <1>6, PoolAssumption DEF Moves, CheckOut, Pooled

\* A check-in gives one back.
LEMMA CheckInMoves ==
    ASSUME Pooled, NEW r \in Requests, CheckIn(r)
    PROVE  Moves(r)
<1>1. req' = [req EXCEPT ![r].pc = "tail", ![r].conns = req[r].conns - 1]
  BY DEF CheckIn
<1>2. req[r] \in Tasks /\ req[r].conns \in Hands[req[r].pc]
  BY DEF Pooled
<1>3. req[r].conns \in {1, 2} /\ req[r].conns - 1 \in Hands["tail"]
  BY <1>2 DEF Hands, CheckIn
<1>4. "tail" \in Pcs
  BY DEF Pcs, Working
<1>5. /\ req' \in [Requests -> Tasks] /\ \A q \in Requests \ {r} : req'[q] = req[q]
      /\ req'[r].pc = "tail" /\ req'[r].conns = req[r].conns - 1
  BY <1>1, <1>2, <1>3, <1>4 DEF Pooled, Tasks
<1> QED
  BY <1>3, <1>5, PoolAssumption DEF Moves, CheckIn, Pooled

\* Every step of a request books what it takes and returns.
LEMMA RequestMoves ==
    ASSUME Pooled, NEW r \in Requests, Arrive(r) \/ Step(r) \/ Bypass(r) \/ CallFails(r)
    PROVE  Pooled'
<1>0. /\ sync \in [waiting : Nat, holding : Nat]
      /\ sync' \in [waiting : Nat, holding : Nat] /\ sync'.holding = sync.holding
  <2>1. sync \in [waiting : Nat, holding : Nat]
    BY DEF Pooled
  <2>2. sync' = sync \/ sync' = [sync EXCEPT !.waiting = sync.waiting + 1]
    BY Zenon DEF Arrive, Step, Bypass, CallFails, Count, StartWindow, Limited, LookUp,
       CheckOut, PoolTimeout, ReadRow, CheckIn, Answer
  <2> QED
    BY <2>1, <2>2
<1>1. ASSUME Moves(r) PROVE Pooled'
  BY <1>0, <1>1, MovesKeepPooled
<1> USE DEF Hands, Pcs, Limiter, Queued, Working
<1>2. CASE Arrive(r)
  BY <1>1, <1>2, GoToMoves DEF Arrive, Idle
<1>3. CASE Count(r)
  <2>1. \E p \in {"expire", "ttl", "get"} : GoTo(r, p)
    BY <1>3 DEF Count, AfterCount
  <2> QED
    BY <1>1, <1>3, <2>1, GoToMoves DEF Count, At
<1>4. CASE StartWindow(r) \/ Bypass(r)
  BY <1>1, <1>4, GoToMoves DEF StartWindow, Bypass, At
<1>5. CASE Limited(r)
  <2>1. req[r].conns = 0 /\ busy \in 0..PoolSize
    BY <1>5 DEF Limited, At, Pooled
  <2>2. End(r)
    BY <1>5, <2>1 DEF Limited, End
  <2> QED
    BY <1>1, <2>2, EndMoves
<1>6. CASE LookUp(r)
  <2>1. \E p \in {"tail", "revoke", "select"} : GoTo(r, p)
    BY <1>6 DEF LookUp
  <2> QED
    BY <1>1, <1>6, <2>1, GoToMoves DEF LookUp, At
<1>7. CASE CheckOut(r)
  BY <1>1, <1>7, CheckOutMoves
<1>8. CASE CheckIn(r)
  BY <1>1, <1>8, CheckInMoves
<1>9. CASE Answer(r)
  BY <1>1, <1>9, EndMoves DEF Answer
<1>10. CASE PoolTimeout(r) \/ CallFails(r)
  <2>1. End(r) \/ (At(r, "revoke") /\ GoTo(r, "tail") /\ UNCHANGED busy)
    BY <1>10 DEF PoolTimeout, CallFails
  <2>2. CASE End(r)
    BY <1>1, <2>2, EndMoves
  <2>3. CASE At(r, "revoke") /\ GoTo(r, "tail") /\ UNCHANGED busy
    BY <1>1, <2>3, GoToMoves DEF At
  <2> QED
    BY <2>1, <2>2, <2>3
<1>11. CASE ReadRow(r)
  <2>1. \E p \in {"commit", "revoke"} : GoTo(r, p)
    BY <1>11 DEF ReadRow
  <2> QED
    BY <1>1, <1>11, <2>1, GoToMoves DEF ReadRow, At
<1> QED
  BY <1>2, <1>3, <1>4, <1>5, <1>6, <1>7, <1>8, <1>9, <1>10, <1>11 DEF Step

(***************************************************************************)
(* Syncs and the process.                                                  *)
(***************************************************************************)

\* Background copies take their connection from the same pool.
LEMMA SyncsKeepPooled ==
    ASSUME Pooled, SyncCheckOut \/ SyncTimeout \/ SyncEnds
    PROVE  Pooled'
<1>1. PICK w \in Nat, h \in Nat : sync = [waiting |-> w, holding |-> h]
  BY DEF Pooled
<1>2. InHand \in Nat /\ InHand' = InHand /\ req' = req
  <2>1. InHand \in Nat
    BY RequestsAssumption, FS_Subset, FS_CardinalityType DEF InHand, Holding
  <2>2. req' = req
    BY DEF SyncCheckOut, SyncTimeout, SyncEnds
  <2> QED
    BY <2>1, <2>2 DEF InHand, Holding
<1>3. busy \in 0..PoolSize /\ busy = h + InHand
  BY <1>1 DEF Pooled, NoLeak
<1>4. CASE SyncCheckOut
  <2>1. sync' = [waiting |-> w - 1, holding |-> h + 1] /\ w > 0 /\ busy < PoolSize /\ busy' = busy + 1
    BY <1>1, <1>4 DEF SyncCheckOut
  <2> QED
    BY <1>2, <1>3, <2>1, PoolAssumption DEF Pooled, NoLeak
<1>5. CASE SyncTimeout
  <2>1. sync' = [waiting |-> w - 1, holding |-> h] /\ w > 0 /\ busy' = busy
    BY <1>1, <1>5 DEF SyncTimeout
  <2> QED
    BY <1>2, <1>3, <2>1, PoolAssumption DEF Pooled, NoLeak
<1>6. CASE SyncEnds
  <2>1. sync' = [waiting |-> w, holding |-> h - 1] /\ h > 0 /\ busy' = busy - 1
    BY <1>1, <1>6 DEF SyncEnds
  <2> QED
    BY <1>2, <1>3, <2>1, PoolAssumption DEF Pooled, NoLeak
<1> QED
  BY <1>4, <1>5, <1>6

\* All is returned at once: every request has ended, or ends with the process.
LEMMA EndKeepsPooled ==
    ASSUME req' \in [Requests -> Tasks], \A r \in Requests : req'[r] = Idle,
           busy' = 0, sync' = [waiting |-> 0, holding |-> 0]
    PROVE  Pooled'
<1>1. InHand' = 0
  <2>1. Holding(1)' = {} /\ Holding(2)' = {}
    BY DEF Holding, Idle
  <2> QED
    BY <2>1, FS_EmptySet DEF InHand
<1>2. \A r \in Requests : req'[r].conns \in Hands[req'[r].pc]
  BY DEF Idle, Hands
<1> QED
  BY <1>1, <1>2, PoolAssumption DEF Pooled, NoLeak

\* Every step keeps the books.
LEMMA PooledStep == Pooled /\ [Next]_vars => Pooled'
<1> SUFFICES ASSUME Pooled, [Next]_vars PROVE Pooled'
  OBVIOUS
<1>0. Idle \in Tasks
  BY DEF Idle, Tasks, Pcs
<1>1. ASSUME UNCHANGED <<req, busy, sync>> PROVE Pooled'
  BY <1>1 DEF Pooled, NoLeak, InHand, Holding
<1>2. ASSUME NEW r \in Requests, Arrive(r) \/ Step(r) \/ Bypass(r) \/ CallFails(r) PROVE Pooled'
  BY <1>2, RequestMoves
<1>3. CASE SyncCheckOut \/ SyncTimeout \/ SyncEnds
  BY <1>3, SyncsKeepPooled
<1>4. CASE WindowEnds \/ Stop \/ Start \/ UNCHANGED vars
  BY <1>1, <1>4 DEF WindowEnds, Stop, Start, vars
<1>5. CASE Shutdown
  BY <1>5, EndKeepsPooled DEF Shutdown, Pooled
<1>6. CASE Crash
  BY <1>0, <1>6, EndKeepsPooled DEF Crash
<1> QED
  BY <1>2, <1>3, <1>4, <1>5, <1>6 DEF Next

\* At the start nothing is taken.
LEMMA PooledInit == Init => Pooled
<1> SUFFICES ASSUME Init PROVE Pooled
  OBVIOUS
<1>1. \A r \in Requests : req[r] = Idle
  BY DEF Init
<1>2. InHand = 0
  BY <1>1, NoneInHand
<1>3. req \in [Requests -> Tasks]
  BY DEF Init, Idle, Tasks, Pcs
<1>4. \A r \in Requests : req[r].conns \in Hands[req[r].pc]
  BY <1>1 DEF Idle, Hands
<1> QED
  BY <1>2, <1>3, <1>4, PoolAssumption DEF Init, Pooled, NoLeak

\* Whatever requests are served at the same time, whichever calls fail, time out
\* or are cut short by a crash: every connection that is out of the pool is held
\* by a request or a sync that is still running (db_session.py 6-14).
THEOREM NothingLeaks == Spec => []NoLeak
<1>1. Pooled => NoLeak
  BY DEF Pooled
<1> QED
  BY <1>1, PooledInit, PooledStep, PTL DEF Spec

\* The two variables no lemma above is about.
Flags == app \in {"up", "stopping", "down"} /\ lost \in BOOLEAN

\* Every step keeps the types of these two.
LEMMA FlagsStep == Flags /\ [Next]_vars => Flags'
<1> SUFFICES ASSUME Flags, [Next]_vars PROVE Flags'
  OBVIOUS
<1> USE DEF Flags
<1>1. ASSUME NEW r \in Requests, Arrive(r) \/ CallFails(r) PROVE Flags'
  BY <1>1, Zenon DEF Arrive, CallFails
<1>2. ASSUME NEW r \in Requests, Step(r) PROVE Flags'
  BY <1>2, Zenon DEF Step, Count, StartWindow, Limited, LookUp, CheckOut, PoolTimeout,
     ReadRow, CheckIn, Answer
<1>3. ASSUME NEW r \in Requests, Bypass(r) PROVE Flags'
  <2>1. (lost \/ At(r, "expire") \/ At(r, "incr")) \in BOOLEAN
    OBVIOUS
  <2>2. lost' = (lost \/ At(r, "expire") \/ At(r, "incr")) /\ app' = app
    BY <1>3, Zenon DEF Bypass
  <2> QED
    BY <2>1, <2>2
<1>4. CASE SyncCheckOut \/ SyncTimeout \/ SyncEnds \/ WindowEnds \/ UNCHANGED vars
  BY <1>4, Zenon DEF SyncCheckOut, SyncTimeout, SyncEnds, WindowEnds, vars
<1>5. CASE Stop \/ Shutdown \/ Start
  BY <1>5, Zenon DEF Stop, Shutdown, Start
<1>6. CASE Crash
  <2>1. (lost \/ \E r \in Requests : req[r].pc \in {"incr", "expire"}) \in BOOLEAN
    OBVIOUS
  <2>2. /\ lost' = (lost \/ \E r \in Requests : req[r].pc \in {"incr", "expire"})
        /\ app' = "down"
    BY <1>6, Zenon DEF Crash
  <2> QED
    BY <2>1, <2>2
<1> QED
  BY <1>1, <1>2, <1>3, <1>4, <1>5, <1>6, Zenon DEF Next

\* The state keeps its types; in particular the pool never exceeds its size, and
\* no more is returned to it than was taken (postgresql.py, pool_size and
\* max_overflow).
THEOREM PathTypeCorrect == Spec => []PathTypeOK
<1>1. Init => WindowInv
  BY LimitAssumption DEF Init, WindowInv, AtMostLimit, NoKey, Counters
<1>2. Init => Flags
  BY Zenon DEF Init, Flags
<1>3. WindowInv /\ Pooled /\ Flags => PathTypeOK
  BY DEF WindowInv, Pooled, Flags, PathTypeOK, Counters, Tasks, Pcs
<1> QED
  BY <1>1, <1>2, <1>3, PooledInit, PooledStep, WindowStep, FlagsStep, PTL DEF Spec
=============================================================================
