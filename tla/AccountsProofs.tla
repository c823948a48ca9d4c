---------------------------- MODULE AccountsProofs ----------------------------
(***************************************************************************)
(* Proofs about Database, for any number of seeders and registrations, any *)
(* names and mailboxes, and whatever boots, upgrades and downgrades do     *)
(* meanwhile.                                                              *)
(***************************************************************************)
EXTENDS Database, SequenceTheorems, FiniteSetTheorems, TLAPS

Persons ==
    {u \in [name : Names \cup {"none", "superadmin", "admin_user"},
            mail : [box : Boxes \cup {"none", "admin", "dummy"}, mixed : BOOLEAN],
            role : {"none", "ADMIN"}] :
        u.mail.mixed => u.role = "ADMIN"}

\* A registration has nothing to look up and one item to insert.
Jobs ==
    {a \in [job : {"none", "system", "dummy", "register"}, todo : Seq(Items),
            pc : {"look", "write"}, wrote : SUBSET Items, user : Persons] :
        a.job = "register" => a.todo = <<"account">> /\ a.pc = "write"}

SettingsOK ==
    /\ volume \in BOOLEAN
    /\ settings \in [fits : BOOLEAN, mixed : BOOLEAN, prod : BOOLEAN]

\* An account inserted by a transaction that is still open.
Pending(p) == "account" \in act[p].wrote

AllPersons == users \subseteq Persons
AllJobs    == act \in [Actors -> Jobs]

\* OneAccount is not inductive: what Finish commits must be apart from all that
\* is committed, whoever committed it since the insert; so the accounts of open
\* transactions are apart from the committed ones and from each other.
UsersApart == \A u, v \in users : u # v => ~Clash(u, v)
DraftsApart ==
    \A p \in Actors : Pending(p) => \A v \in users : ~Clash(act[p].user, v)
JobsApart ==
    \A p, q \in Actors :
        p # q /\ Pending(p) /\ Pending(q) => ~Clash(act[p].user, act[q].user)

AccountInv == AllPersons /\ AllJobs /\ UsersApart /\ DraftsApart /\ JobsApart

\* Whether two accounts clash does not depend on their order.
LEMMA ClashSymmetric == \A u, v : Clash(u, v) <=> Clash(v, u)
BY DEF Clash

\* The account is one of the items a job may write.
LEMMA AccountIsItem == "account" \in Items
BY DEF Items

\* A free slot is a job like any other, with nothing written.
LEMMA IdleJob == Idle \in Jobs /\ "account" \notin Idle.wrote
<1>1. Nothing \in Persons
  BY DEF Nothing, Account, Address, Persons
<1>2. <<>> \in Seq(Items)
  OBVIOUS
<1> QED
  BY <1>1, <1>2 DEF Idle, Jobs

(***************************************************************************)
(* The settings a job reads.                                               *)
(***************************************************************************)
LEMMA SettingsStep == SettingsOK /\ [Next]_vars => SettingsOK'
<1> SUFFICES ASSUME SettingsOK, [Next]_vars PROVE SettingsOK'
  OBVIOUS
<1>1. ASSUME UNCHANGED deploymentVars PROVE SettingsOK'
  BY <1>1 DEF SettingsOK, deploymentVars
<1>2. ASSUME UNCHANGED <<volume, settings>> PROVE SettingsOK'
  BY <1>2 DEF SettingsOK
<1>3. CASE \E i \in Instances : Deploys(i)
  BY <1>2, <1>3 DEF Deploys, Apply, Commit
<1>4. CASE Operates
  <2>1. ASSUME NEW i \in Instances, Boot(i) PROVE SettingsOK'
    BY <2>1 DEF Boot, SettingsOK
  <2>2. ASSUME NEW i \in Instances, Stop(i) PROVE SettingsOK'
    BY <1>2, <2>2 DEF Stop
  <2>3. ASSUME RunWizard PROVE SettingsOK'
    BY <2>3, SpellingsAssumption DEF RunWizard, GenerateEnv, SettingsOK
  <2>4. ASSUME Downgrade(Rows) PROVE SettingsOK'
    BY <1>2, <2>4 DEF Downgrade
  <2> QED
    BY <1>4, <2>1, <2>2, <2>3, <2>4 DEF Operates
<1>5. CASE \E p \in Actors : Begins(p) \/ Works(p) \/ (Abandon(p) /\ UNCHANGED deploymentVars)
  BY <1>1, <1>5 DEF Begins, Works
<1>6. CASE UNCHANGED vars
  BY <1>1, <1>6 DEF vars
<1> QED
  BY <1>3, <1>4, <1>5, <1>6 DEF Next

(***************************************************************************)
(* What one step does to the accounts.                                     *)
(***************************************************************************)

\* A job goes on, without a new account, while rows may disappear.
LEMMA JobMoves ==
    ASSUME AccountInv, NEW p \in Actors, NEW a \in Jobs, Goes(p, a),
           users' \subseteq users,
           "account" \in a.wrote => Pending(p) /\ a.user = act[p].user
    PROVE  AccountInv'
<1>1. AllJobs'
  BY DEF Goes, AccountInv, AllJobs
<1>2. ASSUME NEW q \in Actors, Pending(q)' PROVE Pending(q) /\ act'[q].user = act[q].user
  BY <1>2 DEF Goes, Pending, AccountInv, AllJobs
<1>3. AllPersons' /\ UsersApart'
  BY DEF AccountInv, AllPersons, UsersApart
<1>4. DraftsApart'
  BY <1>2 DEF AccountInv, DraftsApart
<1>5. JobsApart'
  BY <1>2 DEF AccountInv, JobsApart
<1> QED
  BY <1>1, <1>3, <1>4, <1>5 DEF AccountInv

\* A job starts with nothing written.
LEMMA JobBegins ==
    ASSUME AccountInv, NEW p \in Actors, NEW a \in Jobs, a.wrote = {}, Goes(p, a),
           UNCHANGED users
    PROVE  AccountInv'
BY JobMoves

\* A rollback forgets what the job had inserted.
LEMMA JobRollsBack ==
    ASSUME AccountInv, NEW p \in Actors, RollBack(p)
    PROVE  AccountInv'
BY JobMoves, IdleJob DEF RollBack

\* A job ends, and its account, new or inserted before, is committed.
LEMMA JobCommits ==
    ASSUME AccountInv, NEW p \in Actors, Goes(p, Idle),
           users' = users \cup {act[p].user},
           \A v \in users : ~Clash(act[p].user, v),
           \A q \in Actors \ {p} : Pending(q) => ~Clash(act[p].user, act[q].user)
    PROVE  AccountInv'
<1>1. AllJobs'
  BY IdleJob DEF Goes, AccountInv, AllJobs
<1>2. ASSUME NEW q \in Actors, Pending(q)'
      PROVE  q # p /\ Pending(q) /\ act'[q] = act[q]
  BY <1>2, IdleJob DEF Goes, Pending, AccountInv, AllJobs
<1>3. act[p].user \in Persons
  BY DEF AccountInv, AllJobs, Jobs
<1>4. AllPersons'
  BY <1>3 DEF AccountInv, AllPersons
<1>5. UsersApart'
  BY ClashSymmetric DEF AccountInv, UsersApart
<1>6. DraftsApart'
  BY <1>2, ClashSymmetric DEF AccountInv, DraftsApart
<1>7. JobsApart'
  BY <1>2 DEF AccountInv, JobsApart
<1> QED
  BY <1>1, <1>4, <1>5, <1>6, <1>7 DEF AccountInv

\* A job inserts its account.
LEMMA JobInserts ==
    ASSUME AccountInv, NEW p \in Actors, NEW a \in Jobs, Goes(p, a),
           a.user = act[p].user, UNCHANGED users,
           \A v \in users : ~Clash(act[p].user, v),
           \A q \in Actors \ {p} : Pending(q) => ~Clash(act[p].user, act[q].user)
    PROVE  AccountInv'
<1>1. AllJobs'
  BY DEF Goes, AccountInv, AllJobs
<1>2. ASSUME NEW q \in Actors PROVE act'[q].user = act[q].user
  BY DEF Goes, AccountInv, AllJobs
<1>3. ASSUME NEW q \in Actors \ {p}, Pending(q)' PROVE Pending(q)
  BY <1>3 DEF Goes, Pending, AccountInv, AllJobs
<1>4. AllPersons' /\ UsersApart'
  BY DEF AccountInv, AllPersons, UsersApart
<1>5. DraftsApart'
  BY <1>2, <1>3 DEF AccountInv, DraftsApart
<1>6. JobsApart'
  BY <1>2, <1>3, ClashSymmetric DEF AccountInv, JobsApart
<1> QED
  BY <1>1, <1>4, <1>5, <1>6 DEF AccountInv

(***************************************************************************)
(* One lemma per operation.                                                *)
(***************************************************************************)
LEMMA BeginsKeeps ==
    ASSUME AccountInv, SettingsOK, NEW p \in Actors, Begins(p)
    PROVE  AccountInv'
<1>1. ASSUME SeedSystem(p, settings.mixed) PROVE AccountInv'
  <2> DEFINE a == [Idle EXCEPT !.job = "system", !.todo = SystemPlan,
                               !.user = Admin(settings.mixed)]
  <2>1. Admin(settings.mixed) \in Persons
    BY DEF SettingsOK, Admin, Account, Address, Persons
  <2>2. SystemPlan \in Seq(Items)
    BY DEF SystemPlan, Items
  <2>3. a \in Jobs /\ a.wrote = {}
    BY <2>1, <2>2 DEF Idle, Jobs
  <2> QED
    BY <1>1, <2>3, JobBegins DEF SeedSystem
<1>2. ASSUME SeedDummies(p) PROVE AccountInv'
  <2> DEFINE a == [Idle EXCEPT !.job = "dummy", !.todo = <<"account">>,
                               !.user = Dummy(stored)]
  <2>1. Dummy(stored) \in Persons
    BY DEF Dummy, Account, Address, Persons
  <2>2. <<"account">> \in Seq(Items)
    BY AccountIsItem
  <2>3. a \in Jobs /\ a.wrote = {}
    BY <2>1, <2>2 DEF Idle, Jobs
  <2> QED
    BY <1>2, <2>3, JobBegins DEF SeedDummies
<1>3. ASSUME NEW n \in Names, NEW b \in Boxes, NEW mixed \in BOOLEAN,
             Register(p, n, Address(b, mixed))
      PROVE  AccountInv'
  <2> DEFINE u == Account(n, Lower(Address(b, mixed)), "none")
             a == [Idle EXCEPT !.job = "register", !.todo = <<"account">>,
                               !.pc = "write", !.user = u]
  <2>1. u \in Persons
    BY DEF Lower, Account, Address, Persons
  <2>2. <<"account">> \in Seq(Items)
    BY AccountIsItem
  <2>3. a \in Jobs /\ a.wrote = {}
    BY <2>1, <2>2 DEF Idle, Jobs
  <2> QED
    BY <1>3, <2>3, JobBegins DEF Register
<1> QED
  BY <1>1, <1>2, <1>3 DEF Begins

\* An item is done: its successor is looked up.
LEMMA DoneJob ==
    ASSUME NEW a \in Jobs, a.todo # <<>>, a.job # "register"
    PROVE  Done(a) \in Jobs /\ Done(a).wrote = a.wrote /\ Done(a).user = a.user
<1>1. Tail(a.todo) \in Seq(Items)
  BY HeadTailProperties DEF Jobs
<1> QED
  BY <1>1 DEF Done, Jobs

\* Looking an item up.
LEMMA LookKeeps ==
    ASSUME AccountInv, NEW p \in Actors, Look(p)
    PROVE  AccountInv'
<1>1. act[p] \in Jobs /\ act[p].todo # <<>> /\ act[p].job # "register"
  BY DEF AccountInv, AllJobs, Jobs, Look
<1>2. ASSUME Goes(p, [act[p] EXCEPT !.pc = "write"]), UNCHANGED users PROVE AccountInv'
  <2>1. [act[p] EXCEPT !.pc = "write"] \in Jobs
    BY <1>1 DEF Jobs
  <2>2. [act[p] EXCEPT !.pc = "write"].wrote = act[p].wrote
        /\ [act[p] EXCEPT !.pc = "write"].user = act[p].user
    BY <1>1 DEF Jobs
  <2> QED
    BY <1>2, <2>1, <2>2, JobMoves DEF Pending
<1>3. ASSUME Goes(p, Done(act[p])), UNCHANGED users PROVE AccountInv'
  BY <1>1, <1>3, DoneJob, JobMoves DEF Pending
<1>4. ASSUME Goes(p, Idle), UNCHANGED users PROVE AccountInv'
  BY <1>4, IdleJob, JobMoves
<1>5. UNCHANGED users
  BY DEF Look
<1>6. \/ Goes(p, [act[p] EXCEPT !.pc = "write"])
      \/ Goes(p, Done(act[p]))
      \/ Goes(p, Idle)
  BY Zenon DEF Look
<1> QED
  BY <1>2, <1>3, <1>4, <1>5, <1>6

\* Nobody else has an open insert of the same name or address.
LEMMA Unblocked ==
    ASSUME NEW p \in Actors, Head(act[p].todo) = "account", ~Blocked(p)
    PROVE  \A q \in Actors \ {p} : Pending(q) => ~Clash(act[p].user, act[q].user)
BY DEF Blocked, Mine, Pending

\* Inserting an item: unique columns refuse what is committed, and the open
\* transactions that wrote the same value are waited for.
LEMMA InsertKeeps ==
    ASSUME AccountInv, NEW p \in Actors, Insert(p)
    PROVE  AccountInv'
<1> DEFINE item == Head(act[p].todo)
<1>1. act[p] \in Jobs /\ act[p].todo # <<>> /\ ~Blocked(p)
  BY DEF AccountInv, AllJobs, Insert
<1>2. item \in Items
  BY <1>1, HeadTailProperties DEF Jobs
<1>3. ASSUME RollBack(p) PROVE AccountInv'
  BY <1>3, JobRollsBack
<1>4. ASSUME act[p].job = "register", \A v \in users : ~Clash(act[p].user, v),
             users' = users \cup {act[p].user}, Goes(p, Idle)
      PROVE  AccountInv'
  <2>1. item = "account"
    BY <1>1, <1>4 DEF Jobs
  <2> QED
    BY <1>1, <1>4, <2>1, Unblocked, JobCommits
<1>5. ASSUME act[p].job # "register", Inserted(p),
             item = "account" => \A v \in users : ~Clash(act[p].user, v)
      PROVE  AccountInv'
  <2> DEFINE a == [Done(act[p]) EXCEPT !.wrote = @ \cup {item}]
  <2>1. Done(act[p]) \in Jobs /\ Done(act[p]).wrote = act[p].wrote
        /\ Done(act[p]).user = act[p].user
    BY <1>1, <1>5, DoneJob
  <2>2. a \in Jobs /\ a.wrote = act[p].wrote \cup {item} /\ a.user = act[p].user
    BY <1>2, <2>1 DEF Jobs
  <2>3. Goes(p, a) /\ UNCHANGED users
    BY <1>5 DEF Inserted
  <2> HIDE DEF a
  <2>4. CASE item = "account"
    BY <1>1, <1>5, <2>2, <2>3, <2>4, Unblocked, JobInserts
  <2>5. CASE item # "account"
    BY <2>2, <2>3, <2>5, JobMoves DEF Pending
  <2> QED
    BY <2>4, <2>5
<1>6. \/ RollBack(p)
      \/ /\ act[p].job = "register" /\ users' = users \cup {act[p].user} /\ Goes(p, Idle)
         /\ item = "account" => \A v \in users : ~Clash(act[p].user, v)
      \/ /\ act[p].job # "register" /\ Inserted(p)
         /\ item = "account" => \A v \in users : ~Clash(act[p].user, v)
  BY Zenon DEF Insert
<1>7. act[p].job = "register" => item = "account"
  BY <1>1 DEF Jobs
<1> HIDE DEF item
<1> QED
  BY <1>3, <1>4, <1>5, <1>6, <1>7

\* COMMIT of a seeding.
LEMMA FinishKeeps ==
    ASSUME AccountInv, NEW p \in Actors, Finish(p)
    PROVE  AccountInv'
<1>1. CASE Pending(p)
  <2>1. users' = users \cup {act[p].user} /\ Goes(p, Idle)
    BY <1>1 DEF Finish, Mine, Pending
  <2>2. \A v \in users : ~Clash(act[p].user, v)
    BY <1>1 DEF AccountInv, DraftsApart
  <2>3. \A q \in Actors \ {p} : Pending(q) => ~Clash(act[p].user, act[q].user)
    BY <1>1 DEF AccountInv, JobsApart
  <2> QED
    BY <2>1, <2>2, <2>3, JobCommits
<1>2. CASE ~Pending(p)
  <2>1. users' = users /\ Goes(p, Idle)
    BY <1>2 DEF Finish, Mine, Pending
  <2> QED
    BY <2>1, IdleJob, JobMoves
<1> QED
  BY <1>1, <1>2

\* Every step keeps the accounts apart, among them downgrades that drop rows.
LEMMA AccountStep == AccountInv /\ SettingsOK /\ [Next]_vars => AccountInv'
<1> SUFFICES ASSUME AccountInv, SettingsOK, [Next]_vars PROVE AccountInv'
  OBVIOUS
<1>1. ASSUME users' \subseteq users, UNCHANGED act PROVE AccountInv'
  BY <1>1 DEF AccountInv, AllPersons, AllJobs, UsersApart, DraftsApart, JobsApart, Pending
<1>2. ASSUME NEW p \in Actors, Begins(p) PROVE AccountInv'
  BY <1>2, BeginsKeeps
<1>3. ASSUME NEW p \in Actors, Works(p) PROVE AccountInv'
  BY <1>3, LookKeeps, InsertKeeps, FinishKeeps DEF Works
<1>4. ASSUME NEW p \in Actors, Abandon(p) PROVE AccountInv'
  BY <1>4, JobRollsBack DEF Abandon
<1>5. CASE Operates
  <2>1. users' \subseteq users /\ UNCHANGED act
    BY <1>5 DEF Operates, accountVars
  <2> QED
    BY <1>1, <2>1
<1>6. CASE \E i \in Instances : Deploys(i)
  BY <1>1, <1>6 DEF Deploys, accountVars
<1>7. CASE UNCHANGED vars
  BY <1>1, <1>7 DEF vars, accountVars
<1> QED
  BY <1>2, <1>3, <1>4, <1>5, <1>6, <1>7 DEF Next

\* At the start there is one account at most, and no job.
LEMMA AccountsBegin == Init => SettingsOK /\ AccountInv
<1> SUFFICES ASSUME Init PROVE SettingsOK /\ AccountInv
  OBVIOUS
<1>1. SettingsOK
  <2>1. version \in Int /\ volume = (version > 0)
    BY DEF Init, DeploymentInit
  <2>2. volume \in BOOLEAN
    BY <2>1
  <2>3. DefaultSettings \in [fits : BOOLEAN, mixed : BOOLEAN, prod : BOOLEAN]
    BY DEF DefaultSettings
  <2>4. [fits : {TRUE}, mixed : Spellings, prod : {TRUE}]
            \subseteq [fits : BOOLEAN, mixed : BOOLEAN, prod : BOOLEAN]
    BY SpellingsAssumption
  <2> QED
    BY <2>2, <2>3, <2>4 DEF Init, DeploymentInit, SettingsOK
<1>2. AllPersons /\ UsersApart
  <2>1. CASE users = {}
    BY <2>1 DEF AllPersons, UsersApart
  <2>2. ASSUME NEW n \in Names, NEW b \in Boxes,
               users = {Account(n, Address(b, FALSE), "none")}
        PROVE  AllPersons /\ UsersApart
    <3>1. Account(n, Address(b, FALSE), "none") \in Persons
      BY DEF Account, Address, Persons
    <3> QED
      BY <2>2, <3>1 DEF AllPersons, UsersApart
  <2> QED
    BY <2>1, <2>2 DEF Init
<1>3. AllJobs /\ \A p \in Actors : ~Pending(p)
  BY IdleJob DEF Init, AccountsInit, AllJobs, Pending
<1> QED
  BY <1>1, <1>2, <1>3 DEF AccountInv, DraftsApart, JobsApart

\* No two accounts share a username or a mailbox, except with an administrator
\* whose address was configured with capital letters: for any number of
\* seeders and registrations in any order, and whichever of them die or fail
\* (auth_service.py 52-104, system_seeder.py 116-136, dummy_seeder.py 73-86).
THEOREM AccountsStayApart == Spec => []OneAccount
<1>1. AccountInv => OneAccount
  <2> SUFFICES ASSUME AccountInv, NEW u \in users, NEW v \in users, u # v
               PROVE  /\ u.name # v.name
                      /\ u.mail.box = v.mail.box =>
                            \E w \in {u, v} : w.mail.mixed /\ w.role = "ADMIN"
    BY DEF OneAccount
  <2>1. u.name # v.name /\ u.mail # v.mail
    BY DEF AccountInv, UsersApart, Clash
  <2>2. u \in Persons /\ v \in Persons
    BY DEF AccountInv, AllPersons
  <2>3. u.mail.box = v.mail.box => u.mail.mixed \/ v.mail.mixed
    BY <2>1, <2>2 DEF Persons
  <2> QED
    BY <2>1, <2>2, <2>3 DEF Persons
<1>2. (SettingsOK /\ AccountInv) /\ [Next]_vars => (SettingsOK /\ AccountInv)'
  BY SettingsStep, AccountStep
<1> QED
  BY <1>1, <1>2, AccountsBegin, PTL DEF Spec

(***************************************************************************)
(* Deployment.  What Run computes is beyond the provers (a recursion over  *)
(* the statements of a revision), but there are finitely many revisions    *)
(* and layouts: RevisionsWork says all that is needed of them, has no      *)
(* parameter, and is evaluated by TLC as part of RevisionsFit.  From it    *)
(* follows what holds for any number of instances that boot, fail, are     *)
(* killed and are downgraded, and for whatever accounts there are.         *)
(***************************************************************************)

Boots == [pc : {"off", "migrating", "serving", "failed"}, at : 0..HeadRevision]

\* An open upgrade has the layout of the version it has got to, and whatever is
\* left behind in it was there before.
DraftOK ==
    \/ draft = NoDraft
    \/ \E i \in Instances, n \in (version + 1)..HeadRevision : \E cat \in Layouts(n) :
          /\ draft = [by |-> i, catalog |-> cat, version |-> n]
          /\ LeftBehind(cat) => LeftBehind(catalog)

\* HeadMatchesModels is not inductive: what a commit brings to the head must be a
\* layout of the head, and so a layout of every version on the way.
DeployInv ==
    /\ version \in 0..HeadRevision
    /\ catalog \in Layouts(version)
    /\ DraftOK
    /\ boot \in [Instances -> Boots]

\* The chain has six revisions.
LEMMA HeadIsNat == HeadRevision = 6
BY DEF HeadRevision, Chain

\* The next revision either fails, for a reason, or extends the open upgrade.
LEMMA ApplyStep ==
    ASSUME RevisionsWork, DeployInv, NEW i \in Instances, Apply(i, Rows)
    PROVE  /\ UNCHANGED <<catalog, version>>
           /\ \/ Refused(i) /\ (LeftBehind(catalog) \/ version # boot[i].at)
              \/ DraftOK' /\ UNCHANGED boot
           /\ boot[i].pc = "migrating"
<1>1. UNCHANGED <<catalog, version>> /\ MayRun(i)
  BY DEF Apply
<1>2. PICK mine, next, from :
          /\ mine \in BOOLEAN /\ (mine <=> draft.by = i)
          /\ next = 1 + IF mine THEN draft.version ELSE boot[i].at
          /\ from = IF mine THEN draft.catalog ELSE catalog
  OBVIOUS
<1>3. PICK cat : /\ cat = Run(from, Chain[next].up, Rows)
                 /\ IF cat = Error \/ version # boot[i].at
                    THEN Refused(i)
                    ELSE /\ draft' = [by |-> i, catalog |-> cat, version |-> next]
                         /\ UNCHANGED boot
                 /\ next <= HeadRevision
  BY <1>2, Zenon DEF Apply
<1>4. CASE version # boot[i].at
  BY <1>1, <1>3, <1>4 DEF MayRun
<1>5. CASE version = boot[i].at
  <2>1. /\ next \in (version + 1)..HeadRevision /\ from \in Layouts(next - 1)
        /\ LeftBehind(from) => LeftBehind(catalog)
    <3>1. CASE mine
      <4>1. PICK n, c :
                /\ n \in (version + 1)..HeadRevision /\ c \in Layouts(n)
                /\ draft.version = n /\ draft.catalog = c
                /\ LeftBehind(c) => LeftBehind(catalog)
        BY <1>2, <3>1, InstancesAssumption DEF DeployInv, DraftOK, NoDraft
      <4>2. next = n + 1 /\ from = c /\ next - 1 = n
        BY <1>2, <3>1, <4>1, HeadIsNat DEF DeployInv
      <4> QED
        BY <1>3, <4>1, <4>2, HeadIsNat DEF DeployInv
    <3>2. CASE ~mine
      <4>1. next = version + 1 /\ from = catalog /\ next - 1 = version
        BY <1>2, <1>5, <3>2, HeadIsNat DEF DeployInv
      <4> QED
        BY <1>3, <4>1, HeadIsNat DEF DeployInv
    <3> QED
      BY <3>1, <3>2
  <2>2. next \in 1..HeadRevision /\ Rows \in BOOLEAN
    BY <2>1, HeadIsNat DEF DeployInv, Rows
  <2>3. UpgradeWorks(next, Rows)
    BY <2>2 DEF RevisionsWork
  <2>4. IF cat = Error THEN LeftBehind(from)
        ELSE cat \in Layouts(next) /\ (LeftBehind(cat) => LeftBehind(from))
    BY <1>3, <2>1, <2>3 DEF UpgradeWorks
  <2>5. CASE cat = Error
    BY <1>1, <1>3, <2>1, <2>4, <2>5 DEF MayRun
  <2>6. CASE cat # Error
    <3>1. draft' = [by |-> i, catalog |-> cat, version |-> next] /\ UNCHANGED boot
      BY <1>3, <1>5, <2>6
    <3>2. LeftBehind(cat) => LeftBehind(catalog')
      BY <1>1, <2>1, <2>4, <2>6
    <3>3. DraftOK'
      BY <1>1, <2>1, <2>4, <2>6, <3>1, <3>2 DEF DraftOK
    <3> QED
      BY <1>1, <3>1, <3>3 DEF MayRun
  <2> QED
    BY <2>5, <2>6
<1> QED
  BY <1>4, <1>5

\* An upgrade ends, either way.
LEMMA RefusedKeeps ==
    ASSUME DeployInv, NEW i \in Instances, Refused(i), UNCHANGED <<catalog, version>>
    PROVE  DeployInv'
<1>1. [pc |-> "failed", at |-> 0] \in Boots
  BY HeadIsNat DEF Boots
<1> QED
  BY <1>1 DEF DeployInv, DraftOK, Refused

\* A COMMIT makes the draft the catalog: it has reached the head.
LEMMA CommitKeeps ==
    ASSUME DeployInv, NEW i \in Instances, Commit(i)
    PROVE  DeployInv'
<1>1. [pc |-> "serving", at |-> 0] \in Boots
  BY HeadIsNat DEF Boots
<1>2. draft.version = HeadRevision /\ draft.catalog \in Layouts(HeadRevision)
  BY DEF Commit, DeployInv, DraftOK
<1> QED
  BY <1>1, <1>2, HeadIsNat DEF Commit, DeployInv, DraftOK

\* What a downgrade leaves has the layout of the version before.
LEMMA DowngradeStep ==
    ASSUME RevisionsWork, DeployInv, Downgrade(Rows)
    PROVE  /\ version \in 1..HeadRevision /\ version' = version - 1
           /\ catalog' \in Layouts(version')
<1>1. /\ version \in 1..HeadRevision /\ version' = version - 1
      /\ catalog' = Run(catalog, Chain[version].down, Rows) /\ catalog' # Error
      /\ catalog \in Layouts(version) /\ Rows \in BOOLEAN
  BY HeadIsNat DEF Downgrade, DeployInv, Rows
<1>2. DowngradeWorks(version, Rows)
  BY <1>1 DEF RevisionsWork
<1> QED
  BY <1>1, <1>2 DEF DowngradeWorks

\* Boots, downgrades and crashes keep the catalog a layout of its version.
LEMMA DeployStep ==
    ASSUME RevisionsWork, DeployInv, [Next]_vars
    PROVE  DeployInv'
<1>1. ASSUME UNCHANGED <<catalog, version, draft, boot>> PROVE DeployInv'
  BY <1>1 DEF DeployInv, DraftOK
<1>2. ASSUME NEW i \in Instances, Deploys(i) PROVE DeployInv'
  <2>1. CASE Apply(i, Rows)
    <3>1. CASE Refused(i)
      BY <2>1, <3>1, ApplyStep, RefusedKeeps
    <3>2. CASE DraftOK' /\ UNCHANGED boot
      BY <2>1, <3>2, ApplyStep DEF DeployInv
    <3> QED
      BY <2>1, <3>1, <3>2, ApplyStep
  <2> QED
    BY <1>2, <2>1, CommitKeeps DEF Deploys
<1>3. ASSUME NEW i \in Instances, Boot(i) PROVE DeployInv'
  <2>1. PICK b \in Boots : boot' = [boot EXCEPT ![i] = b]
    <3>1. /\ [pc |-> "failed", at |-> 0] \in Boots /\ [pc |-> "serving", at |-> 0] \in Boots
          /\ [pc |-> "migrating", at |-> version] \in Boots
      BY HeadIsNat DEF Boots, DeployInv
    <3> QED
      BY <1>3, <3>1, Zenon DEF Boot
  <2> QED
    BY <1>3, <2>1 DEF Boot, DeployInv, DraftOK
<1>4. ASSUME NEW i \in Instances, Stop(i) PROVE DeployInv'
  <2>1. Off \in Boots
    BY HeadIsNat DEF Off, Boots
  <2>2. draft' = draft \/ draft' = NoDraft
    BY <1>4, Zenon DEF Stop
  <2> QED
    BY <1>4, <2>1, <2>2 DEF Stop, DeployInv, DraftOK
<1>5. CASE Downgrade(Rows)
  <2>1. draft' = NoDraft /\ UNCHANGED boot
    BY <1>5 DEF Downgrade
  <2> QED
    BY <1>5, <2>1, DowngradeStep, HeadIsNat DEF DeployInv, DraftOK
<1>6. CASE RunWizard \/ UNCHANGED deploymentVars
  BY <1>1, <1>6 DEF RunWizard, deploymentVars
<1>7. CASE Operates
  BY <1>3, <1>4, <1>5, <1>6, <1>7 DEF Operates
<1>8. CASE \E p \in Actors : Begins(p) \/ Works(p) \/ (Abandon(p) /\ UNCHANGED deploymentVars)
  BY <1>6, <1>8 DEF Begins, Works
<1> QED
  BY <1>2, <1>6, <1>7, <1>8 DEF Next, vars

\* A volume starts at one of the revisions, with its layout.
LEMMA DeployBegins == Init => DeployInv
<1> SUFFICES ASSUME Init PROVE DeployInv
  OBVIOUS
<1>1. version \in 0..HeadRevision /\ catalog = Upgraded[version] /\ draft = NoDraft
  BY DEF Init, DeploymentInit
<1>2. {} \in SUBSET Remains /\ UNION {} = {}
  OBVIOUS
<1>3. catalog \in Layouts(version)
  BY <1>1, <1>2 DEF Layouts
<1>4. boot \in [Instances -> Boots]
  BY HeadIsNat DEF Init, DeploymentInit, Off, Boots
<1> QED
  BY <1>1, <1>3, <1>4 DEF DeployInv, DraftOK

\* What boots and downgrades leave in the database, at any time.
LEMMA DeployInvariant == RevisionsWork => (Spec => []DeployInv)
<1> SUFFICES ASSUME RevisionsWork PROVE Spec => []DeployInv
  OBVIOUS
<1>1. DeployInv /\ [Next]_vars => DeployInv'
  BY DeployStep
<1> QED
  BY <1>1, DeployBegins, PTL DEF Spec

\* As TLC evaluates the chain of revisions to work: whatever number of instances
\* boot at once, fail or are killed, upgrade from any version or after any
\* downgrades, a database at the head has what the model classes name.
THEOREM HeadAlwaysMatches == RevisionsWork => (Spec => []HeadMatchesModels)
<1> SUFFICES ASSUME RevisionsWork PROVE Spec => []HeadMatchesModels
  OBVIOUS
<1>1. DeployInv => HeadMatchesModels
  BY DEF DeployInv, HeadMatchesModels, RevisionsWork, LayoutsFit
<1> QED
  BY <1>1, DeployInvariant, PTL

\* And it is one of the layouts that the evaluation covers.
THEOREM LayoutsAreKnown == RevisionsWork => (Spec => []RevisionsFit)
<1> SUFFICES ASSUME RevisionsWork PROVE Spec => []RevisionsFit
  OBVIOUS
<1>1. DeployInv => RevisionsFit
  BY DEF DeployInv, RevisionsFit, Layouts
<1> QED
  BY <1>1, DeployInvariant, PTL

\* No boot fails but for the wizard's password, a type left behind, or another
\* upgrade or downgrade that got ahead of it, whatever accounts there are
\* (entrypoint.sh 5).
THEOREM BootsFailForAReason == RevisionsWork => (Spec => BootsUnlessTold)
<1> SUFFICES ASSUME RevisionsWork PROVE Spec => BootsUnlessTold
  OBVIOUS
<1> DEFINE Told(i) == \/ ~settings.fits
                      \/ LeftBehind(catalog)
                      \/ boot[i].pc = "migrating" /\ version # boot[i].at
<1>1. ASSUME DeployInv, [Next]_vars, NEW i \in Instances,
             boot[i].pc # "failed", boot'[i].pc = "failed"
      PROVE  Told(i)
  <2>1. ASSUME NEW j \in Instances, Deploys(j) PROVE Told(i)
    <3>1. CASE Apply(j, Rows)
      <4>1. ~UNCHANGED boot
        BY <1>1
      <4>2. Refused(j) /\ (LeftBehind(catalog) \/ version # boot[j].at) /\ boot[j].pc = "migrating"
        BY <1>1, <3>1, <4>1, ApplyStep
      <4>3. i = j
        BY <1>1, <4>2 DEF Refused, DeployInv
      <4> QED
        BY <4>2, <4>3
    <3>2. CASE Commit(j)
      BY <1>1, <3>2 DEF Commit, DeployInv
    <3> QED
      BY <2>1, <3>1, <3>2 DEF Deploys
  <2>2. ASSUME NEW j \in Instances, Boot(j) PROVE Told(i)
    <3>1. settings.fits => boot'[i] = boot[i] \/ boot'[i].pc \in {"serving", "migrating"}
      BY <1>1, <2>2 DEF Boot, DeployInv
    <3> QED
      BY <1>1, <3>1
  <2>3. ASSUME NEW j \in Instances, Stop(j) PROVE Told(i)
    BY <1>1, <2>3 DEF Stop, DeployInv, Off
  <2>4. CASE UNCHANGED boot
    BY <1>1, <2>4
  <2>5. CASE Operates
    BY <2>2, <2>3, <2>4, <2>5 DEF Operates, RunWizard, Downgrade
  <2>6. CASE \E p \in Actors : Begins(p) \/ Works(p) \/ (Abandon(p) /\ UNCHANGED deploymentVars)
    BY <2>4, <2>6 DEF Begins, Works, deploymentVars
  <2>7. CASE UNCHANGED vars
    BY <2>4, <2>7 DEF vars, deploymentVars
  <2> QED
    BY <1>1, <2>1, <2>5, <2>6, <2>7 DEF Next
<1>2. DeployInv /\ [Next]_vars =>
        [\A i \in Instances : boot[i].pc # "failed" /\ boot'[i].pc = "failed" => Told(i)]_vars
  BY <1>1
<1> QED
  BY <1>2, DeployInvariant, PTL DEF Spec, BootsUnlessTold

(***************************************************************************)
(* Seeding.                                                                *)
(***************************************************************************)

\* What a seeding that is done with k items has left to do.
Rest(k) == SubSeq(SystemPlan, k + 1, Len(SystemPlan))

Administered == \E u \in users : u.role = "ADMIN" \/ u.name = "superadmin" \/ u.mail.box = "admin"

\* The item is committed, or will be with this job.
Brought(p, item) ==
    IF item = "account" THEN Pending(p) \/ Administered ELSE item \in stored \cup act[p].wrote

\* The job p is done with k items.
At(p, k) ==
    /\ act[p].todo = Rest(k)
    /\ act[p].job = "system" =>
          /\ \E mixed \in BOOLEAN : act[p].user = Admin(mixed)
          /\ \A j \in 1..k : Brought(p, SystemPlan[j])
    /\ act[p].job \in {"dummy", "register"} => act[p].wrote \subseteq {"account"} /\ k >= 3
    /\ act[p].job = "none" => act[p].wrote = {} /\ k = 4

\* AdminReachable is not inductive: a seeding commits what it has inserted, and
\* counts on what it has looked up, all the items it has passed.
SeedInv ==
    /\ stored \subseteq Items \ {"account"}
    /\ \A p \in Actors : \E k \in 0..4 : At(p, k)
    /\ AdminReachable

\* The four items, the account last.
LEMMA PlanFacts ==
    /\ SystemPlan \in Seq(Items) /\ Len(SystemPlan) = 4 
    /\ \A k \in 0..3 : SystemPlan[k + 1] \in Items /\ (SystemPlan[k + 1] = "account" <=> k = 3)
BY DEF SystemPlan, Items

\* What is left of a system seeding from its position k on.
LEMMA RestIsSeq ==
    ASSUME NEW k \in 0..4
    PROVE  /\ Rest(k) \in Seq(Items) /\ Len(Rest(k)) = 4 - k
           /\ \A i \in 1..(4 - k) : Rest(k)[i] = SystemPlan[k + i]
<1>1. \A i \in (k + 1)..4 : SystemPlan[i] \in Items
  BY PlanFacts, ElementOfSeq
<1> QED
  BY <1>1, PlanFacts, SubSeqProperties DEF Rest

\* A job takes one item after another.
LEMMA RestFacts ==
    /\ Rest(0) = SystemPlan /\ Rest(3) = <<"account">> /\ Rest(4) = <<>>
    /\ \A k \in 0..3 : /\ Rest(k) # <<>>
                       /\ Head(Rest(k)) = SystemPlan[k + 1] /\ Tail(Rest(k)) = Rest(k + 1)
<1>1. Rest(0) = SystemPlan
  <2>1. Rest(0) \in Seq(Items) /\ Len(Rest(0)) = 4 /\ \A i \in 1..4 : Rest(0)[i] = SystemPlan[i]
    BY RestIsSeq
  <2> QED
    BY <2>1, PlanFacts, SeqEqual
<1>2. Rest(3) = <<"account">>
  <2>1. Rest(3) \in Seq(Items) /\ Len(Rest(3)) = 1 /\ Rest(3)[1] = "account"
    <3>1. 3 \in 0..4 /\ 1 \in 1..(4 - 3) /\ 4 - 3 = 1 /\ 3 + 1 = 4
      OBVIOUS
    <3>2. Rest(3) \in Seq(Items) /\ Len(Rest(3)) = 4 - 3 /\ Rest(3)[1] = SystemPlan[3 + 1]
      BY <3>1, RestIsSeq, Zenon
    <3>3. SystemPlan[3 + 1] = "account"
      BY DEF SystemPlan
    <3> QED
      BY <3>1, <3>2, <3>3
  <2>2. <<"account">> \in Seq(Items) /\ Len(<<"account">>) = 1 /\ <<"account">>[1] = "account"
    BY DEF Items
  <2> QED
    BY <2>1, <2>2, SeqEqual
<1>3. Rest(4) = <<>>
  BY SubSeqEmpty, PlanFacts DEF Rest
<1>4. ASSUME NEW k \in 0..3
      PROVE  /\ Rest(k) # <<>>
             /\ Head(Rest(k)) = SystemPlan[k + 1] /\ Tail(Rest(k)) = Rest(k + 1)
  <2>1. /\ Rest(k) \in Seq(Items) /\ Len(Rest(k)) = 4 - k /\ Rest(k) # <<>>
        /\ \A i \in 1..(4 - k) : Rest(k)[i] = SystemPlan[k + i]
    <3>1. k \in 0..4
      OBVIOUS
    <3>2. /\ Rest(k) \in Seq(Items) /\ Len(Rest(k)) = 4 - k
          /\ \A i \in 1..(4 - k) : Rest(k)[i] = SystemPlan[k + i]
      BY <3>1, RestIsSeq, Zenon
    <3> QED
      BY <3>2
  <2>2. /\ Rest(k + 1) \in Seq(Items) /\ Len(Rest(k + 1)) = 3 - k
        /\ \A i \in 1..(3 - k) : Rest(k + 1)[i] = SystemPlan[k + 1 + i]
    <3>1. k + 1 \in 0..4 /\ 4 - (k + 1) = 3 - k
      OBVIOUS
    <3>2. /\ Rest(k + 1) \in Seq(Items) /\ Len(Rest(k + 1)) = 4 - (k + 1)
          /\ \A i \in 1..(4 - (k + 1)) : Rest(k + 1)[i] = SystemPlan[k + 1 + i]
      BY <3>1, RestIsSeq, Zenon
    <3> QED
      BY <3>1, <3>2
  <2>3. /\ Tail(Rest(k)) \in Seq(Items) /\ Len(Tail(Rest(k))) = 3 - k
        /\ \A i \in 1..(3 - k) : Tail(Rest(k))[i] = Rest(k)[i + 1]
    BY <2>1, HeadTailProperties
  <2>4. \A i \in 1..(3 - k) : Tail(Rest(k))[i] = Rest(k + 1)[i]
    BY <2>1, <2>2, <2>3
  <2>5. Tail(Rest(k)) = Rest(k + 1)
    BY <2>2, <2>3, <2>4, SeqEqual
  <2>6. Head(Rest(k)) = Rest(k)[1]
    BY <2>1
  <2> QED
    BY <2>1, <2>5, <2>6
<1> QED
  BY <1>1, <1>2, <1>3, <1>4

\* Only p has changed, and rows have been added at most.
LEMMA SeedMoves ==
    ASSUME AllJobs, SeedInv, NEW p \in Actors, NEW a, Goes(p, a),
           users \subseteq users', stored \subseteq stored',
           stored' \subseteq Items \ {"account"}, AdminReachable',
           NEW k \in 0..4, At(p, k)'
    PROVE  SeedInv'
<1>1. ASSUME NEW q \in Actors, q # p PROVE \E n \in 0..4 : At(q, n)'
  <2>1. PICK n \in 0..4 : At(q, n)
    BY DEF SeedInv
  <2>2. act'[q] = act[q]
    BY <1>1 DEF Goes, AllJobs
  <2>3. Administered => Administered'
    BY DEF Administered
  <2>4. \A item : Brought(q, item) => Brought(q, item)'
    BY <2>2, <2>3 DEF Brought, Pending
  <2> QED
    BY <2>1, <2>2, <2>4 DEF At
<1> QED
  BY <1>1 DEF SeedInv

\* More accounts and the same roles.
LEMMA StillReachable ==
    ASSUME SeedInv, users \subseteq users', UNCHANGED stored
    PROVE  AdminReachable' /\ stored' \subseteq Items \ {"account"}
BY DEF SeedInv, AdminReachable

\* A job that is over is done with everything.
LEMMA IdleAt ==
    ASSUME AllJobs, NEW p \in Actors, Goes(p, Idle)
    PROVE  At(p, 4)'
<1>1. act'[p] = Idle
  BY DEF Goes, AllJobs
<1> QED
  BY <1>1, RestFacts DEF At, Idle

\* A job that ends and leaves the items of the system as they were.
LEMMA JobEnds ==
    ASSUME AllJobs, SeedInv, NEW p \in Actors, Goes(p, Idle),
           users \subseteq users', UNCHANGED stored
    PROVE  SeedInv'
<1>1. At(p, 4)' /\ 4 \in 0..4
  BY IdleAt
<1> QED
  BY <1>1, SeedMoves, StillReachable

\* A job starts with nothing written, at the position its plan gives it.
LEMMA SeedBegins ==
    ASSUME AllJobs, SettingsOK, SeedInv, NEW p \in Actors, Begins(p)
    PROVE  SeedInv'
<1>1. AdminReachable' /\ stored' \subseteq Items \ {"account"} /\ UNCHANGED <<users, stored>>
  BY StillReachable DEF Begins, SeedSystem, SeedDummies, Register
<1>2. ASSUME SeedSystem(p, settings.mixed) PROVE SeedInv'
  <2> DEFINE a == [Idle EXCEPT !.job = "system", !.todo = SystemPlan,
                               !.user = Admin(settings.mixed)]
  <2>1. Goes(p, a) /\ settings.mixed \in BOOLEAN
    BY <1>2 DEF SeedSystem, SettingsOK
  <2>2. act'[p] = a
    BY <2>1 DEF Goes, AllJobs
  <2>3. a.job = "system" /\ a.todo = Rest(0) /\ a.user = Admin(settings.mixed)
    BY RestFacts DEF Idle
  <2>4. At(p, 0)'
    BY <2>1, <2>2, <2>3 DEF At
  <2> QED
    BY <1>1, <2>1, <2>4, SeedMoves
<1>3. ASSUME NEW job \in {"dummy", "register"}, NEW a,
             a.job = job, a.todo = <<"account">>, a.wrote = {}, Goes(p, a)
      PROVE  SeedInv'
  <2>1. act'[p] = a
    BY <1>3 DEF Goes, AllJobs
  <2>2. /\ act'[p].job \in {"dummy", "register"} /\ act'[p].wrote = {}
        /\ act'[p].todo = Rest(3) /\ Rest(3)' = Rest(3)
    BY <1>3, <2>1, RestFacts DEF Rest
  <2>3. At(p, 3)' /\ 3 \in 0..4
    BY <2>2 DEF At
  <2> QED
    BY <1>1, <1>3, <2>3, SeedMoves
<1>4. ASSUME SeedDummies(p) PROVE SeedInv'
  <2> DEFINE a == [Idle EXCEPT !.job = "dummy", !.todo = <<"account">>,
                               !.user = Dummy(stored)]
  <2>1. Goes(p, a) /\ a.job = "dummy" /\ a.todo = <<"account">> /\ a.wrote = {}
    BY <1>4 DEF SeedDummies, Idle
  <2> QED
    BY <1>3, <2>1
<1>5. ASSUME NEW n \in Names, NEW b \in Boxes, NEW mixed \in BOOLEAN,
             Register(p, n, Address(b, mixed))
      PROVE  SeedInv'
  <2> DEFINE a == [Idle EXCEPT !.job = "register", !.todo = <<"account">>, !.pc = "write",
                               !.user = Account(n, Lower(Address(b, mixed)), "none")]
  <2>1. Goes(p, a) /\ a.job = "register" /\ a.todo = <<"account">> /\ a.wrote = {}
    BY <1>5 DEF Register, Idle
  <2> QED
    BY <1>3, <2>1
<1> QED
  BY <1>2, <1>4, <1>5 DEF Begins

\* How far a job is whose next item is `item`.
LEMMA NextItem ==
    ASSUME SeedInv, NEW p \in Actors, act[p].todo # <<>>
    PROVE  \E k \in 0..3 : /\ At(p, k) /\ Head(act[p].todo) = SystemPlan[k + 1]
                           /\ Tail(act[p].todo) = Rest(k + 1)
<1>1. PICK k \in 0..4 : At(p, k)
  BY DEF SeedInv
<1>2. act[p].todo = Rest(k)
  BY <1>1 DEF At
<1>3. k \in 0..3
  BY <1>2, RestFacts
<1>4. Head(Rest(k)) = SystemPlan[k + 1] /\ Tail(Rest(k)) = Rest(k + 1)
  BY <1>3, RestFacts
<1> QED
  BY <1>1, <1>2, <1>3, <1>4, Zenon

\* An item is done once it is there, or the job has written it.
LEMMA ItemDone ==
    ASSUME AllJobs, SeedInv, NEW p \in Actors, act[p].todo # <<>>, NEW a, Goes(p, a),
           a.job = act[p].job, a.todo = Tail(act[p].todo), a.user = act[p].user,
           act[p].wrote \subseteq a.wrote,
           a.wrote \subseteq act[p].wrote \cup {Head(act[p].todo)},
           act[p].job # "none" /\ act[p].job = "system" =>
                \/ Head(act[p].todo) \in a.wrote \cup (stored \ {"account"})
                \/ Head(act[p].todo) = "account" /\ Administered,
           UNCHANGED <<users, stored>>
    PROVE  SeedInv'
<1>1. PICK k \in 0..3 : /\ At(p, k) /\ Head(act[p].todo) = SystemPlan[k + 1]
                        /\ Tail(act[p].todo) = Rest(k + 1)
  BY NextItem
<1>2. act'[p] = a
  BY DEF Goes, AllJobs
<1>3. ASSUME act[p].job = "system", NEW j \in 1..(k + 1) PROVE Brought(p, SystemPlan[j])'
  <2>1. CASE j = k + 1
    BY <1>1, <1>2, <1>3, <2>1 DEF Brought, Pending, Administered
  <2>2. CASE j \in 1..k
    <3>1. Brought(p, SystemPlan[j])
      BY <1>1, <1>3, <2>2 DEF At
    <3> QED
      BY <1>2, <3>1 DEF Brought, Pending, Administered
  <2> QED
    BY <2>1, <2>2
<1>4. act[p].job # "none"
  BY <1>1 DEF At
<1>5. act[p].job \in {"dummy", "register"} => a.wrote \subseteq {"account"} /\ k >= 3
  BY <1>1, PlanFacts DEF At
<1>6. At(p, k + 1)' /\ k + 1 \in 0..4
  BY <1>1, <1>2, <1>3, <1>4, <1>5 DEF At
<1>7. AdminReachable' /\ stored' \subseteq Items \ {"account"}
  BY StillReachable
<1> QED
  BY <1>6, <1>7, SeedMoves

\* A look-up that finds one row, in the case of a seeding, finds what it brings.
LEMMA LookSeeds ==
    ASSUME AllJobs, SeedInv, NEW p \in Actors, Look(p)
    PROVE  SeedInv'
<1> DEFINE item == Head(act[p].todo)
           found == IF item = "account" THEN Cardinality(Matches(act[p]))
                    ELSE Cardinality(stored \cap {item})
<1>1. act[p].todo # <<>> /\ UNCHANGED <<users, stored>> /\ act[p] \in Jobs
  BY DEF Look, AllJobs
<1>2. PICK k \in 0..3 : /\ At(p, k) /\ Head(act[p].todo) = SystemPlan[k + 1]
                        /\ Tail(act[p].todo) = Rest(k + 1)
  BY <1>1, NextItem
<1>3. ASSUME Goes(p, [act[p] EXCEPT !.pc = "write"]) PROVE SeedInv'
  <2> DEFINE a == [act[p] EXCEPT !.pc = "write"]
  <2>1. a.job = act[p].job /\ a.todo = act[p].todo /\ a.wrote = act[p].wrote /\ a.user = act[p].user
    BY <1>1 DEF Jobs
  <2>2. act'[p] = a
    BY <1>3 DEF Goes, AllJobs
  <2>3. \A i : Brought(p, i) => Brought(p, i)'
    BY <1>1, <2>1, <2>2 DEF Brought, Pending, Administered
  <2>4. At(p, k)' /\ k \in 0..4
    BY <1>2, <2>1, <2>2, <2>3 DEF At
  <2> QED
    BY <1>1, <1>3, <2>4, SeedMoves, StillReachable
<1>4. ASSUME found = 1, Goes(p, Done(act[p])) PROVE SeedInv'
  <2> DEFINE a == Done(act[p])
  <2>1. a.job = act[p].job /\ a.todo = Tail(act[p].todo) /\ a.wrote = act[p].wrote /\ a.user = act[p].user
    BY <1>1 DEF Done, Jobs
  <2>2. Cardinality({}) = 0
    BY FS_EmptySet
  <2>3. ASSUME item = "account", act[p].job = "system" PROVE Administered
    <3>1. Matches(act[p]) # {}
      BY <1>4, <2>2, <2>3
    <3>2. PICK u \in users : u.name = act[p].user.name \/ u.mail = act[p].user.mail
      BY <3>1 DEF Matches
    <3>3. PICK mixed \in BOOLEAN : act[p].user = Admin(mixed)
      BY <1>2, <2>3 DEF At
    <3> QED
      BY <3>2, <3>3 DEF Administered, Admin, Account, Address
  <2>4. ASSUME item # "account" PROVE item \in stored \ {"account"}
    <3>1. stored \cap {item} # {}
      BY <1>4, <2>2, <2>4
    <3> QED
      BY <2>4, <3>1
  <2> HIDE DEF a
  <2> QED
    BY <1>1, <1>4, <2>1, <2>3, <2>4, ItemDone DEF a
<1>5. ASSUME Goes(p, Idle) PROVE SeedInv'
  BY <1>1, <1>5, JobEnds
<1>6. \/ Goes(p, [act[p] EXCEPT !.pc = "write"])
      \/ found = 1 /\ Goes(p, Done(act[p]))
      \/ Goes(p, Idle)
  BY Zenon DEF Look
<1> QED
  BY <1>3, <1>4, <1>5, <1>6

\* An insert adds its item to the open transaction, commits a registration, or fails.
LEMMA InsertSeeds ==
    ASSUME AllJobs, SeedInv, NEW p \in Actors, Insert(p)
    PROVE  SeedInv'
<1>1. act[p].todo # <<>> /\ act[p] \in Jobs
  BY DEF Insert, AllJobs
<1>2. ASSUME users \subseteq users', UNCHANGED stored, Goes(p, Idle) PROVE SeedInv'
  BY <1>2, JobEnds
<1>3. ASSUME Inserted(p) PROVE SeedInv'
  <2> DEFINE a == [Done(act[p]) EXCEPT !.wrote = @ \cup {Head(act[p].todo)}]
  <2>1. /\ a.job = act[p].job /\ a.todo = Tail(act[p].todo) /\ a.user = act[p].user
        /\ a.wrote = act[p].wrote \cup {Head(act[p].todo)}
    BY <1>1 DEF Done, Jobs
  <2>2. Goes(p, a) /\ UNCHANGED <<users, stored>>
    BY <1>3 DEF Inserted
  <2> HIDE DEF a
  <2> QED
    BY <1>1, <2>1, <2>2, ItemDone
<1>4. \/ RollBack(p)
      \/ users' = users \cup {act[p].user} /\ Goes(p, Idle) /\ UNCHANGED stored
      \/ Inserted(p)
  BY Zenon DEF Insert
<1> QED
  BY <1>2, <1>3, <1>4 DEF RollBack

\* COMMIT of a seeding: everything has been brought.
LEMMA FinishSeeds ==
    ASSUME AllJobs, SeedInv, NEW p \in Actors, Finish(p)
    PROVE  SeedInv'
<1>1. /\ act[p].todo = <<>> /\ act[p].job # "none" /\ act[p] \in Jobs /\ Goes(p, Idle)
      /\ stored' = stored \cup (act[p].wrote \ {"account"}) /\ users' = users \cup Mine(p)
  BY DEF Finish, AllJobs
<1>2. At(p, 4)
  <2>1. PICK k \in 0..4 : At(p, k)
    BY DEF SeedInv
  <2>2. act[p].todo = Rest(k)
    BY <2>1 DEF At
  <2>3. k = 4
    BY <1>1, <2>2, RestFacts
  <2> QED
    BY <2>1, <2>3
<1>3. CASE act[p].job \in {"dummy", "register"}
  <2>1. UNCHANGED stored
    BY <1>1, <1>2, <1>3 DEF At
  <2> QED
    BY <1>1, <2>1, JobEnds
<1>4. CASE act[p].job = "system"
  <2>1. \A j \in 1..4 : Brought(p, SystemPlan[j])
    BY <1>2, <1>4 DEF At
  <2>2. Brought(p, "USER") /\ Brought(p, "ADMIN") /\ Brought(p, "perms") /\ Brought(p, "account")
    BY <2>1 DEF SystemPlan
  <2>3. {"USER", "ADMIN", "perms"} \subseteq stored'
    BY <1>1, <2>2 DEF Brought
  <2>4. Administered'
    <3>1. CASE Administered
      BY <1>1, <3>1 DEF Administered
    <3>2. CASE Pending(p)
      <4>1. act[p].user \in users'
        BY <1>1, <3>2 DEF Mine, Pending
      <4>2. PICK mixed \in BOOLEAN : act[p].user = Admin(mixed)
        BY <1>2, <1>4 DEF At
      <4>3. act[p].user.name = "superadmin"
        BY <4>2 DEF Admin, Account
      <4> QED
        BY <4>1, <4>3 DEF Administered
    <3> QED
      BY <2>2, <3>1, <3>2 DEF Brought
  <2>5. AdminReachable'
    BY <2>3, <2>4 DEF AdminReachable, Administered
  <2>6. stored' \subseteq Items \ {"account"}
    BY <1>1 DEF SeedInv, Jobs
  <2>7. At(p, 4)' /\ 4 \in 0..4
    BY <1>1, IdleAt
  <2> QED
    BY <1>1, <2>5, <2>6, <2>7, SeedMoves
<1> QED
  BY <1>1, <1>3, <1>4 DEF Jobs

\* A downgrade takes roles and accounts together, or neither.
LEMMA DowngradeSeeds ==
    ASSUME RevisionsWork, DeployInv, SeedInv, NoJobs, Downgrade(Rows), UNCHANGED act,
           users' = IF "users" \in catalog' THEN users ELSE {},
           stored' = IF "roles" \in catalog' THEN stored ELSE {}
    PROVE  SeedInv'
<1>1. version' \in 0..HeadRevision /\ catalog' \in Layouts(version')
  BY DowngradeStep, HeadIsNat
<1>2. "users" \in catalog' <=> "roles" \in catalog'
  BY <1>1 DEF RevisionsWork, LayoutsFit
<1>3. AdminReachable'
  BY <1>2 DEF SeedInv, AdminReachable
<1>4. \A p \in Actors, k \in 0..4 : At(p, k) => At(p, k)'
  BY DEF At, NoJobs
<1> QED
  BY <1>3, <1>4 DEF SeedInv

\* Every step keeps each seeding at its position in the plan.
LEMMA SeedStep ==
    ASSUME RevisionsWork, DeployInv, AccountInv, SettingsOK, SeedInv, [Next]_vars
    PROVE  SeedInv'
<1>1. ASSUME UNCHANGED accountVars PROVE SeedInv'
  BY <1>1 DEF accountVars, SeedInv, At, Brought, Pending, Administered, AdminReachable
<1>2. AllJobs
  BY DEF AccountInv
<1>3. ASSUME NEW p \in Actors, Begins(p) PROVE SeedInv'
  BY <1>2, <1>3, SeedBegins
<1>4. ASSUME NEW p \in Actors, Works(p) PROVE SeedInv'
  BY <1>2, <1>4, LookSeeds, InsertSeeds, FinishSeeds DEF Works
<1>5. ASSUME NEW p \in Actors, Abandon(p) PROVE SeedInv'
  BY <1>2, <1>5, JobEnds DEF Abandon, RollBack
<1>6. CASE Operates
  BY <1>1, <1>6, DowngradeSeeds DEF Operates
<1>7. CASE \E i \in Instances : Deploys(i)
  BY <1>1, <1>7 DEF Deploys
<1>8. CASE UNCHANGED vars
  BY <1>1, <1>8 DEF vars
<1> QED
  BY <1>3, <1>4, <1>5, <1>6, <1>7, <1>8 DEF Next

\* At the start there is no job.
LEMMA SeedsBegin == Init => SeedInv
<1> SUFFICES ASSUME Init PROVE SeedInv
  OBVIOUS
<1>1. stored = {} /\ AdminReachable
  BY DEF Init, AccountsInit, AdminReachable
<1>2. ASSUME NEW p \in Actors PROVE At(p, 4) /\ 4 \in 0..4
  BY RestFacts DEF Init, AccountsInit, At, Idle
<1> QED
  BY <1>1, <1>2 DEF SeedInv

\* Layouts, settings, accounts and seedings, all at once.
LEMMA DatabaseInvariant ==
    RevisionsWork => (Spec => [](DeployInv /\ SettingsOK /\ AccountInv /\ SeedInv))
<1> SUFFICES ASSUME RevisionsWork PROVE Spec => [](DeployInv /\ SettingsOK /\ AccountInv /\ SeedInv)
  OBVIOUS
<1>1. DeployInv /\ SettingsOK /\ AccountInv /\ SeedInv /\ [Next]_vars
        => (DeployInv /\ SettingsOK /\ AccountInv /\ SeedInv)'
  BY DeployStep, SettingsStep, AccountStep, SeedStep
<1> QED
  BY <1>1, DeployBegins, AccountsBegin, SeedsBegin, PTL DEF Spec

\* Whatever seeders race, whichever of them die, and whatever downgrades take
\* away: roles never come without the permissions and somebody who has the
\* administrator's name, address or role (system_seeder.py 24-163).
THEOREM AdminIsReachable == RevisionsWork => (Spec => []AdminReachable)
<1> SUFFICES ASSUME RevisionsWork PROVE Spec => []AdminReachable
  OBVIOUS
<1>1. SeedInv => AdminReachable
  BY DEF SeedInv
<1> QED
  BY <1>1, DatabaseInvariant, PTL

\* The database, its instances and its jobs have the states they are said to have.
THEOREM DatabaseTypeCorrect == RevisionsWork => (Spec => []DatabaseTypeOK)
<1> SUFFICES ASSUME RevisionsWork PROVE Spec => []DatabaseTypeOK
  OBVIOUS
<1>1. DeployInv /\ SettingsOK => DeploymentTypeOK
  <2> SUFFICES ASSUME DeployInv, SettingsOK PROVE DeploymentTypeOK
    OBVIOUS
  <2>1. catalog \subseteq Objects
    BY DEF DeployInv, RevisionsWork, LayoutsFit
  <2>2. draft = NoDraft \/ (draft.by \in Instances /\ draft.version \in (version + 1)..HeadRevision)
    BY DEF DeployInv, DraftOK
  <2> QED
    BY <2>1, <2>2 DEF DeploymentTypeOK, DeployInv, SettingsOK, Boots
<1>2. AccountInv /\ SeedInv => AccountsTypeOK
  <2> SUFFICES ASSUME AccountInv, SeedInv PROVE AccountsTypeOK
    OBVIOUS
  <2>1. \A u \in users : u.role \in {"none", "ADMIN"} /\ u.mail.mixed \in BOOLEAN
    BY DEF AccountInv, AllPersons, Persons
  <2>2. ASSUME NEW p \in Actors
        PROVE  /\ act[p] \in Jobs
               /\ \E k \in 0..Len(SystemPlan) : act[p].todo = Rest(k)
               /\ act[p].job = "none" => act[p].wrote = {} /\ act[p].todo = <<>>
    <3>1. PICK k \in 0..4 : At(p, k)
      BY DEF SeedInv
    <3> QED
      BY <3>1, PlanFacts, RestFacts DEF At, AccountInv, AllJobs
  <2>3. stored \subseteq Items \ {"account"}
    BY DEF SeedInv
  <2> QED
    BY <2>1, <2>2, <2>3 DEF AccountsTypeOK, Rest, Jobs
<1> QED
  BY <1>1, <1>2, DatabaseInvariant, PTL DEF DatabaseTypeOK
=============================================================================
