------------------------------- MODULE Database -------------------------------
(***************************************************************************)
(* Deployment and Accounts together: boots, downgrades and the wizard on   *)
(* one side, seeding and registrations on the other.  They meet in the     *)
(* tables: accounts are written only at the head revision, a NOT NULL      *)
(* column can be added only to an empty table, a downgrade waits for the   *)
(* transactions that hold the tables and may drop what they wrote.         *)
(*                                                                         *)
(* Assumed: the process has imported every model class (the tests and      *)
(* alembic/env.py do; main.py and the seeders leave out chat_model).       *)
(***************************************************************************)
EXTENDS Deployment, Accounts

vars == <<deploymentVars, accountVars>>

DatabaseTypeOK == DeploymentTypeOK /\ AccountsTypeOK

\* An older database may have accounts already.
Init ==
    /\ DeploymentInit
    /\ AccountsInit
    /\ \/ users = {}
       \/ version > 0 /\ \E n \in Names, b \in Boxes :
                            users = {Account(n, Address(b, FALSE), "none")}

Rows   == users # {}
NoJobs == \A p \in Actors : act[p].job = "none"

Deploys(i) == (Apply(i, Rows) \/ Commit(i)) /\ UNCHANGED accountVars

Operates ==
    \/ \E i \in Instances : (Boot(i) \/ Stop(i)) /\ UNCHANGED accountVars
    \/ NoJobs /\ RunWizard /\ UNCHANGED accountVars   \* bound: jobs have read .env
    \/ /\ NoJobs
       /\ Downgrade(Rows)
       /\ users' = IF "users" \in catalog' THEN users ELSE {}
       /\ stored' = IF "roles" \in catalog' THEN stored ELSE {}
       /\ UNCHANGED act

Begins(p) ==
    /\ settings.fits
    /\ version = HeadRevision   \* bound: not between a downgrade and an upgrade,
    /\ \A i \in Instances : boot[i].pc # "migrating"   \* nor while one fails
    /\ \/ SeedSystem(p, settings.mixed)
       \/ ~settings.prod /\ SeedDummies(p)
       \/ /\ \E i \in Instances : boot[i].pc = "serving"
          /\ \E n \in Names, b \in Boxes, mixed \in BOOLEAN :
                Register(p, n, Address(b, mixed))
    /\ UNCHANGED deploymentVars

Works(p) ==
    /\ Look(p) \/ Insert(p) \/ Finish(p)
    /\ UNCHANGED deploymentVars

Next ==
    \/ Operates
    \/ \E i \in Instances : Deploys(i)
    \/ \E p \in Actors : Begins(p) \/ Works(p) \/ (Abandon(p) /\ UNCHANGED deploymentVars)

\* A transaction that can go on does.  Postgres queues whoever waits for a lock,
\* so those that come later, again and again, do not overtake: strong fairness.
Fairness ==
    /\ \A i \in Instances : SF_vars(Deploys(i))
    /\ \A p \in Actors : SF_vars(Works(p))

Spec == Init /\ [][Next]_vars /\ Fairness

-----------------------------------------------------------------------------
\* The objects that downgrades leave behind: each revision's schemas and types.
Remains == {{"schema auth", "schema profile"}, {"userstatus", "usergender"},
            {"schema session"},
            {"schema chat", "chatmessagerole", "chatmemberrole", "filetype", "filejobstatus"}}

\* The catalogs a database of that version may have.
Layouts(n) == {Upgraded[n] \cup UNION left : left \in SUBSET Remains}

\* Revision n applied to any database of the version before it is refused only
\* because of a type left behind; otherwise it gives a database of its version.
UpgradeWorks(n, rows) == \A cat \in Layouts(n - 1) :
    LET new == Run(cat, Chain[n].up, rows) IN
      IF new = Error THEN LeftBehind(cat)
      ELSE new \in Layouts(n) /\ (LeftBehind(new) => LeftBehind(cat))

\* Its downgrade is refused only because of a column that the rows would need, or
\* gives back a database of the version before it.
DowngradeWorks(n, rows) == \A cat \in Layouts(n) :
    LET old == Run(cat, Chain[n].down, rows) IN
      IF old = Error THEN rows ELSE old \in Layouts(n - 1)

\* What the catalogs of a version have in common: tables of accounts and of
\* roles together, and at the head what the model classes name.
LayoutsFit ==
    /\ \A n \in 0..HeadRevision : \A cat \in Layouts(n) :
          cat \subseteq Objects /\ (n > 0 <=> "users" \in cat) /\ (n > 0 <=> "roles" \in cat)
    /\ \A cat \in Layouts(HeadRevision) : cat \ Schemas = ModelObjects

RevisionsWork ==
    /\ LayoutsFit
    /\ \A n \in 1..HeadRevision, rows \in BOOLEAN : UpgradeWorks(n, rows) /\ DowngradeWorks(n, rows)

\* A database has one of the catalogs of its version, and every revision can be
\* applied to whatever databases upgrades and downgrades have made, with accounts
\* or without, and taken back again: only a type that a downgrade has left behind
\* stops an upgrade, and only accounts stop a downgrade (alembic/versions).
RevisionsFit ==
    /\ \E left \in SUBSET Remains : catalog = Upgraded[version] \cup UNION left
    /\ RevisionsWork

\* Whatever way it got there, by upgrades from any older revision, downgrades
\* and concurrent boots, a database at the head revision has exactly the tables,
\* indexes and types that the model classes name (alembic/versions against
\* auth_model.py, chat_model.py, session_model.py, user_profile_model.py).
HeadMatchesModels == version = HeadRevision => catalog \ Schemas = ModelObjects

\* An upgrade succeeds whatever accounts exist.  A boot fails only when the
\* password does not fit, a downgrade has left an enum type behind, or another
\* upgrade or downgrade has changed the version meanwhile (entrypoint.sh:5).
BootsUnlessTold ==
    [][\A i \in Instances :
          boot[i].pc # "failed" /\ boot'[i].pc = "failed" =>
              \/ ~settings.fits
              \/ LeftBehind(catalog)
              \/ boot[i].pc = "migrating" /\ version # boot[i].at]_vars

\* No boot hangs on another one: whoever waits for the locks of an upgrade gets
\* its turn.
BootsEnd ==
    \A i \in Instances : boot[i].pc = "migrating" ~> boot[i].pc # "migrating"

\* Nobody shares a username or a mailbox, however registrations and seeders
\* interleave, except with an administrator whose address was configured with
\* capital letters, which the seeder does not lower (auth_service.py:58-76,
\* system_seeder.py:120-131).
OneAccount ==
    \A u, v \in users : u # v =>
        /\ u.name # v.name
        /\ u.mail.box = v.mail.box =>
              \E w \in {u, v} : w.mail.mixed /\ w.role = "ADMIN"

\* Once there are roles there is everything the system seeder brings, also
\* after races and crashes: the permissions, and an administrator or somebody
\* who had taken the administrator's name or address (system_seeder.py:24-163).
AdminReachable ==
    stored # {} =>
        /\ {"USER", "ADMIN", "perms"} \subseteq stored
        /\ \E u \in users : u.role = "ADMIN" \/ u.name = "superadmin" \/ u.mail.box = "admin"

\* Every seeding and every registration ends: the waits of their inserts for
\* each other never form a cycle (base_seeder.py:19-35).
JobsEnd == \A p \in Actors : act[p].job # "none" ~> act[p].job = "none"
=============================================================================
