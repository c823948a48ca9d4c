------------------------------ MODULE Deployment ------------------------------
(***************************************************************************)
(* How an instance of the service comes up: the wizard's .env, the volume  *)
(* of the database, entrypoint.sh with `alembic upgrade head`, and the     *)
(* operator's `alembic downgrade -1`.  All revisions of an upgrade run in  *)
(* one transaction (alembic/env.py:71); its locks make a second upgrade    *)
(* wait at its first statement until the first one has ended.              *)
(***************************************************************************)
EXTENDS Schema

CONSTANTS
    Instances,  \* containers of the service
    Spellings   \* e-mails given to the wizard: with a capital letter or not

ASSUME InstancesAssumption == "nobody" \notin Instances
ASSUME SpellingsAssumption == Spellings \subseteq BOOLEAN

VARIABLES
    catalog,    \* committed objects
    version,    \* alembic_version: how much of Chain has been applied
    draft,      \* the upgrade that holds the locks: its instance, its
                \* uncommitted catalog and version; or NoDraft
    boot,       \* each instance: "off", "migrating" from version `at`,
                \* "serving", or "failed"
    volume,     \* the database's volume has been initialised
    settings    \* .env: its password fits the volume, the administrator's
                \* e-mail has a capital letter, ENVIRONMENT is prod

deploymentVars == <<catalog, version, draft, boot, volume, settings>>

\* A .env written by hand for development, or what settings.py defaults to.
DefaultSettings == [fits |-> TRUE, mixed |-> FALSE, prod |-> FALSE]

Off     == [pc |-> "off", at |-> 0]
NoDraft == [by |-> "nobody"]

DeploymentTypeOK ==
    /\ catalog \subseteq Objects
    /\ version \in 0..HeadRevision
    /\ \/ draft = NoDraft
       \/ draft.by \in Instances /\ draft.version \in (version + 1)..HeadRevision
    /\ boot \in [Instances -> [pc : {"off", "migrating", "serving", "failed"},
                               at : 0..HeadRevision]]
    /\ volume \in BOOLEAN
    /\ settings \in [fits : BOOLEAN, mixed : BOOLEAN, prod : BOOLEAN]

\* A new machine, or a database an older release has left at any revision.
DeploymentInit ==
    /\ version \in 0..HeadRevision
    /\ catalog = Upgraded[version]
    /\ draft = NoDraft
    /\ boot = [i \in Instances |-> Off]
    /\ volume = (version > 0)
    /\ settings \in {DefaultSettings} \cup [fits : {TRUE}, mixed : Spellings, prod : {TRUE}]

(***************************************************************************)
(* The wizard draws new secrets whenever it runs; the database keeps the   *)
(* password its volume was initialised with.                               *)
(***************************************************************************)
GenerateEnv(mixed) == [fits |-> ~volume, mixed |-> mixed, prod |-> TRUE]

RunWizard ==
    /\ \E mixed \in Spellings : settings' = GenerateEnv(mixed)
    /\ UNCHANGED <<catalog, version, draft, boot, volume>>

(***************************************************************************)
(* A boot.                                                                 *)
(***************************************************************************)
\* The containers start; alembic connects and reads the version.
Boot(i) ==
    /\ boot[i].pc \in {"off", "failed"}
    /\ volume' = TRUE
    /\ boot' = [boot EXCEPT ![i] =
            IF ~settings.fits THEN [pc |-> "failed", at |-> 0]
            ELSE IF version = HeadRevision THEN [pc |-> "serving", at |-> 0]
            ELSE [pc |-> "migrating", at |-> version]]
    /\ UNCHANGED <<catalog, version, draft, settings>>

MayRun(i) == boot[i].pc = "migrating" /\ draft.by \in {"nobody", i}

\* Faulty variant of Refused: the transaction of the failed upgrade stays open.
KeepsTransaction(i) ==
    /\ boot' = [boot EXCEPT ![i] = [pc |-> "failed", at |-> 0]]
    /\ UNCHANGED draft

\* A statement fails: rollback, and `set -e` ends the entry point.
Refused(i) ==
    /\ boot' = [boot EXCEPT ![i] = [pc |-> "failed", at |-> 0]]
    /\ draft' = NoDraft

\* The next revision: its statements, then the UPDATE of alembic_version, which
\* fails unless the version still is the one this upgrade started from.
Apply(i, rows) ==
    /\ MayRun(i)
    /\ LET mine == draft.by = i
           next == 1 + IF mine THEN draft.version ELSE boot[i].at
       IN /\ next <= HeadRevision
          /\ \E cat \in {Run(IF mine THEN draft.catalog ELSE catalog,
                             Chain[next].up, rows)} :
                IF cat = Error \/ version # boot[i].at
                THEN Refused(i)
                ELSE /\ draft' = [by |-> i, catalog |-> cat, version |-> next]
                     /\ UNCHANGED boot
    /\ UNCHANGED <<catalog, version, volume, settings>>

\* COMMIT; entrypoint.sh goes on to uvicorn.
Commit(i) ==
    /\ MayRun(i)
    /\ draft # NoDraft
    /\ draft.version = HeadRevision
    /\ catalog' = draft.catalog
    /\ version' = draft.version
    /\ draft' = NoDraft
    /\ boot' = [boot EXCEPT ![i] = [pc |-> "serving", at |-> 0]]
    /\ UNCHANGED <<volume, settings>>

\* The container is stopped or killed; an open transaction is rolled back.
Stop(i) ==
    /\ boot[i].pc \in {"migrating", "serving"}
    /\ boot' = [boot EXCEPT ![i] = Off]
    /\ draft' = IF draft.by = i THEN NoDraft ELSE draft
    /\ UNCHANGED <<catalog, version, volume, settings>>

\* `alembic downgrade -1` by hand; a failing one is rolled back and changes nothing.
Downgrade(rows) ==
    /\ settings.fits
    /\ draft = NoDraft
    /\ version > 0
    /\ catalog' = Run(catalog, Chain[version].down, rows)
    /\ catalog' # Error
    /\ version' = version - 1
    /\ UNCHANGED <<draft, boot, volume, settings>>
=============================================================================
