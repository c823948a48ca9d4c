------------------------------- MODULE Accounts -------------------------------
(***************************************************************************)
(* Who puts rows into auth.users, auth.roles and auth.permissions: the     *)
(* seeders (alembic/seeds), each one transaction of look-ups and inserts,  *)
(* and register_user (auth_service.py:52).  Any two of them may run at the *)
(* same time.  An insert waits for an open transaction that has inserted   *)
(* the same unique value, and fails when that value has been committed.    *)
(*                                                                         *)
(* The nine permissions with their links are one item, and so are the      *)
(* dummy accounts, for which `admin_user` stands.                          *)
(***************************************************************************)
EXTENDS Naturals, Sequences, FiniteSets

CONSTANTS
    Actors,     \* seeding scripts and registrations under way
    Names,      \* usernames people register with
    Boxes,      \* mailboxes people register with
    MaxUsers    \* bound: accounts at which nobody registers any more

VARIABLES
    users,      \* rows of auth.users: name, mail, role
    stored,     \* committed roles and permissions
    act         \* what each actor is doing

accountVars == <<users, stored, act>>

\* An address: its mailbox, and whether it is written with a capital letter.
Address(box, mixed) == [box |-> box, mixed |-> mixed]

Account(name, mail, role) == [name |-> name, mail |-> mail, role |-> role]

SystemPlan == <<"USER", "ADMIN", "perms", "account">>
Items      == {"USER", "ADMIN", "perms", "account"}

Nothing == Account("none", Address("none", FALSE), "none")
Idle == [job |-> "none", todo |-> <<>>, pc |-> "look", wrote |-> {}, user |-> Nothing]

AccountsTypeOK ==
    /\ \A u \in users : u.role \in {"none", "ADMIN"} /\ u.mail.mixed \in BOOLEAN
    /\ stored \subseteq Items \ {"account"}
    /\ \A p \in Actors :
          /\ act[p].job \in {"none", "system", "dummy", "register"}
          /\ act[p].pc \in {"look", "write"}
          /\ act[p].wrote \subseteq Items
          /\ \E k \in 0..Len(SystemPlan) :
                act[p].todo = SubSeq(SystemPlan, k + 1, Len(SystemPlan))
          /\ act[p].job = "none" => act[p].wrote = {} /\ act[p].todo = <<>>

AccountsInit ==
    /\ stored = {}
    /\ act = [p \in Actors |-> Idle]

Goes(p, a) == act' = [act EXCEPT ![p] = a]

(***************************************************************************)
(* Beginnings.                                                             *)
(***************************************************************************)
Admin(mixed) == Account("superadmin", Address("admin", mixed), "ADMIN")

\* A dummy account gets its role only if the role existed when the seeder read
\* the roles.
Dummy(roles) == Account("admin_user", Address("dummy", FALSE),
                        IF "ADMIN" \in roles THEN "ADMIN" ELSE "none")

SeedSystem(p, mixed) ==
    /\ act[p] = Idle
    /\ Goes(p, [Idle EXCEPT !.job = "system", !.todo = SystemPlan,
                            !.user = Admin(mixed)])
    /\ UNCHANGED <<users, stored>>

SeedDummies(p) ==
    /\ act[p] = Idle
    /\ Goes(p, [Idle EXCEPT !.job = "dummy", !.todo = <<"account">>,
                            !.user = Dummy(stored)])
    /\ UNCHANGED <<users, stored>>

Lower(mail) == [mail EXCEPT !.mixed = FALSE]

\* is_email_exists: a known address is refused (409), for the others the
\* password is hashed in a thread.
Register(p, name, mail) ==
    /\ act[p] = Idle
    /\ Cardinality(users) < MaxUsers
    /\ ~\E u \in users : u.mail = Lower(mail)
    /\ Goes(p, [Idle EXCEPT !.job = "register", !.todo = <<"account">>, !.pc = "write",
                            !.user = Account(name, Lower(mail), "none")])
    /\ UNCHANGED <<users, stored>>

(***************************************************************************)
(* Endings.                                                                *)
(***************************************************************************)
\* Faulty variant of RollBack: the session of the failed job is not closed.
LeavesOpen(p) ==
    /\ Goes(p, [Idle EXCEPT !.wrote = act[p].wrote, !.user = act[p].user])
    /\ UNCHANGED <<users, stored>>

RollBack(p) == Goes(p, Idle) /\ UNCHANGED <<users, stored>>

Mine(p) == IF "account" \in act[p].wrote THEN {act[p].user} ELSE {}

\* COMMIT.  `--type all` is a system seeding, then one of the dummies.
Finish(p) ==
    /\ act[p].job # "none"
    /\ act[p].todo = <<>>
    /\ stored' = stored \cup (act[p].wrote \ {"account"})
    /\ users' = users \cup Mine(p)
    /\ Goes(p, Idle)

(***************************************************************************)
(* One item: look it up, then insert it if it was not there.               *)
(***************************************************************************)
\* What a seeder's look-up of its account finds.
Matches(a) ==
    {u \in users : u.name = a.user.name \/ (a.job = "system" /\ u.mail = a.user.mail)}

Done(a) == [a EXCEPT !.todo = Tail(@), !.pc = "look"]

\* Faulty variant of Inserted: an item is committed as soon as it is inserted.
CommitsEach(p) ==
    /\ stored' = stored \cup ({Head(act[p].todo)} \ {"account"})
    /\ users' = IF Head(act[p].todo) = "account" THEN users \cup {act[p].user} ELSE users
    /\ Goes(p, Done(act[p]))

Inserted(p) ==
    /\ Goes(p, [Done(act[p]) EXCEPT !.wrote = @ \cup {Head(act[p].todo)}])
    /\ UNCHANGED <<users, stored>>

\* A row that is there is skipped; two matches for the administrator, one by name
\* and one by address, are an error.
Look(p) ==
    /\ act[p].todo # <<>>
    /\ act[p].pc = "look"
    /\ LET item  == Head(act[p].todo)
           found == IF item = "account" THEN Cardinality(Matches(act[p]))
                    ELSE Cardinality(stored \cap {item})
       IN \/ found = 0 /\ Goes(p, [act[p] EXCEPT !.pc = "write"])
          \/ found = 1 /\ Goes(p, Done(act[p]))
          \/ found > 1 /\ Goes(p, Idle)
    /\ UNCHANGED <<users, stored>>

\* Faulty variant of Clash: the columns are not unique.
NoConstraint(u, v) == FALSE

Clash(u, v) == u.name = v.name \/ u.mail = v.mail

Blocked(p) ==
    \E q \in Actors \ {p} :
        IF Head(act[p].todo) = "account"
        THEN \E v \in Mine(q) : Clash(act[p].user, v)
        ELSE Head(act[p].todo) \in act[q].wrote

Insert(p) ==
    /\ act[p].todo # <<>>
    /\ act[p].pc = "write"
    /\ ~Blocked(p)
    /\ LET item  == Head(act[p].todo)
           clash == IF item = "account" THEN \E v \in users : Clash(act[p].user, v)
                    ELSE item \in stored
       IN \/ clash /\ RollBack(p)
          \/ ~clash /\ act[p].job = "register"
             /\ users' = users \cup {act[p].user}
             /\ Goes(p, Idle)
             /\ UNCHANGED stored
          \/ ~clash /\ act[p].job # "register" /\ Inserted(p)

\* The process dies, or a call fails.
Abandon(p) == act[p].job # "none" /\ RollBack(p)
=============================================================================
