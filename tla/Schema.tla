-------------------------------- MODULE Schema --------------------------------
(***************************************************************************)
(* The catalog of the database, twice: as alembic/versions builds it,      *)
(* revision by revision, and as the model classes expect it.  A catalog is *)
(* a set of named objects: tables, indexes, enum types, schemas and those  *)
(* columns of auth.users that come and go.  Other columns, key             *)
(* constraints and lengths are left out.                                   *)
(*                                                                         *)
(* A revision is a sequence of statements <<what, object>> in the order of *)
(* its code:                                                               *)
(*   make    create a table, a type, an index, or a nullable column; alembic *)
(*           creates an enum type right before the first table that uses it *)
(*   drop    drop a table, an index or a column                            *)
(*   ensure  CREATE SCHEMA IF NOT EXISTS                                   *)
(*   fill    add a column that is NOT NULL and has no default              *)
(*   move    ALTER TABLE sessions SET SCHEMA, to or from schema session    *)
(***************************************************************************)
EXTENDS Naturals, Sequences, SequencesExt

Ops(what, objects) == [k \in DOMAIN objects |-> <<what, objects[k]>>]
Make(objects)   == Ops("make", objects)
Drop(objects)   == Ops("drop", objects)
Ensure(objects) == Ops("ensure", objects)

(***************************************************************************)
(* alembic/versions, from the first to the head.                           *)
(***************************************************************************)
R4bcbf8faef24 == [
    up |->
        Ensure(<<"schema auth", "schema profile">>) \o
        Make(<<"permissions", "ix_auth_permissions_code unique",
               "ix_auth_permissions_module",
               "roles", "ix_auth_roles_name unique",
               "userstatus", "users", "ix_auth_users_email unique",
               "ix_auth_users_status", "ix_auth_users_username unique",
               "role_permissions",
               "sessions", "ix_auth_sessions_refresh_token_hash unique",
               "ix_auth_sessions_user_active", "ix_auth_sessions_user_id",
               "user_roles", "usergender", "user_profiles">>),
    down |->
        Drop(<<"user_profiles", "user_roles",
               "ix_auth_sessions_user_id", "ix_auth_sessions_user_active",
               "ix_auth_sessions_refresh_token_hash unique", "sessions",
               "role_permissions",
               "ix_auth_users_username unique", "ix_auth_users_status",
               "ix_auth_users_email unique", "users",
               "ix_auth_roles_name unique", "roles",
               "ix_auth_permissions_module", "ix_auth_permissions_code unique",
               "permissions">>)]

\* Faulty variant of R6502f63d255e: the statement its author commented out.
NotNullAtOnce == [
    up   |-> Ops("fill", <<"failed_login_attempt_cnt">>),
    down |-> Drop(<<"failed_login_attempt_cnt">>)]

\* Added as nullable, filled, then NOT NULL.
R6502f63d255e == [
    up   |-> Make(<<"failed_login_attempt_cnt">>),
    down |-> Drop(<<"failed_login_attempt_cnt">>)]

R59c7a358bd44 == [
    up   |-> Make(<<"failed_login_attempt_time", "banned_until_time">>),
    down |-> Drop(<<"banned_until_time", "failed_login_attempt_time">>)]

R7f8e9d0c1b2a == [
    up   |-> Ensure(<<"schema session">>) \o Ops("move", <<"in session">>),
    down |-> Ops("move", <<"in auth">>)]

SessionIndexes(schema) ==
    IF schema = "auth"
    THEN <<"ix_auth_sessions_refresh_token_hash unique",
           "ix_auth_sessions_user_active", "ix_auth_sessions_user_id">>
    ELSE <<"ix_session_sessions_refresh_token_hash unique",
           "ix_session_sessions_user_active", "ix_session_sessions_user_id">>

\* Faulty variant of Rdf8aad89947d: the move is taken to have renamed the
\* indexes.
KeepsIndexNames == [
    up   |-> Drop(<<"failed_login_attempt_time", "failed_login_attempt_cnt">>),
    down |-> Ops("fill", <<"failed_login_attempt_cnt">>) \o
             Make(<<"failed_login_attempt_time">>)]

Rdf8aad89947d == [
    up   |-> Drop(<<"failed_login_attempt_time", "failed_login_attempt_cnt">>
                  \o SessionIndexes("auth"))
             \o Make(SessionIndexes("session")),
    down |-> Drop(Reverse(SessionIndexes("session")))
             \o Make(Reverse(SessionIndexes("auth")))
             \o Ops("fill", <<"failed_login_attempt_cnt">>)
             \o Make(<<"failed_login_attempt_time">>)]

ChatTables == <<
    "chat_rooms", "ix_chat_chat_rooms_creator_id", "ix_chat_chat_rooms_name",
    "chat_messages", "ix_chat_chat_messages_chat_room_id",
    "ix_chat_chat_messages_role", "ix_chat_chat_messages_sender_id",
    "chat_room_members", "ix_chat_chat_room_members_role",
    "file_jobs", "ix_chat_file_jobs_file_type", "ix_chat_file_jobs_message_id",
    "ix_chat_file_jobs_status", "ix_chat_file_jobs_user_id">>

ChatTypes == [chat_messages     |-> <<"chatmessagerole">>,
              chat_room_members |-> <<"chatmemberrole">>,
              file_jobs         |-> <<"filetype", "filejobstatus">>]

ChatUp == Ensure(<<"schema chat">>) \o
          Make(FlattenSeq([k \in DOMAIN ChatTables |->
                   LET o == ChatTables[k]
                   IN (IF o \in DOMAIN ChatTypes THEN ChatTypes[o] ELSE <<>>)
                      \o <<o>>]))

\* Faulty variant of R40b75c1b3864: the tables are dropped in the order they were
\* made in.
DropsInOrder == [up |-> ChatUp, down |-> Drop(ChatTables)]

\* Reversed, a table comes after its indexes.
R40b75c1b3864 == [up |-> ChatUp, down |-> Drop(Reverse(ChatTables))]

Chain == <<R4bcbf8faef24, R6502f63d255e, R59c7a358bd44, R7f8e9d0c1b2a,
           Rdf8aad89947d, R40b75c1b3864>>
HeadRevision == Len(Chain)

(***************************************************************************)
(* What a statement needs and does.                                        *)
(***************************************************************************)
\* Objects that must exist before this one, and keep it from being dropped
\* before this one is: foreign keys, types of columns, schemas.
Needs(o) ==
    CASE o \in {"permissions", "roles", "users"} -> {"schema auth"}
      [] o = "role_permissions"  -> {"permissions", "roles"}
      [] o = "sessions"          -> {"users"}
      [] o = "user_roles"        -> {"users", "roles"}
      [] o = "user_profiles"     -> {"users", "schema profile"}
      [] o = "chat_rooms"        -> {"users", "schema chat"}
      [] o = "chat_messages"     -> {"users", "chat_rooms"}
      [] o = "chat_room_members" -> {"users", "chat_rooms"}
      [] o = "file_jobs"         -> {"users", "chat_messages"}
      [] OTHER -> {}

\* `rows`: auth.users has rows.
Legal(cat, op, rows) ==
    CASE op[1] = "make"   -> op[2] \notin cat /\ Needs(op[2]) \subseteq cat
      [] op[1] = "fill"   -> op[2] \notin cat /\ ~rows
      [] op[1] = "drop"   -> op[2] \in cat /\ \A o \in cat : op[2] \notin Needs(o)
      [] OTHER -> TRUE

Effect(cat, op) ==
    CASE op[1] \in {"make", "ensure", "fill"} -> cat \cup {op[2]}
      [] op[1] = "drop" -> cat \ {op[2]}
      [] op = <<"move", "in session">> ->
            IF "sessions" \in cat THEN cat \cup {"in session"}
            ELSE cat \cup {"sessions", "in session"} \cup ToSet(SessionIndexes("session"))
      [] op = <<"move", "in auth">> -> cat \ {"in session"}

\* The catalog after the statements, or Error when one of them is refused.
Error == {"error"}
Run(cat, ops, rows) ==
    LET after[k \in 0..Len(ops)] ==
            IF k = 0 THEN cat
            ELSE UNION {IF c # Error /\ Legal(c, ops[k], rows)
                        THEN Effect(c, ops[k]) ELSE Error : c \in {after[k - 1]}}
    IN after[Len(ops)]

\* The catalogs that upgrades alone lead to.
Upgraded[n \in 0..HeadRevision] ==
    IF n = 0 THEN {} ELSE Run(Upgraded[n - 1], Chain[n].up, FALSE)
Objects == UNION {Upgraded[n] : n \in 0..HeadRevision}

(***************************************************************************)
(* The model classes: their tables, their indexes, named by the convention *)
(* of db/base.py, and the types of their columns.                          *)
(***************************************************************************)
PermissionModel     == {"permissions", "ix_auth_permissions_code unique",
                        "ix_auth_permissions_module"}
RolePermissionModel == {"role_permissions"}
RoleModel           == {"roles", "ix_auth_roles_name unique"}
UserRoleModel       == {"user_roles"}
UserModel           == {"users", "ix_auth_users_username unique",
                        "ix_auth_users_email unique", "ix_auth_users_status",
                        "userstatus", "banned_until_time"}
UserProfileModel    == {"user_profiles", "usergender"}
UserSessionModel    == {"sessions", "in session",
                        "ix_session_sessions_user_active",
                        "ix_session_sessions_user_id",
                        "ix_session_sessions_refresh_token_hash unique"}
ChatRoomModel       == {"chat_rooms", "ix_chat_chat_rooms_creator_id",
                        "ix_chat_chat_rooms_name"}
ChatRoomMemberModel == {"chat_room_members", "ix_chat_chat_room_members_role",
                        "chatmemberrole"}
ChatMessageModel    == {"chat_messages", "ix_chat_chat_messages_chat_room_id",
                        "ix_chat_chat_messages_sender_id",
                        "ix_chat_chat_messages_role", "chatmessagerole"}
FileJobModel        == {"file_jobs", "ix_chat_file_jobs_message_id",
                        "ix_chat_file_jobs_user_id", "ix_chat_file_jobs_file_type",
                        "ix_chat_file_jobs_status", "filetype", "filejobstatus"}

ModelObjects == UNION {
    PermissionModel, RolePermissionModel, RoleModel, UserRoleModel, UserModel,
    UserProfileModel, UserSessionModel, ChatRoomModel, ChatRoomMemberModel,
    ChatMessageModel, FileJobModel}

Schemas == {"schema auth", "schema profile", "schema session", "schema chat"}

\* An enum type with no table that uses it, as a downgrade leaves it behind.
LeftBehind(cat) ==
    \/ "users" \notin cat /\ cat \cap {"userstatus", "usergender"} # {}
    \/ \E t \in DOMAIN ChatTypes : t \notin cat /\ cat \cap ToSet(ChatTypes[t]) # {}
=============================================================================
