----------------------------- MODULE Migrations -----------------------------
(***************************************************************************)
(* The migrations of backend/alembic/versions, run against one PostgreSQL  *)
(* database by several migrators (every instance that is deployed may      *)
(* start one), and the models of backend/app/models/entities.py.           *)
(*                                                                         *)
(* The schema gives for every table, and for every function, the facts     *)
(* about it: a column may be NULL or not, or has a default of the server;  *)
(* columns are unique; columns have an index; a statement has a trigger.   *)
(* Types and lengths are left out, and so is the primary key, id.  A table *)
(* that a run does not create itself may have rows.                        *)
(*                                                                         *)
(* A definition whose comment says "Fault" stands for no code: it is what  *)
(* the next one would be with a mistake in it, and a property fails if the *)
(* mistake is made.                                                        *)
(***************************************************************************)
EXTENDS Naturals, SequencesExt, TLC

CONSTANTS Migrators,
          Logs,        \* the ids of the rows of audit_logs
          NoRow        \* one of them has none

VARIABLES version,     \* the row of alembic_version
          db,          \* the schema
          audit_logs,  \* each row, and whether it is as it was logged
          run,         \* what each migrator is doing
          stuck        \* history: a run failed although no other came between

schema_vars == <<version, db, audit_logs, run, stuck>>

-----------------------------------------------------------------------------
(* Facts and statements.                                                   *)

required(columns) == {<<"column", c, "required">> : c \in columns}
defaulted(columns) == {<<"column", c, "defaulted">> : c \in columns}
optional(columns) == {<<"column", c, "optional">> : c \in columns}
unique(columns) == {<<"unique", {c}, "">> : c \in columns}

create_table(t, facts) == [do |-> "create", on |-> t, facts |-> facts]
drop_table(t) == [do |-> "drop", on |-> t, facts |-> {}]
add(t, facts) == [do |-> "add", on |-> t, facts |-> facts]
drop(t, facts) == [do |-> "remove", on |-> t, facts |-> facts]

create_or_replace_function(f) == [do |-> "replace", on |-> f, facts |-> {}]
drop_function_if_exists(f) == [do |-> "drop if there", on |-> f, facts |-> {}]
drop_trigger_if_exists(t, name) ==
    [do |-> "remove if there", on |-> t, facts |-> {<<"trigger", name, "">>}]

\* A foreign key is named for the table that it refers to.
ForeignKeys == [organization_id |-> "organizations", group_id |-> "device_groups",
                device_id |-> "devices", media_id |-> "media",
                playlist_id |-> "playlists", layout_id |-> "layouts",
                update_job_id |-> "update_jobs", user_id |-> "users",
                role_id |-> "roles", permission_id |-> "permissions"]

Columns(facts) == {f[2] : f \in {f \in facts : f[1] = "column"}}
Refers(facts) == {ForeignKeys[c] : c \in Columns(facts) \cap DOMAIN ForeignKeys}
                 \cup {f[3] : f \in {f \in facts : f[1] = "trigger"}}
Same(f, g) == f[1] = g[1] /\ f[2] = g[2]

\* What has to be there for a statement to work.  Only an empty table takes a column
\* that needs a value in every row, or certainly has no two equal rows.
Works(s, schema, created) ==
    LET there == s.on \in DOMAIN schema
    IN  CASE s.do = "create" -> ~there /\ Refers(s.facts) \subseteq DOMAIN schema
          [] s.do = "drop" -> /\ there
                              /\ \A o \in DOMAIN schema : s.on \notin Refers(schema[o])
          [] s.do = "add" ->
               /\ there /\ Refers(s.facts) \subseteq DOMAIN schema
               /\ \A f \in s.facts :
                    /\ \A g \in schema[s.on] : ~Same(f, g)
                    /\ f[1] \in {"unique", "index"} => f[2] \subseteq Columns(schema[s.on])
                    /\ f[1] = "unique" \/ f[3] = "required" => s.on \in created
          [] s.do = "remove" ->
               there /\ \A f \in s.facts : \E g \in schema[s.on] : Same(f, g)
          [] s.do = "drop if there" -> \A o \in DOMAIN schema : s.on \notin Refers(schema[o])
          [] OTHER -> TRUE

Effect(s, schema) ==
    CASE s.do \in {"create", "replace"} -> s.on :> s.facts @@ schema
      [] s.do \in {"drop", "drop if there"} ->
           [o \in DOMAIN schema \ {s.on} |-> schema[o]]
      [] s.do = "add" -> [schema EXCEPT ![s.on] = @ \cup s.facts]
      [] OTHER -> IF s.on \notin DOMAIN schema THEN schema
                  ELSE [schema EXCEPT ![s.on] = {g \in @ : \A f \in s.facts : ~Same(f, g)}]

\* The statements of a run, the first of which that does not work ends it.
Execute(state, s) ==
    IF ~state.ok \/ ~Works(s, state.schema, state.created)
    THEN [state EXCEPT !.ok = FALSE]
    ELSE [ok |-> TRUE, schema |-> Effect(s, state.schema),
          created |-> state.created \cup (IF s.do = "create" THEN {s.on} ELSE {})]
ExecuteAll(statements, schema) ==
    FoldLeft(Execute, [ok |-> TRUE, schema |-> schema, created |-> {}], statements)

-----------------------------------------------------------------------------
(* 0001_initial_schema.  (add_common_cols adds its columns to a table that  *)
(* has just been created: here they are created with it.)                   *)

common_cols == defaulted({"created_at", "updated_at"}) \cup optional({"created_by", "deleted_at"})
with_common_cols(t, facts) == create_table(t, facts \cup common_cols)

upgrade_0001 == <<
  with_common_cols("organizations", required({"name"}) \cup unique({"name"})),
  with_common_cols("users", required({"organization_id", "email", "password_hash"})
                            \cup defaulted({"is_active"}) \cup unique({"email"})),
  with_common_cols("roles", required({"name"}) \cup unique({"name"})),
  with_common_cols("permissions", required({"code"}) \cup unique({"code"})),
  with_common_cols("device_groups", required({"organization_id", "name"})),
  with_common_cols("devices", required({"organization_id", "serial_number", "status"})
                              \cup optional({"group_id"}) \cup defaulted({"capabilities"})
                              \cup unique({"serial_number"})),
  with_common_cols("device_tags", required({"organization_id", "name"})),
  with_common_cols("media", required({"organization_id", "storage_key"})
                            \cup optional({"checksum"}) \cup unique({"storage_key"})),
  with_common_cols("media_versions", required({"media_id", "version"})),
  with_common_cols("playlists", required({"organization_id", "name"})),
  with_common_cols("playlist_items", required({"playlist_id", "sort_order"})
                                     \cup optional({"media_id"})),
  with_common_cols("schedules", required({"organization_id", "playlist_id"})
                                \cup optional({"recurrence"})),
  with_common_cols("layouts", required({"organization_id", "name"})),
  with_common_cols("zones", required({"layout_id", "name"})),
  with_common_cols("settings", required({"scope", "key", "value", "version"})
                               \cup optional({"organization_id", "device_id"})),
  with_common_cols("alerts", required({"organization_id", "severity", "message"})
                             \cup optional({"device_id"})),
  with_common_cols("device_metrics", required({"device_id"}) \cup optional({"cpu"})),
  with_common_cols("device_logs", required({"device_id"}) \cup optional({"level", "message"})),
  with_common_cols("update_jobs", required({"organization_id", "channel", "status"})),
  with_common_cols("deployments", required({"update_job_id", "device_id", "status"})),
  create_table("audit_logs",
    required({"actor_type", "actor_id", "action", "resource_type", "resource_id"})
    \cup optional({"organization_id", "before_state", "after_state", "ip_address", "user_agent"})
    \cup defaulted({"created_at"})),
  add("devices", {<<"index", {"organization_id", "status"}, "">>}),
  add("settings", {<<"index", {"scope", "organization_id", "device_id"}, "">>}),
  add("device_tags", {<<"unique", {"organization_id", "name"}, "">>}) >>

downgrade_0001 ==
  LET tables == <<"audit_logs", "deployments", "update_jobs", "device_logs",
        "device_metrics", "alerts", "settings", "zones", "layouts", "schedules",
        "playlist_items", "playlists", "media_versions", "media", "device_tags", "devices",
        "device_groups", "permissions", "roles", "users", "organizations">>
  IN  [i \in DOMAIN tables |-> drop_table(tables[i])]

-----------------------------------------------------------------------------
(* 0002_auth_rbac_and_audit_guards.                                         *)

guard == "prevent_audit_logs_modification"
create_trigger(t, on, name) == add(t, {<<"trigger", on, name>>})

\* Fault: the columns of users have no default.
user_columns_required == << add("users", required({"is_locked"})),
                            add("users", required({"failed_login_attempts"})) >>
user_columns == << add("users", defaulted({"is_locked"})),
                   add("users", defaulted({"failed_login_attempts"})) >>

auth_tables == <<
  with_common_cols("user_roles", required({"user_id", "role_id"})),
  add("user_roles", {<<"unique", {"user_id", "role_id"}, "">>}),
  with_common_cols("role_permissions", required({"role_id", "permission_id"})),
  add("role_permissions", {<<"unique", {"role_id", "permission_id"}, "">>}),
  with_common_cols("refresh_tokens", required({"user_id", "token_hash", "expires_at"})
                                     \cup defaulted({"is_revoked"}) \cup unique({"token_hash"})),
  add("refresh_tokens", {<<"index", {"user_id", "is_revoked"}, "">>}) >>

\* Fault: nothing guards against UPDATE.
GuardDelete == << create_or_replace_function(guard),
                  create_trigger("audit_logs", "DELETE", guard) >>
audit_guards == <<
  create_or_replace_function(guard),
  create_trigger("audit_logs", "UPDATE", guard),
  create_trigger("audit_logs", "DELETE", guard) >>

upgrade_0002 == user_columns \o auth_tables \o audit_guards

downgrade_0002 == <<
  drop_trigger_if_exists("audit_logs", "DELETE"),
  drop_trigger_if_exists("audit_logs", "UPDATE"),
  drop_function_if_exists(guard),
  drop("refresh_tokens", {<<"index", {"user_id", "is_revoked"}, "">>}),
  drop_table("refresh_tokens"),
  drop("role_permissions", {<<"unique", {"role_id", "permission_id"}, "">>}),
  drop_table("role_permissions"),
  drop("user_roles", {<<"unique", {"user_id", "role_id"}, "">>}),
  drop_table("user_roles"),
  drop("users", defaulted({"failed_login_attempts"})),
  drop("users", defaulted({"is_locked"})) >>

(* 0003_device_protocol_columns.                                            *)
\* Fault: a column is forgotten.
HeartbeatForgotten == << add("devices", optional({"agent_version"})) >>
upgrade_0003 == << add("devices", optional({"agent_version"})),
                   add("devices", optional({"last_heartbeat_at"})) >>
downgrade_0003 == << drop("devices", optional({"last_heartbeat_at"})),
                     drop("devices", optional({"agent_version"})) >>

-----------------------------------------------------------------------------
(* entities.py: what the models read and write.                             *)

model(needed, may_be_null, uniques) ==
    [columns |-> needed \cup may_be_null, nullable |-> may_be_null, unique |-> uniques]
timestamped(needed, may_be_null, uniques) ==
    model(needed \cup {"created_at", "updated_at"},
          may_be_null \cup {"created_by", "deleted_at"}, uniques)

users_and_devices ==
  "organizations" :> timestamped({"name"}, {}, {{"name"}})
  @@ "users" :> timestamped({"organization_id", "email", "password_hash", "is_active",
                             "is_locked", "failed_login_attempts"}, {}, {{"email"}})
  @@ "roles" :> timestamped({"name"}, {}, {{"name"}})
  @@ "permissions" :> timestamped({"code"}, {}, {{"code"}})
  @@ "user_roles" :> timestamped({"user_id", "role_id"}, {}, {{"user_id", "role_id"}})
  @@ "role_permissions" :> timestamped({"role_id", "permission_id"}, {},
                                       {{"role_id", "permission_id"}})
  @@ "refresh_tokens" :> timestamped({"user_id", "token_hash", "expires_at", "is_revoked"},
                                     {}, {{"token_hash"}})
  @@ "device_groups" :> timestamped({"organization_id", "name"}, {}, {})
  @@ "devices" :> timestamped({"organization_id", "serial_number", "status", "capabilities"},
                              {"group_id", "agent_version", "last_heartbeat_at"},
                              {{"serial_number"}})
  @@ "device_tags" :> timestamped({"organization_id", "name"}, {},
                                  {{"organization_id", "name"}})
media_and_layouts ==
  "media" :> timestamped({"organization_id", "storage_key", "checksum"}, {}, {{"storage_key"}})
  @@ "media_versions" :> timestamped({"media_id", "version"}, {}, {})
  @@ "playlists" :> timestamped({"organization_id", "name"}, {}, {})
  @@ "playlist_items" :> timestamped({"playlist_id", "sort_order"}, {"media_id"}, {})
  @@ "schedules" :> timestamped({"organization_id", "playlist_id"}, {"recurrence"}, {})
  @@ "layouts" :> timestamped({"organization_id", "name"}, {}, {})
  @@ "zones" :> timestamped({"layout_id", "name"}, {}, {})
settings_and_logs ==
  "settings" :> timestamped({"scope", "key", "value", "version"},
                            {"organization_id", "device_id"}, {})
  @@ "alerts" :> timestamped({"organization_id", "severity", "message"}, {"device_id"}, {})
  @@ "audit_logs" :> model({"actor_type", "actor_id", "action", "resource_type", "resource_id",
                            "created_at"},
                           {"organization_id", "before_state", "after_state", "ip_address",
                            "user_agent"}, {})
  @@ "device_metrics" :> timestamped({"device_id", "cpu"}, {}, {})
  @@ "device_logs" :> timestamped({"device_id", "level", "message"}, {}, {})
  @@ "update_jobs" :> timestamped({"organization_id", "channel", "status"}, {}, {})
  @@ "deployments" :> timestamped({"update_job_id", "device_id", "status"}, {}, {})

Models == users_and_devices @@ media_and_layouts @@ settings_and_logs

-----------------------------------------------------------------------------
(* alembic.                                                                 *)

Newest == 3
Upgrades == <<upgrade_0001, upgrade_0002, upgrade_0003>>
Downgrades == <<downgrade_0001, downgrade_0002, downgrade_0003>>

Steps(base, target) ==
    IF base < target THEN FlattenSeq([i \in 1 .. target - base |-> Upgrades[base + i]])
    ELSE FlattenSeq([i \in 1 .. base - target |-> Downgrades[base - i + 1]])

NoRun == [base |-> 0, target |-> 0]
Runs(m, r) == run' = [run EXCEPT ![m] = r]

MigrationsInit ==
        /\ version = 0 /\ db = << >>
        /\ audit_logs = [l \in Logs |-> NoRow]
        /\ run = [m \in Migrators |-> NoRun] /\ stuck = FALSE

\* A run reads the version and plans its statements, up or down.
Plan(m) == /\ run[m] = NoRun
            /\ \E target \in 0 .. Newest \ {version} :
                 Runs(m, [base |-> version, target |-> target])
            /\ UNCHANGED <<version, db, audit_logs, stuck>>

\* Its statements and its changes of the version are one transaction, which ends
\* when another has changed the version.  (From before 0001 the version is inserted,
\* which always works.)  A run back to there drops the rows of audit_logs.
\* Fault: each statement is a transaction of its own.
CommitEach(m) ==
    LET r == run[m]
        end == ExecuteAll(Steps(r.base, r.target), db)
        done == r.base \in {0, version} /\ end.ok
    IN  /\ r # NoRun /\ Runs(m, NoRun)
        /\ stuck' = (stuck \/ (r.base = version /\ ~done))
        /\ db' = end.schema
        /\ version' = IF done THEN r.target ELSE version
        /\ audit_logs' = IF done /\ r.target = 0 THEN [l \in Logs |-> NoRow] ELSE audit_logs
Commit(m) ==
    LET r == run[m]
        end == ExecuteAll(Steps(r.base, r.target), db)
        done == r.base \in {0, version} /\ end.ok
    IN  /\ r # NoRun /\ Runs(m, NoRun)
        /\ stuck' = (stuck \/ (r.base = version /\ ~done))
        /\ db' = IF done THEN end.schema ELSE db
        /\ version' = IF done THEN r.target ELSE version
        /\ audit_logs' = IF done /\ r.target = 0 THEN [l \in Logs |-> NoRow] ELSE audit_logs

\* The migrator or its connection dies: nothing of its run was committed.
Abort(m) == run[m] # NoRun /\ Runs(m, NoRun) /\ UNCHANGED <<version, db, audit_logs, stuck>>

-----------------------------------------------------------------------------
\* A row of audit_logs is inserted; an UPDATE changes or a DELETE removes one, if no
\* trigger of the row stops it.  TRUNCATE empties the table and calls no trigger of a
\* row: nothing stops that.
Guarded(statement) == \E f \in db["audit_logs"] : f[1] = "trigger" /\ f[2] = statement
Becomes(l, row) == /\ audit_logs' = [audit_logs EXCEPT ![l] = row]
                   /\ UNCHANGED <<version, db, run, stuck>>

Log(l) == version > 0 /\ audit_logs[l] = NoRow /\ Becomes(l, "logged")
ChangeLog(l) == /\ audit_logs[l] # NoRow
                /\ \/ ~Guarded("UPDATE") /\ Becomes(l, "changed")
                   \/ ~Guarded("DELETE") /\ Becomes(l, NoRow)

Truncate == /\ version > 0 /\ audit_logs' = [l \in Logs |-> NoRow]
            /\ UNCHANGED <<version, db, run, stuck>>

MigrationsNext == \/ \E m \in Migrators : Plan(m) \/ Commit(m) \/ Abort(m)
        \/ \E l \in Logs : Log(l) \/ ChangeLog(l)
        \/ Truncate

-----------------------------------------------------------------------------
SchemaAt == [v \in 0 .. Newest |-> ExecuteAll(Steps(0, v), << >>).schema]

\* Whatever runs went up and down, died or came between each other, the schema is
\* the one that the migrations up to the version make: taking a migration back
\* undoes it exactly, and no run leaves a part of itself.
SchemaIsVersions == db = SchemaAt[version]

\* A run fails only if another came between: its tables refer to tables that are
\* there, go before those that they refer to, and fit the rows that are there.
NoRunFailsAlone == ~stuck

\* After the last migration there are the tables, columns and unique constraints of
\* the models, no more and no fewer, and what a model may leave out may be NULL.
ModelsFitHead ==
    version = Newest =>
      /\ DOMAIN db = DOMAIN Models \cup {guard}
      /\ \A t \in DOMAIN Models :
           /\ Columns(db[t]) = Models[t].columns
           /\ {f[2] : f \in {f \in db[t] : f[1] = "unique"}} = Models[t].unique
           /\ Models[t].nullable \subseteq Columns(db[t] \cap optional(Models[t].columns))

\* What the triggers of 0002 give, as long as it is not taken back and whatever other
\* migrations are applied or taken back: no UPDATE changes a row of audit_logs and no
\* DELETE removes one from among others.  The rows can still go, all at once, by
\* TRUNCATE: "immutable", as 0002 has it, the table is not.
AuditRowsAreGuarded ==
    [][version >= 2 /\ version' >= 2 =>
         \/ \A l \in Logs : audit_logs[l] # NoRow => audit_logs'[l] = audit_logs[l]
         \/ \A l \in Logs : audit_logs'[l] = NoRow]_schema_vars
=============================================================================
