------------------------------ MODULE Migrations ------------------------------
(***************************************************************************)
(* The start of a backend (db.py, services.bootstrap): the script runs the *)
(* migrations and seeds the defaults, then the server runs the migrations  *)
(* once more and serves.  A start that fails is repeated by the container. *)
(*                                                                         *)
(* The migrations are a sequence of sections, each a transaction.  On      *)
(* Postgres two backends may start at once, as in a rolling deployment:    *)
(* the second one's ALTER waits for the first one's commit and then fails. *)
(* SQLite has one backend, and its driver opens a transaction only at the  *)
(* first INSERT, UPDATE or DELETE: an ALTER before it is committed at once.*)
(*                                                                         *)
(* The database holds one project, one person, one agent profile shared by *)
(* two legacy agents, one task, and one attachment.                        *)
(***************************************************************************)
EXTENDS Naturals, Sequences, FiniteSets

CONSTANTS
  Boots,       \* containers of the backend
  Dialects,    \* the databases of this instance
  MaxCrashes,  \* bound: crashes
  MaxEdits     \* bound: what people do

MigrationAssumption ==
  /\ Dialects \subseteq {"sqlite", "postgresql"} /\ Dialects # {}
  /\ MaxCrashes \in Nat /\ MaxEdits \in Nat

VARIABLES
  dialect,   \* the database this deployment has
  db,        \* what is committed
  boot,      \* boot[b]: a backend that starts or serves
  demoted,   \* history: an admin took the person's admin role away
  crashes, edits

vars == <<dialect, db, boot, demoted, crashes, edits>>

-----------------------------------------------------------------------------
(* The database.                                                           *)

(* Sections that only add columns and indexes.                             *)
ColumnSections == {"activities", "profiles", "tasks", "attachments", "agents", "runs"}
Tables == {"attachments", "agents"}

Database ==
  [columns   : SUBSET ColumnSections,                \* the sections whose columns are there
   owner     : {"agent", "profile"},                 \* whom runs and messages name
   roleId    : BOOLEAN,                              \* profiles.role_id is there, and says admin
   roles     : SUBSET {"admin", "member"},           \* profile_roles of the person
   kind      : {"absent", "empty", "sandbox", "git"},\* workspace_kind of the project
   url       : BOOLEAN,                              \* the project's legacy repo_url
   repos     : SUBSET {"primary", "own"},            \* its rows in project_repos
   completed : {"absent", "filled"},                 \* completed_at of the done task
   strict    : SUBSET Tables,                        \* tables with a NOT NULL to drop
   aside     : SUBSET Tables,                        \* tables whose rows are in <table>_old
   org       : {"absent", "empty", "filled"},        \* org_id
   enforced  : BOOLEAN,                              \* org_id NOT NULL, names unique per org
   rls       : BOOLEAN,
   seeded    : BOOLEAN,                              \* roles, statuses and the admin are there
   granted   : BOOLEAN]                              \* members may delete tasks

(* A database from before any of the migrations.                           *)
Legacy ==
  [columns |-> {}, owner |-> "agent", roleId |-> TRUE, roles |-> {}, kind |-> "absent",
   url |-> TRUE, repos |-> {}, completed |-> "absent", strict |-> Tables, aside |-> {},
   org |-> "absent", enforced |-> FALSE, rls |-> FALSE, seeded |-> FALSE, granted |-> FALSE]

(* One that create_all has just made.                                      *)
Fresh ==
  [columns |-> ColumnSections, owner |-> "profile", roleId |-> FALSE, roles |-> {"admin"},
   kind |-> "sandbox", url |-> FALSE, repos |-> {}, completed |-> "filled", strict |-> {},
   aside |-> {}, org |-> "filled", enforced |-> TRUE, rls |-> FALSE, seeded |-> FALSE,
   granted |-> FALSE]

-----------------------------------------------------------------------------
(* The sections.  d is the database, s what the section has read of it.    *)

(* _ensure_column, for the columns of a section.                           *)
EnsureColumns(section, d) == [d EXCEPT !.columns = @ \cup {section}]

ActivityColumns(d)   == EnsureColumns("activities", d)
ProfileColumns(d)    == EnsureColumns("profiles", d)
TaskColumns(d)       == EnsureColumns("tasks", d)
AttachmentColumns(d) == EnsureColumns("attachments", d)
AgentColumns(d)      == EnsureColumns("agents", d)
RunColumns(d)        == EnsureColumns("runs", d)

(* _migrate_forge_agents_to_profiles: a profile per agent.                 *)
Merges(s) == s.owner = "agent" /\ s.roleId
MergeAgents(d, s) == IF Merges(s) THEN [d EXCEPT !.owner = "profile"] ELSE d

(* _migrate_rbac_account_types: the legacy role becomes a row of           *)
(* profile_roles.  Only Postgres then drops the column.                    *)
MigrateRoles(d, s) ==
  IF s.roleId THEN [d EXCEPT !.roles = @ \cup {"admin"}, !.roleId = dialect # "postgresql"]
  ELSE d

(* The columns of projects, the kind of workspace, and, in the same        *)
(* transaction, the completion dates of tasks.                             *)
StampKind(d, s) == IF s.kind = "absent" THEN IF d.url THEN "git" ELSE "sandbox" ELSE d.kind

(* backfill_workspace_kind.                                                *)
BackfillKind(kind, d) == IF kind = "sandbox" /\ (d.url \/ d.repos # {}) THEN "git" ELSE kind

Projects(d, s) ==
  [d EXCEPT !.kind = BackfillKind(StampKind(d, s), d), !.completed = "filled"]

(* _backfill_primary_project_repo.                                         *)
BackfillRepo(d, s) ==
  IF s.repos = {} /\ s.url THEN [d EXCEPT !.repos = @ \cup {"primary"}] ELSE d

(* The columns that the table a rebuild creates has, of those the section  *)
(* of the table has added: the statement does not list them.               *)
RebuiltColumns == {}

(* Postgres drops the constraint in place.  SQLite moves the table aside,  *)
(* creates a new one and copies.                                           *)
DropNotNull(t, d)  == [d EXCEPT !.strict = @ \ {t}]

(* Mutant of RenameTable: the new table has the constraint again.          *)
RenameTableStrict(t, d) == [d EXCEPT !.aside = @ \cup {t}, !.columns = @ \ {t}]

RenameTable(t, d)  == [d EXCEPT !.strict = @ \ {t}, !.aside = @ \cup {t}, !.columns = @ \ {t}]
CopiesRows(t, s)   == s.columns \cap {t} \subseteq RebuiltColumns
RestoreRows(t, d)  == [d EXCEPT !.aside = @ \ {t}]

(* _migrate_orgs: the column, the backfill, the constraints; _apply_rls.   *)
OrgColumn(d)    == IF d.org = "absent" THEN [d EXCEPT !.org = "empty"] ELSE d
OrgBackfill(d)  == [d EXCEPT !.org = "filled"]
EnforceOrg(d)   == IF dialect = "postgresql" THEN [d EXCEPT !.enforced = TRUE] ELSE d
ApplyRls(d)     == IF dialect = "postgresql" THEN [d EXCEPT !.rls = TRUE] ELSE d

(* _seed_defaults grants the defaults again, then the admin is created.    *)
SeedDefaults(d) == [d EXCEPT !.granted = TRUE]
SeedAdmin(d)    == [d EXCEPT !.seeded = TRUE]

(* Mutant of Migration: the roles go first.                                *)
MigrationRolesFirst ==
  <<"activities", "profiles", "rbac", "merge", "projects", "repos", "tasks", "attachments",
    "rebuild_attachments", "agents", "runs", "rebuild_agents", "org", "org_backfill",
    "enforce", "rls">>

Migration == <<"activities", "profiles", "merge", "rbac", "projects", "repos", "tasks",
               "attachments", "rebuild_attachments", "agents", "runs", "rebuild_agents",
               "org", "org_backfill", "enforce", "rls">>

(* The script and then the server.                                         *)
Steps == Migration \o <<"seed">> \o Migration

Section(n, d, s) ==
  CASE n = "activities"   -> ActivityColumns(d)
    [] n = "profiles"     -> ProfileColumns(d)
    [] n = "merge"        -> MergeAgents(d, s)
    [] n = "rbac"         -> MigrateRoles(d, s)
    [] n = "projects"     -> Projects(d, s)
    [] n = "repos"        -> BackfillRepo(d, s)
    [] n = "tasks"        -> TaskColumns(d)
    [] n = "attachments"  -> AttachmentColumns(d)
    [] n = "agents"       -> AgentColumns(d)
    [] n = "runs"         -> RunColumns(d)
    [] n = "rebuild_attachments" -> DropNotNull("attachments", d)
    [] n = "rebuild_agents"      -> DropNotNull("agents", d)
    [] n = "org"          -> OrgColumn(d)
    [] n = "org_backfill" -> OrgBackfill(d)
    [] n = "enforce"      -> EnforceOrg(d)
    [] n = "rls"          -> ApplyRls(d)
    [] n = "seed"         -> SeedAdmin(SeedDefaults(d))

Rebuilt(n) == IF n = "rebuild_attachments" THEN "attachments" ELSE "agents"

(* A section that another backend has done since it was read fails: its    *)
(* column, its constraint or its row is there, or the one it needs is not. *)
Collides(n, d, s) ==
  \/ n \in ColumnSections /\ n \in d.columns \ s.columns
  \/ n = "merge" /\ Merges(s) /\ ~Merges(d)
  \/ n = "rbac" /\ s.roleId /\ ~d.roleId
  \/ n = "projects" /\ s.kind = "absent" /\ d.kind # "absent"
  \/ n = "repos" /\ s.repos = {} /\ s.url /\ "primary" \in d.repos
  \/ n = "org" /\ s.org = "absent" /\ d.org # "absent"
  \/ n = "enforce" /\ dialect = "postgresql" /\ ~s.enforced /\ d.enforced
  \/ n = "seed" /\ ~s.seeded /\ d.seeded

-----------------------------------------------------------------------------
(* A backend: down, in a section it has read or not, or serving.           *)

Boot == [step : 0..Len(Steps) + 1,
         seen : Seq(Database),                 \* what the section has read, if it has
         half : BOOLEAN]                       \* its first ALTER is committed

Down == [step |-> 0, seen |-> <<>>, half |-> FALSE]
Serving(b) == boot[b].step = Len(Steps) + 1
Busy(b) == boot[b].step \in 1..Len(Steps)
Now(b) == Steps[boot[b].step]
Read(b) == Head(boot[b].seen)
Rebuilds(b) == /\ dialect = "sqlite" /\ Now(b) \in {"rebuild_attachments", "rebuild_agents"}
               /\ Rebuilt(Now(b)) \in Read(b).strict
Passed(b) == [step |-> boot[b].step + 1, seen |-> <<>>, half |-> FALSE]

Init ==
  /\ dialect \in Dialects /\ db \in {Legacy, Fresh}
  /\ boot = [b \in Boots |-> Down]
  /\ demoted = FALSE /\ crashes = 0 /\ edits = 0

(* The container starts the script, which waits for the database.          *)
Start(b) ==
  /\ boot[b] = Down
  /\ dialect = "sqlite" => \A c \in Boots : boot[c] = Down
  /\ boot' = [boot EXCEPT ![b].step = 1]
  /\ UNCHANGED <<dialect, db, demoted, crashes, edits>>

(* The section reads the schema, or the rows it will change.               *)
Look(b) ==
  /\ Busy(b) /\ boot[b].seen = <<>>
  /\ boot' = [boot EXCEPT ![b].seen = <<db>>]
  /\ UNCHANGED <<dialect, db, demoted, crashes, edits>>

(* It does its work, and commits.                                          *)
Act(b) ==
  /\ Busy(b) /\ boot[b].seen # <<>> /\ ~Rebuilds(b)
  /\ dialect = "sqlite" /\ Now(b) = "projects" => Read(b).kind # "absent" \/ boot[b].half
  /\ LET n == Now(b)  s == Read(b) IN
     IF Collides(n, db, s) /\ ~boot[b].half
     THEN boot' = [boot EXCEPT ![b] = Down] /\ UNCHANGED db
     ELSE boot' = [boot EXCEPT ![b] = Passed(b)] /\ db' = Section(n, db, s)
  /\ UNCHANGED <<dialect, demoted, crashes, edits>>

(* SQLite: the column workspace_kind is committed before it is filled.     *)
AlterFirst(b) ==
  /\ Busy(b) /\ boot[b].seen # <<>> /\ dialect = "sqlite" /\ Now(b) = "projects"
  /\ Read(b).kind = "absent" /\ ~boot[b].half
  /\ db' = [db EXCEPT !.kind = "empty"]
  /\ boot' = [boot EXCEPT ![b].half = TRUE]
  /\ UNCHANGED <<dialect, demoted, crashes, edits>>

(* SQLite: the table is renamed and created anew, and that is committed.   *)
SetAside(b) ==
  /\ Busy(b) /\ boot[b].seen # <<>> /\ Rebuilds(b) /\ ~boot[b].half
  /\ db' = RenameTable(Rebuilt(Now(b)), db)
  /\ boot' = [boot EXCEPT ![b].half = TRUE]
  /\ UNCHANGED <<dialect, demoted, crashes, edits>>

(* SQLite: the rows are copied and the old table dropped, or the start     *)
(* fails at a column that the new table does not have.                     *)
CopyBack(b) ==
  LET t == Rebuilt(Now(b)) IN
  /\ Busy(b) /\ boot[b].half /\ Rebuilds(b)
  /\ IF CopiesRows(t, Read(b))
     THEN db' = RestoreRows(t, db) /\ boot' = [boot EXCEPT ![b] = Passed(b)]
     ELSE boot' = [boot EXCEPT ![b] = Down] /\ UNCHANGED db
  /\ UNCHANGED <<dialect, demoted, crashes, edits>>

Crash(b) ==
  /\ boot[b] # Down /\ crashes < MaxCrashes
  /\ boot' = [boot EXCEPT ![b] = Down] /\ crashes' = crashes + 1
  /\ UNCHANGED <<dialect, db, demoted, edits>>

-----------------------------------------------------------------------------
(* People, served by some backend.                                         *)

Edit(d) == /\ (\E b \in Boots : Serving(b)) /\ edits < MaxEdits /\ edits' = edits + 1
           /\ d # db /\ db' = d /\ UNCHANGED <<dialect, boot, crashes>>

(* update_profile with roles = [member].                                   *)
Demote == Edit([db EXCEPT !.roles = {"member"}]) /\ demoted' = TRUE

(* add_project_repo, remove_project_repo.                                  *)
AttachRepo == Edit([db EXCEPT !.repos = @ \cup {"own"}]) /\ UNCHANGED demoted
DetachRepo == Edit([db EXCEPT !.repos = {}]) /\ UNCHANGED demoted

(* revoke_role_permission.                                                 *)
Revoke == Edit([db EXCEPT !.granted = FALSE]) /\ UNCHANGED demoted

Next == \/ \E b \in Boots : \/ Start(b) \/ Look(b) \/ Act(b) \/ AlterFirst(b) \/ SetAside(b)
                            \/ CopyBack(b) \/ Crash(b)
        \/ Demote \/ AttachRepo \/ DetachRepo \/ Revoke

(* A container that is down is restarted, and a start goes on.             *)
Progress(b) == Look(b) \/ Act(b) \/ AlterFirst(b) \/ SetAside(b) \/ CopyBack(b)
Fairness == \A b \in Boots : WF_vars(Start(b)) /\ WF_vars(Progress(b))

Spec == Init /\ [][Next]_vars /\ Fairness

-----------------------------------------------------------------------------
TypeOK ==
  /\ dialect \in Dialects /\ db \in Database /\ demoted \in BOOLEAN
  /\ \A b \in Boots : /\ boot[b].step \in 0..Len(Steps) + 1 /\ boot[b].half \in BOOLEAN
                      /\ Len(boot[b].seen) <= 1
                      /\ \A i \in DOMAIN boot[b].seen : boot[b].seen[i] \in Database
  /\ crashes \in 0..MaxCrashes /\ edits \in 0..MaxEdits

(* A backend that serves finds the schema complete and the rows filled in, *)
(* whatever crashed or started beside it: run_migrations, "idempotent;     *)
(* safe on every boot".  The one thing a crash may leave undone is the     *)
(* kind of workspace on SQLite, whose column is committed first.           *)
ServedIsMigrated == (\E b \in Boots : Serving(b)) =>
  /\ db.columns = ColumnSections /\ db.strict = {}
  /\ db.owner = "profile" /\ db.completed = "filled" /\ db.org = "filled" /\ db.seeded
  /\ dialect = "postgresql" => db.enforced /\ db.rls /\ ~db.roleId
  /\ db.kind \in {"sandbox", "git"} \/ (dialect = "sqlite" /\ crashes > 0 /\ db.kind = "empty")

(* A role that an admin has taken away stays away over restarts            *)
(* (_migrate_rbac_account_types: "no-ops once applied").  A legacy SQLite  *)
(* database is excused: it keeps the column, and gives the role back.      *)
DemotionSticks ==
  demoted => db.roles = {"member"} \/ (dialect = "sqlite" /\ db.roleId)

(* Nothing that crashes, collides or fails on the way keeps the backend    *)
(* down for good ("so a fresh Postgres is usable on first boot",           *)
(* Dockerfile): a failed start leaves the next one less to do.             *)
ComesUp == []<>(\E b \in Boots : Serving(b))

(* The rebuilt table "mirrors models.Attachment", and the copy keeps the   *)
(* rows in it: a backend that serves finds the attachments.                *)
AttachmentsServed == (\E b \in Boots : Serving(b)) => "attachments" \notin db.aside
=============================================================================
