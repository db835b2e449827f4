---------------------------- MODULE TenantStorage ----------------------------
(***************************************************************************)
(* Making a tenant, with its first administrator and its storage, and the  *)
(* tasks that later run the same initialisation again and copy the rows of *)
(* the tenant from its storage to its storage.                             *)
(*                                                                         *)
(* There is one tenant.  SMALL keeps its rows in the public tables, MEDIUM *)
(* in a schema of its own, LARGE in a database of its own; nothing in the  *)
(* code changes the level of a tenant once it is made.  A row has, for its *)
(* content, the number of the write that gave it that, and 0 if it is not  *)
(* there.                                                                  *)
(***************************************************************************)
EXTENDS Naturals, FiniteSets

CONSTANTS
    Levels,          \* the levels the tenant may be made with
    Jobs,            \* migration tasks
    RefitFails,      \* levels where initialising the storage again may fail
    Rows, TableOf,   \* rows the tenant may have, and the table of each
    Tables,          \* how many tables there are: 1 .. Tables
    MaxWrites,       \* bound on the writes of rows
    MaxBoots         \* bound on the restarts

VARIABLES
    level,           \* tenants.isolation_level
    tenant,          \* the row in tenants: none, active
    admin,           \* the tenant's first administrator is in users
    storage,         \* the tables of the tenant: absent, partial, ready
    stored,          \* the rows in them
    written,         \* the rows as the tenant has written them
    writes,          \* how many writes there were
    setBack,         \* rows that a task has set back to what it had read before the last write
    creation,        \* the create call: its place, what it has made
    job,             \* rows of tenant_migration_tasks, with what runs them
    dirty,           \* a create call was cut off or could not clean up
    boots

storageVars == <<level, tenant, admin, storage, stored, written, writes, setBack, creation, job,
                 dirty, boots>>
tenantRows == <<stored, written, writes, setBack>>

ASSUME StorageAssumption ==
    /\ Levels \subseteq {"small", "medium", "large"}
    /\ RefitFails \subseteq Levels
    /\ IsFiniteSet(Jobs)
    /\ Tables \in Nat \ {0} /\ TableOf \in [Rows -> 1..Tables]
    /\ MaxWrites \in Nat /\ MaxBoots \in Nat

NoCreation == [pc |-> "idle", madeDatabase |-> FALSE]
NoRows == [r \in Rows |-> 0]
NoJob == [status |-> "none", pc |-> "none", madeDatabase |-> FALSE, table |-> 1,
          rows |-> NoRows, missed |-> {}]

\* Storage that takes rows: the public tables are always there.
Usable == level = "small" \/ storage = "ready"

(***************************************************************************)
(* SchemaInitializerService.initialize, for a create call or for a task.   *)
(* What was made is there when it fails half way; then the schema goes in  *)
(* any case, the database only if this very call has created it.           *)
(***************************************************************************)
Prepared == storage' = IF level = "small" THEN storage ELSE "ready"

\* ensureDatabaseExists: CREATE DATABASE, unless it is there.
Missing == level = "large" /\ storage = "absent"

\* A failure before the tables exist, or in the middle of them.
Breaks == storage' = IF level = "small" \/ storage = "ready" THEN storage ELSE "partial"

DropSchema == storage' = "absent" /\ stored' = NoRows

DropDatabase(made) ==
    IF made THEN storage' = "absent" /\ stored' = NoRows ELSE UNCHANGED <<storage, stored>>
Undo(made) ==
    CASE level = "medium" -> DropSchema
      [] level = "large" -> DropDatabase(made)
      [] OTHER -> UNCHANGED <<storage, stored>>

(***************************************************************************)
(* create.                                                                 *)
(***************************************************************************)
Working(pc) == creation.pc = pc
CreateAt(pc) == creation' = [creation EXCEPT !.pc = pc]

\* No such tenant yet: the row is saved.
SaveTenant ==
    /\ Working("idle") /\ tenant = "none" /\ ~dirty
    /\ tenant' = "active"
    /\ CreateAt("admin")
    /\ UNCHANGED <<level, admin, storage, tenantRows, job, dirty, boots>>

\* usersService.create
CreateAdmin ==
    /\ Working("admin")
    /\ \/ admin' = TRUE /\ CreateAt("initialize")
       \/ admin' = admin /\ CreateAt("rollback")
    /\ UNCHANGED <<level, tenant, storage, tenantRows, job, dirty, boots>>

\* initialize, up to the tables: the call remembers whether it made the database.
Initialize ==
    /\ Working("initialize")
    /\ creation' = [pc |-> "tables", madeDatabase |-> Missing]
    /\ Breaks
    /\ UNCHANGED <<level, tenant, admin, tenantRows, job, dirty, boots>>

InitializeDone ==
    /\ Working("tables")
    /\ Prepared
    /\ CreateAt("done")
    /\ UNCHANGED <<level, tenant, admin, tenantRows, job, dirty, boots>>

InitializeFails ==
    /\ Working("tables") /\ level # "small"
    /\ Undo(creation.madeDatabase)
    /\ CreateAt("rollback")
    /\ UNCHANGED <<level, tenant, admin, written, writes, setBack, job, dirty, boots>>

\* The pool cannot connect to the database that was just created: nothing is
\* dropped, the call being outside the try.
ConnectFails ==
    /\ Working("tables") /\ level = "large"
    /\ CreateAt("rollback")
    /\ UNCHANGED <<level, tenant, admin, storage, tenantRows, job, dirty, boots>>

\* rollbackFailedTenantCreation: both removals are tried, and a failure of
\* either is only logged.
RollbackKeepsAdmin ==  \* a rollback that forgets the user
    /\ Working("rollback")
    /\ tenant' = "none" /\ UNCHANGED <<admin, dirty>>
    /\ creation' = NoCreation
    /\ UNCHANGED <<level, storage, tenantRows, job, boots>>
Rollback ==
    /\ Working("rollback")
    /\ \/ tenant' = "none" /\ admin' = FALSE /\ UNCHANGED dirty
       \/ /\ \/ tenant' = "none" /\ UNCHANGED admin
             \/ admin' = FALSE /\ UNCHANGED tenant
             \/ UNCHANGED <<tenant, admin>>
          /\ dirty' = TRUE
    /\ creation' = NoCreation
    /\ UNCHANGED <<level, storage, tenantRows, job, boots>>

\* A handler of the tenant inserts, updates or deletes a row of its storage,
\* whatever task is at work; a task that has read the row has missed that.
Write(r) ==
    /\ Working("done") /\ Usable
    /\ writes < MaxWrites /\ writes' = writes + 1
    /\ \E content \in {writes'} \cup (IF stored[r] # 0 THEN {0} ELSE {}) :
          /\ written' = [written EXCEPT ![r] = content]
          /\ stored' = [stored EXCEPT ![r] = content]
    /\ setBack' = setBack \ {r}
    /\ job' = [j \in Jobs |-> IF job[j].pc = "copy" THEN [job[j] EXCEPT !.missed = @ \cup {r}] ELSE job[j]]
    /\ UNCHANGED <<level, tenant, admin, storage, creation, dirty, boots>>

(***************************************************************************)
(* A migration task.                                                       *)
(***************************************************************************)
JobAt(j, pc) == job' = [job EXCEPT ![j].pc = pc]
Ends(j, status) == job' = [job EXCEPT ![j] = [NoJob EXCEPT !.status = status]]

\* createTenantTask: the precheck, the row and a timer of no delay.
CreateTask(j) ==
    /\ job[j].status = "none"
    /\ tenant = "active" /\ Working("done")
    /\ job' = [job EXCEPT ![j].status = "pending", ![j].pc = "timer"]
    /\ UNCHANGED <<level, tenant, admin, storage, tenantRows, creation, dirty, boots>>

\* The process ends: the timers and the calls are gone; nobody looks at the
\* rows at boot.
GoDown ==
    /\ creation' = IF Working("done") THEN creation ELSE NoCreation
    /\ dirty' = (dirty \/ creation.pc \notin {"idle", "done"})
    /\ job' = [j \in Jobs |-> IF job[j].pc = "none" THEN job[j]
                             ELSE [NoJob EXCEPT !.status = job[j].status]]

\* executeTask reads the task and the tenant; a read that throws rejects a
\* promise nobody waits for, which ends the process.
Execute(j) ==
    /\ job[j].pc = "timer"
    /\ \/ /\ job' = [job EXCEPT ![j].status = "running", ![j].pc = "initialize"]
          /\ UNCHANGED <<creation, dirty>>
       \/ GoDown
    /\ UNCHANGED <<level, tenant, admin, storage, tenantRows, boots>>

InitializeAgain(j) ==
    /\ job[j].pc = "initialize"
    /\ job' = [job EXCEPT ![j].pc = "tables", ![j].madeDatabase = Missing]
    /\ Breaks
    /\ UNCHANGED <<level, tenant, admin, tenantRows, creation, dirty, boots>>

\* initialize fails; what it does with the storage, it does before the catch
\* of executeTask.
InitializeAgainFails(j) ==
    /\ job[j].pc = "tables" /\ level \in RefitFails
    /\ Undo(job[j].madeDatabase)
    /\ JobAt(j, "catch")
    /\ UNCHANGED <<level, tenant, admin, written, writes, setBack, creation, dirty, boots>>

InitializedAgain(j) ==
    /\ job[j].pc = "tables"
    /\ Prepared
    /\ job' = [job EXCEPT ![j].pc = "read", ![j].table = 1]
    /\ UNCHANGED <<level, tenant, admin, tenantRows, creation, dirty, boots>>

\* copyTenantData, table by table: the rows of the source are read,
ReadRows(j) ==
    /\ job[j].pc = "read"
    /\ job' = [job EXCEPT ![j].pc = "copy", ![j].missed = {},
                          ![j].rows = [r \in Rows |-> IF TableOf[r] = job[j].table THEN stored[r] ELSE 0]]
    /\ UNCHANGED <<level, tenant, admin, storage, tenantRows, creation, dirty, boots>>

\* and put, in a transaction, into the same table of the target, which is the
\* table they were read from.  What is there is written over; what has come in
\* meanwhile stays; what was deleted meanwhile comes back.
Read(j) == {r \in Rows : job[j].rows[r] # 0}
NextTable(j) ==
    job' = [job EXCEPT ![j] =
        [job[j] EXCEPT !.pc = IF job[j].table = Tables THEN "route" ELSE "read",
                       !.table = job[j].table + 1, !.rows = NoRows, !.missed = {}]]
ReplaceTable(j) ==  \* a copy that empties the table before it puts in what it has read
    /\ job[j].pc = "copy"
    /\ stored' = [r \in Rows |-> IF TableOf[r] = job[j].table THEN job[j].rows[r] ELSE stored[r]]
    /\ setBack' = setBack \cup (Read(j) \cap job[j].missed)
    /\ NextTable(j)
    /\ UNCHANGED <<level, tenant, admin, storage, written, writes, creation, dirty, boots>>
ReplaceRows(j) ==
    /\ job[j].pc = "copy"
    /\ level = "small" \/ storage # "absent" \/ Read(j) = {}
    /\ stored' = [r \in Rows |-> IF r \in Read(j) THEN job[j].rows[r] ELSE stored[r]]
    /\ setBack' = setBack \cup (Read(j) \cap job[j].missed)
    /\ NextTable(j)
    /\ UNCHANGED <<level, tenant, admin, storage, written, writes, creation, dirty, boots>>

\* The tenant's row is written back, the cache forgotten, the task ends.
Succeed(j) ==
    /\ job[j].pc = "route"
    /\ Ends(j, "succeeded")
    /\ UNCHANGED <<level, tenant, admin, storage, tenantRows, creation, dirty, boots>>

\* Any other await throws.
JobThrows(j) ==
    /\ job[j].pc \in {"initialize", "read", "copy", "route"}
    /\ JobAt(j, "catch")
    /\ UNCHANGED <<level, tenant, admin, storage, tenantRows, creation, dirty, boots>>

\* The catch marks the task failed; if that update fails too, nobody waits for
\* that promise either.
Fail(j) ==
    /\ job[j].pc = "catch"
    /\ \/ Ends(j, "failed") /\ UNCHANGED <<creation, dirty>>
       \/ GoDown
    /\ UNCHANGED <<level, tenant, admin, storage, tenantRows, boots>>

\* Deployed anew, or killed.
Reboot ==
    /\ boots < MaxBoots
    /\ boots' = boots + 1
    /\ GoDown
    /\ UNCHANGED <<level, tenant, admin, storage, tenantRows>>

(***************************************************************************)
(* The specification.                                                      *)
(***************************************************************************)
StorageInit ==
    /\ level \in Levels
    /\ tenant = "none" /\ admin = FALSE
    /\ storage = "absent"
    /\ stored = NoRows /\ written = NoRows /\ writes = 0 /\ setBack = {}
    /\ creation = NoCreation
    /\ job = [j \in Jobs |-> NoJob]
    /\ dirty = FALSE /\ boots = 0

Creating ==
    \/ SaveTenant \/ CreateAdmin \/ Initialize \/ InitializeDone \/ InitializeFails
    \/ ConnectFails \/ Rollback

Migrating(j) ==
    \/ Execute(j) \/ InitializeAgain(j) \/ InitializeAgainFails(j)
    \/ InitializedAgain(j) \/ ReadRows(j) \/ ReplaceRows(j) \/ Succeed(j) \/ JobThrows(j) \/ Fail(j)

StorageNext ==
    \/ Creating \/ Reboot
    \/ \E r \in Rows : Write(r)
    \/ \E j \in Jobs : CreateTask(j) \/ Migrating(j)

StorageSpec == StorageInit /\ [][StorageNext]_storageVars

(***************************************************************************)
(* Properties.                                                             *)
(***************************************************************************)
StorageTypeOK ==
    /\ level \in Levels /\ tenant \in {"none", "active"} /\ admin \in BOOLEAN
    /\ storage \in {"absent", "partial", "ready"}
    /\ {stored, written} \subseteq [Rows -> 0..MaxWrites] /\ writes \in 0..MaxWrites
    /\ setBack \subseteq Rows
    /\ creation \in [pc : {"idle", "admin", "initialize", "tables", "rollback", "done"},
                     madeDatabase : BOOLEAN]
    /\ job \in [Jobs -> [status : {"none", "pending", "running", "succeeded", "failed"},
                         pc : {"none", "timer", "initialize", "tables", "read", "copy", "route", "catch"},
                         madeDatabase : BOOLEAN, table : 1..Tables + 1,
                         rows : [Rows -> 0..MaxWrites], missed : SUBSET Rows]]
    /\ dirty \in BOOLEAN /\ boots \in 0..MaxBoots

\* A create call that has ended has made the tenant, its administrator and its
\* storage, or neither tenant nor administrator, unless the process went down
\* in it or the rollback failed itself.
CreateAllOrNothing ==
    /\ Working("idle") /\ ~dirty => tenant = "none" /\ ~admin
    /\ Working("done") => tenant = "active" /\ admin

\* Whatever fails in a migration, wherever, and however many run together, the
\* tenant has its storage, and in it every row as it has written or deleted it:
\* what comes into the tables while a task copies them stays.  The exception
\* are the rows it changed or deleted between the SELECT of a task and the
\* upsert of that task, which sets them back.
MigrationKeepsRows ==
    Working("done") => Usable /\ \A r \in Rows \ setBack : stored[r] = written[r]
=============================================================================
