---------------------------- MODULE SchemaUpgrade ----------------------------
(***************************************************************************)
(* The shape of the databases over the releases: the migrations of the     *)
(* control database and their records, the baseline that writes records    *)
(* for a database without a history, and the scripts that bring the        *)
(* storage of the tenants up to date, statement by statement.              *)
(*                                                                         *)
(* A shape is a set of parts: a table, a group of columns that comes and   *)
(* goes together, or the values of a column in the rows that were there    *)
(* before it ("kindFilled", "sourceFilled").  Migrations are 1 .. 18, in   *)
(* the order of their timestamps.                                          *)
(***************************************************************************)
EXTENDS Naturals, Sequences, FiniteSets, Functions

CONSTANTS
    public,          \* the control database's public schema
    MediumTenants,   \* a schema tenant_x in the control database
    LargeTenants,    \* a database of their own
    TenantOrder,     \* the tenants, by tenant_id
    Releases,        \* databases and storages were made, or records kept, up to these
    MaxTenants,      \* bound on the tenants there ever are
    MaxReverts       \* bound on migration:revert

VARIABLES
    shape,           \* the parts of each place
    recorded,        \* the names in the table migrations
    tenantRow,       \* none, live, deleted
    script,          \* the script that runs, where it is
    aligned,         \* a baseline has gone through
    covered,         \* an upgrade has gone through after every migration was run
    reverts

schemaVars == <<shape, recorded, tenantRow, script, aligned, covered, reverts>>

OwnPlaces == MediumTenants \cup LargeTenants
SchemaPlaces == {public} \cup OwnPlaces
Migrations == 1 .. 18

ASSUME SchemaAssumption ==
    /\ public \notin OwnPlaces /\ MediumTenants \cap LargeTenants = {}
    /\ Range(TenantOrder) = OwnPlaces
    /\ Releases \subseteq {0} \cup Migrations /\ 0 \in Releases
    /\ MaxTenants \in Nat /\ MaxReverts \in Nat

(***************************************************************************)
(* The migrations, up: of public, then of each schema tenant_x where three *)
(* of them look for tables.                                                *)
(***************************************************************************)
\* A statement is refused: a table or a column that is there already without
\* IF NOT EXISTS, or one that is not there.
Threw == {"threw"}
Given(parts, s, result) == IF parts \subseteq s THEN result ELSE Threw

InitSchema(s) ==
    IF "core" \in s THEN Threw ELSE s \cup {"core", "admin", "plainNames", "sourceName"}
AddMissingTables(s) == IF "tenants" \in s THEN Threw ELSE s \cup {"tenants"}
\* Only columns that the two before make in any case.
FixSchemaInconsistencies(s) == s
\* CREATE TABLE IF NOT EXISTS, and an index on the column's old name.
AddMcpSessions(s) == IF "credentialHash" \in s THEN Threw ELSE s \cup {"apiHash"}
RenameUserMcpKeys(s) ==
    (IF "capabilityKeys" \in s THEN s ELSE s \ {"mcpKeys"}) \cup {"capabilityKeys"}
AddCapabilityKeyExpiresAt(s) == Given({"capabilityKeys"}, s, s \cup {"keyExpiry"})
RenameMcpSessionCredentialHash(s) ==
    IF {"apiHash", "credentialHash"} \cap s = {} THEN Threw ELSE (s \ {"apiHash"}) \cup {"credentialHash"}
AddTenantSoftDelete(s) == Given({"tenants"}, s, s \cup {"softDelete"})
ScopeUsernames(s) == Given({"core"}, s, (s \ {"plainNames"}) \cup {"scopedNames"})
RepairScopedUsernames(s) == Given({"core"}, s, (s \ {"plainNames"}) \cup {"scopedNames"})
AddNodeKind(s) == s \cup {"kind", "kindFilled"}
RepairSchemaDrift(s) ==
    Given({"core"}, s, s \cup {"auditTarget", "integrations", "taskTenant", "sourceName", "nodeTenant", "aclJson"})
RepairTenantSchema(s) == s \cup {"integrations", "taskTenant", "sourceName", "nodeTenant", "aclJson"}
\* The legacy column original_file_name, where there is one, fills the new one.
FillsSource(s) == IF "fileName" \in s THEN {"sourceFilled"} ELSE {}
AddTaskSourceName(s) == s \cup {"sourceName"} \cup FillsSource(s)
AddAuditActors(s) == Given({"core", "tenants"}, s, s \cup {"baseActors", "taskActors", "nodeActors"})
AddDraftsAndIndexState(s) == Given({"tenants"}, s, s \cup {"indexState", "drafts"})
AddAutoCreatedNodeId(s) == Given({"core"}, s, s \cup {"autoNode"})
AddTenantMigrationTasks(s) == s \cup {"upgradeTasks"}
AddTaskScope(s) == Given({"upgradeTasks"}, s, s)

UpPublic(m, s) ==
    CASE m = 1 -> InitSchema(s)                [] m = 2 -> AddMissingTables(s)
      [] m = 3 -> FixSchemaInconsistencies(s)  [] m = 4 -> AddMcpSessions(s)
      [] m = 5 -> RenameUserMcpKeys(s)         [] m = 6 -> AddCapabilityKeyExpiresAt(s)
      [] m = 7 -> RenameMcpSessionCredentialHash(s)
      [] m = 8 -> AddTenantSoftDelete(s)       [] m = 9 -> ScopeUsernames(s)
      [] m = 10 -> RepairScopedUsernames(s)    [] m = 11 -> AddNodeKind(s)
      [] m = 12 -> RepairSchemaDrift(s)        [] m = 13 -> AddTaskSourceName(s)
      [] m = 14 -> AddAuditActors(s)           [] m = 15 -> AddDraftsAndIndexState(s)
      [] m = 16 -> AddAutoCreatedNodeId(s)     [] m = 17 -> AddTenantMigrationTasks(s)
      [] m = 18 -> AddTaskScope(s)
UpSchema(m, s) ==
    CASE m = 11 -> AddNodeKind(s)
      [] m = 12 -> RepairTenantSchema(s)
      [] m = 13 -> AddTaskSourceName(s)
      [] OTHER -> s

\* What a run makes of public and of a schema, migration by migration, the
\* recorded ones left out.
PublicAfter(known, s) ==
    LET after[m \in {0} \cup Migrations] ==
            IF m = 0 THEN s
            ELSE LET before == after[m - 1]
                 IN IF m \in known \/ before = Threw THEN before ELSE UpPublic(m, before)
    IN after[18]
SchemaAfter(known, s) ==
    LET after[m \in {0} \cup Migrations] ==
            IF m = 0 THEN s ELSE IF m \in known THEN after[m - 1] ELSE UpSchema(m, after[m - 1])
    IN after[18]

\* migration:run and the platform's task: one transaction for all, so that a
\* run that throws has changed nothing.
Migrated(extra) ==
    LET made == PublicAfter(recorded, shape[public])
    IN /\ made # Threw
       /\ shape' = [p \in SchemaPlaces |->
             CASE p = public -> made \cup extra
               [] p \in MediumTenants /\ shape[p] # {} -> SchemaAfter(recorded, shape[p])
               [] OTHER -> shape[p]]
       /\ recorded' = Migrations
Run ==
    /\ script.kind = "none"
    /\ Migrated({})
    /\ UNCHANGED <<tenantRow, script, aligned, covered, reverts>>

\* The development server runs them too, unless there are tables and no history.
DevelopmentBoot == ~(recorded = {} /\ shape[public] # {}) /\ Run

\* The script for a deployment adds the administrator that is missing.
DeploymentScript ==
    /\ script.kind = "none"
    /\ Migrated({"admin"})
    /\ UNCHANGED <<tenantRow, script, aligned, covered, reverts>>

(***************************************************************************)
(* migration:revert, of the last one recorded.                             *)
(***************************************************************************)
\* Tables go with the columns that later migrations gave them.
InitSchemaDown(s) ==
    s \ {"core", "admin", "plainNames", "scopedNames", "sourceName", "sourceFilled", "fileName",
         "auditTarget", "taskTenant", "taskActors", "baseActors", "autoNode"}
AddMissingTablesDown(s) ==
    s \ {"tenants", "softDelete", "kind", "kindFilled", "nodeTenant", "aclJson", "nodeActors", "indexState"}
AddMcpSessionsDown(s) == s \ {"apiHash", "credentialHash"}
RenameUserMcpKeysDown(s) ==
    IF "mcpKeys" \in s THEN s ELSE (s \ {"capabilityKeys"}) \cup {"mcpKeys"}
AddCapabilityKeyExpiresAtDown(s) == s \ {"keyExpiry"}
RenameMcpSessionCredentialHashDown(s) == (s \ {"credentialHash"}) \cup {"apiHash"}
AddTenantSoftDeleteDown(s) == s \ {"softDelete"}
ScopeUsernamesDown(s) == (s \ {"scopedNames"}) \cup {"plainNames"}
RepairScopedUsernamesDown(s) == (s \ {"scopedNames"}) \cup {"plainNames"}
AddNodeKindDown(s) == s \ {"kind", "kindFilled"}
RepairSchemaDriftDown(s) == s \ {"auditTarget"}
AddTaskSourceNameDown(s) == s \ {"sourceName", "sourceFilled"}
AddAuditActorsDown(s) == s \ {"baseActors", "taskActors", "nodeActors"}
AddDraftsAndIndexStateDown(s) == s \ {"indexState", "drafts"}
AddAutoCreatedNodeIdDown(s) == s \ {"autoNode"}
AddTenantMigrationTasksDown(s) == s \ {"upgradeTasks"}

DownPublic(m, s) ==
    CASE m = 1 -> InitSchemaDown(s)             [] m = 2 -> AddMissingTablesDown(s)
      [] m = 4 -> AddMcpSessionsDown(s)         [] m = 5 -> RenameUserMcpKeysDown(s)
      [] m = 6 -> AddCapabilityKeyExpiresAtDown(s)
      [] m = 7 -> RenameMcpSessionCredentialHashDown(s)
      [] m = 8 -> AddTenantSoftDeleteDown(s)    [] m = 9 -> ScopeUsernamesDown(s)
      [] m = 10 -> RepairScopedUsernamesDown(s) [] m = 11 -> AddNodeKindDown(s)
      [] m = 12 -> RepairSchemaDriftDown(s)     [] m = 13 -> AddTaskSourceNameDown(s)
      [] m = 14 -> AddAuditActorsDown(s)        [] m = 15 -> AddDraftsAndIndexStateDown(s)
      [] m = 16 -> AddAutoCreatedNodeIdDown(s)  [] m = 17 -> AddTenantMigrationTasksDown(s)
      [] OTHER -> s
DownSchema(m, s) ==
    CASE m = 11 -> AddNodeKindDown(s) [] m = 13 -> AddTaskSourceNameDown(s) [] OTHER -> s

\* It throws where two tenants have a user of the same name, or a platform task
\* has no tenant: nothing happens then.
Revert ==
    /\ script.kind = "none" /\ reverts < MaxReverts /\ recorded # {}
    /\ LET m == CHOOSE k \in recorded : \A o \in recorded : o <= k
       IN /\ shape' = [p \in SchemaPlaces |-> CASE p = public -> DownPublic(m, shape[p])
                                          [] p \in MediumTenants -> DownSchema(m, shape[p])
                                          [] OTHER -> shape[p]]
          /\ recorded' = recorded \ {m}
          /\ tenantRow' = IF m = 2 THEN [t \in OwnPlaces |-> "none"] ELSE tenantRow
    /\ reverts' = reverts + 1
    /\ covered' = FALSE
    /\ UNCHANGED <<script, aligned>>

(***************************************************************************)
(* The scripts.  Each statement is committed by itself, and each may fail: *)
(* the script stops there.  The columns a plan names together are told     *)
(* apart by nothing here.                                                  *)
(***************************************************************************)
NoScript == [kind |-> "none", places |-> <<>>, at |-> 1, full |-> FALSE]

\* The columns of a table are added one by one, and filled after that.
EnsureKnowledgeBases == <<{"baseActors"}>>
EnsureImportTasks == <<{"taskTenant", "sourceName", "autoNode", "taskActors"}, {"sourceFilled"}>>
EnsureIndexState == {"indexState"}
EnsureAclJsonb == {"aclJson"}
EnsureKnowledgeNodes ==
    <<{"nodeTenant", "kind", "nodeActors"}, {"kindFilled"}, EnsureAclJsonb \cup EnsureIndexState>>
EnsureDocumentDrafts == <<{"drafts"}>>
EnsureIntegrations == <<{"integrations"}>>
UpgradePlanBehind ==  \* a script that missed a later migration
    EnsureKnowledgeBases \o EnsureImportTasks \o EnsureKnowledgeNodes \o EnsureIntegrations
UpgradePlan ==
    EnsureKnowledgeBases \o EnsureImportTasks \o EnsureKnowledgeNodes \o EnsureDocumentDrafts
        \o EnsureIntegrations
ApplyKnowledgeNodeColumns == <<{"kind"}, {"kindFilled"}>>
PlanOf(kind) == IF kind = "upgrade" THEN UpgradePlan ELSE ApplyKnowledgeNodeColumns

LiveTenants == {t \in OwnPlaces : tenantRow[t] = "live"}

\* loadTenantRows; MEDIUM and LARGE tenants are those with a place of their own.
\* A dry run, which changes nothing, is left out.
StartUpgrade ==
    /\ script.kind = "none" /\ "tenants" \in shape[public]
    /\ LET Listed(t) == tenantRow[t] = "live" \/ ("softDelete" \notin shape[public] /\ tenantRow[t] # "none")
       IN script' = [NoScript EXCEPT !.kind = "upgrade", !.places = SelectSeq(TenantOrder, Listed),
                                     !.full = recorded = Migrations]
    /\ UNCHANGED <<shape, recorded, tenantRow, aligned, covered, reverts>>

\* migrate-knowledge-node-kind-content-uri: public and the schemas, and then the
\* databases of the tenants that are active by then.
StartKinds ==
    /\ script.kind = "none" /\ "tenants" \in shape[public]
    /\ LET Schema(t) == t \in MediumTenants /\ shape[t] # {}
       IN script' = [NoScript EXCEPT !.kind = "kinds", !.places = <<public>> \o SelectSeq(TenantOrder, Schema)]
    /\ UNCHANGED <<shape, recorded, tenantRow, aligned, covered, reverts>>

TurnToDatabases ==
    /\ script.kind = "kinds" /\ script.places = <<>>
    /\ LET Active(t) == t \in LargeTenants /\ tenantRow[t] = "live"
       IN script' = [NoScript EXCEPT !.kind = "kindsLarge", !.places = SelectSeq(TenantOrder, Active)]
    /\ UNCHANGED <<shape, recorded, tenantRow, aligned, covered, reverts>>

\* A step of the plan, at the place in turn.
AddedParts(parts, s) == IF parts = {"sourceFilled"} THEN FillsSource(s) ELSE parts
Statement ==
    /\ script.kind # "none" /\ script.places # <<>>
    /\ LET plan == PlanOf(script.kind)
           place == Head(script.places)
           last == script.at = Len(plan)
       IN /\ shape' = [shape EXCEPT ![place] = @ \cup AddedParts(plan[script.at], @)]
          /\ script' = [script EXCEPT !.at = IF last THEN 1 ELSE @ + 1,
                                      !.places = IF last THEN Tail(@) ELSE @]
    /\ UNCHANGED <<recorded, tenantRow, aligned, covered, reverts>>

\* The script's end: every tenant it listed is done.
ScriptEnds ==
    /\ script.kind \in {"upgrade", "kindsLarge"} /\ script.places = <<>>
    /\ covered' = (covered \/ (script.kind = "upgrade" /\ script.full))
    /\ script' = NoScript
    /\ UNCHANGED <<shape, recorded, tenantRow, aligned, reverts>>

\* A database does not answer, a statement is refused, the process is stopped.
ScriptStops ==
    /\ script.kind # "none"
    /\ script' = NoScript
    /\ UNCHANGED <<shape, recorded, tenantRow, aligned, covered, reverts>>

(***************************************************************************)
(* migration:baseline.                                                     *)
(***************************************************************************)
Baselined == <<1, 2, 3, 4, 5, 7, 8>>
Matches(m, s) ==
    CASE m = 1 -> "core" \in s
      [] m = 2 -> "tenants" \in s
      [] m = 3 -> {"core", "tenants"} \subseteq s
      [] m = 4 -> {"apiHash", "credentialHash"} \cap s # {}
      [] m = 5 -> "capabilityKeys" \in s
      [] m = 7 -> "credentialHash" \in s
      [] m = 8 -> "softDelete" \in s

\* Record by record, of the first n checks: it may be stopped in between.
BaselineForgets(n) ==  \* a list of checks without the sessions
    /\ script.kind = "none"
    /\ recorded' = recorded \cup {m \in {Baselined[i] : i \in 1 .. n} : m # 4 /\ Matches(m, shape[public])}
    /\ aligned' = (aligned \/ n = Len(Baselined))
    /\ UNCHANGED <<shape, tenantRow, script, covered, reverts>>
Baseline(n) ==
    /\ script.kind = "none"
    /\ recorded' = recorded \cup {m \in {Baselined[i] : i \in 1 .. n} : Matches(m, shape[public])}
    /\ aligned' = (aligned \/ n = Len(Baselined))
    /\ UNCHANGED <<shape, tenantRow, script, covered, reverts>>

(***************************************************************************)
(* The server, which needs every part.                                     *)
(***************************************************************************)
\* The columns and tables of the entities of a tenant's storage.
BaseParts == {"baseActors"}
TaskParts == {"taskTenant", "sourceName", "autoNode", "taskActors"}
NodeParts == {"nodeTenant", "kind", "nodeActors", "kindFilled", "aclJson", "indexState"}
DraftParts == {"drafts"}
IntegrationParts == {"integrations"}
StorageParts == BaseParts \cup TaskParts \cup NodeParts \cup DraftParts \cup IntegrationParts
Whole(s) == StorageParts \subseteq s /\ FillsSource(s) \subseteq s

\* A MEDIUM tenant's statements find in public what its schema has not.
Reads(t) == shape[t] \cup (IF t \in MediumTenants THEN {"drafts", "integrations"} \cap shape[public] ELSE {})

\* CREATE TABLE LIKE of four tables; synchronize() of the entities.  A tenant_id
\* that has a storage is not taken again.
CopiedFrom(t, s) ==
    IF t \in MediumTenants THEN (s \cap (StorageParts \cup {"fileName"})) \ {"drafts"}
    ELSE s \cap StorageParts
CreateTenantStorage(t) ==
    /\ tenantRow[t] = "none" /\ shape[t] = {} /\ Whole(shape[public])
    /\ Cardinality({o \in OwnPlaces : tenantRow[o] # "none"}) < MaxTenants
    /\ tenantRow' = [tenantRow EXCEPT ![t] = "live"]
    /\ shape' = [shape EXCEPT ![t] = {"tables", "sourceFilled"} \cup CopiedFrom(t, shape[public])]
    /\ UNCHANGED <<recorded, script, aligned, covered, reverts>>

DeleteTenantRow(t) ==
    /\ tenantRow[t] = "live" /\ Whole(shape[public]) /\ "softDelete" \in shape[public]
    /\ tenantRow' = [tenantRow EXCEPT ![t] = "deleted"]
    /\ UNCHANGED <<shape, recorded, script, aligned, covered, reverts>>

(***************************************************************************)
(* A database as a release left it, its history kept in full, up to an     *)
(* earlier release or not at all.  Older releases had original_file_name   *)
(* in place of source_name.                                                *)
(***************************************************************************)
Old(s) == (s \ {"sourceName", "admin"}) \cup {"fileName"}
ShapeAt(k, legacy) ==
    LET after[m \in 0 .. k] ==
            CASE m = 0 -> {}
              [] m = 1 /\ legacy -> Old(UpPublic(1, {}))
              [] OTHER -> UpPublic(m, after[m - 1])
    IN after[k]
\* A storage made at c, in the release of k: only rows written before the new
\* columns have to be filled.
StorageAt(t, c, k, legacy) ==
    LET first == {"tables"} \cup CopiedFrom(t, ShapeAt(c, legacy)) \cup ({"fileName"} \cap ShapeAt(c, legacy))
        after[m \in c .. k] ==
            CASE m = c -> IF c >= 13 THEN first \cup {"sourceFilled"} ELSE first
              [] m > c /\ t \in MediumTenants -> UpSchema(m, after[m - 1])
              [] OTHER -> after[m - 1]
    IN after[k]

SchemaInit ==
    /\ \E k \in Releases, legacy \in BOOLEAN :
         /\ recorded \in {1 .. j : j \in {r \in Releases : r <= k}}
         /\ \E made \in [OwnPlaces -> {0} \cup {r \in Releases : 2 <= r /\ r <= k}] :
              /\ Cardinality({t \in OwnPlaces : made[t] > 0}) <= MaxTenants
              /\ tenantRow = [t \in OwnPlaces |-> IF made[t] = 0 THEN "none" ELSE "live"]
              /\ shape = [p \in SchemaPlaces |->
                    CASE p = public -> ShapeAt(k, legacy)
                      [] p # public /\ made[p] = 0 -> {}
                      [] OTHER -> StorageAt(p, made[p], k, legacy)]
    /\ script = NoScript
    /\ aligned = FALSE /\ covered = FALSE /\ reverts = 0

SchemaNext ==
    \/ Run \/ DevelopmentBoot \/ DeploymentScript \/ Revert
    \/ StartUpgrade \/ StartKinds \/ TurnToDatabases \/ Statement \/ ScriptEnds \/ ScriptStops
    \/ \E n \in 1 .. Len(Baselined) : Baseline(n)
    \/ \E t \in OwnPlaces : CreateTenantStorage(t) \/ DeleteTenantRow(t)

SchemaSpec == SchemaInit /\ [][SchemaNext]_schemaVars

(***************************************************************************)
(* Properties.                                                             *)
(***************************************************************************)
\* Sets of known parts; a tenant that was made has a storage, a script is inside
\* its plan and has no place twice.
SchemaTypeOK ==
    /\ \A t \in OwnPlaces : tenantRow[t] \in {"none", "live", "deleted"}
    /\ \A t \in OwnPlaces : shape[t] \subseteq StorageParts \cup {"tables", "fileName", "sourceFilled"}
    /\ \A t \in OwnPlaces : tenantRow[t] # "none" => "tables" \in shape[t]
    /\ recorded \subseteq Migrations
    /\ script.at \in 1 .. Len(PlanOf(script.kind))
    /\ Cardinality(Range(script.places)) = Len(script.places) /\ Range(script.places) \subseteq SchemaPlaces
    /\ covered \in BOOLEAN /\ aligned \in BOOLEAN /\ reverts \in 0 .. MaxReverts

\* Once a baseline has gone through, the migrations it left can be run: none of
\* them meets a table, a column or an index that it makes itself, whatever was
\* recorded of the history before.
AlignedCanRun == aligned => PublicAfter(recorded, shape[public]) # Threw

\* Once the migrations were run and a storage upgrade that began after them has
\* gone through, without a revert since, every tenant that is not deleted finds
\* each column the server asks for, with the values of its older rows: tenants
\* of every age, made meanwhile, after scripts that stopped half way.
StorageCovered ==
    covered => Whole(shape[public]) /\ \A t \in LiveTenants : Whole(Reads(t))
=============================================================================
