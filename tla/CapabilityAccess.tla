---------------------------- MODULE CapabilityAccess ----------------------------
(***************************************************************************)
(* What a capability call does between its credential and its answer: who  *)
(* the caller is, what the contract asks of a role, what the caller may    *)
(* read, and what is shown or changed.  Access lists, roles, nodes and     *)
(* tasks change under the call, whose every await reads them anew.         *)
(*                                                                         *)
(* One call; CapabilityCalls has the limits, the timer and the record of   *)
(* calls.  A node's address stands for the node, and that of a base for    *)
(* all its nodes: addresses of nodes are not nested.                       *)
(***************************************************************************)
EXTENDS Naturals, Sequences, FiniteSets

CONSTANTS
    Persons,      \* users
    Docs, BaseOf, \* nodes, and the base each one is in
    FirstAccess,  \* access lists to begin with, as functions of the nodes
    Imported,     \* import tasks
    AimOf,        \* node or base each task writes to
    MadeBy,       \* tasks that have made the node they write to
    FirstTasks,   \* states of the tasks to begin with
    KeyLimit,     \* createApiKey: 10
    MaxTurns      \* bound on what others change during the call

VARIABLES
    access,       \* knowledge_nodes.acl: who a node lets in, Absent without a row
    baseRows,     \* knowledge_bases
    roleOf,       \* users.role
    taskState,    \* import_tasks.status, "none" without a row
    staged,       \* tasks whose upload is on disk
    keys, minting,\* keys of each person, and creations between count and save
    ask,          \* the call
    during        \* what has been true while it ran, for the properties

accessRows == <<access, baseRows, taskState, staged>>
accessVars == <<access, baseRows, roleOf, taskState, staged, keys, minting, ask, during>>

Bases == {BaseOf[n] : n \in Docs}
Absent == {"absent"}
RoleNames == {"tenant_viewer", "tenant_operator", "tenant_admin"}
TaskStates == {"none", "pending", "running", "done", "failed", "cancelled"}
Grantees == {"public", "absent"} \cup RoleNames \cup Persons

ASSUME AccessAssumption ==
    /\ Docs \cap Bases = {} /\ (Docs \cup Bases) \cap Imported = {}
    /\ AimOf \in [Imported -> Docs \cup Bases]
    /\ MadeBy \subseteq Imported /\ \A t \in MadeBy : AimOf[t] \in Docs
    /\ FirstAccess \subseteq [Docs -> SUBSET Grantees]
    /\ FirstTasks \subseteq [Imported -> TaskStates]
    /\ KeyLimit \in Nat /\ MaxTurns \in Nat

(***************************************************************************)
(* Contracts.  A user who is gone has no role and counts as a viewer.      *)
(***************************************************************************)
RoleWeight(role) == CASE role = "tenant_operator" -> 2 [] role = "tenant_admin" -> 3 [] OTHER -> 1

ResourceContracts == [search |-> "tenant_viewer", grep |-> "tenant_viewer", list |-> "tenant_operator",
                      tree |-> "tenant_operator"]
BaseContracts == [bases |-> "tenant_viewer", base |-> "tenant_viewer", dropBase |-> "tenant_operator"]
TreeContracts == [nodes |-> "tenant_viewer", node |-> "tenant_viewer", dropNode |-> "tenant_operator"]
ImportContracts == [create |-> "tenant_operator", upload |-> "tenant_operator", status |-> "tenant_viewer",
                    imports |-> "tenant_viewer"]
TaskContracts == [cancel |-> "tenant_operator", retry |-> "tenant_operator", events |-> "tenant_viewer"]
DocumentContracts == [index |-> "tenant_viewer", rebuild |-> "tenant_operator", draft |-> "tenant_viewer",
                      guide |-> "tenant_viewer"]

Contracts == {ResourceContracts, BaseContracts, TreeContracts, ImportContracts, TaskContracts, DocumentContracts}
Capabilities == UNION {DOMAIN table : table \in Contracts}
MinimumRole(cap) == (CHOOSE table \in Contracts : cap \in DOMAIN table)[cap]
Authorized(cap, role) == RoleWeight(role) >= RoleWeight(MinimumRole(cap))

(***************************************************************************)
(* Access lists.                                                           *)
(***************************************************************************)
DocsThere == {n \in Docs : access[n] # Absent}
CanRead(n, who) == access[n] \cap {"public", who.role, who.person} # {}
AllowedDocs(who) == {n \in DocsThere : CanRead(n, who)}
DocsOf(base) == {n \in DocsThere : BaseOf[n] = base}
CanAccessBase(base, who) == DocsOf(base) = {} \/ \E n \in DocsOf(base) : CanRead(n, who)

\* An address lies within another: a node under itself and under its base.
LiesIn(inner, outer) == inner = outer \/ (inner \in Docs /\ BaseOf[inner] = outer)
Touches(allowed, uri) == \E n \in allowed : LiesIn(n, uri) \/ LiesIn(uri, n)

\* A task that has made its node is seen by those who may read the node;
\* another by those who may read something on the way to its target.
SeesTask(t, who, allowed) ==
    IF t \in MadeBy
    THEN AimOf[t] \in DocsThere /\ CanRead(AimOf[t], who)
    ELSE allowed = {} \/ Touches(allowed, AimOf[t])

\* The search takes a user without a role for a viewer.
Reader(call) ==
    IF call.cap = "search" /\ call.who.role = "none" THEN [call.who EXCEPT !.role = "tenant_viewer"] ELSE call.who
BaseOfTask(t) == IF AimOf[t] \in Docs THEN BaseOf[AimOf[t]] ELSE AimOf[t]

(***************************************************************************)
(* The awaits of each handler.  A task is looked up by the service with    *)
(* its own reading of the access lists, and checked by the gateway once    *)
(* more with the one it began with.                                        *)
(***************************************************************************)
FindTask == <<"row", "scope", "taskBase", "taskByScope">>
\* FindTask between the gateway's two steps.
VisibleTask == <<"allowed", "row", "scope", "taskBase", "taskByScope", "taskBase", "taskByAllowed">>

ResourceSteps == [search |-> <<"allowed", "matches">>, grep |-> <<"allowed", "matches">>,
                  list |-> <<"allowed", "entries">>, tree |-> <<"allowed", "entries">>]
BaseSteps == [bases |-> <<"bases", "eachBase">>, base |-> <<"base", "inside">>,
              dropBase |-> <<"base", "inside", "eraseBase">>]
TreeSteps == [nodes |-> <<"base", "inside", "nodes">>, node |-> <<"node">>, dropNode |-> <<"node", "eraseNode">>]
ImportSteps == [create |-> <<"target", "aimBase", "aim", "make">>, upload |-> <<"store", "aimBase", "aim", "make">>,
                status |-> VisibleTask, imports |-> <<"rows", "scope", "eachTask">>]
TaskSteps == [cancel |-> VisibleTask \o FindTask \o <<"cancelled", "unlink">> \o FindTask,
              retry |-> VisibleTask \o FindTask \o <<"queued">> \o FindTask, events |-> VisibleTask]
DocumentSteps == [index |-> <<"node">>, rebuild |-> <<"node">>, draft |-> <<"node">>, guide |-> <<>>]

StepTables == {ResourceSteps, BaseSteps, TreeSteps, ImportSteps, TaskSteps, DocumentSteps}
StepsOf(cap) == (CHOOSE table \in StepTables : cap \in DOMAIN table)[cap]

Targets(cap) ==
    CASE cap \in DOMAIN TaskSteps \cup {"status"} -> Imported
      [] cap \in {"bases", "imports", "guide"} -> {"all"}
      [] cap \in {"base", "dropBase", "nodes"} -> Bases
      [] cap \in DOMAIN ResourceSteps \cup {"create", "upload"} -> Docs \cup Bases
      [] OTHER -> Docs

Stranger == [person |-> "none", role |-> "none"]
NoCall == [pc |-> "none", cap |-> "guide", byKey |-> FALSE, who |-> Stranger, about |-> "all", todo |-> <<>>,
           allowed |-> {}, scope |-> {}, left |-> {}, half |-> {}, shown |-> {}, status |-> "none"]
Running(step) == ask.pc = "running" /\ Head(ask.todo) = step
Resumed(call) == [call EXCEPT !.todo = Tail(@), !.pc = IF Len(call.todo) = 1 THEN "answered" ELSE "running"]
Onward == ask' = Resumed(ask)
ConcludedKeepsFiles(how) == [ask EXCEPT !.pc = how]     \* createLocalUpload without its catch
\* createLocalUpload takes its files away again before it answers.
Concluded(how) == [ask EXCEPT !.pc = IF ask.cap = "upload" /\ ask.half # {} THEN "unstage" ELSE how]
CallRefused == ask' = Concluded("refused")
OnlyIf(granted) == IF granted THEN Onward ELSE CallRefused

\* The ghost takes in every change of the lists and the roles.
Nothing == [grants |-> access, empty |-> {b \in Bases : DocsOf(b) = {}}, blind |-> FALSE, turns |-> 0,
            rows |-> accessRows]
Witnessed(turns) == during' = [during EXCEPT
    !.grants = [n \in Docs |-> @[n] \cup access'[n]],
    !.empty = @ \cup {b \in Bases : DocsOf(b) = {}}',
    !.blind = @ \/ AllowedDocs(Reader(ask))' = {},
    !.turns = @ + turns]
Witness == Witnessed(0)
OnlyReads == UNCHANGED <<accessRows, roleOf, keys, minting>> /\ Witness

(***************************************************************************)
(* Who calls: a key is looked up and then its user, a token says who and   *)
(* with which role when it was issued.                                     *)
(***************************************************************************)
AskCapability ==
    /\ ask.pc = "none"
    /\ \E p \in Persons, cap \in Capabilities, byKey \in BOOLEAN, role \in RoleNames :
       \E about \in Targets(cap) :
          /\ ask' = [NoCall EXCEPT !.pc = "principal", !.cap = cap, !.byKey = byKey, !.about = about,
                        !.who = [person |-> p, role |-> IF byKey THEN roleOf[p] ELSE role]]
          /\ during' = Nothing
    /\ UNCHANGED <<accessRows, roleOf, keys, minting>>

FindKey ==
    /\ ask.pc = "principal" /\ ask.byKey /\ keys[ask.who.person] > 0
    /\ ask' = [ask EXCEPT !.pc = "user"]
    /\ OnlyReads
\* Unknown or expired.
CredentialRefused == ask.pc = "principal" /\ CallRefused /\ OnlyReads

AuthorizeCall ==
    /\ ask.pc = IF ask.byKey THEN "user" ELSE "principal"
    /\ LET role == IF ask.byKey THEN roleOf[ask.who.person] ELSE ask.who.role
           steps == StepsOf(ask.cap)
       IN ask' = [ask EXCEPT !.who.role = role, !.todo = steps,
                     !.pc = IF ~Authorized(ask.cap, role) THEN "refused"
                            ELSE IF steps = <<>> THEN "answered" ELSE "running"]
    /\ OnlyReads

(***************************************************************************)
(* Reading.                                                                *)
(***************************************************************************)
\* The scope of a listing must touch what the caller may read.
GetAllowedUris ==
    /\ Running("allowed")
    /\ LET allowed == AllowedDocs(Reader(ask))
       IN IF ask.cap \in {"grep", "list", "tree"} /\ ~Touches(allowed, ask.about)
          THEN CallRefused
          ELSE ask' = Resumed([ask EXCEPT !.allowed = allowed])
    /\ OnlyReads

MatchedVisible(n, allowed, scope) == (\E m \in allowed : LiesIn(n, m)) /\ LiesIn(n, scope)
ListedVisible(uri, allowed) == Touches(allowed, uri)

\* OpenViking finds what it holds, removed nodes too.
Matches ==
    /\ Running("matches")
    /\ \E found \in SUBSET Docs :
          ask' = Resumed([ask EXCEPT !.shown = {n \in found : MatchedVisible(n, ask.allowed, ask.about)}])
    /\ OnlyReads
Entries ==
    /\ Running("entries")
    /\ \E found \in SUBSET (Docs \cup Bases) :
          ask' = Resumed([ask EXCEPT !.shown = {uri \in found : ListedVisible(uri, ask.allowed)}])
    /\ OnlyReads

ListBases == Running("bases") /\ ask' = Resumed([ask EXCEPT !.left = baseRows]) /\ OnlyReads

\* The nodes of each base are read on their own, in any order.
EachBase ==
    /\ Running("eachBase")
    /\ IF ask.left = {} THEN Onward
       ELSE \E b \in ask.left :
              LET seen == [ask EXCEPT !.left = @ \ {b},
                              !.shown = @ \cup (IF CanAccessBase(b, ask.who) THEN {b} ELSE {})]
              IN ask' = IF ask.left = {b} THEN Resumed(seen) ELSE seen
    /\ OnlyReads

FindAskedBase == Running("base") /\ OnlyIf(ask.about \in baseRows) /\ OnlyReads
InsideBase ==
    /\ Running("inside")
    /\ IF CanAccessBase(ask.about, ask.who)
       THEN ask' = Resumed([ask EXCEPT !.shown = {ask.about}]) ELSE CallRefused
    /\ OnlyReads
ListNodes ==
    /\ Running("nodes")
    /\ ask' = Resumed([ask EXCEPT !.shown = {n \in DocsOf(ask.about) : CanRead(n, ask.who)}])
    /\ OnlyReads
FindNode ==
    /\ Running("node")
    /\ IF ask.about \in AllowedDocs(ask.who)
       THEN ask' = Resumed([ask EXCEPT !.shown = {ask.about}]) ELSE CallRefused
    /\ OnlyReads

(***************************************************************************)
(* Tasks.                                                                  *)
(***************************************************************************)
FindTaskRow ==
    /\ Running("row")
    /\ IF taskState[ask.about] = "none" THEN CallRefused
       ELSE ask' = Resumed([ask EXCEPT !.status = taskState[ask.about]])
    /\ OnlyReads
ReadScope == Running("scope") /\ ask' = Resumed([ask EXCEPT !.scope = AllowedDocs(ask.who)]) /\ OnlyReads
TaskBase == Running("taskBase") /\ OnlyIf(CanAccessBase(BaseOfTask(ask.about), ask.who)) /\ OnlyReads
CheckTask(step, allowed) ==
    /\ Running(step)
    /\ IF SeesTask(ask.about, ask.who, allowed)
       THEN ask' = Resumed([ask EXCEPT !.shown = {ask.about}]) ELSE CallRefused
    /\ OnlyReads
ListTasks ==
    /\ Running("rows")
    /\ ask' = Resumed([ask EXCEPT !.left = {t \in Imported : taskState[t] # "none"}])
    /\ OnlyReads
\* Of each task first the nodes of its base are read, then its own node.
EachTask ==
    /\ Running("eachTask")
    /\ \/ /\ ask.left \cup ask.half = {}
          /\ Onward
       \/ \E t \in ask.left :
             ask' = [ask EXCEPT !.left = @ \ {t},
                        !.half = @ \cup (IF CanAccessBase(BaseOfTask(t), ask.who) THEN {t} ELSE {})]
       \/ \E t \in ask.half :
             ask' = [ask EXCEPT !.half = @ \ {t},
                        !.shown = @ \cup (IF SeesTask(t, ask.who, ask.scope) THEN {t} ELSE {})]
    /\ OnlyReads

(***************************************************************************)
(* Changing.  An import into a node that is a document fills it; into a    *)
(* base it makes a node that everybody may read.                           *)
(***************************************************************************)
TaskFits(t, about) ==
    /\ taskState[t] = "none"
    /\ IF t \in MadeBy THEN access[AimOf[t]] = Absent /\ BaseOf[AimOf[t]] = about ELSE AimOf[t] = about

FindTarget ==
    /\ Running("target")
    /\ IF ask.about \in Docs
       THEN OnlyIf(ask.about \in AllowedDocs(ask.who))
       ELSE IF ask.about \in baseRows
            THEN ask' = [ask EXCEPT !.todo = <<"inside">> \o Tail(@)] ELSE CallRefused
    /\ OnlyReads
StoreFiles ==
    /\ Running("store")
    /\ \E t \in Imported :
          /\ TaskFits(t, ask.about)
          /\ staged' = staged \cup {t}
          /\ ask' = Resumed([ask EXCEPT !.half = {t}])
    /\ UNCHANGED <<access, baseRows, taskState, roleOf, keys, minting>>
    /\ Witness
AimBase ==
    /\ Running("aimBase")
    /\ LET base == IF ask.about \in Docs THEN BaseOf[ask.about] ELSE ask.about
       IN OnlyIf(base \in baseRows /\ (ask.about \in Docs => ask.about \in DocsThere) /\ CanAccessBase(base, ask.who))
    /\ OnlyReads
Aim == Running("aim") /\ OnlyIf(ask.about \in DocsThere => CanRead(ask.about, ask.who)) /\ OnlyReads
MakeTask ==
    /\ Running("make")
    /\ \E t \in Imported :
          /\ TaskFits(t, ask.about) /\ (ask.cap = "upload" => t \in ask.half)
          /\ taskState' = [taskState EXCEPT ![t] = "pending"]
          /\ access' = IF t \in MadeBy THEN [access EXCEPT ![AimOf[t]] = {"public"}] ELSE access
    /\ Onward
    /\ UNCHANGED <<baseRows, staged, roleOf, keys, minting>>
    /\ Witness
UnstageFiles ==
    /\ ask.pc = "unstage"
    /\ staged' = staged \ ask.half
    /\ ask' = [ask EXCEPT !.pc = "refused"]
    /\ UNCHANGED <<access, baseRows, taskState, roleOf, keys, minting>>
    /\ Witness

SetTask(state) ==
    /\ taskState' = [taskState EXCEPT ![ask.about] = IF @ = "none" THEN @ ELSE state]
    /\ Onward
    /\ UNCHANGED <<access, baseRows, staged, roleOf, keys, minting>>
    /\ Witness
CancelPending ==
    /\ Running("cancelled")
    /\ IF ask.status = "pending" THEN SetTask("cancelled") ELSE CallRefused /\ OnlyReads
UnlinkFile ==
    /\ Running("unlink")
    /\ staged' = staged \ {ask.about}
    /\ Onward
    /\ UNCHANGED <<access, baseRows, taskState, roleOf, keys, minting>>
    /\ Witness
\* ImportTasks has what a retry does: it may also adopt what OpenViking holds.
RetryFailed ==
    /\ Running("queued")
    /\ IF ask.status \in {"failed", "cancelled"}
       THEN \E state \in {"pending", "done", "running"} : SetTask(state)
       ELSE CallRefused /\ OnlyReads

\* KnowledgeTree has what a removal does; it is refused while somebody edits.
EraseNode ==
    /\ Running("eraseNode")
    /\ \/ /\ access' = [access EXCEPT ![ask.about] = Absent]
          /\ Onward
          /\ UNCHANGED <<baseRows, taskState, staged, roleOf, keys, minting>>
          /\ Witness
       \/ CallRefused /\ OnlyReads
EraseBase ==
    /\ Running("eraseBase")
    /\ \/ /\ access' = [n \in Docs |-> IF BaseOf[n] = ask.about THEN Absent ELSE access[n]]
          /\ baseRows' = baseRows \ {ask.about}
          /\ Onward
          /\ UNCHANGED <<taskState, staged, roleOf, keys, minting>>
          /\ Witness
       \/ CallRefused /\ OnlyReads

\* An await fails; a transaction leaves nothing.
CallFails ==
    /\ ask.pc = "running"
    /\ ask' = Concluded("failed")
    /\ OnlyReads

(***************************************************************************)
(* What others do meanwhile.                                               *)
(***************************************************************************)
OthersChange ==
    /\ ask.pc \notin {"none", "answered", "refused", "failed"} /\ during.turns < MaxTurns
    /\ \/ \E n \in Docs, grants \in {Absent, {"public"}} \cup {{p} : p \in Persons} :
             access' = [access EXCEPT ![n] = grants] /\ UNCHANGED <<baseRows, taskState, roleOf, keys, minting>>
       \/ \E p \in Persons, role \in RoleNames \cup {"none"} :
             roleOf' = [roleOf EXCEPT ![p] = role] /\ UNCHANGED <<access, baseRows, taskState, keys, minting>>
       \/ \E t \in Imported, state \in {"running", "done", "failed"} :
             /\ taskState[t] \notin {"none", state}
             /\ taskState' = [taskState EXCEPT ![t] = state]
             /\ UNCHANGED <<access, baseRows, roleOf, keys, minting>>
       \/ \E p \in Persons :
             /\ keys[p] > 0 /\ keys' = [keys EXCEPT ![p] = @ - 1]
             /\ UNCHANGED <<access, baseRows, taskState, roleOf, minting>>
       \/ \E p \in Persons :     \* createApiKey counts
             /\ keys[p] < KeyLimit /\ minting' = [minting EXCEPT ![p] = @ + 1]
             /\ UNCHANGED <<access, baseRows, taskState, roleOf, keys>>
    /\ UNCHANGED <<staged, ask>>
    /\ Witnessed(1)
SaveKeyKept(p) ==                  \* the same creation saves a key again
    /\ minting[p] > 0
    /\ keys' = [keys EXCEPT ![p] = @ + 1]
    /\ UNCHANGED <<minting, accessRows, roleOf, ask, during>>
SaveKey(p) ==                      \* createApiKey saves
    /\ minting[p] > 0
    /\ minting' = [minting EXCEPT ![p] = @ - 1] /\ keys' = [keys EXCEPT ![p] = @ + 1]
    /\ UNCHANGED <<accessRows, roleOf, ask, during>>

(***************************************************************************)
(* The specification.                                                      *)
(***************************************************************************)
AccessInit ==
    /\ access \in FirstAccess /\ baseRows = Bases
    /\ roleOf = [p \in Persons |-> "tenant_operator"]
    /\ taskState \in FirstTasks /\ staged = {t \in Imported : taskState[t] = "pending"}
    /\ keys = [p \in Persons |-> 1] /\ minting = [p \in Persons |-> 0]
    /\ ask = NoCall /\ during = Nothing

AccessNext ==
    \/ AskCapability \/ FindKey \/ CredentialRefused \/ AuthorizeCall
    \/ GetAllowedUris \/ Matches \/ Entries
    \/ ListBases \/ EachBase \/ FindAskedBase \/ InsideBase \/ ListNodes \/ FindNode
    \/ FindTaskRow \/ ReadScope \/ TaskBase \/ ListTasks \/ EachTask
    \/ CheckTask("taskByScope", ask.scope) \/ CheckTask("taskByAllowed", ask.allowed)
    \/ FindTarget \/ StoreFiles \/ AimBase \/ Aim \/ MakeTask \/ UnstageFiles
    \/ CancelPending \/ UnlinkFile \/ RetryFailed \/ EraseNode \/ EraseBase \/ CallFails
    \/ OthersChange \/ \E p \in Persons : SaveKey(p)

AccessSpec == AccessInit /\ [][AccessNext]_accessVars

(***************************************************************************)
(* Properties.                                                             *)
(***************************************************************************)
AccessTypeOK ==
    /\ baseRows \subseteq Bases /\ staged \subseteq Imported
    /\ DOMAIN taskState = Imported /\ \A p \in Persons : keys[p] + minting[p] <= KeyLimit + MaxTurns
    /\ ask.shown \subseteq Docs \cup Bases \cup Imported
    /\ ask.pc \in {"none", "principal", "user", "running", "unstage", "answered", "refused", "failed"}

\* At some moment of the call its caller could read the node, or something in
\* the base, or what the task is about.
ReadOnce(n) == LET who == Reader(ask) IN during.grants[n] \cap {"public", who.role, who.person} # {}
InsideOnce(b) == b \in during.empty \/ \E n \in Docs : BaseOf[n] = b /\ ReadOnce(n)
SeenOnce(t) ==
    \/ AimOf[t] \in Docs /\ ReadOnce(AimOf[t])
    \/ t \notin MadeBy /\ (AimOf[t] \in Bases \/ during.blind) /\ InsideOnce(BaseOfTask(t))
WasReadable(item) ==
    IF item \in Docs THEN ReadOnce(item) ELSE IF item \in Bases THEN InsideOnce(item) ELSE SeenOnce(item)

\* Whatever changes under a call, it shows nothing that its caller could not read
\* at some moment of it; and a call that is refused, when nothing changed under
\* it, has changed no row and left no file behind.
ShownWasReadable == ask.pc = "answered" => \A item \in ask.shown : WasReadable(item)
RefusedDidNothing == ask.pc = "refused" /\ during.turns = 0 => accessRows = during.rows
AccessHolds == ShownWasReadable /\ RefusedDidNothing
=============================================================================
