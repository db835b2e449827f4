# openviking-admin: TLA+ models, checks and proofs

This directory models the concurrent core of the openviking-admin server in
TLA+, checks it with TLC on small instances and proves the most important
invariants with TLAPS for every instance. It is meant to be kept beside the
code: when a handler changes, the action of the same name changes with it, and
the runs tell what the change breaks. `PROJECT.json` is the index: which
definition models which lines, what each run checks, which slip of the code each
property catches, what was found.

    tlc -config ImportTasks_sequential.cfg MCImportTasks.tla    # a run
    tlapm ImportTasksProofs.tla                                 # a proof

## 1. The system

openviking-admin is a NestJS server (`apps/server`) in front of OpenViking, an
external engine that stores resources and vectors. It keeps its own rows in
PostgreSQL (one shared database, a schema or a database per tenant), optional
shared state in Redis, staged uploads on disk, and a good deal of state in the
memory of one process. `apps/web` is a React console, `packages/ova-cli` a
command line client; both only call the HTTP interface.

| component | state it keeps | operations | interacts with |
|---|---|---|---|
| import queue (`import-task/`) | `import_tasks` rows, staged uploads; in memory `isPolling`, `currentConcurrency`, the running `processTask` calls | create, cancel, retry, delete, poll, execute, recover at boot | tree nodes, OpenViking, tenant routing |
| delayed stats compensation (`task-worker.service.ts`) | in memory `scheduledStatsSyncTaskIds`, `isStatsSyncScanning` and timers | schedule, sync, scan | the rows above, OpenViking's vector queue |
| document drafts and index (`document/`) | `document_drafts` rows with a version; index state of the node | save, index, load, warm up | OpenViking, tree, import worker, collab sessions |
| collaborative editing (`document-collab.gateway.ts`, `document-session-registry.ts`) | Hocuspocus documents, session contexts, in-memory registry | connect, store, disconnect, shut down | drafts; tree removal and the import worker ask the registry |
| document assets | claim records in Redis or memory | claim, wait, publish, release | OpenViking |
| knowledge tree, knowledge bases | rows, ACLs, counts | create, move, remove, index state | drafts, registry, OpenViking |
| WebDAV adapter | none of its own; ETags are made from rows | every method, with its conditions | tree, drafts, import queue |
| markdown codec | none | parse, render | drafts, assets |
| tenant routing (`common/`) | pooled connections with a `search_path`, the map of LARGE data sources, the tenant cache | attach, release, evict, invalidate | every request and the worker |
| tenant administration and migration | tenant rows, migration task rows | create, update, migrate | routing, schema initialiser |
| capability layer (`capabilities/`) | rate-limit windows (memory or Redis), metrics, keys | execute, authorise, limit | every service above |
| MCP (`mcp/`) | sessions and their event queue | open, touch, enqueue, drain, close | capability layer |
| authentication, SSO | users, in-memory single-use tickets | login, issue, exchange | settings, LDAP/OIDC |
| search, settings, system, audit, users | rows | queries and single-row changes | OpenViking |
| upload storage, import strategies | files on the server's disk | save, read, fetch, send, remove | worker, OpenViking, git hosts |
| resource retention | a timer | delete expired rows and files | import rows and uploads |
| command line client (`packages/ova-cli`) | a file of profiles; entries in the editors' configurations | sign in, call, set up | the HTTP interface |
| web console (`apps/web`) | what a window shows; token and user | pages, editor, images | the HTTP interface |

What is hard here is the same everywhere: **no row is locked**. Handlers read a
row, await OpenViking or the database several times, and then write by id what
they decided from the first read. The worker, the HTTP handlers, timers and the
collaborative editor interleave at every `await`; a crash loses the memory half
of the state and leaves the durable half in the middle of a step. PROJECT.json
`hazards` lists the places one by one.

What makes each component correct:

* import queue: a task is executed by one invocation at a time; it always leaves
  the queue; a RUNNING row is being worked on; the concurrency limit is exact;
  a retry starts from an empty target and still has its upload;
* delayed compensation: a finished task with vectors is counted eventually, by
  one chain of timers;
* drafts: a node called *clean* has in OpenViking what its draft says; no save is
  lost; indexing does not overlap itself;
* collaborative sessions: what an editor typed reaches the draft; a node with
  somebody editing is neither removed nor overwritten;
* assets: one upload per content, nobody waits forever;
* tenant routing: a query runs in the schema of its tenant;
* migration: one at a time, and a restart does not leave it running;
* rate limit: no more than the limit in a window, rejected calls cost nothing;
* MCP: each event is delivered once, in order, to one stream.

## 2. Plan

The core came first: the queue, its compensation and the drafts, each with
proofs; then the components around them, in the order of what they can damage.

1. `TaskLifecycle` (abstract), `ImportTasks` (detailed), `StatsSync`,
   `DocumentDrafts`, with their proofs. **Done.**
2. `KnowledgeTree` with the editing sessions; `TenantStorage`, `TenantSources`,
   `TenantConnections`; `CapabilityCalls`; `McpStreams`; `AssetUploads`;
   `EditorPage`, with proofs where SMT reaches. **Done.**
3. `KnowledgeSearch`, `SignIn` and `CliProfiles`, `DavRequests`,
   `MarkdownCodec`, `CapabilityAccess`: how requests are answered, and with what.
   **Done**; `OnceEach`, `AloneKeepsOthers`, `AccessHolds` and
   `ConditionalPutIsExact` proved.
4. `SchemaUpgrade`, `ConsolePages`, `TreeInspector`, `BrowserSession`, `PageImages`,
   `ImportFiles`, `AgentSetup`. **Done**; `PermissionsStay`, `SessionsHold`,
   `ImagesHold`, `FilesHold` and `SetupHolds` proved, the others checked only.
5. The theorems for `CleanMeansEqual`, `TreeWhole`, `TreeStepsGuarded`,
   `AdmissionBound`, `UploadsHold`, `CountStays`, `AnsweredInOrder`, `SearchesHold`,
   `FilesHold`, `SetupHolds` and the refinement of `TaskLifecycle`. **Done.**
6. Left: the collaborative gateway's own hooks as a module.

Every module has its own constants, one action per operation (or per stretch of
code between two awaits), and no RECURSIVE operator where theorems are stated
(`MarkdownCodec`, a parser over nested lists, has them and is only checked).

## 3. The import queue

### ImportTasks

One action is the code between two awaits. Durable state survives `Crash`,
everything else is reset by it.

| variable | code |
|---|---|
| `status` | `import_tasks.status`; `none` before creation and `deleted` after removal |
| `resource` | what OpenViking holds under `targetUri`, in the three grades the code tells apart: nothing, nodes, nodes with vectors |
| `file` | the staged upload of a local task exists |
| `contentUri` | the target document node has a `contentUri` (decides whether the worker empties the target first) |
| `phase` | `onModuleInit` runs, or has ended |
| `isPolling`, `currentConcurrency` | the fields of TaskWorkerService |
| `unscanned`, `scanned` | the loop of `findTasksByStatus` over the tenants and what it has collected |
| `slot` | the invocations of `processTask` alive, each at one await |
| `req` | the HTTP handlers in flight, each with the status and the OpenViking level it has read |
| `abandoned` | bookkeeping: rows the code itself leaves RUNNING with nobody working on them |

The poll is `PollStart`, then `ScanTenant` or `SkipTenant` for each tenant, then
`PollDispatch`, which starts the oldest tasks that fit in one synchronous loop.
An invocation goes `Claim`, `Prepare`, `Inject`, `Record`, `Complete`, `Return`;
`TenantGone`, `PrepareFails`, `InjectFails`, `Throws` and `ReturnFails` are the
awaits that throw, `MarkFailed` and `MarkFailedLost` the catch block. A handler
starts with `Call` (its `findOne` and its status check; a refused call changes
nothing and has no action) and goes on to `Cancel...`, `Retry...` or
`Delete...`. `VectorsArrive` is OpenViking's own queue, the only external action.
`Crash` and `Boot` are the process.

A poll whose `findActiveTenants` fails does nothing and is a stuttering step. A
task has a target of its own (the code derives `targetUri` from the node or the
knowledge base; two tasks may share a directory in the Git fall-back, which is
left out).

### TaskLifecycle

What the queue promises about one status column while requests do not overlap
and nobody cancels: the documented diagram, a retry that may adopt what
OpenViking already holds, removal, and the restart that requeues running tasks.
`ImportTasks!LifecycleSpec` is that specification under the mapping that calls a
task *retrying* while a retry handler holds it.

### Runs

| run | instance | shows |
|---|---|---|
| `import_sequential` | 2 tasks of 2 tenants, one upload and one overwrite, 2 slots, 1 request, 2 calls of retry and delete, 1 restart | `OneWriterPerTarget`, `RetryFindsItsInputs`, refinement of `TaskLifecycle` (`LifecycleSpec`) |
| `import_overlap` | 1 task, 2 overlapping requests, 3 calls of every handler, 3 slots with a limit of 2, a MEDIUM tenant, polls that may outrun a claim, 1 restart | `ConcurrencyAccounted`, `RunningHasOwner` |
| `import_liveness` | 2 tasks, 1 slot, every handler, 1 call, 1 restart, fairness | `TasksMoveOn` |

`OneWriterPerTarget` says that a target has one invocation writing it at a time
and that nobody empties it meanwhile (`AtMostOneImporter`,
`NoClearUnderImporter`); `RetryFindsItsInputs` that a queued or failed upload has
its file and that a retried task starts from an empty target
(`RetryableKeepsFile`, `RetryStartsEmpty`); `TasksMoveOn` that queued tasks leave
the queue and running ones end, unless abandoned (`PendingIsLeft`, `RunningEnds`).

Two tasks are enough for what relates tasks (order, room, the other task's slot
being untouched); two invocations of one task need two slots and a retry, hence
two calls; three slots with a limit of two leave a slot that must stay free.
Symmetry is used for slots and requests in the safety runs only. `MaxCalls` and
`MaxRestarts` are the only counters; nothing in the code depends on them.

Two assumptions are parameters, because the code rests on them without saying
so. `ClaimBeforeNextPoll`: the poll starts a task without waiting, and nothing
but the 60 seconds to the next poll keeps the next poll from reading the same
row as pending; the sequential run assumes the claim commits first, the overlap
run does not. One request at a time (`Requests = {r1}`): two overlapping retries
of one task can queue it twice and empty the target under the importer, since
neither handler looks at the row again after its first read; the sequential
properties hold only without them.

Disagreements between the code and what its documents or messages say that the
actions above show step by step:

* a cancel is undone by the claim: `Claim` writes RUNNING over a row that was
  cancelled after the poll read it (`task-worker.service.ts:154`);
* a delete that fails has already removed the upload of a task that may be
  retried (`DeleteFile` comes before the await that can throw);
* a retry may mark a task running with nobody working on it (`RetryAdopt`; the
  run of liveness therefore excludes `abandoned` rows), until the next restart;
* cancel removes the upload though a cancelled task may be retried
  (`import-task.service.ts:884`); a retry of a failed task adopts what OpenViking
  holds before it would empty the target (`:779`, against
  `IMPORT_PIPELINE.md:370`); done tasks can be deleted (`:896`, against
  `IMPORT_PIPELINE.md:378`); the limit of two tasks per tenant is declared in
  `constants.ts:19` and never read; the progress of a done task is computed from a
  status name no row has (`import-task.controller.ts:241`).

### Fairness

`Fairness` is weak fairness of the poll's steps (the interval timer keeps
firing), of every invocation and handler (each await ends: OpenViking's calls have
a timer, except the upload of a staged file, `task-worker.service.ts:1110`, which
rests on the limits of the runtime's own fetch), of the boot; and strong fairness of reading each tenant and of
`Claim`, which says that a tenant's data source and the tenant lookup do not
fail every single time. Users, OpenViking's queue and crashes are not fair.

### Proofs

`ImportTasksProofs` proves, for any sets of tasks, tenants, slots and requests
and any limit:

* `TypeCorrect`: `Spec => []TypeOK`;
* `ConcurrencySafe`: `Spec => []ConcurrencyAccounted`, the counter equals the
  number of invocations alive and is at most the limit;
* `RunningOwned`: `Spec => []RunningHasOwner`.

The inductive invariant is `IInv == ShapeOK /\ ConcurrencyAccounted /\
RunningHasOwner`. `ShapeOK` is `TypeOK` without the type of the counter: that the
counter is a natural number is not inductive by itself (a `Leave` subtracts
one), it follows because the counter equals the cardinality of a finite set,
which `IInvTypes` concludes. `DispatchCounts` is the counting lemma: the slots
that become busy are in bijection with the batch, so the counter rises by the
number of slots taken. The ownership part needs one case per action: `Claim`
gives the row an owner, every other step of an invocation keeps it or leaves
through `MarkFailed`/`MarkFailedLost`, and only `RetryAdopt`, `MarkFailedLost` and
`Boot` make a row abandoned.

The proofs use the named assumptions of `ImportTasks` on its constants
(finiteness of the sets, the limit at least one); TLC evaluates them in every
run.

Three theorems hold for a user who waits for each answer, as the sequential run
does, but for any number of tasks, tenants, slots and restarts. `Solo` states that
user: one request at a time, no cancel, and claims that commit before the next
poll (the assumption of the sequential run, not something the code enforces: the
overlap run goes without it). Under it `IInv /\ Serial` is inductive. `Serial`
says what nobody re-reads but everybody relies on:

* `Working`: the row says *pending* until an invocation claims it, *running* until
  it completes, and *done* (or already removed) while it cleans up;
* `Retries`: a retry was accepted on a failed row, still has it or adopted it
  itself, meets no invocation, and is about to queue it only with an empty target;
* `Deletes`: a removal meets a row that has ended;
* `Polling`: what a scan has read is still pending when it is dispatched, because
  no invocation is between its dispatch and its claim;
* `Booting` and `AtMostOneImporter`.

Two frame lemmas carry the proof: `WorkerSerial` (an invocation's step that leaves
the other rows alone keeps `Serial` if the row fits its new place) and
`HandlerSerial` (the same for a handler). From `Serial`:

* `TargetHasOneWriter`: `Spec => OneWriterPerTarget`; `NoClearStep` goes through
  every action that empties a target.
* `RetryInputsKept`: `Spec => RetryFindsItsInputs`, with `UploadsStay`: no local
  task is removed by a user (a removal takes the upload away before anything else
  can fail) and none belongs to a MEDIUM tenant (where releasing the connection can
  fail after the upload was cleaned up, and marks the finished task failed). The
  second half of the invariant is `Files`, which must also cover a task a retry
  found done on its way to the queue. `RequeueStep` shows that only the last step
  of a retry queues a failed task.
* `ImplementsLifecycle`: `Spec => LifecycleSpec`, the refinement of
  `TaskLifecycle` with `retrying <- Retrying`, where no tenant is MEDIUM. `Claim`
  is its *Start*, `Complete` *Succeed*, `MarkFailed` *Reject*, `RetryAdopt`
  *Adopt*, `RetryRequeue` *Requeue*, `DeleteCommit` *Remove*, `Create` *Enqueue*,
  an accepted retry *BeginRetry* and one that ends early *AbandonRetry*; `Crash`
  and `Boot` are *Crash* and *Recover*; every other step stutters.

Only model-checked: `TasksMoveOn` (liveness under fairness).

## 4. The delayed compensation

### StatsSync

OpenViking counts vectors some time after an import is done. The worker keeps a
chain of timers per finished task that asks again after a minute, at most
`MaxAttempts` times; a set in memory says which tasks have a chain; a scan at
boot and every five minutes starts chains for finished tasks with no vectors
counted. `syncResult` does once, for a user, what a chain does.

| variable | code |
|---|---|
| `row`, `counted`, `newer` | the status of the task's row, whether its `vectorCount` is above zero, and the order of `updatedAt` |
| `documented` | the document node has a `contentUri` and a draft |
| `vectors` | OpenViking has vectors under the target (external) |
| `phase` | the first scan is over |
| `returning` | what `processTask` still does after the row is DONE |
| `scheduled` | `scheduledStatsSyncTaskIds` |
| `chain` | the timers and syncs alive: task, attempt, the await it is at, what it has fetched |
| `scanning`, `unscanned`, `candidates` | `isStatsSyncScanning` and the loop of `findStatsSyncCandidates` |
| `manual` | a user's sync in flight |
| `syncs`, `restarts` | bounds |

A chain goes `ScheduleAttempt` (the timer fires), `SyncRead`, `SyncFetch`,
`SyncWrite`, then `SyncRefresh` and `SyncEnd` or `SyncRepeat`; `SyncFetchFails`
and `SyncThrows` are its awaits that throw. Consecutive awaits of one chain that
touch nothing another actor sees are merged. The 24 hours the scan looks back are
taken to cover the behaviour, since every sync renews `updatedAt`:
`CountedEventually` says nothing of a task nobody has looked at for a day. `Open` is the editor, whose load of a
document writes the columns the compensation looks at.

### Runs

| run | instance | shows |
|---|---|---|
| `stats_single` | 1 document task, 5 attempts, a sync by a user, 2 restarts, releases that succeed | `OneLiveChain`, `CountStays` |
| `stats_liveness` | 2 attempts, 2 chains, releases that may throw, 1 restart, fairness | `ScheduledIsServed`, `CountedEventually` |

When the release of a tenant's connection throws, the sync has already taken its
task out of the set and its chain goes on outside it; the next scan may then start
a second chain. So `OneLiveChain` is checked and proved for `ReleaseMayFail =
FALSE`, while `ScheduledIsServed` holds without it. `CountStays` (a count is not
overwritten with zero) holds until a user has synced: the manual sync writes what
it read before other awaits. The message "stop compensating" after the last
attempt is not final either, as the task leaves the set and the next scan starts
again.

`CountedEventually` is checked for one task, and needs it: the scan takes the
fifty finished rows of a tenant with the latest `updatedAt`, whether or not they
are counted, and every sync renews `updatedAt`. Fifty rows that never get vectors
can hold all places, and a later row is then never looked at.

Fairness: weak fairness of each step of a chain (a timer fires, an await ends),
of `ScanStart`, `ScanSchedule` and the worker's `Return`; strong fairness of
`SyncRead`, of `SyncFetch` and `SyncWrite` once the vectors are there, and of
reading each tenant, which says that OpenViking and the database do not fail
every single time. Users, vectors and crashes are not fair.

### Proofs

`StatsSyncProofs`, for any sets of tasks, tenants and chains and any number of
attempts: `SyncTypeCorrect` (`TypeOK`), `ScheduledServed` (`ScheduledIsServed`)
and, assuming releases do not fail, `OneChainPerTask` (`OneLiveChain`) and
`CountIsKept` (`CountStays`). `ScheduledServed` and `OneChainPerTask` go by an
invariant that ties the set to the chains in both directions: a
scheduled task has a live chain, a live chain's task is scheduled, two live chains
are of two tasks; each way a chain ends must take the task out of the set in the
same step.

`CountIsKept` needs to know what a chain's reading is worth when it is written,
several awaits later. Its invariant, `CountsAreSeen`, holds while no user has
synced: a count is of vectors OpenViking has; a chain that is reading is of a task
that is over (so the worker does not complete it meanwhile), has seen only vectors
that are there, and where it has seen none its task is still not counted. The last
part is what a second chain of the same task would break, which is where
`OneLiveChain` enters (`SyncKeepsCounts`).

## 5. Drafts and the index of a document

### DocumentDrafts

One document: its row in `document_drafts`, the index state in its node, and the
text OpenViking holds. Texts are numbered in the order they come into being, so
"older" is "smaller".

| variable | code |
|---|---|
| `draft` | `document_drafts.version` (0: no row) and `markdown` |
| `node` | `contentUri` (is there one), `indexStatus`, `draftVersion`, `indexedVersion` of the node |
| `ov` | the text OpenViking holds |
| `imported` | a finished import task has this document as its target |
| `op` | the handlers in flight: kind, the await it is at, what it has read |
| `texts`, `calls`, `restarts` | bounds |

Kinds of handler: `save` (`saveContent`, `saveMarkdownContent`), `fill`
(`getMetadata` and `loadContent`, where there is content and no draft), `index`
(`indexContent`), `import` (the worker's part of `processTask` that empties the
target, injects and marks the node), `sync` (the delayed compensation), `manual`
(`syncResult`) and `warm`, the warm-up that `import` and `sync` start without
awaiting it. Removal of the node and of its draft is left out. `Call` is the first read, that of the node; `ReadDraft`, `Download`,
`FindDraft` and `StoreDraft` are the draft's awaits; `ReadNode` and `WriteNode`
are the two halves of `syncIndexState`, which reads and writes the whole row
(`Merged`). `Throws` is any other await that fails, `Restart` the process. The
second warm-up `compensateDocumentDraft` may start is that of the first.

### Runs

| run | instance | shows |
|---|---|---|
| `drafts_user` | 2 handlers in flight, 2 saves, 2 rebuilds, 1 fill, import, compensation and manual sync, 1 restart | `CleanMeansEqual`, `DraftNeverGoesBack` |
| `drafts_sync` | 1 handler, an import, a save, the compensation | `DraftNeverGoesBack` is violated |

`Overlap` says which kinds may be in flight together, `OverDrafts` whether
imports and syncs may meet a document that has a draft. `drafts_user` lets fills,
rebuilds, warm-ups and manual syncs overlap, and runs saves, imports and
compensations alone. These are assumptions, not facts of the code: two saves that
overlap can store one version number twice (the version is read and written in
two awaits); a rebuild that ends after a save writes the draft version it read
before it, so that the save is lost sight of; an import over a document with a
draft leaves it clean with the old draft when its warm-up fails; a manual sync
marks a dirty node clean. The hazards list them with their lines. A node may also
stay `indexing` when a rebuild counts no vectors or the process dies; no code
ends that. The instance is bounded by `Calls`, which is why the behaviours end and
the deadlock check is off: two saves and two rebuilds are enough for a stale
version and a stale text to meet a later one.

`drafts_sync` is a disagreement reached by calls one after the other: minutes
after an import the compensation writes the node clean and warms the draft up
from OpenViking without a look at it. What the user saved meanwhile is replaced by
the imported text.

### Proofs

`DocumentDraftsProofs`, for any set of handlers and any bounds:

* `DraftTypeCorrect`: `Spec => []TypeOK`, by the invariant `Typed`, which adds
  where a handler of each kind may be and what it may be about to mark (`Sound`);
  without it a handler could be where no code exists and `TypeOK` would not be
  inductive.
* `DraftKeepsItsText`: assuming `Lone` (only readers overlap, no import or
  compensation meets a draft), `Spec => DraftNeverGoesBack`. The invariant is
  `Orderly`. A save in flight is alone and carries a text newer than the draft's.
  While there is no draft, or a fill or a warm-up is on its way (`Level`), the
  draft, OpenViking and every text that is carried are the same one (`Steady`):
  that is why a late fill stores nothing older, even when a rebuild wrote to
  OpenViking meanwhile. TLC finds `Orderly` true on the instance
  of `drafts_user`; no run lists it, since the theorem says more.
* `CleanDraftsIndexed`: assuming `Lone` and `FillsAlone` (no two fills at once),
  `Spec => []CleanMeansEqual`. The invariant is `Agreed`, on top of `Orderly`. No
  handler knows a version beyond the draft's, but one that is about to store the
  next (`Dated`). Once there is a draft, what an index carries is the draft's
  text, and a handler that took OpenViking's text for the draft, or the draft's
  for OpenViking, has left the two equal (`Seen`, `Same`). So only a save sets
  them apart, it is alone, and its version is one that no node has yet: a clean
  row of an older version says nothing about it, even if the process dies before
  the node is marked dirty.

The attempt to prove it without `FillsAlone` failed for a reason that two
handlers in flight do not show. A version is read and written in two awaits. One
warm-up and three fills on a document without a draft can read 0, 1, 1 and 2;
the one that read 2 stores 3 and numbers the node, then the last of those that
read 1 stores 2 again. The draft has gone back to version 2, the row is clean at
3, and the next save makes version 3 with another text: until the dirty mark, and
for good if the process dies before it, the node says that OpenViking has it. TLC
finds that behaviour with four handlers in flight. With three or fewer the
version does not go back.

## 6. The components side by side: MCPlatform, MCServices

The components of the following sections share no state that a property is
about, and each is small. `MCPlatform` extends the tree, the tenants and the
channels (sections 7 to 10), `MCServices` what answers the web, the command line,
WebDAV and agents (sections 11 and on); each gives a behaviour one component to run
(`part`, `service`), while the others rest in an initial state. A run over `Parts`
or `Services` is therefore the union of the runs of its components, no more and no
less: nothing is claimed about two of them together. `Platform_safety.cfg` and
`Services_safety.cfg` state all constants, grouped by module. The tree appears
twice, as `tree` (two handlers, one editor) and as `sessions` (two editors, one
handler), since two of each would be too many states. Handlers of the tree are
and calls with the same limits are interchangeable in `platform_safety`
(`Interchangeable`); nothing in a temporal run is.
`PlatformTypeOK` and `ServicesTypeOK` are the type invariants, with one conjunct per
component. `ServicesTypeOK`, `PagesHold` and `DiskHolds` ask each conjunct of the
component that runs: one that rests stays in an initial state with which behaviours
of its own begin.

| run | shows |
|---|---|
| `platform_safety` | the safety and action properties of sections 7 to 10 |
| `services_safety` | those of section 11 and all that follow |
| `platform_liveness` | those below marked (live), under `PlatformFairness`, the fairness of each component where it runs |

## 7. The knowledge tree and its editors: KnowledgeTree

One knowledge base. `nodes`, `drafts`, `content` and `kb` are the rows of
`knowledge_nodes` and `document_drafts`, OpenViking's resources and the row of the
base; `nodeSessions` and `kbNodes` the two maps of `DocumentSessionRegistry`;
`conn` the editors' connections; `op` the handlers in flight, each with what it
has read.

| kind | handler |
|---|---|
| `create`, `move`, `rename`, `patch`, `remove` | the REST controller, then `create`, `update`, `remove` of the service |
| `mkcol`, `put`, `davmove`, `delete` | WebDAV, which decides on one snapshot of the tree, then the same service |
| `cleanup` | a PUT that failed after it made its node |
| `dropkb` | the removal of a knowledge base |

The recursion of `removeNode` is a stack of frames; `Collect` reads one node's
children at a time and asks the registry in the step that reads the last of them.
`Throws` is any await that fails.

* `TreeWhole` (proved): the nodes stay a forest under a live base, and drafts and
  resources belong to live nodes, wherever a removal breaks off.
* `RegistryExact` (proved): the registry's two maps agree with the open
  connections. The theorem is inductive by itself and assumes nothing.
* `TreeStepsGuarded` (proved): a WebDAV call that nothing overlaps adds no second node of
  a name to a folder; and no handler changes the place or name of a node, or
  removes it, while somebody has been editing under it since the handler began.

What these do not say, and the instance therefore avoids: `Overlap` lets a create
meet a create, an MKCOL meet a create, an MKCOL or a PUT. Any two of the other
handlers may break the forest: two consoles that move two nodes under each other
make a cycle (the server checks nothing, `page.tsx:331` only the dragged node of
its own view); a create under a node that is being removed leaves an orphan; two
PUTs of one new path make twins, and the clean-up of one may remove under the
other; the refresh of the counts writes the row of a base that was deleted
meanwhile back. `Offered` is what the console offers; the REST interface itself
would move a node under its own descendant and create at the root of a base that
is gone. A session that begins between the question and the removal is not
protected (`held` asks for sessions that were there from the call on), and a patch
that names the same parent and a new name is not asked at all
(`knowledge-tree.service.ts:387`); `AllHandlers` leaves `patch` out.

#### Proofs

`KnowledgeTreeProofs`, for any number of nodes, names, editors, handlers, calls and
restarts:

* `RegistryAgrees`: `TreeSpec => []RegistryExact`, with no hypothesis.
* `TreeStaysWhole`: `TreeSpec => []TreeWhole`, under two hypotheses. `Together`
  bounds which kinds of handlers may overlap, as `SomeOverlap` of the run does:
  creates and MKCOLs with each other, and a PUT with MKCOLs. Each pair it leaves out
  is one of the behaviours above that do break the forest. `Planted` says that the
  tree a behaviour begins with is such a forest. The invariant is `TreeInv`. It adds
  to `TreeWhole` what a handler relies on between two awaits: a maker that its
  parent is live (`Making`), a move that its target is not under its node and that
  its copy is the row (`Changing`), a removal that what is still under a frame's
  node is in the frame's list (`Framed`, `Removing`), the clean-up after a PUT that
  its node has no children (`Sweeping`), the removal of a base that it knows every
  top-level node (`Dropping`); and that nobody inserts under a node a PUT may take
  away again (`Apart`). TLC finds it true on an instance of `platform_safety`'s
  size (214,616 states).
* `TreeIsGuarded`: `TreeSpec => TreeStepsGuarded`, under the same hypotheses and with
  no `patch` served. The invariant is `GuardInv`: what a removal has collected and
what it still has to read hold the whole subtree (`Collecting`), so that the one
question it asks covers every frame of the removal after it (`Clearing`); an update
that is about to save has asked about its subtree, or changes nothing; a WebDAV
writer that nothing overlaps still finds no sibling of its name (all in `Careful`);
the sessions a call began with and that are still counted are still open
(`Held`), and a call that claims to be alone is (`Alone`). TLC: 203,792 states.

The lemmas on `Subtree` (the least set with the node that is closed under
children) replace induction over the tree: `Subtree` is an intersection, and each
fact is shown by naming one closed set.

## 8. Tenants

### TenantStorage

The create call with its rollback, the initialisation of storage, and the
migration tasks that run it again. `storage` is the tenant's tables, `stored` the rows
in them, `written` the rows as the tenant has last written them (a number for the
write, 0 for none). A task reads a table and puts what it has read into the same
table awaits later (`ReadRows`, `ReplaceRows`), while handlers of the tenant insert,
change and delete rows (`Write`): no lock and no maintenance mode keeps them out.

* `CreateAllOrNothing` (proved): a create call that has ended has made tenant,
  administrator and storage, or neither tenant nor administrator, unless it was
  cut off or its rollback failed.
* `MigrationKeepsRows` (proved for levels whose initialisation does not fail a
  second time, `Spared`; and for LARGE it holds though it fails): the tenant
  finds every row as it has last written it, but for those in `setBack`.
* `tenant_schema_dropped`, a finding: for MEDIUM the failure of the second
  initialisation drops the live schema (`schema-initializer.service.ts:76`).

`setBack` is what the code loses. The copy of a migration reads and writes the same
tables (`tenant-migration.service.ts:525`, `:526`), so a row that the tenant changes
after a task has read it, and before that task puts it back, has its old text again,
and one deleted in between is there again. The property says that this happens to
no other row: not to rows inserted meanwhile, not to those of another table, and not
through a second task, a failure or a restart. The mutant is the copy that empties
the table first, as the name `replaceRows` suggests.

Bounds: two rows in two tables, two tasks, three writes (so that a row can be written
before, during and after a copy), one restart.

Seen while modelling, without a run: `dbConfig` is written back as it was when the task was
created (`tenant-migration.service.ts:307`); a failed connection to a database
that was just created leaves it there (`schema-initializer.service.ts:93` is
outside the try); a task cut off stays `pending` or `running` for ever; a rejected
`executeTask` ends the process (`:208`).

### TenantSources

How a request of a LARGE tenant finds its data source: the cache, the pool, the
initialisation that several requests wait for, eviction.

* `NoSourceLost` (proved): every open data source is the one in the pool, every
  opening one the one that is waited for.
* `SourcesInUseStay` (proved): none is closed under a request that asked for it
  within the idle limit.
* `CacheCatchesUp`, the first half of `RoutingMoves` (live): the gateway's stale entry is replaced while editors
  keep coming. Nothing but the TTL does it: the update invalidates a cache of its
  own (the service is of request scope).

The pool goes on with the data source of a changed `dbConfig` until it is evicted
(`dynamic-data-source.service.ts:39`).

### TenantConnections

The pool of the control database, whose connections keep their `search_path`.

* `OwnSchemaFirst` (proved): who works on a connection of its own finds its own
  schema, whoever had the connection before.
* `CallersEnd`, the second half of `RoutingMoves` (live): callers that hold one connection each and wait for another
  come to an end, because waiting has a limit.

A request refused by a guard behind the tenant guard never gives its connection
back (`tenant.interceptor.ts:27` is what would), nor does one whose SET throws;
the model has both (`Lost`), which is why the pool may run dry.

## 9. Capability calls: CapabilityCalls

Four limits, each a counter per window behind one connection to Redis, the handler
against its timer, and the record of the outcome. `wire` is the order of commands
on the connection.

* `AdmissionBound` (proved): a counter lets through at most twice its limit in any
  stretch of the store's time as long as a window less the age of the commands that
  opened windows. The history variables `windows` and `passed` say when windows
  opened, by how old a command, and which calls they let through. The age has to be
  taken off: a command that comes late and opens a window dates it back by its own
  time stamp, so that the next one may open the sooner. With the time stamps of the
  calls in place of the store's time there is no bound of this kind at all (a late
  command counts in whatever window there is by then), which small instances hide.
  The key expires in Redis by the life its last command gave it.
  The inductive invariant `LimitInv` (`PlatformProofs`) says of each counter
  when its current window opened relative to the start it claims (`WindowTimes`),
  where in time the calls of the current, the previous and all older windows lie
  (`PassTimes`), and how many of each there are (`PassCounts`).
* `CountedOnce` (proved): a call is counted as one outcome, unless its success
  could not be logged; then it is counted as both.
* `CapCallsEnd` (live): also when its handler never does.

A refused call has used up the limits before the one that refused it; the handler
of a call that timed out goes on; the message the client takes for "no cluster
here" also comes from a cluster in trouble, and the fallback is never undone.

## 10. MCP: McpStreams

Sessions and events are rows, streams live in the process and poll them.

* `AnsweredInOrder` (proved): an answer is written to its client at most once and in the
  order of the queue, also while a process with the old stream exits.
* `AnswersAndEnds` (live): answers arrive at clients that stay, and sessions end.

Events are marked delivered before they are written: a process that ends between
loses them. A poll whose query fails ends the process, as nobody waits for its
promise. A client that goes before its stream listens is only missed by the idle
timer.

`AnswersInOrder` (`McpSpec => []AnsweredInOrder`, in `ListsProofs`) holds for any
number of sessions, messages, rows in a batch and exits. The property is not
inductive, since it does not know what a poll in flight carries. `McpInv` says it
with one number for each stream (`Reached`): the rows marked delivered are the first
`d` of the queue; a poll about to mark carries the rows that follow, a poll about to
send the last of those `d`; and what was written came before them. That a query
answers with exactly the next rows is a fact about `Filtered`, the list of those
rows in their order (`Arrangements`, see section 13).

## 11. Assets: AssetUploads

Every await of `uploadAsset`, two caches, an OpenViking that stores a file under
another name or shows it late.

* `UploadsHold` (proved): the path answered leads to the image uploaded
  (`AnswerHoldsImage`), and an image the tree already shows is not stored again
  (`NoSecondCopy`).

With one file there, of somebody else, and the new one not shown yet, the answer is
the old file, and it is remembered under the hash of the new image
(`document-openviking-response.util.ts:15`; the test at
`document.service.spec.ts:777` takes the only file for the new one). The property names
the images this has happened to (`misled`) and excepts their answers alone: no other
image is answered wrongly, through either cache or by a later upload, and none at
all where the tree is never late. The run has documents with none, one and two files,
on a tree that is late and on one that is not.

`ServicesProofs!UploadsAreKept` proves `UploadsHold` for any number of uploads and
images, late trees among them.
`AssetsInv` ties the three places a path can come from to the tree: the two caches
lead to files that hold the image of their key (`CacheFits`), what an upload has read
does too, an upload that waits for its file has stored it, and one that came late
finds its image in every list it reads (`UploadFits`). A file is wrong only for an
image in `misled`, and on a tree that is never late `misled` is empty, because the
file just stored is then in the list the lone-file rule looks at (`TreeFits`,
`InjectedIsOwn`). `StepOf` says once what a step of one upload may do to the others.
TLC: true in the 164,000 states of the part `assets`.

Two uploads of one image that overlap store two copies (`late` asks for an image
that was shown when the upload began). An import that empties the document's
container leaves the cache's paths as they were.

## 12. The editor page: EditorPage

The editor over HTTP: `hasLocalChanges` and `exitSaveTriggered` are the refs of
the component, `saves` the requests of the buttons, `exitSaves` those of
`triggerDocumentExitSave`.

* `LastTextIsSent` (proved): who leaves after an edit that no running save and no
  earlier exit save hides has sent that text.

The exceptions are the code's: an edit typed during a running save, or after a
`beforeunload` that the user answered by staying, gets no exit save, since the
answer of a save sets both flags back whatever was typed since. `indexContent`
goes on after a failed save. `ServicesProofs!LastEditSent` proves it for any number
of edits and saves: `CoveredIsSafe` says that, while no save hides the last edit,
every save under way carries that text, and it is either saved already or an exit
save would still go out.

## 13. Searches and the client of OpenViking: KnowledgeSearch

A call is one request with its attempts (`requestWithRetry`): a reply is a status,
a body that does not parse, a timer or a broken connection, and each may come
although OpenViking did what it was asked (`executed`). `find` is the search of
two stages: candidates, cut to what the user may read, then the reranker's
opinion.

* `SearchesHold` (proved): an answer that was reranked holds the best candidates, best first
  (`BestFirst`), and what changes OpenViking is not sent twice (`DoneOnce`).

A rerank that fails answers all candidates of the first stage
(`search.service.ts:159`), more than were asked for.

`ListsProofs` proves `SearchesAreRight` (`SearchSpec => []SearchesHold`) for any
number of calls, hits, scores and bounds. Sorting is not recursive here:
`Arrangements` puts an element where as many others come before it, and `ArrangedIs`
shows that in a strict order every place is taken once, so that the first `TopK` of
what is sorted by score (`Descending`, an order by `Better`) are the best
(`BestAreFirst`); equal scores keep their order, as in a stable sort. `SearchInv` adds
which stage knows what: no opinion before the rerank, no log before the answer, and
what changes OpenViking was not executed while its one attempt has not begun.

## 14. Sign-in and the command line: SignIn, CliProfiles

`SignIn` is the server: accounts looked up and then made, awaits apart, tickets in
memory. Who signs in with LDAP has one entry of the directory or none (`FindUser`
reads it with the account of the service, `VerifyUserPassword` binds as the entry),
then an account as the others, and gets the tokens in the answer, without a ticket.
`CliProfiles` EXTENDS it with processes that share one file of profiles.
The run has two parts, `signin` (three sign-ins of one person by a
provider or the form, one of another by the directory, which may find any set of
entries) and `cli` (two
commands at a time, `TwoCommands`).

* `OnceEach` (proved): one person gets one account, a ticket gives its tokens once.
* `AloneKeepsOthers` (proved): a command that nothing overlaps leaves the other profiles
  as they are, and its own where it fails.

The client reads tokens at the top of an answer
(`packages/ova-cli/src/api.ts:58`), where the server puts them under `data`
(`success-response.interceptor.ts:47`): a refresh stores nothing usable, and the
next command signs in again.

`ServicesProofs` proves both for any number of sign-ins, persons, commands and
profiles and any lifetimes. `SignedInOnce` (`CliSpec => []OnceEach`) rests on
`SignInInv`: a second account of a person is refused by the unique index, a ticket
in memory was not handed out yet, and a sign-in that was not yet redirected has
neither (`TicketFits`); a restart brings no ticket back. `CommandsKeepProfiles`
(`CliSpec => AloneKeepsOthers`) rests on `CommandsInv`: a command that none
overlaps is the only one, and the file is as it read it. The tokens a server
answers with are not where the client looks for them, so that a refresh writes
nothing; the theorem covers every other way a command writes the file.

## 15. WebDAV: DavRequests

A request from its Authorization header to its status: role, base, path, the
conditions, the order of refusals, and the writes one by one. `texts` are the
bodies, `stamp` the time of the rows from which ETags are made, `copies` what a
GET has answered under a tag.

* `ConditionalPutIsExact` (proved): a PUT with the ETag of a GET replaces the text that
  GET answered, if nothing overlapped either and no save broke off half-way.

Both exceptions are real: the tag is read before the text, and a save that breaks
off between draft and row leaves a new text under the old tag
(`docs/API_REFERENCE.md:64` promises more).

`DavRequestsProofs` proves it for any number of requests, visitors, bases and
nodes, in whatever order they come. The property is not inductive: it speaks of
the step that stores the text, and the two facts it needs come from far apart.
`DavInv` carries them: `CopyFits` (a text answered under a tag is the node's as
long as the row keeps that stamp, unless a save of the node stands between draft
and row or broke off there), `TagChecked` (a PUT about to store, alone since it
came, named the tag the node still has) and `AloneMeans` (who has been alone is
the only one on its way, so no save is open). Beyond the types, two assumptions on
the constants come with it, both the code's: the star of a condition is no ETag,
and the console's save has no condition.

## 16. Markdown: MarkdownCodec

Parser and renderer as operators between sequences of lines and of blocks, with
the characters that matter, and the round of storing and opening a document.

* `RoundTrip`: what is stored opens as it was (`Outline`), and a document opened
  twice is stored as it was, for all pairs of 14 blocks and all triples of 11 kinds
  of lines.
* `markdown_brackets`, a finding: brackets are escaped when a document is stored
  and never unescaped, so they gain backslashes round by round.

Also in the model, and outside the documents the run begins with: any line
after a list item is taken into the item (`document-markdown-parser.ts:333`, the
indent it counts is the length of the line), and the text of a code block is
parsed for inline marks (`:357`).

## 17. What a capability call may see: CapabilityAccess

`CapabilityCalls` (section 9) has the limits, the timer and the record of a call;
this module has the call itself, from the credential to the answer: the principal
(an API key is looked up and then its user; a token says who and with which role),
the minimum role of the contract, and the awaits of the twenty gateway handlers,
each a step that reads the access lists as they are then (`StepsOf`). Between any
two steps an access list, a role, a task or a key may change (`OthersChange`,
`MaxTurns` times).

* `AccessHolds` (proved): an answer shows no node, base or task that the caller could not
  read at some moment of the call (`ShownWasReadable`), and a call that is refused
  while nothing else changes has changed no row and left no file behind
  (`RefusedDidNothing`).

What the model makes visible and the property allows: the gateway checks a task
with the list of readable addresses of the beginning of the call, and the service
once more with one of its own; a caller who may read nothing at all sees every task
whose base has a readable node by then, since an empty list of addresses is taken
for *no restriction* (`knowledge-capability.gateway.ts:798`,
`import-task.service.ts:1027`); `createApiKey` counts and saves awaits apart, so two
creations may pass the limit of ten together; a node that an import makes carries
no access list and is readable for everybody.

`ServicesProofs!CallsKeepAccess` proves `AccessHolds` for any users, nodes, bases,
tasks, access lists and changes of them, from `AccessAssumption` alone (nodes, bases
and tasks are different things, and a task that made its node aims at one). The two
halves need different inductive invariants, and both need to know what the steps of a
handler have before them:

* `StepsPlanned`: in the list of steps of every capability, a change of a task comes
  after its row, its base, the scope and the check with it; a check with the scope or
  the gateway's list comes after the base was read and that list was; nothing follows a
  creation or a removal, and nothing but finding the task again follows its change
  (`Planned`). The lists are taken apart once, by `After` and `Trailing`, and every
  step then only drops the head (`TailAfter`, `TailCharted`).
* `ShowInv`: whatever the call holds or will show (`Grounded`) was readable at a moment
  the ghost has seen, and what a coming step relies on was read or is still in the list
  (`Based`). The step that reads a list grounds it, and no change of others takes that
  back, since the ghost only grows (`WitnessedStays`).
* `RefuseInv`: while nothing else has changed, a running call (`Honest`) has changed
  nothing and each thing it will need before changing a task holds or is still to be
  asked (`Checked`); or it is an upload with only its own files on disk (`Staged`); or it
  changed the task and can no longer be refused, because the task, its base, the list
  and the node are those it has just seen (`Certain`). That last case is why a
  refusal after the change of a task, possible in the code, cannot occur unless
  somebody else acts.

TLC checks `CallInv`, the conjunction, on the instance of `MCCapabilityAccess` with one
change by others (205,201 distinct states) and with two (2,532,265).

## 18. The shape of the databases: SchemaUpgrade

A run of `platform_safety` (part `schema`). A place (the public schema, a MEDIUM
tenant's schema, a LARGE tenant's database) has a set of parts: tables, groups of
columns, and the values that older rows need. `recorded` is the table of
migrations; the eighteen migrations are numbered by their timestamps, and
`UpPublic`, `UpSchema` and their reverts say what each does to a place, or that it
throws. The upgrade scripts go statement by statement through the places they
listed, and may stop at any of them. One command runs at a time; a dry run is left
out.

Bounds: one tenant at a time of the two kinds (`MaxTenants = 1`), databases and
histories as of the releases 0, 2, 5, 7, 13 and 18 (each begins another age of the
columns the scripts look for), one revert (`MaxReverts = 1`).

* `AlignedCanRun`: after a baseline has gone through, the migrations it left
  unrecorded meet nothing that they make themselves.
* `StorageCovered`: after the migrations and then a whole storage upgrade, every
  tenant that was not deleted finds each column the server reads, with the values
  of its older rows.

Both are facts about eighteen fixed migrations applied one after another
(`PublicAfter` is a recursive function), which TLC computes and TLAPS does not.

## 19. The web application: ConsolePages, TreeInspector, BrowserSession

The parts `console`, `inspector` and `browser` of `services_safety`.

`ConsolePages` has each page as a table (`Pages`): what loads it, and for each
button the steps of its handler in the order of the code. One interpreter
runs a handler up to its next await; answers, refusals and lost
connections come between. `onServer` counts the changes the server has made,
`listShown` what the list on the screen was asked for and how many changes it has
seen. Another user's changes are left out, as the pages promise nothing about
them. Bounds: two presses of a button, three loads, one change of what is chosen,
one filling of a form; where the
engine's page redirects to is left out. Two presses are what a double click is, and the third load
is the one after both.

* `ConsoleHolds`: once nothing is under way no flag is left on (`Settled`) and the
  page shows what is chosen as the server has it, or has said that something failed
  (`Current`). `Known` names the pages for which the code does worse: `Hushes`
  drops an error without a word, `ShowsLate` may show the answer to an earlier
  question over that to a later one, `SendsTwice` may create the same thing twice.

`TreeInspector` is the page of the knowledge tree: the node inspected and the
permissions being edited are two states.

* `PermissionsStay` (proved): permissions filled from one node are not saved to another,
  unless the answer to a rename or a rebuild inspected again a node that the user had
  left (`strayed`, `knowledge-tree/page.tsx`). Bounds: two nodes, two calls.

`BrowserSession` is the token, the user kept beside it and the user the page
shows, in two windows: the one signed in and the one a tenant is opened in. Bounds: two tokens (a
session and the next), four calls, one load asked for by the user.

* `SessionsHold` (proved): the user kept is the token's, except in a window opened for a
  tenant and after a late answer of `/auth/me` (`foreign`), the page shows that user,
  and no answer to a session that was signed out changes the next.

`PagesHold` is the conjunction of the three and of section 21's, which a run checks
as one invariant. `PlatformProofs` proves `PermissionsStay` (`PermissionsKeepTheirNode`)
and `SessionsHold` (`SessionsStay`) for any number of nodes, calls, tokens and loads;
`ConsoleHolds`, which asks the handlers of twenty particular pages, is only checked.
`InspectorInv`: the node inspected and the one being edited differ only where no node
is inspected or an answer has inspected one again. `SessionInv` adds what makes a
sign-out final (`AfterLogout`): once it is over, whatever a window has under way
carries the token the window keeps, because the page that asked before is gone.
The document page is the part of it that loads and renames; the
poll of a draft that is warming up is left out.

## 20. Files on disks: ImportFiles, AgentSetup

### ImportFiles

How a task gets hold of what it imports and what that leaves on the server's disk;
the part `files` of `services_safety`. `ImportTasks` has the rows and their races, so
a run here (`fetch`) is one invocation after its UPDATE to RUNNING. A repository is
fetched as an archive by the interface, then by the command line tool, then handed
to OpenViking as addresses; a document is three calls; a local file is read from
the upload (`batch`) it came with. A file is known by when it was last written
(`onDisk`), which is all the sweep looks at.

`sweep` is `cleanupExpiredManagedFiles`, await by await. An upload's directory is in
that of its knowledge base, and this one in that of its tenant (`InDir`, `dirs`);
`cleanupDirectory` lists each level when it gets there, takes the old files, goes
down, and on its way back lists the directory again (`SweepLooks`) and, if it is
empty or cannot be listed, removes it with whatever it holds by then (`SweepRemoves`,
which may throw half way). An upload makes the directories it lacks from above and
may be stopped between two of them (`MakeParents`), so that the sweep also meets a
tenant's directory without knowledge bases in it.

Bounds: one task of each kind of source and one run in a behaviour (`OneFetch`), the
upload only beside the task that reads it, and the sweep only beside runs that have
files: runs share nothing else, as each archive has a name of its own. One directory
of each level, which is one chain, and the sweep takes chains one after the other.
Two files, two addresses, two runs of a task, one restart, a retention of one tick in
a clock of three: old enough, just too young, and written again in between.

* `FilesHold` (in `DiskHolds`, proved): an archive on the disk belongs to the run that
  writes, names or sends it (`ArchivesOwned`); an upload that was refused leaves
  nothing (`RefusedLeavesNothing`); what a run has yet to read is there until the
  retention has passed (`FilesLast`); and a task that is done was taken by
  OpenViking, twice only if an answer was lost (`DoneWasTaken`).

The exceptions are sets in the model: `strays` are files only the sweep will remove
(the archive whose name could not be stored, what a restart found in the making, a
file whose removal failed), `hollowed` the uploads that lost files because they
wrote below a directory, their own, their knowledge base's or their tenant's, between
the sweep's finding it empty and its removal
(`local-import-storage.service.ts:307`, `:309`). The directory of such an upload need
never have been empty itself. Where the second listing fails, the code takes the
directory for empty, whatever it holds; every upload below it counts then. The
uploads named are those that did lose files, and the property excepts no other.

`ServicesProofs!FilesAreKept` (`DiskSpec => []FilesHold`) holds for any number of
uploads, files, runs, addresses, restarts and any retention, and with runs and
uploads side by side, which the instance keeps apart. The property does not say how
old a file is, so it is not inductive; `DiskInv` does. A file that is whole is not
older than the upload it came with and an archive in hand not older than its run
began it (`BatchHolds`, `FetchHolds`), and the sweep's cutoff is behind the clock by
the retention (`SweepHolds`): what the sweep takes is therefore past its owner's
retention (`OldFile`). What lies on the disk without being a stray has an owner, an
upload that got as far or the run whose archive it is; every step that ends an
owner removes the file or adds it to `strays` (`RunEnds`, `ArchiveGivenUp`,
`UndoKeepsDisk`, `CrashKeepsDisk`). `RunFits` counts the answers: before a run is
taken it was taken only as often as answers were lost. `BatchKept` and `FetchKept`
say once what it takes that a step of somebody else leaves an owner's part true.
That a removal takes files of nobody but the uploads it names rests on `TreeInv`: a
directory has those above it, a file has its directory, and every file below a
directory found empty came into it since, by an upload the sweep has noted (`CameInto`,
`LostCameInto`).
TLC finds `DiskInv` and `TreeInv` true in the 254,372 states of the part `files`.

### AgentSetup

`ova setup`, `init` and `bootstrap`: the key for the MCP server (`profileKeys`), the
configurations of the editors (`json`, `toml`) and the rules in a repository
(`prompt`). Each file is read, then written as a whole; a kill in between leaves a
beginning of it. `mine` is what others have put into a file and should find there:
what they put in before a command read it, and not under a table or inside a
section of ours. The parts `keys`, `json`, `toml` and `prompt` of `services_safety`,
one kind of file in each, since the files share nothing but the key.

Bounds: two commands, two writes of others, one kill (for the Markdown files two of
these three). Two commands are what it takes
to find the traces of the first; two writes put something before and something
behind them.

`SetupHolds` (in `DiskHolds`, proved):

* `OthersKeepTheirs`: no server, setting, table or text of others is
  lost, except to a kill or a write between the reading and the writing of a
  command, or behind a marker that somebody took away.
* `EditorsAgree`: the editors a command has written have one entry of ours, with
  the key the profile has, and none of older clients.
* `OneSection`: the rules are in a file once, and they are those of the last command.

With one marker gone the rules are added a second time, and with the first marker
gone all text up to the second section's end stays as it was; both are in the model
(`tornFiles`). docs/CLI_GUIDE.md:102 calls the entry `openviking`; the code writes
`ova_mcp` and removes `openviking` as older clients' (`setup-support.ts:520`).

`ListsProofs!EditorsKeepTheirs` (`SetupSpec => []SetupHolds`) holds for any number of
commands, kills and writes of others, and any lists of editors, with all
files side by side, which the instance keeps apart. That others find in a file what
they put there is not inductive: a command removes what stands under a table of its
own (`RemoveSections`) and replaces what stands between its markers
(`UpsertSection`). `SetupInv` therefore says where things stand: every line of ours
is under a header of ours and what is claimed is not (`TomlGood`); a prompt file is
all text or has one section (`Shaped`), and where a marker is gone, what is claimed
stands before the first that is left (`AheadOf`); and what a command has read is as
good as the file was, as far as it was claimed then (`WriteReady`, `PromptReady`),
for it replaces the file. `SectionsRemoved` and `SectionUpserted` say what
those two functions keep. Commands count on their keys (`Keyed`), and an editor that
was written keeps its entry under every later write (`Agreed`, `Ruled`). TLC finds
`SetupInv` true in the 67,247 states of the parts of `AgentSetup`.

## 21. The images of the editor: PageImages

The part `images` of `services_safety`. A file that is inserted is drawn, encoded
again and uploaded; an image of the document is fetched with the token and shown by
an object URL. `urlOf` is the map of the page, `urls` the object URLs that nobody
has revoked, `viewing` and `sending` the calls of the two functions the editor is
given. OpenViking shows an uploaded image late (`served`), hence the three attempts.

Bounds: one path, two calls for it and two uploads, three of the four in a
behaviour and two of them at a time (paths share nothing; what a call leaves is in
`urlOf` and `urls`, and every pair of calls overlaps).

* `ImagesHold` (in `PagesHold`, proved): while the editor is open no image it shows loses
  its URL (`ShownStay`); and unless two calls for one path overlapped, or one the
  end of the editor (`overlapped`), a path has one URL and none stays behind
  (`UrlsKept`).

Where they do overlap a URL is left until the window is closed, with the image's
bytes: the map keeps the later one, and `revokeAll` has gone by.

`PlatformProofs` proves it (`ImagesStay`, `ImagesSpec => []ImagesHold`) for any number of
paths, fetches, uploads and attempts. `ImagesInv` keeps the URL a compression draws
from apart from every URL that is shown or sent (`DrawnApart`), so that freeing it
takes none of them, and says that where nothing overlapped a path that is asked for
has no URL yet and nobody else asks for it (`OneUrlEach`).

Coverage of the page itself: the state of an upload in the status line
(`uploadingAsset`), which turns the buttons off, is not part of `EditorPage`.

## 22. Not modelled

Counts of rows and knowledge bases, wording of errors, the audit columns, the
content of resources, access lists inside the tree's handlers; the components
PROJECT.json lists as `not_modelled`, each with its reason. Retention
(`maintenance/`) deletes uploads by age and can take the file of a task that waits
for longer than the retention period: `ImportFiles` says no more than that it takes
nothing younger, and its removal of expired rows is left out.
In the codec: pipes in cells, marks typed as text, tilde fences and hard breaks.

Only model-checked, not proved: everything that is not marked *proved* above. These
are beyond the prover and stay with TLC: liveness under fairness (`TasksMoveOn`,
`CountedEventually`, `RoutingMoves`, `AnswersAndEnds`, `CapCallsEnd`); what recursive
operators compute (`RoundTrip`, a parser over nested lists); `AlignedCanRun` and
`StorageCovered`, a calculation over eighteen particular migrations by a recursive
function. `ConsoleHolds` could be proved only page by page for twenty particular
pages, which is what TLC does.
`PlatformTypeOK` and `ServicesTypeOK` collect the types of components that rest beside
each other; the types that the proofs need are conjuncts of their inductive
invariants.
