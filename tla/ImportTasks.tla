---------------------------- MODULE ImportTasks ----------------------------
(***************************************************************************)
(* The import queue of apps/server/src/import-task: the import_tasks rows, *)
(* the in-process TaskWorkerService that polls and executes them, and the  *)
(* ImportTaskService handlers (create, cancel, retry, delete) that change  *)
(* the same rows from HTTP requests.                                       *)
(*                                                                         *)
(* One action is the code between two awaits.  No row is locked and every  *)
(* write is an unconditional UPDATE by id, so a handler acts on what it    *)
(* read before its last await.  Rows, OpenViking resources, uploaded files *)
(* and document nodes survive a crash; everything else is process memory.  *)
(***************************************************************************)
EXTENDS Naturals, FiniteSets

CONSTANTS
    Tasks,               \* task ids; the number is the order of createdAt
    Tenants,             \* active tenants
    TenantOf,            \* the tenant a task belongs to
    Local,               \* tasks whose sourceType is 'local'
    Overwriting,         \* tasks that target an existing document
    Medium,              \* MEDIUM tenants, served on a pooled connection
    Slots,               \* invocations of processTask that may be alive
    Requests,            \* HTTP requests that may be in flight
    Ops,                 \* the handlers users call on each task in this instance
    MaxConcurrency,      \* QUEUE_CONFIG.GLOBAL_MAX_CONCURRENCY
    ClaimBeforeNextPoll, \* a started task's first UPDATE commits before the next poll
    MarkMayFail,         \* the UPDATE of markTaskFailed may fail
    MaxCalls,            \* bound on the handler calls of a behaviour
    MaxRestarts          \* bound on the crashes of a behaviour

ASSUME TasksAssumption == Tasks \subseteq Nat /\ IsFiniteSet(Tasks)
ASSUME TenantAssumption ==
    /\ IsFiniteSet(Tenants)
    /\ TenantOf \in [Tasks -> Tenants]
    /\ Medium \subseteq Tenants
ASSUME SourceAssumption == Local \subseteq Tasks /\ Overwriting \subseteq Tasks
ASSUME WorkerAssumption ==
    /\ IsFiniteSet(Slots)
    /\ MaxConcurrency \in Nat \ {0}
    /\ ClaimBeforeNextPoll \in BOOLEAN
    /\ MarkMayFail \in BOOLEAN
ASSUME OpsAssumption == Ops \in [Tasks -> SUBSET {"cancel", "retry", "delete"}]
ASSUME BoundAssumption == MaxCalls \in Nat /\ MaxRestarts \in Nat

VARIABLES
    \* durable
    status,             \* import_tasks.status; "none" before and "deleted" after
    resource,           \* what OpenViking holds under the task's targetUri
    file,               \* the managed upload of a local task exists
    contentUri,         \* the target document node has a contentUri
    \* process memory
    phase,              \* "boot" while onModuleInit runs, else "up"
    isPolling,
    unscanned,          \* tenants the current poll has still to read
    scanned,            \* pending tasks the current poll has read
    slot,               \* the running invocations of processTask
    currentConcurrency,
    req,                \* the HTTP handlers in flight
    \* bookkeeping
    abandoned,          \* tasks left RUNNING with nobody working on them
    calls, restarts

durable == <<status, resource, file, contentUri>>
poller  == <<isPolling, unscanned, scanned>>
worker  == <<slot, currentConcurrency>>
bounds  == <<calls, restarts>>
vars == <<durable, phase, poller, worker, req, abandoned, bounds>>

Status == {"none", "pending", "running", "done", "failed", "cancelled", "deleted"}
Level  == {"none", "nodes", "vectors"}  \* empty; nodeCount > 0; vectorCount > 0

Exists(t) == status[t] \notin {"none", "deleted"}

\* taskRepo.update(id, {status}): a row that is gone stays gone.
SetStatus(t, new) ==
    /\ status' = [status EXCEPT ![t] = IF Exists(t) THEN new ELSE @]
    /\ abandoned' = abandoned \ {t}

(***************************************************************************)
(* The poll.  Tenants are read one after the other, then the oldest tasks  *)
(* that fit are started in one synchronous loop.                           *)
(***************************************************************************)
FreeSlot == [pc |-> "free"]
Job(t, at) == [pc |-> at, task |-> t]
Busy == {s \in Slots : slot[s].pc # "free"}

PollStart ==
    /\ phase = "up"
    /\ ~isPolling
    /\ currentConcurrency < MaxConcurrency
    /\ ClaimBeforeNextPoll => \A s \in Slots : slot[s].pc \notin {"dispatched", "aborting"}
    /\ isPolling' = TRUE
    /\ unscanned' = Tenants
    /\ scanned' = {}
    /\ UNCHANGED <<durable, phase, worker, req, abandoned, bounds>>

ScanTenant(n) ==
    /\ isPolling
    /\ n \in unscanned
    /\ unscanned' = unscanned \ {n}
    /\ scanned' = scanned \cup {t \in Tasks : TenantOf[t] = n /\ status[t] = "pending"}
    /\ UNCHANGED <<durable, phase, isPolling, worker, req, abandoned, bounds>>

\* A tenant whose data source fails is skipped until the next poll.
SkipTenant(n) ==
    /\ isPolling
    /\ n \in unscanned
    /\ unscanned' = unscanned \ {n}
    /\ UNCHANGED <<durable, phase, isPolling, scanned, worker, req, abandoned, bounds>>

\* sort by createdAt, slice(0, room)
Oldest(batch, room) ==
    /\ batch \subseteq scanned
    /\ Cardinality(batch) <= room
    /\ Cardinality(batch) = room \/ batch = scanned
    /\ \A t \in batch, u \in scanned \ batch : t < u

\* Each task of the batch enters processTask in a slot of its own.
Assignment(crew, batch, f) ==
    /\ \A s1, s2 \in crew : f[s1] = f[s2] => s1 = s2
    /\ \A t \in batch : \E s \in crew : f[s] = t

PollDispatchKeepsFlag ==   \* isPolling is not reset when nothing was found
    /\ isPolling
    /\ unscanned = {}
    /\ \E batch \in SUBSET scanned :
        /\ Oldest(batch, MaxConcurrency - currentConcurrency)
        /\ \E crew \in SUBSET (Slots \ Busy) : \E f \in [crew -> batch] :
            /\ Assignment(crew, batch, f)
            /\ slot' = [s \in Slots |->
                            IF s \in crew THEN Job(f[s], "dispatched") ELSE slot[s]]
        /\ currentConcurrency' = currentConcurrency + Cardinality(batch)
        /\ isPolling' = (batch = {})
    /\ scanned' = {}
    /\ UNCHANGED <<durable, phase, unscanned, req, abandoned, bounds>>

PollDispatch ==
    /\ isPolling
    /\ unscanned = {}
    /\ \E batch \in SUBSET scanned :
        /\ Oldest(batch, MaxConcurrency - currentConcurrency)
        /\ \E crew \in SUBSET (Slots \ Busy) : \E f \in [crew -> batch] :
            /\ Assignment(crew, batch, f)
            /\ slot' = [s \in Slots |->
                            IF s \in crew THEN Job(f[s], "dispatched") ELSE slot[s]]
        /\ currentConcurrency' = currentConcurrency + Cardinality(batch)
    /\ isPolling' = FALSE
    /\ scanned' = {}
    /\ UNCHANGED <<durable, phase, unscanned, req, abandoned, bounds>>

(***************************************************************************)
(* processTask, from one await to the next.                                *)
(***************************************************************************)
At(s, pc) == phase = "up" /\ slot[s].pc = pc
Goto(s, pc) ==
    /\ slot' = [slot EXCEPT ![s].pc = pc]
    /\ UNCHANGED currentConcurrency
Leave(s) ==  \* finally { currentConcurrency-- }
    /\ slot' = [slot EXCEPT ![s] = FreeSlot]
    /\ currentConcurrency' = currentConcurrency - 1

\* Slips this part of the code could make; each breaks a property below.
TenantGoneLeaks(s) ==      \* the counter is not decremented on this path
    /\ At(s, "dispatched")
    /\ slot' = [slot EXCEPT ![s] = FreeSlot]
    /\ UNCHANGED <<durable, currentConcurrency, phase, poller, req, abandoned, bounds>>

\* findTenantForTask throws: the catch block has no tenant to mark the task in.
TenantGone(s) ==
    /\ At(s, "dispatched")
    /\ Leave(s)
    /\ UNCHANGED <<durable, phase, poller, req, abandoned, bounds>>

\* update(id, {status: RUNNING}), whatever the row says by now
Claim(s) ==
    /\ At(s, "dispatched")
    /\ SetStatus(slot[s].task, "running")
    /\ Goto(s, "claimed")
    /\ UNCHANGED <<resource, file, contentUri, phase, poller, req, bounds>>

\* A document that already has content is emptied before it is written again.
Prepare(s) ==
    /\ At(s, "claimed")
    /\ LET t == slot[s].task IN
        resource' = [resource EXCEPT ![t] = IF contentUri[t] THEN "none" ELSE @]
    /\ Goto(s, "prepared")
    /\ UNCHANGED <<status, file, contentUri, phase, poller, req, abandoned, bounds>>

\* An active editor (423), an unreachable OpenViking, or a DELETE that timed
\* out after it took effect.
PrepareFails(s) ==
    /\ At(s, "claimed")
    /\ LET t == slot[s].task IN
        \E l \in {resource[t]} \cup (IF contentUri[t] THEN {"none"} ELSE {}) :
            resource' = [resource EXCEPT ![t] = l]
    /\ Goto(s, "failing")
    /\ UNCHANGED <<status, file, contentUri, phase, poller, req, abandoned, bounds>>

\* The upload is read, sent and injected; an empty source adds nothing.
Inject(s) ==
    /\ At(s, "prepared")
    /\ LET t == slot[s].task IN
        /\ t \in Local => file[t]
        /\ \E l \in {resource[t], "nodes", "vectors"} :
            resource' = [resource EXCEPT ![t] = l]
    /\ Goto(s, "injected")
    /\ UNCHANGED <<status, file, contentUri, phase, poller, req, abandoned, bounds>>

\* The file is gone, every path was refused, or a request timed out after
\* OpenViking had created part of the resources.
InjectFails(s) ==
    /\ At(s, "prepared")
    /\ LET t == slot[s].task IN
        \E l \in {resource[t]} \cup (IF t \in Local => file[t] THEN {"nodes"} ELSE {}) :
            resource' = [resource EXCEPT ![t] = IF @ = "none" THEN l ELSE @]
    /\ Goto(s, "failing")
    /\ UNCHANGED <<status, file, contentUri, phase, poller, req, abandoned, bounds>>

\* syncDocumentContentUri: an UPDATE by node id, lost if the node was removed
Record(s) ==
    /\ At(s, "injected")
    /\ LET t == slot[s].task IN
        contentUri' = [contentUri EXCEPT ![t] = @ \/ Exists(t) \/ t \in Overwriting]
    /\ Goto(s, "recorded")
    /\ UNCHANGED <<status, resource, file, phase, poller, req, abandoned, bounds>>

Complete(s) ==
    /\ At(s, "recorded")
    /\ SetStatus(slot[s].task, "done")
    /\ Goto(s, "completed")
    /\ UNCHANGED <<resource, file, contentUri, phase, poller, req, bounds>>

\* cleanupLocalFileAfterDone, then the tenant context is released
Return(s) ==
    /\ At(s, "completed")
    /\ file' = [file EXCEPT ![slot[s].task] = @ /\ slot[s].task \notin Local]
    /\ Leave(s)
    /\ UNCHANGED <<status, resource, contentUri, phase, poller, req, abandoned, bounds>>

\* Releasing a MEDIUM context runs SET search_path, which may throw after DONE.
ReturnFails(s) ==
    /\ At(s, "completed")
    /\ TenantOf[slot[s].task] \in Medium
    /\ file' = [file EXCEPT ![slot[s].task] = @ /\ slot[s].task \notin Local]
    /\ Goto(s, "failing")
    /\ UNCHANGED <<status, resource, contentUri, phase, poller, req, abandoned, bounds>>

ThrowsUnmarked(s) ==       \* the catch block forgets to mark the row
    /\ \E pc \in {"dispatched", "injected", "recorded"} : At(s, pc)
    /\ Leave(s)
    /\ UNCHANGED <<durable, phase, poller, req, abandoned, bounds>>

\* Any other await that throws: the stats, the tree, an UPDATE, or, before the
\* row was touched, the tenant's connection.
Throws(s) ==
    /\ \/ /\ \E pc \in {"injected", "recorded"} : At(s, pc)
          /\ Goto(s, "failing")
       \/ At(s, "dispatched") /\ Goto(s, "aborting")
    /\ UNCHANGED <<durable, phase, poller, req, abandoned, bounds>>

MarkFailed(s) ==
    /\ \E pc \in {"aborting", "failing"} : At(s, pc)
    /\ SetStatus(slot[s].task, "failed")
    /\ Leave(s)
    /\ UNCHANGED <<resource, file, contentUri, phase, poller, req, bounds>>

\* markTaskFailed swallows its own error: the row keeps its status.
MarkFailedLost(s) ==
    /\ MarkMayFail
    /\ \E pc \in {"aborting", "failing"} : At(s, pc)
    /\ abandoned' = abandoned \cup {t \in {slot[s].task} : status[t] = "running"}
    /\ Leave(s)
    /\ UNCHANGED <<durable, phase, poller, req, bounds>>

(***************************************************************************)
(* ImportTaskService.  A handler holds the status and the OpenViking level *)
(* it has read.                                                            *)
(***************************************************************************)
Idle == [pc |-> "idle"]
Handler(t, at, read, level) == [pc |-> at, task |-> t, was |-> read, seen |-> level]
Done(r) == req' = [req EXCEPT ![r] = Idle]
Step(r, pc) == req' = [req EXCEPT ![r].pc = pc]
InHandler(r, pc) == phase = "up" /\ req[r].pc = pc

\* One transaction: the automatic node and the row; the upload is stored before.
Create(t) ==
    /\ phase = "up"
    /\ status[t] = "none"
    /\ \A u \in Tasks : u < t => status[u] # "none"
    /\ status' = [status EXCEPT ![t] = "pending"]
    /\ file' = [file EXCEPT ![t] = t \in Local]
    /\ UNCHANGED <<resource, contentUri, phase, poller, worker, req, abandoned, bounds>>

AcceptedAnyUnfinished(op) ==  \* retry and delete forget that a task may be running
    CASE op = "cancel" -> {"pending"}
      [] op = "retry"  -> {"failed", "cancelled", "running"}
      [] op = "delete" -> {"failed", "done", "running"}
AcceptedDoneToo(op) ==        \* retry accepts a task that is DONE
    CASE op = "cancel" -> {"pending"}
      [] op = "retry"  -> {"failed", "cancelled", "done"}
      [] op = "delete" -> {"failed", "done"}

\* findOne and the status check of a handler; a refused call changes nothing.
Accepted(op) ==
    CASE op = "cancel" -> {"pending"}
      [] op = "retry"  -> {"failed", "cancelled"}
      [] op = "delete" -> {"failed", "done"}
Entry(op) ==
    CASE op = "cancel" -> "cancel_update"
      [] op = "retry"  -> "retry_probe"
      [] op = "delete" -> "delete_file"

Call(r, op, t) ==
    /\ InHandler(r, "idle")
    /\ calls < MaxCalls
    /\ status[t] \in Accepted(op)
    /\ req' = [req EXCEPT ![r] = Handler(t, Entry(op), status[t], "none")]
    /\ calls' = calls + 1
    /\ UNCHANGED <<durable, phase, poller, worker, abandoned, restarts>>

CancelUpdate(r) ==
    /\ InHandler(r, "cancel_update")
    /\ SetStatus(req[r].task, "cancelled")
    /\ Step(r, "cancel_file")
    /\ UNCHANGED <<resource, file, contentUri, phase, poller, worker, bounds>>

CancelFile(r) ==
    /\ InHandler(r, "cancel_file")
    /\ file' = [file EXCEPT ![req[r].task] = @ /\ req[r].task \notin Local]
    /\ Done(r)
    /\ UNCHANGED <<status, resource, contentUri, phase, poller, worker, abandoned, bounds>>

AfterProbeUncleared(was) == "retry_requeue"  \* the target is never cleared

\* Only a failed task's target is cleared before the task is queued again.
AfterProbe(was) == IF was = "failed" THEN "retry_clear" ELSE "retry_requeue"

\* syncTaskFromOpenVikingBeforeRetry reads the stats of the target ...
RetryProbe(r) ==
    /\ InHandler(r, "retry_probe")
    /\ LET t == req[r].task
           next == IF resource[t] = "none" THEN AfterProbe(req[r].was) ELSE "retry_adopt"
       IN req' = [req EXCEPT ![r] = Handler(t, next, req[r].was, resource[t])]
    /\ UNCHANGED <<durable, phase, poller, worker, abandoned, bounds>>

\* ... an error while it does so counts as nothing found
RetryProbeFails(r) ==
    /\ \E pc \in {"retry_probe", "retry_adopt"} : InHandler(r, pc)
    /\ Step(r, AfterProbe(req[r].was))
    /\ UNCHANGED <<durable, phase, poller, worker, abandoned, bounds>>

\* ... vectors make the task DONE, nodes alone make it RUNNING.  If refreshing
\* the knowledge base's stats then throws, the retry goes on all the same.
RetryAdopt(r) ==
    /\ InHandler(r, "retry_adopt")
    /\ LET t == req[r].task
           new == IF req[r].seen = "vectors" THEN "done" ELSE "running"
       IN /\ status' = [status EXCEPT ![t] = IF Exists(t) THEN new ELSE @]
          /\ abandoned' = (abandoned \ {t}) \cup {u \in {t} : Exists(t) /\ new = "running"}
    /\ Done(r) \/ Step(r, AfterProbe(req[r].was))
    /\ UNCHANGED <<resource, file, contentUri, phase, poller, worker, bounds>>

\* clearRetryTargetResources; a failure (refused or timed out) ends the call.
RetryClear(r) ==
    /\ InHandler(r, "retry_clear")
    /\ resource' = [resource EXCEPT ![req[r].task] = "none"]
    /\ Step(r, "retry_requeue") \/ Done(r)
    /\ UNCHANGED <<status, file, contentUri, phase, poller, worker, abandoned, bounds>>

RetryRequeue(r) ==
    /\ InHandler(r, "retry_requeue")
    /\ SetStatus(req[r].task, "pending")
    /\ Done(r)
    /\ UNCHANGED <<resource, file, contentUri, phase, poller, worker, bounds>>

\* deleteFailed removes the upload before its transaction begins,
DeleteFile(r) ==
    /\ InHandler(r, "delete_file")
    /\ file' = [file EXCEPT ![req[r].task] = @ /\ req[r].task \notin Local]
    /\ Step(r, "delete_resource")
    /\ UNCHANGED <<status, resource, contentUri, phase, poller, worker, abandoned, bounds>>

\* then the automatic node's resources (a document that was there stays),
DeleteResource(r) ==
    /\ InHandler(r, "delete_resource")
    /\ LET t == req[r].task IN
        resource' = [resource EXCEPT ![t] = IF t \in Overwriting THEN @ ELSE "none"]
    /\ Step(r, "delete_commit")
    /\ UNCHANGED <<status, file, contentUri, phase, poller, worker, abandoned, bounds>>

\* then commits the removal of the node and the row.
DeleteCommit(r) ==
    /\ InHandler(r, "delete_commit")
    /\ LET t == req[r].task IN
        /\ status' = [status EXCEPT ![t] = "deleted"]
        /\ contentUri' = [contentUri EXCEPT ![t] = @ /\ t \in Overwriting]
        /\ abandoned' = abandoned \ {t}
    /\ Done(r)
    /\ UNCHANGED <<resource, file, phase, poller, worker, bounds>>

\* The clear of a retry, an editor's 423, OpenViking or the COMMIT fails.
RequestFails(r) ==
    /\ \E pc \in {"retry_clear", "delete_resource", "delete_commit"} : InHandler(r, pc)
    /\ Done(r)
    /\ UNCHANGED <<durable, phase, poller, worker, abandoned, bounds>>

(***************************************************************************)
(* OpenViking's semantic queue, and the process itself.                    *)
(***************************************************************************)
VectorsArrive(t) ==
    /\ resource[t] = "nodes"
    /\ resource' = [resource EXCEPT ![t] = "vectors"]
    /\ UNCHANGED <<status, file, contentUri, phase, poller, worker, req, abandoned, bounds>>

Crash ==
    /\ restarts < MaxRestarts
    /\ restarts' = restarts + 1
    /\ phase' = "boot"
    /\ isPolling' = FALSE
    /\ unscanned' = {}
    /\ scanned' = {}
    /\ slot' = [s \in Slots |-> FreeSlot]
    /\ currentConcurrency' = 0
    /\ req' = [r \in Requests |-> Idle]
    /\ UNCHANGED <<durable, abandoned, calls>>

\* recoverZombieTasks, before the worker starts; unreadable tenants are skipped.
Zombies(S) == {t \in Tasks : status[t] = "running" /\ TenantOf[t] \in S}
BootWithoutRecovery(readable) ==  \* onModuleInit starts the worker at once
    /\ phase = "boot"
    /\ phase' = "up"
    /\ UNCHANGED <<durable, poller, worker, req, abandoned, bounds>>

Boot(readable) ==
    /\ phase = "boot"
    /\ status' = [t \in Tasks |-> IF t \in Zombies(readable) THEN "pending" ELSE status[t]]
    /\ abandoned' = Zombies(Tenants \ readable)
    /\ phase' = "up"
    /\ UNCHANGED <<resource, file, contentUri, poller, worker, req, bounds>>

Init ==
    /\ status = [t \in Tasks |-> "none"]
    /\ resource = [t \in Tasks |-> IF t \in Overwriting THEN "vectors" ELSE "none"]
    /\ file = [t \in Tasks |-> FALSE]
    /\ contentUri = [t \in Tasks |-> t \in Overwriting]
    /\ phase = "boot"
    /\ isPolling = FALSE
    /\ unscanned = {}
    /\ scanned = {}
    /\ slot = [s \in Slots |-> FreeSlot]
    /\ currentConcurrency = 0
    /\ req = [r \in Requests |-> Idle]
    /\ abandoned = {}
    /\ calls = 0
    /\ restarts = 0

Poll == PollStart \/ PollDispatch \/ \E n \in Tenants : ScanTenant(n) \/ SkipTenant(n)

Process(s) ==
    \/ TenantGone(s) \/ Claim(s) \/ Prepare(s) \/ PrepareFails(s)
    \/ Inject(s) \/ InjectFails(s) \/ Record(s) \/ Complete(s)
    \/ Return(s) \/ ReturnFails(s) \/ Throws(s) \/ MarkFailed(s) \/ MarkFailedLost(s)

Handle(r) ==
    \/ CancelUpdate(r) \/ CancelFile(r)
    \/ RetryProbe(r) \/ RetryProbeFails(r) \/ RetryAdopt(r)
    \/ RetryClear(r) \/ RetryRequeue(r)
    \/ DeleteFile(r) \/ DeleteResource(r) \/ DeleteCommit(r) \/ RequestFails(r)

Restart == Crash \/ \E readable \in SUBSET Tenants : Boot(readable)

Next ==
    \/ Poll
    \/ \E s \in Slots : Process(s)
    \/ \E t \in Tasks : Create(t) \/ VectorsArrive(t)
    \/ \E r \in Requests : Handle(r) \/ \E t \in Tasks : \E op \in Ops[t] : Call(r, op, t)
    \/ Restart

Spec == Init /\ [][Next]_vars

(***************************************************************************)
(* Fairness: the interval timer keeps firing, the awaits of an invocation  *)
(* or a handler all end (every OpenViking call has a timeout), a process   *)
(* that is booting boots, and neither a tenant's data source nor the       *)
(* tenant lookup fails forever.  Users, OpenViking's queue and crashes     *)
(* promise nothing.                                                        *)
(***************************************************************************)
Fairness ==
    /\ WF_vars(PollStart)
    /\ WF_vars(PollDispatch)
    /\ \A n \in Tenants : SF_vars(ScanTenant(n))
    /\ \A s \in Slots : WF_vars(Process(s)) /\ SF_vars(Claim(s))
    /\ \A r \in Requests : WF_vars(Handle(r))
    /\ WF_vars(\E readable \in SUBSET Tenants : Boot(readable))

FairSpec == Spec /\ Fairness

(***************************************************************************)
(* Properties.                                                             *)
(***************************************************************************)
JobPc == {"dispatched", "claimed", "prepared", "injected", "recorded", "completed",
         "failing", "aborting"}
HandlerPc == {"cancel_update", "cancel_file", "retry_probe", "retry_adopt", "retry_clear",
              "retry_requeue", "delete_file", "delete_resource", "delete_commit"}

SlotRec == [pc : {"free"}] \cup [pc : JobPc, task : Tasks]
ReqRec  == [pc : {"idle"}] \cup [pc : HandlerPc, task : Tasks, was : Status, seen : Level]

\* Every variable has its type: the type invariant.
TypeOK ==
    /\ status \in [Tasks -> Status]
    /\ resource \in [Tasks -> Level]
    /\ file \in [Tasks -> BOOLEAN]
    /\ contentUri \in [Tasks -> BOOLEAN]
    /\ phase \in {"boot", "up"}
    /\ isPolling \in BOOLEAN
    /\ unscanned \subseteq Tenants
    /\ scanned \subseteq Tasks
    /\ slot \in [Slots -> SlotRec]
    /\ currentConcurrency \in Nat
    /\ req \in [Requests -> ReqRec]
    /\ abandoned \subseteq Tasks
    /\ calls \in 0..MaxCalls
    /\ restarts \in 0..MaxRestarts

\* The counter that throttles the poll is the number of invocations of
\* processTask alive, on every path out of them, and stays within the limit.
ConcurrencyAccounted ==
    /\ currentConcurrency = Cardinality(Busy)
    /\ currentConcurrency <= MaxConcurrency

Owns(s, t) ==
    /\ slot[s].pc \in {"claimed", "prepared", "injected", "recorded", "failing"}
    /\ slot[s].task = t

\* A RUNNING row is being worked on, or waits for the boot to recover it, or
\* is one of the rows the code leaves behind: adopted by a retry, not marked
\* failed, or skipped by the recovery.  There is no other way to be stuck.
RunningHasOwner ==
    \A t \in Tasks : status[t] = "running" =>
        t \in abandoned \/ phase = "boot" \/ \E s \in Slots : Owns(s, t)

\* While one user waits for each answer, the target of a task has one writer: no
\* two invocations of processTask hold the task, and nobody deletes its resources
\* while an invocation is writing them.  (Nothing in the worker compares
\* invocations: it rests on what users may do meanwhile.)
AtMostOneImporter ==
    \A s1, s2 \in Busy : slot[s1].task = slot[s2].task => s1 = s2
NoClearUnderImporter ==
    \A t \in Tasks : resource[t] # "none" /\ resource'[t] = "none" =>
        ~ \E s \in Slots : /\ slot[s].pc \in {"prepared", "injected", "recorded"}
                          /\ slot[s].task = t
OneWriterPerTarget == [][AtMostOneImporter' /\ NoClearUnderImporter]_vars

\* A retry finds what it needs: a failed task that is queued again starts from
\* an empty target, never on top of what the failed attempt left
\* (docs/IMPORT_PIPELINE.md:370), and a managed upload is there as long as its
\* task waits for the worker or may be retried (docs/IMPORT_PIPELINE.md:238,398).
RetryableKeepsFile ==
    \A t \in Local : status[t] \in {"pending", "failed"} => file[t]
RetryStartsEmpty ==
    \A t \in Tasks :
        status[t] = "failed" /\ status'[t] = "pending" => resource'[t] = "none"
RetryFindsItsInputs == [][RetryableKeepsFile' /\ RetryStartsEmpty]_vars

\* A queued task is eventually started, cancelled or removed: no poll loses it
\* for good, however often scans skip its tenant or the process crashes.  And a
\* RUNNING task somebody owns ends, or is one the code has left behind.
PendingIsLeft ==
    \A t \in Tasks : status[t] = "pending" ~> status[t] # "pending"
RunningEnds ==
    \A t \in Tasks : status[t] = "running" ~> (status[t] # "running" \/ t \in abandoned)
TasksMoveOn == PendingIsLeft /\ RunningEnds

\* The rows move as the abstract lifecycle says.
Retrying == {req[r].task : r \in {q \in Requests : req[q].pc \in
                {"retry_probe", "retry_adopt", "retry_clear", "retry_requeue"}}}
Lifecycle == INSTANCE TaskLifecycle WITH retrying <- Retrying
LifecycleSpec == Lifecycle!Spec
=============================================================================
