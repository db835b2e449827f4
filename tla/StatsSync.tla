----------------------------- MODULE StatsSync -----------------------------
(***************************************************************************)
(* The delayed compensation of TaskWorkerService: OpenViking vectorises    *)
(* after the worker has marked a task DONE, so timers come back to the     *)
(* task until its vectors are counted and its document has a draft.  The   *)
(* timers live in memory; a scan of the finished rows, at boot and every   *)
(* five minutes, finds the tasks a restart has lost.                       *)
(*                                                                         *)
(* The 24 hours a scan looks back are taken to cover the behaviour: every  *)
(* sync renews updatedAt.                                                  *)
(***************************************************************************)
EXTENDS Naturals, FiniteSets

CONSTANTS
    Tasks,          \* task ids, in the order of their first updatedAt
    Tenants,        \* active tenants
    TenantOf,       \* the tenant a task belongs to
    Tracked,        \* tasks whose sourceType is in STATS_SYNC_SOURCE_TYPES
    NoWait,         \* tasks injected with wait: false
    Documents,      \* tasks whose target is a document node
    Chains,         \* chains of timers that may be alive
    MaxAttempts,    \* length of DELAYED_STATS_SYNC_DELAYS_MS
    ScanLimit,      \* the take of the scan's query
    ReleaseMayFail, \* tenants are MEDIUM: releasing their connection may throw
    MaxSyncs,       \* bound on the manual syncs of a behaviour
    MaxRestarts     \* bound on the crashes of a behaviour

ASSUME TaskAssumption ==
    /\ Tasks \subseteq Nat /\ IsFiniteSet(Tasks)
    /\ Tracked \subseteq Tasks /\ NoWait \subseteq Tasks /\ Documents \subseteq Tasks
    /\ TenantOf \in [Tasks -> Tenants]
ASSUME SyncAssumption ==
    /\ MaxAttempts \in Nat \ {0}
    /\ ScanLimit \in Nat \ {0}
    /\ ReleaseMayFail \in BOOLEAN
    /\ MaxSyncs \in Nat /\ MaxRestarts \in Nat

VARIABLES
    \* durable
    row,         \* "importing", "done", "failed" or "gone"
    counted,     \* import_tasks.vectorCount > 0
    newer,       \* the tasks whose updatedAt is later than a task's
    documented,  \* the document node has a contentUri and a draft
    vectors,     \* OpenViking has vectors under the target
    \* process memory
    phase,       \* "boot" until the first scan is over, then "up"
    returning,   \* what processTask does after the row is DONE
    scheduled,   \* scheduledStatsSyncTaskIds
    chain,       \* timers and the syncs they start
    scanning,    \* isStatsSyncScanning
    unscanned,   \* tenants the scan has still to read
    candidates,  \* what it has read
    manual,      \* a sync request of a user in flight
    \* bookkeeping
    syncs, restarts

rows == <<row, counted, newer, documented>>
scan == <<scanning, unscanned, candidates>>
bounds == <<syncs, restarts>>
vars == <<rows, vectors, phase, returning, scheduled, chain, scan, manual, bounds>>

Seen == {"unknown", "none", "vectors"}  \* {} , 0 and more than 0 of fetchResourceStats
Sees(t) == IF vectors[t] THEN "vectors" ELSE "none"

\* taskRepo.update: the counts, if they were fetched, and updatedAt.
WriteCounts(t, seen) ==
    IF row[t] = "gone" THEN UNCHANGED <<counted, newer>>
    ELSE /\ counted' = [counted EXCEPT ![t] = IF seen = "unknown" THEN @ ELSE seen = "vectors"]
         /\ newer' = [u \in Tasks |-> IF u = t THEN {} ELSE newer[u] \cup {t}]

(***************************************************************************)
(* Chains of timers.                                                       *)
(***************************************************************************)
FreeChain == [pc |-> "free"]
Timer(t, n) == [pc |-> "timer", task |-> t, attempt |-> n]
At(c, pc) == chain[c].pc = pc
Goto(c, pc) == chain' = [chain EXCEPT ![c].pc = pc]
Free == {c \in Chains : chain[c].pc = "free"}

ScheduleAll(new) ==
    \E crew \in SUBSET Free : \E f \in [crew -> new] :
        /\ \A c1, c2 \in crew : f[c1] = f[c2] => c1 = c2
        /\ \A t \in new : \E c \in crew : f[c] = t
        /\ chain' = [c \in Chains |-> IF c \in crew THEN Timer(f[c], 0) ELSE chain[c]]

ScheduleUnchecked(wanted) ==  \* the set is filled and never looked at
    /\ scheduled' = scheduled \cup wanted
    /\ ScheduleAll(wanted)

\* scheduleDelayedStatsSync: nothing for a task that is in the set.
Schedule(wanted) ==
    /\ scheduled' = scheduled \cup wanted
    /\ ScheduleAll(wanted \ scheduled)

ScheduleAttemptKeeps(c, n) ==  \* the last attempt leaves the task in the set
    LET t == chain[c].task IN
    /\ chain' = [chain EXCEPT ![c] = IF n < MaxAttempts THEN Timer(t, n) ELSE FreeChain]
    /\ UNCHANGED scheduled

\* scheduleDelayedStatsSyncAttempt: the next timer, or the end of the chain.
ScheduleAttempt(c, n) ==
    LET t == chain[c].task IN
    IF n < MaxAttempts
    THEN /\ chain' = [chain EXCEPT ![c] = Timer(t, n)]
         /\ UNCHANGED scheduled
    ELSE /\ chain' = [chain EXCEPT ![c] = FreeChain]
         /\ scheduled' = scheduled \ {t}

(***************************************************************************)
(* syncDelayedTaskStats, from one await to the next.                       *)
(***************************************************************************)
ShouldSync(t) ==
    /\ row[t] = "done"
    /\ t \in Tracked
    /\ ~counted[t] \/ (t \in Documents /\ ~documented[t])

Doing(c, pc) == [pc |-> pc, task |-> chain[c].task, attempt |-> chain[c].attempt]

SyncRead(c) ==
    /\ At(c, "timer")
    /\ LET t == chain[c].task IN
        IF ShouldSync(t)
        THEN Goto(c, "fetching") /\ UNCHANGED scheduled
        ELSE /\ chain' = [chain EXCEPT ![c] = Doing(c, "ending")]
             /\ scheduled' = scheduled \ {t}
    /\ UNCHANGED <<rows, vectors, phase, returning, scan, manual, bounds>>

Fetched(c, seen) == [pc |-> "fetched", task |-> chain[c].task,
                     attempt |-> chain[c].attempt, seen |-> seen]

SyncFetch(c) ==
    /\ At(c, "fetching")
    /\ chain' = [chain EXCEPT ![c] = Fetched(c, Sees(chain[c].task))]
    /\ UNCHANGED <<rows, vectors, phase, returning, scheduled, scan, manual, bounds>>

\* fetchResourceStats swallows its errors and returns {}
SyncFetchFails(c) ==
    /\ At(c, "fetching")
    /\ chain' = [chain EXCEPT ![c] = Fetched(c, "unknown")]
    /\ UNCHANGED <<rows, vectors, phase, returning, scheduled, scan, manual, bounds>>

\* The document is given its content and its draft, or not: its target may be
\* ambiguous, or empty.
Document(t) ==
    \E d \in BOOLEAN :
        documented' = [documented EXCEPT ![t] = @ \/ (d /\ t \in Documents)]

\* compensateDocumentImport and compensateDocumentDraft, then the counts.
SyncWrite(c) ==
    /\ At(c, "fetched")
    /\ Document(chain[c].task)
    /\ WriteCounts(chain[c].task, chain[c].seen)
    /\ Goto(c, "refreshing")
    /\ UNCHANGED <<row, vectors, phase, returning, scheduled, scan, manual, bounds>>

\* The knowledge base's counts, and whether the chain goes on.
SyncRefresh(c) ==
    /\ At(c, "refreshing")
    /\ IF chain[c].seen = "vectors"
       THEN /\ chain' = [chain EXCEPT ![c] = Doing(c, "ending")]
            /\ scheduled' = scheduled \ {chain[c].task}
       ELSE /\ chain' = [chain EXCEPT ![c] = Doing(c, "repeating")]
            /\ UNCHANGED scheduled
    /\ UNCHANGED <<rows, vectors, phase, returning, scan, manual, bounds>>

\* The tenant context is released; the chain ends or sets its next timer.
SyncEnd(c) ==
    /\ At(c, "ending")
    /\ chain' = [chain EXCEPT ![c] = FreeChain]
    /\ UNCHANGED <<rows, vectors, phase, returning, scheduled, scan, manual, bounds>>

SyncRepeat(c) ==
    /\ At(c, "repeating")
    /\ ScheduleAttempt(c, chain[c].attempt + 1)
    /\ UNCHANGED <<rows, vectors, phase, returning, scan, manual, bounds>>

\* An await throws: the tenant, the row, the document, an UPDATE, the knowledge
\* base or, whatever was decided before it, the release of the connection.  A
\* draft the document's warm-up has started may still be written.
SyncThrows(c) ==
    /\ \/ \E pc \in {"timer", "fetching", "fetched", "refreshing"} : At(c, pc)
       \/ ReleaseMayFail /\ \E pc \in {"ending", "repeating"} : At(c, pc)
    /\ IF At(c, "fetched") THEN Document(chain[c].task) ELSE UNCHANGED documented
    /\ ScheduleAttempt(c, chain[c].attempt + 1)
    /\ UNCHANGED <<row, counted, newer, vectors, phase, returning, scan, manual, bounds>>

(***************************************************************************)
(* The worker finishes a task, and schedules its compensation after the    *)
(* tenant context is released.                                             *)
(***************************************************************************)
Complete(t) ==
    /\ phase = "up"
    /\ row[t] = "importing"
    /\ row' = [row EXCEPT ![t] = "done"]
    /\ \E seen \in {"unknown", Sees(t)} :
        /\ WriteCounts(t, seen)
        /\ returning' = [returning EXCEPT ![t] =
            IF t \in NoWait \cap Tracked /\ seen # "vectors" THEN "schedule" ELSE "return"]
    /\ \E d \in BOOLEAN : documented' = [documented EXCEPT ![t] = d /\ t \in Documents]
    /\ UNCHANGED <<vectors, phase, scheduled, chain, scan, manual, bounds>>

Return(t) ==
    /\ returning[t] # "no"
    /\ IF returning[t] = "schedule" THEN Schedule({t}) ELSE UNCHANGED <<scheduled, chain>>
    /\ returning' = [returning EXCEPT ![t] = "no"]
    /\ UNCHANGED <<rows, vectors, phase, scan, manual, bounds>>

\* The release throws: the task is marked FAILED with no nodes and no vectors,
\* unless that UPDATE fails as well.
ReturnFails(t) ==
    /\ ReleaseMayFail
    /\ returning[t] # "no"
    /\ \/ /\ row' = [row EXCEPT ![t] = IF @ = "gone" THEN @ ELSE "failed"]
          /\ WriteCounts(t, "none")
       \/ UNCHANGED <<row, counted, newer>>
    /\ returning' = [returning EXCEPT ![t] = "no"]
    /\ UNCHANGED <<documented, vectors, phase, scheduled, chain, scan, manual, bounds>>

(***************************************************************************)
(* The scan.                                                               *)
(***************************************************************************)
ScanStart ==
    /\ ~scanning
    /\ scanning' = TRUE
    /\ unscanned' = Tenants
    /\ candidates' = {}
    /\ UNCHANGED <<rows, vectors, phase, returning, scheduled, chain, manual, bounds>>

\* order by updatedAt desc, take ScanLimit
Latest(S) == {t \in S : Cardinality(newer[t] \cap S) < ScanLimit}

ScanTenant(n) ==
    /\ scanning
    /\ n \in unscanned
    /\ unscanned' = unscanned \ {n}
    /\ candidates' = candidates \cup
        Latest({t \in Tracked : TenantOf[t] = n /\ row[t] = "done"})
    /\ UNCHANGED <<rows, vectors, phase, returning, scheduled, chain, scanning, manual, bounds>>

ScanSkip(n) ==
    /\ scanning
    /\ n \in unscanned
    /\ unscanned' = unscanned \ {n}
    /\ UNCHANGED <<rows, vectors, phase, returning, scheduled, chain, scanning, candidates,
                   manual, bounds>>

ScanScheduleKeepsFlag ==  \* no finally: the flag stays set
    /\ scanning
    /\ unscanned = {}
    /\ Schedule(candidates)
    /\ scanning' = TRUE
    /\ candidates' = {}
    /\ phase' = "up"
    /\ UNCHANGED <<rows, vectors, returning, unscanned, manual, bounds>>

\* Every candidate is scheduled; the scan of onModuleInit ends the boot.
ScanSchedule ==
    /\ scanning
    /\ unscanned = {}
    /\ Schedule(candidates)
    /\ scanning' = FALSE
    /\ candidates' = {}
    /\ phase' = "up"
    /\ UNCHANGED <<rows, vectors, returning, unscanned, manual, bounds>>

(***************************************************************************)
(* Users, OpenViking and the process.                                      *)
(***************************************************************************)
NoRequest == [pc |-> "idle"]

\* syncResult: the stats are read; then the document and the counts are written,
\* or an await throws before the counts.
ManualRead(t) ==
    /\ phase = "up"
    /\ manual.pc = "idle"
    /\ syncs < MaxSyncs
    /\ row[t] # "gone"
    /\ manual' = [pc |-> "writing", task |-> t, seen |-> Sees(t)]
    /\ syncs' = syncs + 1
    /\ UNCHANGED <<rows, vectors, phase, returning, scheduled, chain, scan, restarts>>

ManualWrite ==
    /\ manual.pc = "writing"
    /\ Document(manual.task)
    /\ WriteCounts(manual.task, manual.seen)
    /\ manual' = NoRequest
    /\ UNCHANGED <<row, vectors, phase, returning, scheduled, chain, scan, bounds>>

ManualFails ==
    /\ manual.pc = "writing"
    /\ Document(manual.task)
    /\ manual' = NoRequest
    /\ UNCHANGED <<row, counted, newer, vectors, phase, returning, scheduled, chain, scan, bounds>>

\* loadContent: a user who opens the document fills its draft.
Open(t) ==
    /\ phase = "up"
    /\ row[t] = "done"
    /\ Document(t)
    /\ UNCHANGED <<row, counted, newer, vectors, phase, returning, scheduled, chain, scan,
                   manual, bounds>>

Delete(t) ==
    /\ phase = "up"
    /\ row[t] \in {"done", "failed"}
    /\ row' = [row EXCEPT ![t] = "gone"]
    /\ UNCHANGED <<counted, newer, documented, vectors, phase, returning, scheduled, chain,
                   scan, manual, bounds>>

VectorsArrive(t) ==
    /\ ~vectors[t]
    /\ row[t] # "gone"
    /\ vectors' = [vectors EXCEPT ![t] = TRUE]
    /\ UNCHANGED <<rows, phase, returning, scheduled, chain, scan, manual, bounds>>

Crash ==
    /\ restarts < MaxRestarts
    /\ restarts' = restarts + 1
    /\ phase' = "boot"
    /\ returning' = [t \in Tasks |-> "no"]
    /\ scheduled' = {}
    /\ chain' = [c \in Chains |-> FreeChain]
    /\ scanning' = FALSE
    /\ unscanned' = {}
    /\ candidates' = {}
    /\ manual' = NoRequest
    /\ UNCHANGED <<rows, vectors, syncs>>

Init ==
    /\ row = [t \in Tasks |-> "importing"]
    /\ counted = [t \in Tasks |-> FALSE]
    /\ newer = [t \in Tasks |-> {u \in Tasks : u > t}]
    /\ documented = [t \in Tasks |-> FALSE]
    /\ vectors = [t \in Tasks |-> FALSE]
    /\ phase = "boot"
    /\ returning = [t \in Tasks |-> "no"]
    /\ scheduled = {}
    /\ chain = [c \in Chains |-> FreeChain]
    /\ scanning = FALSE
    /\ unscanned = {}
    /\ candidates = {}
    /\ manual = NoRequest
    /\ syncs = 0
    /\ restarts = 0

Sync(c) ==
    \/ SyncRead(c) \/ SyncFetch(c) \/ SyncFetchFails(c)
    \/ SyncWrite(c) \/ SyncRefresh(c) \/ SyncEnd(c) \/ SyncRepeat(c)
    \/ SyncThrows(c)

Scan == ScanStart \/ ScanSchedule \/ \E n \in Tenants : ScanTenant(n) \/ ScanSkip(n)

Finish(t) == Complete(t) \/ Return(t) \/ ReturnFails(t)

User == ManualWrite \/ ManualFails \/ \E t \in Tasks : ManualRead(t) \/ Open(t) \/ Delete(t)

Next ==
    \/ \E c \in Chains : Sync(c)
    \/ Scan
    \/ \E t \in Tasks : Finish(t) \/ VectorsArrive(t)
    \/ User
    \/ Crash

Spec == Init /\ [][Next]_vars

(***************************************************************************)
(* Fairness: timers fire and awaits end, the scan's interval keeps firing, *)
(* and no request fails every single time: reading the row, fetching the   *)
(* stats, and writing vectors that were seen succeed again and again when  *)
(* they are tried again and again.  Users, OpenViking's queue and crashes  *)
(* promise nothing.                                                        *)
(***************************************************************************)
Fairness ==
    /\ \A c \in Chains :
        /\ WF_vars(Sync(c))
        /\ SF_vars(SyncRead(c)) /\ SF_vars(SyncFetch(c))
        /\ SF_vars(SyncWrite(c) /\ chain[c].seen = "vectors")
    /\ WF_vars(ScanStart) /\ WF_vars(ScanSchedule)
    /\ \A n \in Tenants : SF_vars(ScanTenant(n))
    /\ \A t \in Tasks : WF_vars(Return(t) \/ ReturnFails(t))

FairSpec == Spec /\ Fairness

(***************************************************************************)
(* Properties.                                                             *)
(***************************************************************************)
Attempts == 0..(MaxAttempts - 1)
ChainRec ==
    [pc : {"free"}]
    \cup [pc : {"timer", "fetching", "repeating", "ending"}, task : Tasks, attempt : Attempts]
    \cup [pc : {"fetched", "refreshing"}, task : Tasks, attempt : Attempts, seen : Seen]
RequestRec == [pc : {"idle"}] \cup [pc : {"writing"}, task : Tasks, seen : Seen]

\* Every variable has its type: the type invariant.
TypeOK ==
    /\ row \in [Tasks -> {"importing", "done", "failed", "gone"}]
    /\ counted \in [Tasks -> BOOLEAN]
    /\ newer \in [Tasks -> SUBSET Tasks]
    /\ documented \in [Tasks -> BOOLEAN]
    /\ vectors \in [Tasks -> BOOLEAN]
    /\ phase \in {"boot", "up"}
    /\ returning \in [Tasks -> {"no", "return", "schedule"}]
    /\ scheduled \subseteq Tasks
    /\ chain \in [Chains -> ChainRec]
    /\ scanning \in BOOLEAN
    /\ unscanned \subseteq Tenants
    /\ candidates \subseteq Tasks
    /\ manual \in RequestRec
    /\ syncs \in 0..MaxSyncs
    /\ restarts \in 0..MaxRestarts

\* A chain that will still come back to its task.
Live(c) == chain[c].pc \notin {"free", "ending"}

\* A task in the set cannot be scheduled, so a chain must be serving it: on no
\* path does a chain end and leave its task in the set, out of every scan's reach.
ScheduledIsServed ==
    \A t \in scheduled : \E c \in Chains : Live(c) /\ chain[c].task = t

\* A live chain's task is in the set (while releasing cannot fail): the set alone
\* tells whether a task is being served.
LiveIsScheduled ==
    \A c \in Chains : Live(c) => chain[c].task \in scheduled

\* While releasing a connection cannot fail, a task is served by one chain.
OneLiveChain ==
    \A c1, c2 \in Chains :
        Live(c1) /\ Live(c2) /\ chain[c1].task = chain[c2].task => c1 = c2

\* No sync of the worker writes a zero it read before the vectors came over
\* their count (a user's sync, which overlaps a chain's, may).
CountStays ==
    [][\A t \in Tasks :
        row[t] = "done" /\ counted[t] /\ syncs = 0 => counted'[t]]_vars

\* A finished task whose vectors exist is counted, or removed, or failed after
\* all: whatever the timers, the scans, the syncs of users and a crash do.
CountedEventually ==
    \A t \in Tracked :
        row[t] = "done" /\ vectors[t] /\ ~counted[t] ~> row[t] # "done" \/ counted[t]

=============================================================================
