-------------------------- MODULE StatsSyncProofs --------------------------
(***************************************************************************)
(* Theorems about StatsSync, for every value of its constants.             *)
(***************************************************************************)
EXTENDS StatsSync, TLAPS

(***************************************************************************)
(* What steps do to the chains and to the set of scheduled tasks.          *)
(***************************************************************************)
\* Scheduling starts one chain for each new task, in free places, and leaves
\* every chain that is alive alone.
LEMMA ScheduleAllStarts ==
    ASSUME SyncAssumption, chain \in [Chains -> ChainRec], NEW new \in SUBSET Tasks,
           ScheduleAll(new)
    PROVE  /\ chain' \in [Chains -> ChainRec]
           /\ \A c \in Chains : chain[c].pc # "free" => chain'[c] = chain[c]
           /\ \A c \in Chains :
                chain'[c] # chain[c] => chain'[c].task \in new /\ chain'[c].pc = "timer"
           /\ \A t \in new : \E c \in Chains : chain'[c].pc = "timer" /\ chain'[c].task = t
           /\ \A c1, c2 \in Chains :
                /\ chain'[c1] # chain[c1]
                /\ chain'[c2] # chain[c2]
                /\ chain'[c1].task = chain'[c2].task
                => c1 = c2
  <1>0. PICK crew \in SUBSET Free : \E f \in [crew -> new] :
            /\ \A c1, c2 \in crew : f[c1] = f[c2] => c1 = c2
            /\ \A t \in new : \E c \in crew : f[c] = t
            /\ chain' = [c \in Chains |-> IF c \in crew THEN Timer(f[c], 0) ELSE chain[c]]
    BY DEF ScheduleAll
  <1>1. PICK f \in [crew -> new] :
            /\ \A c1, c2 \in crew : f[c1] = f[c2] => c1 = c2
            /\ \A t \in new : \E c \in crew : f[c] = t
            /\ chain' = [c \in Chains |-> IF c \in crew THEN Timer(f[c], 0) ELSE chain[c]]
    BY <1>0
  <1>2. \A c \in crew : chain'[c] = Timer(f[c], 0) /\ f[c] \in new /\ chain[c].pc = "free"
    BY <1>1 DEF Free
  <1>3. \A c \in Chains \ crew : chain'[c] = chain[c]
    BY <1>1
  <1>4. \A t \in Tasks : Timer(t, 0) \in ChainRec
    BY DEF Timer, ChainRec, Attempts, SyncAssumption
  <1>5. chain' \in [Chains -> ChainRec]
    BY <1>1, <1>2, <1>4 DEF Free
  <1>6. \A t \in Tasks : Timer(t, 0).task = t /\ Timer(t, 0).pc = "timer"
    BY DEF Timer
  <1>7. \A t \in new : \E c \in Chains : chain'[c].pc = "timer" /\ chain'[c].task = t
    BY <1>1, <1>2, <1>6 DEF Free
  <1>8. \A c \in Chains : chain'[c] # chain[c] =>
            c \in crew /\ chain'[c].task = f[c] /\ chain'[c].pc = "timer" /\ f[c] \in new
    BY <1>2, <1>3, <1>6
  <1>9. \A c \in Chains : chain[c].pc # "free" => chain'[c] = chain[c]
    BY <1>2, <1>3
  <1>10. \A c1, c2 \in Chains :
                /\ chain'[c1] # chain[c1]
                /\ chain'[c2] # chain[c2]
                /\ chain'[c1].task = chain'[c2].task
                => c1 = c2
    BY <1>1, <1>8
  <1> QED
    BY <1>5, <1>7, <1>8, <1>9, <1>10

\* Only the chain changes, and what it does to the set agrees with what becomes
\* of it: it stays alive with its task and the set is left alone, or it dies and
\* its task leaves the set, or it was already over and only frees its place.
ChainStep(c) ==
    LET t == chain[c].task IN
    /\ chain[c].pc # "free"
    /\ t \in Tasks
    /\ chain' \in [Chains -> ChainRec]
    /\ \A d \in Chains \ {c} : chain'[d] = chain[d]
    /\ \/ Live(c) \/ ReleaseMayFail
       \/ ~Live(c)'
    /\ \/ Live(c)' /\ chain'[c].task = t /\ scheduled' = scheduled
       \/ ~Live(c)' /\ scheduled' = scheduled \ {t} /\ (Live(c) \/ ReleaseMayFail)
       \/ ~Live(c) /\ ~Live(c)' /\ scheduled' = scheduled

\* The next attempt of a chain is a step of that kind, whether there is one or not.
LEMMA AttemptIsChainStep ==
    ASSUME SyncAssumption, chain \in [Chains -> ChainRec], NEW c \in Chains,
           chain[c].pc # "free", Live(c) \/ ReleaseMayFail,
           ScheduleAttempt(c, chain[c].attempt + 1)
    PROVE  ChainStep(c)
  <1>1. chain[c].task \in Tasks /\ chain[c].attempt \in Attempts
    BY DEF ChainRec
  <1>2. CASE chain[c].attempt + 1 < MaxAttempts
    <2>1. Timer(chain[c].task, chain[c].attempt + 1) \in ChainRec
      BY <1>1, <1>2 DEF Timer, ChainRec, Attempts, SyncAssumption
    <2>2. /\ chain' = [chain EXCEPT ![c] = Timer(chain[c].task, chain[c].attempt + 1)]
          /\ scheduled' = scheduled
      BY <1>2 DEF ScheduleAttempt
    <2>3. chain'[c].pc = "timer" /\ chain'[c].task = chain[c].task
      BY <2>2 DEF Timer
    <2> QED
      BY <1>1, <2>1, <2>2, <2>3 DEF ChainStep, Live
  <1>3. CASE ~(chain[c].attempt + 1 < MaxAttempts)
    <2>1. /\ chain' = [chain EXCEPT ![c] = FreeChain]
          /\ scheduled' = scheduled \ {chain[c].task}
      BY <1>3 DEF ScheduleAttempt
    <2>2. chain'[c].pc = "free" /\ FreeChain \in ChainRec
      BY <2>1 DEF FreeChain, ChainRec
    <2> QED
      BY <1>1, <2>1, <2>2 DEF ChainStep, Live
  <1> QED
    BY <1>2, <1>3

\* Every step of a sync is.
LEMMA SyncIsChainStep ==
    ASSUME SyncAssumption, TypeOK, NEW c \in Chains, Sync(c)
    PROVE  ChainStep(c)
  <1> USE DEF At
  <1>1. chain \in [Chains -> ChainRec] /\ chain[c] \in ChainRec
    BY DEF TypeOK
  <1>2. \A pc \in {"timer", "fetching", "ending", "repeating"} :
            chain[c].pc # "free" => Doing(c, pc) \in ChainRec
    BY <1>1 DEF Doing, ChainRec
  <1>3. CASE SyncRead(c)
    <2>1. chain[c].task \in Tasks /\ chain[c].pc = "timer"
      BY <1>1, <1>3 DEF SyncRead, ChainRec
    <2>2. CASE ShouldSync(chain[c].task)
      <3>1. chain' = [chain EXCEPT ![c].pc = "fetching"] /\ scheduled' = scheduled
        BY <1>3, <2>2 DEF SyncRead, Goto
      <3>2. /\ chain'[c].pc = "fetching"
            /\ chain'[c].task = chain[c].task
            /\ chain'[c] \in ChainRec
        BY <1>1, <2>1, <3>1 DEF ChainRec
      <3> QED
        BY <1>1, <2>1, <3>1, <3>2 DEF ChainStep, Live
    <2>3. CASE ~ShouldSync(chain[c].task)
      <3>1. /\ chain' = [chain EXCEPT ![c] = Doing(c, "ending")]
            /\ scheduled' = scheduled \ {chain[c].task}
        BY <1>3, <2>3 DEF SyncRead
      <3>2. chain'[c].pc = "ending" /\ chain'[c] \in ChainRec
        BY <1>1, <1>2, <2>1, <3>1 DEF Doing
      <3> QED
        BY <1>1, <2>1, <3>1, <3>2 DEF ChainStep, Live
    <2> QED
      BY <2>2, <2>3
  <1>4. CASE SyncFetch(c) \/ SyncFetchFails(c)
    <2>1. chain[c].task \in Tasks /\ chain[c].attempt \in Attempts /\ chain[c].pc = "fetching"
      BY <1>1, <1>4 DEF SyncFetch, SyncFetchFails, ChainRec
    <2>2. PICK seen \in Seen : chain' = [chain EXCEPT ![c] = Fetched(c, seen)]
      BY <1>4 DEF SyncFetch, SyncFetchFails, Seen, Sees
    <2>3. Fetched(c, seen) \in ChainRec
      BY <2>1 DEF Fetched, ChainRec
    <2>4. chain'[c].pc = "fetched" /\ chain'[c].task = chain[c].task
      BY <1>1, <2>2 DEF Fetched
    <2> QED
      BY <1>1, <1>4, <2>1, <2>2, <2>3, <2>4 DEF ChainStep, Live, SyncFetch, SyncFetchFails
  <1>5. CASE SyncWrite(c)
    <2>1. chain[c].task \in Tasks /\ chain[c].pc = "fetched"
      BY <1>1, <1>5 DEF SyncWrite, ChainRec
    <2>2. chain' = [chain EXCEPT ![c].pc = "refreshing"] /\ scheduled' = scheduled
      BY <1>5 DEF SyncWrite, Goto
    <2>3. /\ chain'[c].pc = "refreshing"
          /\ chain'[c].task = chain[c].task
          /\ chain'[c] \in ChainRec
      BY <1>1, <2>1, <2>2 DEF ChainRec
    <2> QED
      BY <1>1, <2>1, <2>2, <2>3 DEF ChainStep, Live
  <1>6. CASE SyncRefresh(c)
    <2>1. chain[c].task \in Tasks /\ chain[c].pc = "refreshing"
      BY <1>1, <1>6 DEF SyncRefresh, ChainRec
    <2>2. \/ /\ chain' = [chain EXCEPT ![c] = Doing(c, "ending")]
             /\ scheduled' = scheduled \ {chain[c].task}
          \/ /\ chain' = [chain EXCEPT ![c] = Doing(c, "repeating")]
             /\ scheduled' = scheduled
      BY <1>6 DEF SyncRefresh
    <2>3. \A pc \in {"ending", "repeating"} :
            /\ Doing(c, pc) \in ChainRec
            /\ Doing(c, pc).pc = pc
            /\ Doing(c, pc).task = chain[c].task
      BY <1>2, <2>1 DEF Doing
    <2> QED
      BY <1>1, <2>1, <2>2, <2>3 DEF ChainStep, Live
  <1>7. CASE SyncEnd(c)
    <2>1. chain[c].task \in Tasks /\ chain[c].pc = "ending"
      BY <1>1, <1>7 DEF SyncEnd, ChainRec
    <2>2. chain' = [chain EXCEPT ![c] = FreeChain] /\ scheduled' = scheduled
      BY <1>7 DEF SyncEnd
    <2>3. FreeChain \in ChainRec /\ chain'[c].pc = "free"
      BY <1>1, <2>2 DEF FreeChain, ChainRec
    <2> QED
      BY <1>1, <2>1, <2>2, <2>3 DEF ChainStep, Live
  <1>8. CASE SyncRepeat(c)
    BY <1>1, <1>8, AttemptIsChainStep DEF SyncRepeat, Live
  <1>9. CASE SyncThrows(c)
    <2>1. chain[c].pc # "free" /\ (Live(c) \/ ReleaseMayFail)
      BY <1>9 DEF SyncThrows, Live
    <2> QED
      BY <1>1, <1>9, <2>1, AttemptIsChainStep DEF SyncThrows
  <1> QED
    BY <1>3, <1>4, <1>5, <1>6, <1>7, <1>8, <1>9 DEF Sync

\* Every step is a step of a chain, the start of chains for tasks that are not in
\* the set, a crash, or leaves the chains and the set alone.
LEMMA StepOfChains ==
    ASSUME TaskAssumption, SyncAssumption, TypeOK, [Next]_vars
    PROVE  \/ \E c \in Chains : ChainStep(c)
           \/ \E wanted \in SUBSET Tasks : Schedule(wanted)
           \/ scheduled' = {} /\ chain' = [c \in Chains |-> FreeChain]
           \/ UNCHANGED <<chain, scheduled>>
  <1>1. CASE \E c \in Chains : Sync(c)
    BY <1>1, SyncIsChainStep
  <1>2. CASE Scan
    BY <1>2 DEF Scan, ScanStart, ScanSchedule, ScanTenant, ScanSkip, TypeOK
  <1>3. CASE \E t \in Tasks : Finish(t) \/ VectorsArrive(t)
    <2>1. PICK t \in Tasks : Finish(t) \/ VectorsArrive(t)
      BY <1>3
    <2>2. {t} \in SUBSET Tasks
      OBVIOUS
    <2> QED
      BY <2>1, <2>2 DEF Finish, Complete, Return, ReturnFails, VectorsArrive
  <1>4. CASE User
    BY <1>4 DEF User, ManualWrite, ManualFails, ManualRead, Open, Delete
  <1>5. CASE Crash
    BY <1>5 DEF Crash
  <1>6. CASE UNCHANGED vars
    BY <1>6 DEF vars
  <1> QED
    BY <1>1, <1>2, <1>3, <1>4, <1>5, <1>6 DEF Next

(***************************************************************************)
(* A task in the set is served.                                            *)
(***************************************************************************)
\* No step ends the last chain of a task and leaves the task in the set.
LEMMA StepKeepsServed ==
    ASSUME TaskAssumption, SyncAssumption, TypeOK, ScheduledIsServed, [Next]_vars
    PROVE  ScheduledIsServed'
  <1> SUFFICES ASSUME NEW t \in scheduled'
               PROVE  \E c \in Chains : Live(c)' /\ chain'[c].task = t
    BY DEF ScheduledIsServed, Live
  <1>1. CASE \E c \in Chains : ChainStep(c)
    <2>1. PICK c \in Chains : ChainStep(c)
      BY <1>1
    <2>2. t \in scheduled
      BY <2>1 DEF ChainStep
    <2>3. PICK d \in Chains : Live(d) /\ chain[d].task = t
      BY <2>2 DEF ScheduledIsServed
    <2>4. CASE d = c
      BY <2>1, <2>3, <2>4 DEF ChainStep
    <2>5. CASE d # c
      <3>1. chain'[d] = chain[d]
        BY <2>1, <2>5 DEF ChainStep
      <3> QED
        BY <2>3, <3>1 DEF Live
    <2> QED
      BY <2>4, <2>5
  <1>2. CASE \E wanted \in SUBSET Tasks : Schedule(wanted)
    <2>1. PICK wanted \in SUBSET Tasks : Schedule(wanted)
      BY <1>2
    <2>2. /\ \A c \in Chains : chain[c].pc # "free" => chain'[c] = chain[c]
          /\ \A u \in wanted \ scheduled :
                \E c \in Chains : chain'[c].pc = "timer" /\ chain'[c].task = u
      BY <2>1, ScheduleAllStarts DEF Schedule, TypeOK
    <2>3. CASE t \in scheduled
      <3>1. PICK d \in Chains : Live(d) /\ chain[d].task = t
        BY <2>3 DEF ScheduledIsServed
      <3> QED
        BY <2>2, <3>1 DEF Live
    <2>4. CASE t \notin scheduled
      <3>1. t \in wanted \ scheduled
        BY <2>1, <2>4 DEF Schedule
      <3> QED
        BY <2>2, <3>1 DEF Live
    <2> QED
      BY <2>3, <2>4
  <1>3. CASE scheduled' = {} /\ chain' = [c \in Chains |-> FreeChain]
    BY <1>3
  <1>4. CASE UNCHANGED <<chain, scheduled>>
    BY <1>4 DEF ScheduledIsServed, Live
  <1> QED
    BY <1>1, <1>2, <1>3, <1>4, StepOfChains

(***************************************************************************)
(* A task is served by one chain.                                          *)
(***************************************************************************)
\* While a release cannot fail, the set holds exactly the tasks that are served,
\* so the check of the set before a chain is started keeps it the only one.
LEMMA StepKeepsOneChain ==
    ASSUME TaskAssumption, SyncAssumption, ~ReleaseMayFail,
           TypeOK, LiveIsScheduled, OneLiveChain, [Next]_vars
    PROVE  LiveIsScheduled' /\ OneLiveChain'
  <1>1. CASE \E c \in Chains : ChainStep(c)
    <2>1. PICK c \in Chains : ChainStep(c)
      BY <1>1
    <2>2. \A d \in Chains : Live(d)' => Live(d) /\ chain'[d].task = chain[d].task
      BY <2>1 DEF ChainStep, Live
    <2>3. ASSUME NEW d \in Chains, Live(d)'
          PROVE  chain'[d].task \in scheduled'
      <3>1. chain[d].task \in scheduled /\ Live(d)
        BY <2>2, <2>3 DEF LiveIsScheduled
      <3>2. chain[d].task = chain[c].task /\ Live(c) => d = c
        BY <3>1 DEF OneLiveChain
      <3> QED
        BY <2>1, <2>2, <2>3, <3>1, <3>2 DEF ChainStep
    <2> QED
      BY <2>2, <2>3 DEF LiveIsScheduled, OneLiveChain, Live
  <1>2. CASE \E wanted \in SUBSET Tasks : Schedule(wanted)
    <2>1. PICK wanted \in SUBSET Tasks : Schedule(wanted)
      BY <1>2
    <2>2. /\ \A d \in Chains : chain[d].pc # "free" => chain'[d] = chain[d]
          /\ \A d \in Chains : chain'[d] # chain[d] =>
                chain'[d].task \in wanted \ scheduled /\ chain'[d].pc = "timer"
          /\ \A c1, c2 \in Chains :
                /\ chain'[c1] # chain[c1]
                /\ chain'[c2] # chain[c2]
                /\ chain'[c1].task = chain'[c2].task
                => c1 = c2
      BY <2>1, ScheduleAllStarts DEF Schedule, TypeOK
    <2>3. scheduled' = scheduled \cup wanted
      BY <2>1 DEF Schedule
    <2>4. \A d \in Chains : Live(d)' =>
            \/ chain'[d] = chain[d] /\ Live(d) /\ chain[d].task \in scheduled
            \/ chain'[d] # chain[d] /\ chain'[d].task \in wanted \ scheduled
      BY <2>2 DEF Live, LiveIsScheduled
    <2>5. LiveIsScheduled'
      BY <2>3, <2>4 DEF LiveIsScheduled, Live
    <2>6. ASSUME NEW c1 \in Chains, NEW c2 \in Chains, Live(c1)', Live(c2)',
                 chain'[c1].task = chain'[c2].task
          PROVE  c1 = c2
      BY <2>2, <2>4, <2>6 DEF OneLiveChain
    <2> QED
      BY <2>5, <2>6 DEF OneLiveChain, Live
  <1>3. CASE scheduled' = {} /\ chain' = [c \in Chains |-> FreeChain]
    BY <1>3 DEF LiveIsScheduled, OneLiveChain, Live, FreeChain
  <1>4. CASE UNCHANGED <<chain, scheduled>>
    BY <1>4 DEF LiveIsScheduled, OneLiveChain, Live
  <1> QED
    BY <1>1, <1>2, <1>3, <1>4, StepOfChains

(***************************************************************************)
(* Types.                                                                  *)
(***************************************************************************)
\* Counts and the order of updatedAt keep their types.
LEMMA WriteCountsType ==
    ASSUME counted \in [Tasks -> BOOLEAN], newer \in [Tasks -> SUBSET Tasks],
           NEW t \in Tasks, NEW seen \in Seen, WriteCounts(t, seen)
    PROVE  counted' \in [Tasks -> BOOLEAN] /\ newer' \in [Tasks -> SUBSET Tasks]
  <1>1. CASE row[t] = "gone"
    BY <1>1 DEF WriteCounts
  <1>2. CASE row[t] # "gone"
    <2>1. newer' = [u \in Tasks |-> IF u = t THEN {} ELSE newer[u] \cup {t}]
      BY <1>2 DEF WriteCounts
    <2>2. PICK b \in BOOLEAN : counted' = [counted EXCEPT ![t] = b]
      BY <1>2 DEF WriteCounts
    <2> QED
      BY <2>1, <2>2
  <1> QED
    BY <1>1, <1>2

\* What giving a document its content and its draft keeps.
LEMMA DocumentType ==
    ASSUME documented \in [Tasks -> BOOLEAN], NEW t, Document(t)
    PROVE  documented' \in [Tasks -> BOOLEAN]
  BY DEF Document

\* Every step keeps every variable's type.
LEMMA StepKeepsType ==
    ASSUME TaskAssumption, SyncAssumption, TypeOK, [Next]_vars
    PROVE  TypeOK'
  <1> USE DEF rows, scan, bounds
  <1>1. chain' \in [Chains -> ChainRec] /\ scheduled' \subseteq Tasks
    <2>1. FreeChain \in ChainRec
      BY DEF FreeChain, ChainRec
    <2>2. ASSUME NEW wanted \in SUBSET Tasks, Schedule(wanted)
          PROVE  chain' \in [Chains -> ChainRec] /\ scheduled' \subseteq Tasks
      BY <2>2, ScheduleAllStarts DEF Schedule, TypeOK
    <2> QED
      BY <2>1, <2>2, StepOfChains DEF ChainStep, TypeOK
  <1>2. CASE \E c \in Chains : Sync(c)
    <2>1. PICK c \in Chains : Sync(c)
      BY <1>2
    <2>2. chain[c] \in ChainRec
      BY DEF TypeOK
    <2>3. CASE SyncWrite(c)
      <3>1. chain[c].task \in Tasks /\ chain[c].seen \in Seen
        BY <2>2, <2>3 DEF SyncWrite, At, ChainRec
      <3>2. counted' \in [Tasks -> BOOLEAN] /\ newer' \in [Tasks -> SUBSET Tasks]
        BY <2>3, <3>1, WriteCountsType DEF SyncWrite, TypeOK
      <3>3. documented' \in [Tasks -> BOOLEAN]
        BY <2>3, <3>1, DocumentType DEF SyncWrite, TypeOK
      <3> QED
        BY <1>1, <2>3, <3>2, <3>3 DEF SyncWrite, TypeOK
    <2>4. CASE SyncThrows(c)
      <3>1. documented' \in [Tasks -> BOOLEAN]
        BY <2>4, DocumentType DEF SyncThrows, TypeOK
      <3> QED
        BY <1>1, <2>4, <3>1 DEF SyncThrows, TypeOK
    <2>5. CASE SyncRead(c) \/ SyncFetch(c) \/ SyncFetchFails(c) \/ SyncRefresh(c)
               \/ SyncEnd(c) \/ SyncRepeat(c)
      BY <1>1, <2>5 DEF SyncRead, SyncFetch, SyncFetchFails, SyncRefresh, SyncEnd,
         SyncRepeat, TypeOK
    <2> QED
      BY <2>1, <2>3, <2>4, <2>5 DEF Sync
  <1>3. CASE Scan
    <2>1. \A n \in Tenants : Latest({t \in Tracked : TenantOf[t] = n /\ row[t] = "done"}) \subseteq Tasks
      BY DEF Latest, TaskAssumption
    <2> QED
      BY <1>1, <1>3, <2>1 DEF Scan, ScanStart, ScanSchedule, ScanTenant, ScanSkip, TypeOK
  <1>4. CASE \E t \in Tasks : Finish(t) \/ VectorsArrive(t)
    <2>1. PICK t \in Tasks : Finish(t) \/ VectorsArrive(t)
      BY <1>4
    <2>2. CASE Complete(t)
      <3>1. PICK seen \in Seen : WriteCounts(t, seen) /\ returning' = [returning EXCEPT ![t] =
            IF t \in NoWait \cap Tracked /\ seen # "vectors" THEN "schedule" ELSE "return"]
        BY <2>2 DEF Complete, Sees, Seen
      <3>2. counted' \in [Tasks -> BOOLEAN] /\ newer' \in [Tasks -> SUBSET Tasks]
        BY <3>1, WriteCountsType DEF TypeOK
      <3>3. documented' \in [Tasks -> BOOLEAN]
        BY <2>2 DEF Complete, TypeOK
      <3>4. returning' \in [Tasks -> {"no", "return", "schedule"}]
        BY <3>1 DEF TypeOK
      <3> QED
        BY <1>1, <2>2, <3>2, <3>3, <3>4 DEF Complete, TypeOK
    <2>3. CASE ReturnFails(t)
      <3>1. counted' \in [Tasks -> BOOLEAN] /\ newer' \in [Tasks -> SUBSET Tasks]
        BY <2>3, WriteCountsType DEF ReturnFails, TypeOK, Seen
      <3>2. row' \in [Tasks -> {"importing", "done", "failed", "gone"}]
        BY <2>3 DEF ReturnFails, TypeOK
      <3> QED
        BY <1>1, <2>3, <3>1, <3>2 DEF ReturnFails, TypeOK
    <2>4. CASE Return(t) \/ VectorsArrive(t)
      BY <1>1, <2>4 DEF Return, VectorsArrive, TypeOK
    <2> QED
      BY <2>1, <2>2, <2>3, <2>4 DEF Finish
  <1>5. CASE User
    <2>1. CASE ManualWrite
      <3>1. manual.task \in Tasks /\ manual.seen \in Seen
        BY <2>1 DEF ManualWrite, TypeOK, RequestRec
      <3>2. counted' \in [Tasks -> BOOLEAN] /\ newer' \in [Tasks -> SUBSET Tasks]
        BY <2>1, <3>1, WriteCountsType DEF ManualWrite, TypeOK
      <3>3. documented' \in [Tasks -> BOOLEAN]
        BY <2>1, DocumentType DEF ManualWrite, TypeOK
      <3> QED
        BY <1>1, <2>1, <3>2, <3>3 DEF ManualWrite, NoRequest, RequestRec, TypeOK
    <2>2. CASE ManualFails
      <3>1. documented' \in [Tasks -> BOOLEAN]
        BY <2>2, DocumentType DEF ManualFails, TypeOK
      <3> QED
        BY <1>1, <2>2, <3>1 DEF ManualFails, NoRequest, RequestRec, TypeOK
    <2>3. ASSUME NEW t \in Tasks, ManualRead(t)
          PROVE  TypeOK'
      <3>1. syncs' \in 0..MaxSyncs
        BY <2>3 DEF ManualRead, TypeOK, SyncAssumption
      <3>2. manual' \in RequestRec
        BY <2>3 DEF ManualRead, RequestRec, Sees, Seen
      <3> QED
        BY <1>1, <2>3, <3>1, <3>2 DEF ManualRead, TypeOK
    <2>4. ASSUME NEW t \in Tasks, Delete(t)
          PROVE  TypeOK'
      BY <1>1, <2>4 DEF Delete, TypeOK
    <2>5. ASSUME NEW t \in Tasks, Open(t)
          PROVE  TypeOK'
      <3>1. documented' \in [Tasks -> BOOLEAN]
        BY <2>5, DocumentType DEF Open, TypeOK
      <3> QED
        BY <1>1, <2>5, <3>1 DEF Open, TypeOK
    <2> QED
      BY <1>5, <2>1, <2>2, <2>3, <2>4, <2>5 DEF User
  <1>6. CASE Crash
    <2>1. restarts' \in 0..MaxRestarts
      BY <1>6 DEF Crash, TypeOK, SyncAssumption
    <2> QED
      BY <1>1, <1>6, <2>1 DEF Crash, NoRequest, RequestRec, TypeOK
  <1>7. CASE UNCHANGED vars
    BY <1>7 DEF vars, TypeOK
  <1> QED
    BY <1>2, <1>3, <1>4, <1>5, <1>6, <1>7 DEF Next

(***************************************************************************)
(* A count stays.                                                          *)
(***************************************************************************)
\* What a sync has read still fits what is stored: its task is over, vectors it
\* has seen are there, and where it has seen none nothing is counted.
ReadFits(c) ==
    chain[c].pc \in {"fetching", "fetched", "refreshing"} =>
        /\ row[chain[c].task] # "importing"
        /\ chain[c].pc = "fetched" /\ chain[c].seen = "vectors" => vectors[chain[c].task]
        /\ chain[c].pc = "fetched" /\ chain[c].seen = "none" => ~counted[chain[c].task]

\* Before the first sync of a user, a count is of vectors OpenViking has, and no
\* chain holds a reading that has become wrong.
CountsAreSeen ==
    syncs = 0 =>
        /\ manual.pc = "idle"
        /\ \A t \in Tasks : counted[t] => vectors[t]
        /\ \A c \in Chains : ReadFits(c)

\* The counts a task is left with: they stay as they are, or become what was seen.
LEMMA WrittenCounts ==
    ASSUME TypeOK, NEW t \in Tasks, NEW seen \in Seen, WriteCounts(t, seen)
    PROVE  /\ \A u \in Tasks \ {t} : counted'[u] = counted[u]
           /\ counted'[t] => counted[t] \/ seen = "vectors"
           /\ counted[t] => counted'[t] \/ seen = "none"
  <1>1. counted \in [Tasks -> BOOLEAN]
    BY DEF TypeOK
  <1>2. CASE row[t] = "gone"
    BY <1>2 DEF WriteCounts
  <1>3. CASE row[t] # "gone" /\ seen = "unknown"
    <2>1. counted' = [counted EXCEPT ![t] = counted[t]]
      BY <1>3 DEF WriteCounts
    <2> QED
      BY <1>1, <2>1
  <1>4. CASE row[t] # "gone" /\ seen # "unknown"
    <2>1. counted' = [counted EXCEPT ![t] = (seen = "vectors")]
      BY <1>4 DEF WriteCounts
    <2>2. counted'[t] <=> seen = "vectors"
      BY <1>1, <2>1, Zenon
    <2>3. \A u \in Tasks \ {t} : counted'[u] = counted[u]
      BY <1>1, <2>1
    <2> QED
      BY <1>4, <2>2, <2>3 DEF Seen
  <1> QED
    BY <1>2, <1>3, <1>4

\* A chain that did not move still fits, as long as its task's row, count and
\* vectors are what they were.
LEMMA StillFits ==
    ASSUME NEW c \in Chains, ReadFits(c), chain'[c] = chain[c],
           row'[chain[c].task] # "importing" \/ row'[chain[c].task] = row[chain[c].task],
           vectors[chain[c].task] => vectors'[chain[c].task],
           counted'[chain[c].task] => counted[chain[c].task]
    PROVE  ReadFits(c)'
  BY DEF ReadFits

\* Starting chains leaves what the others have read alone.
LEMMA StartedFit ==
    ASSUME SyncAssumption, TypeOK, NEW wanted \in SUBSET Tasks, Schedule(wanted),
           \A c \in Chains : ReadFits(c), UNCHANGED <<row, counted, vectors>>
    PROVE  \A c \in Chains : ReadFits(c)'
  <1>1. /\ \A c \in Chains : chain[c].pc # "free" => chain'[c] = chain[c]
        /\ \A c \in Chains : chain'[c] # chain[c] => chain'[c].pc = "timer"
    BY ScheduleAllStarts DEF Schedule, TypeOK
  <1> QED
    BY <1>1 DEF ReadFits

\* A step of a chain: only the write touches counts, and with one chain to a task
\* nobody else holds a reading of the task it writes.
LEMMA SyncKeepsCounts ==
    ASSUME SyncAssumption, TypeOK, OneLiveChain, NEW c \in Chains, Sync(c),
           \A t \in Tasks : counted[t] => vectors[t],
           \A d \in Chains : ReadFits(d)
    PROVE  /\ \A t \in Tasks : counted'[t] => vectors'[t]
           /\ \A d \in Chains : ReadFits(d)'
           /\ \A t \in Tasks : counted[t] => counted'[t]
  <1> USE DEF At
  <1>1. /\ chain \in [Chains -> ChainRec] /\ chain[c] \in ChainRec
        /\ \A d \in Chains \ {c} : chain'[d] = chain[d]
        /\ chain[c].task \in Tasks
    BY SyncIsChainStep DEF ChainStep, TypeOK
  <1>2. row' = row /\ vectors' = vectors
    BY DEF Sync, SyncRead, SyncFetch, SyncFetchFails, SyncWrite, SyncRefresh, SyncEnd,
       SyncRepeat, SyncThrows, rows
  <1>3. ASSUME counted' = counted, ReadFits(c)'
        PROVE  \A d \in Chains : ReadFits(d)'
    BY <1>1, <1>2, <1>3 DEF ReadFits
  <1>4. CASE SyncRead(c)
    <2>1. counted' = counted
      BY <1>4 DEF SyncRead, rows
    <2>2. CASE ShouldSync(chain[c].task)
      <3>1. chain' = [chain EXCEPT ![c].pc = "fetching"] /\ row[chain[c].task] = "done"
        BY <1>4, <2>2 DEF SyncRead, Goto, ShouldSync
      <3>2. chain'[c].pc = "fetching" /\ chain'[c].task = chain[c].task
        BY <1>1, <1>4, <3>1 DEF SyncRead, ChainRec
      <3>3. ReadFits(c)'
        BY <1>2, <3>1, <3>2 DEF ReadFits
      <3> QED
        BY <1>2, <1>3, <2>1, <3>3
    <2>3. CASE ~ShouldSync(chain[c].task)
      <3>1. chain'[c].pc = "ending"
        BY <1>1, <1>4, <2>3 DEF SyncRead, Doing
      <3>2. ReadFits(c)'
        BY <3>1 DEF ReadFits
      <3> QED
        BY <1>2, <1>3, <2>1, <3>2
    <2> QED
      BY <2>2, <2>3
  <1>5. CASE SyncFetch(c) \/ SyncFetchFails(c)
    <2>1. counted' = counted /\ chain[c].pc = "fetching"
      BY <1>5 DEF SyncFetch, SyncFetchFails, rows
    <2>2. PICK seen \in {"unknown", Sees(chain[c].task)} :
            chain' = [chain EXCEPT ![c] = Fetched(c, seen)]
      BY <1>5 DEF SyncFetch, SyncFetchFails
    <2>3. /\ chain'[c].pc = "fetched" /\ chain'[c].task = chain[c].task
          /\ chain'[c].seen = seen
      BY <1>1, <2>2 DEF Fetched
    <2>4. /\ seen = "vectors" => vectors[chain[c].task]
          /\ seen = "none" => ~vectors[chain[c].task]
      BY <2>2 DEF Sees
    <2>5. row[chain[c].task] # "importing"
      BY <2>1 DEF ReadFits
    <2>6. ReadFits(c)'
      BY <1>1, <1>2, <2>1, <2>3, <2>4, <2>5 DEF ReadFits
    <2> QED
      BY <1>2, <1>3, <2>1, <2>6
  <1>6. CASE SyncWrite(c)
    <2> DEFINE t == chain[c].task
    <2>1. chain[c].pc = "fetched" /\ chain[c].seen \in Seen /\ WriteCounts(t, chain[c].seen)
      BY <1>1, <1>6 DEF SyncWrite, ChainRec
    <2>2. /\ \A u \in Tasks \ {t} : counted'[u] = counted[u]
          /\ counted'[t] => counted[t] \/ chain[c].seen = "vectors"
          /\ counted[t] => counted'[t] \/ chain[c].seen = "none"
      BY <1>1, <2>1, WrittenCounts
    <2>3. /\ row[t] # "importing"
          /\ chain[c].seen = "vectors" => vectors[t]
          /\ chain[c].seen = "none" => ~counted[t]
      BY <2>1 DEF ReadFits
    <2>4. \A u \in Tasks : counted'[u] => vectors'[u]
      BY <1>2, <2>2, <2>3
    <2>5. \A u \in Tasks : counted[u] => counted'[u]
      BY <2>2, <2>3
    <2>6. chain'[c].pc = "refreshing" /\ chain'[c].task = t
      BY <1>1, <1>6, <2>1 DEF SyncWrite, Goto, ChainRec
    <2>7. ReadFits(c)'
      BY <1>2, <2>3, <2>6 DEF ReadFits
    <2>8. ASSUME NEW d \in Chains \ {c}
          PROVE  ReadFits(d)'
      <3>1. chain'[d] = chain[d] /\ ReadFits(d) /\ chain[d] \in ChainRec
        BY <1>1
      <3>2. CASE chain[d].pc \in {"fetching", "fetched", "refreshing"}
        <4>1. chain[d].task \in Tasks /\ Live(d)
          BY <3>1, <3>2 DEF ChainRec, Live
        <4>2. Live(c)
          BY <2>1 DEF Live
        <4>3. chain[d].task # t
          BY <4>1, <4>2, <2>8 DEF OneLiveChain
        <4>4. counted'[chain[d].task] = counted[chain[d].task]
          BY <2>2, <4>1, <4>3
        <4> QED
          BY <1>2, <3>1, <4>4 DEF ReadFits
      <3>3. CASE chain[d].pc \notin {"fetching", "fetched", "refreshing"}
        BY <3>1, <3>3 DEF ReadFits
      <3> QED
        BY <3>2, <3>3
    <2> QED
      BY <2>4, <2>5, <2>7, <2>8
  <1>7. CASE SyncRefresh(c) \/ SyncEnd(c) \/ SyncRepeat(c) \/ SyncThrows(c)
    <2>1. counted' = counted
      BY <1>7 DEF SyncRefresh, SyncEnd, SyncRepeat, SyncThrows, rows
    <2>2. chain'[c].pc \in {"ending", "repeating", "free", "timer"}
      BY <1>1, <1>7 DEF SyncRefresh, SyncEnd, SyncRepeat, SyncThrows, Doing, ScheduleAttempt,
         FreeChain, Timer
    <2>3. ReadFits(c)'
      BY <2>2 DEF ReadFits
    <2> QED
      BY <1>2, <1>3, <2>1, <2>3
  <1> QED
    BY <1>4, <1>5, <1>6, <1>7 DEF Sync

\* The end of an import: a chain that reads is of a task that is over, so it is
\* not the one being completed.
LEMMA CompleteKeepsCounts ==
    ASSUME TypeOK, NEW t \in Tasks, Complete(t),
           \A u \in Tasks : counted[u] => vectors[u],
           \A d \in Chains : ReadFits(d)
    PROVE  /\ \A u \in Tasks : counted'[u] => vectors'[u]
           /\ \A d \in Chains : ReadFits(d)'
           /\ \A u \in Tasks : row[u] = "done" /\ counted[u] => counted'[u]
  <1>1. PICK seen \in {"unknown", Sees(t)} : WriteCounts(t, seen)
    BY DEF Complete
  <1>2. seen \in Seen /\ (seen = "vectors" => vectors[t])
    BY <1>1 DEF Sees, Seen
  <1>3. /\ \A u \in Tasks \ {t} : counted'[u] = counted[u]
        /\ counted'[t] => counted[t] \/ seen = "vectors"
    BY <1>1, <1>2, WrittenCounts
  <1>4. row[t] = "importing" /\ vectors' = vectors /\ chain' = chain
        /\ row' = [row EXCEPT ![t] = "done"]
    BY DEF Complete
  <1>5. \A u \in Tasks : counted'[u] => vectors'[u]
    BY <1>2, <1>3, <1>4
  <1>6. ASSUME NEW d \in Chains
        PROVE  ReadFits(d)'
    <2>1. chain[d] \in ChainRec /\ ReadFits(d) /\ chain'[d] = chain[d]
      BY <1>4 DEF TypeOK
    <2>2. CASE chain[d].pc \in {"fetching", "fetched", "refreshing"}
      <3>1. chain[d].task \in Tasks /\ chain[d].task # t
        BY <1>4, <2>1, <2>2 DEF ChainRec, ReadFits
      <3>2. /\ row'[chain[d].task] = row[chain[d].task]
            /\ counted'[chain[d].task] = counted[chain[d].task]
        BY <1>3, <1>4, <3>1 DEF TypeOK
      <3> QED
        BY <1>4, <2>1, <3>2 DEF ReadFits
    <2>3. CASE chain[d].pc \notin {"fetching", "fetched", "refreshing"}
      BY <2>1, <2>3 DEF ReadFits
    <2> QED
      BY <2>2, <2>3
  <1>7. \A u \in Tasks : row[u] = "done" /\ counted[u] => counted'[u]
    BY <1>3, <1>4
  <1> QED
    BY <1>5, <1>6, <1>7

\* Every step of the compensation, of the worker, of a scan, of a user and of a
\* crash keeps the readings right, and no finished task loses its count.
LEMMA StepKeepsCounts ==
    ASSUME TaskAssumption, SyncAssumption, ~ReleaseMayFail,
           TypeOK, OneLiveChain, CountsAreSeen, [Next]_vars
    PROVE  /\ CountsAreSeen'
           /\ \A t \in Tasks : row[t] = "done" /\ counted[t] /\ syncs = 0 => counted'[t]
  <1> USE DEF rows, scan, bounds
  <1>1. CASE syncs # 0
    <2>1. syncs' # 0
      <3>1. syncs \in Nat
        BY DEF TypeOK, SyncAssumption
      <3>2. syncs' = syncs \/ syncs' = syncs + 1
        BY DEF Next, Sync, SyncRead, SyncFetch, SyncFetchFails, SyncWrite, SyncRefresh,
           SyncEnd, SyncRepeat, SyncThrows, Scan, ScanStart, ScanSchedule, ScanTenant,
           ScanSkip, Finish, Complete, Return, ReturnFails, VectorsArrive, User, ManualWrite,
           ManualFails, ManualRead, Open, Delete, Crash, vars
      <3> QED
        BY <1>1, <3>1, <3>2
    <2> QED
      BY <1>1, <2>1 DEF CountsAreSeen
  <1>2. CASE syncs = 0
    <2>1. /\ manual.pc = "idle"
          /\ \A t \in Tasks : counted[t] => vectors[t]
          /\ \A c \in Chains : ReadFits(c)
      BY <1>2 DEF CountsAreSeen
    <2>2. ASSUME NEW c \in Chains, Sync(c)
          PROVE  CountsAreSeen' /\ \A t \in Tasks : counted[t] => counted'[t]
      <3>1. manual' = manual
        BY <2>2 DEF Sync, SyncRead, SyncFetch, SyncFetchFails, SyncWrite, SyncRefresh, SyncEnd,
           SyncRepeat, SyncThrows
      <3>2. manual'.pc = "idle"
        BY <2>1, <3>1
      <3> QED
        BY <2>1, <2>2, <3>2, SyncKeepsCounts DEF CountsAreSeen
    <2>3. ASSUME NEW wanted \in SUBSET Tasks, Schedule(wanted),
                 UNCHANGED <<row, counted, vectors, manual>>
          PROVE  CountsAreSeen' /\ \A t \in Tasks : counted[t] => counted'[t]
      <3>1. manual'.pc = "idle"
        BY <2>1, <2>3
      <3>2. \A c \in Chains : ReadFits(c)'
        BY <2>1, <2>3, StartedFit
      <3> QED
        BY <2>1, <2>3, <3>1, <3>2 DEF CountsAreSeen
    <2>4. ASSUME UNCHANGED <<row, counted, vectors, chain, manual>>
          PROVE  CountsAreSeen' /\ \A t \in Tasks : counted[t] => counted'[t]
      BY <2>1, <2>4 DEF CountsAreSeen, ReadFits
    <2>5. CASE Scan
      <3>1. CASE ScanSchedule
        <4>1. candidates \in SUBSET Tasks
          BY DEF TypeOK
        <4> QED
          BY <2>3, <3>1, <4>1 DEF ScanSchedule
      <3>2. CASE ScanStart \/ \E n \in Tenants : ScanTenant(n) \/ ScanSkip(n)
        BY <2>4, <3>2 DEF ScanStart, ScanTenant, ScanSkip
      <3> QED
        BY <2>5, <3>1, <3>2 DEF Scan
    <2>6. ASSUME NEW t \in Tasks, Finish(t) \/ VectorsArrive(t)
          PROVE  /\ CountsAreSeen'
                 /\ \A u \in Tasks : row[u] = "done" /\ counted[u] => counted'[u]
      <3>1. CASE Complete(t)
        <4>1. manual'.pc = "idle"
          BY <2>1, <3>1 DEF Complete
        <4> QED
          BY <2>1, <3>1, <4>1, CompleteKeepsCounts DEF CountsAreSeen
      <3>2. CASE Return(t)
        <4>1. {t} \in SUBSET Tasks
          OBVIOUS
        <4> QED
          BY <2>3, <2>4, <3>2, <4>1 DEF Return
      <3>3. CASE VectorsArrive(t)
        <4>1. /\ UNCHANGED <<row, counted, chain, manual>>
              /\ vectors' = [vectors EXCEPT ![t] = TRUE]
          BY <3>3 DEF VectorsArrive
        <4>2. \A u : vectors[u] => vectors'[u]
          BY <4>1 DEF TypeOK
        <4> QED
          BY <2>1, <4>1, <4>2 DEF CountsAreSeen, ReadFits
      <3> QED
        BY <2>6, <3>1, <3>2, <3>3 DEF Finish, ReturnFails
    <2>7. CASE User
      <3>1. ~ManualWrite /\ ~ManualFails
        BY <2>1 DEF ManualWrite, ManualFails
      <3>2. ASSUME NEW t \in Tasks, ManualRead(t)
            PROVE  CountsAreSeen' /\ counted' = counted
        BY <1>2, <3>2 DEF ManualRead, CountsAreSeen
      <3>3. ASSUME NEW t \in Tasks, Open(t)
            PROVE  CountsAreSeen' /\ \A u \in Tasks : counted[u] => counted'[u]
        BY <2>4, <3>3 DEF Open
      <3>4. ASSUME NEW t \in Tasks, Delete(t)
            PROVE  CountsAreSeen' /\ \A u \in Tasks : counted[u] => counted'[u]
        <4>1. /\ UNCHANGED <<counted, vectors, chain, manual>>
              /\ row' = [row EXCEPT ![t] = "gone"]
          BY <3>4 DEF Delete
        <4>2. \A u : row[u] # "importing" => row'[u] # "importing"
          BY <4>1 DEF TypeOK
        <4> QED
          BY <2>1, <4>1, <4>2 DEF CountsAreSeen, ReadFits
      <3> QED
        BY <2>7, <3>1, <3>2, <3>3, <3>4 DEF User
    <2>8. CASE Crash
      <3>1. /\ UNCHANGED <<row, counted, vectors>>
            /\ manual' = NoRequest /\ chain' = [c \in Chains |-> FreeChain]
        BY <2>8 DEF Crash
      <3> QED
        BY <2>1, <3>1 DEF CountsAreSeen, ReadFits, NoRequest, FreeChain
    <2>9. CASE UNCHANGED vars
      BY <2>4, <2>9 DEF vars
    <2> QED
      BY <2>2, <2>5, <2>6, <2>7, <2>8, <2>9 DEF Next
  <1> QED
    BY <1>1, <1>2

(***************************************************************************)
(* The theorems.                                                           *)
(***************************************************************************)
\* The process starts with no chain and an empty set.
LEMMA InitHolds ==
    ASSUME TaskAssumption, SyncAssumption, Init
    PROVE  TypeOK /\ ScheduledIsServed /\ LiveIsScheduled /\ OneLiveChain
  <1>1. FreeChain \in ChainRec /\ NoRequest \in RequestRec
    BY DEF FreeChain, ChainRec, NoRequest, RequestRec
  <1>2. 0 \in 0..MaxSyncs /\ 0 \in 0..MaxRestarts
    BY DEF SyncAssumption
  <1>3. newer \in [Tasks -> SUBSET Tasks]
    BY DEF Init
  <1>4. TypeOK
    BY <1>1, <1>2, <1>3 DEF Init, TypeOK
  <1> QED
    BY <1>4 DEF Init, ScheduledIsServed, LiveIsScheduled, OneLiveChain, Live, FreeChain

\* Every variable of the compensation keeps its type, for any number of tasks,
\* attempts and chains.
THEOREM SyncTypeCorrect == Spec => []TypeOK
  <1>1. Init => TypeOK
    BY InitHolds, TaskAssumption, SyncAssumption
  <1>2. TypeOK /\ [Next]_vars => TypeOK'
    BY StepKeepsType, TaskAssumption, SyncAssumption
  <1> QED
    BY <1>1, <1>2, PTL DEF Spec

\* A task in scheduledStatsSyncTaskIds always has a chain that will come back to
\* it: failed syncs, failed releases, exhausted attempts, removed tasks and
\* restarts never leave a task blocked with nobody serving it.
THEOREM ScheduledServed == Spec => []ScheduledIsServed
  <1>1. Init => ScheduledIsServed
    BY InitHolds, TaskAssumption, SyncAssumption
  <1>2. TypeOK /\ ScheduledIsServed /\ [Next]_vars => ScheduledIsServed'
    BY StepKeepsServed, TaskAssumption, SyncAssumption
  <1> QED
    BY <1>1, <1>2, SyncTypeCorrect, PTL DEF Spec

\* While releasing a connection cannot fail (no MEDIUM tenant), a task is served
\* by one chain of timers, whatever the scans and the worker schedule.
THEOREM OneChainPerTask == ASSUME ~ReleaseMayFail PROVE Spec => []OneLiveChain
  <1>1. Init => LiveIsScheduled /\ OneLiveChain
    BY InitHolds, TaskAssumption, SyncAssumption
  <1>2. TypeOK /\ LiveIsScheduled /\ OneLiveChain /\ [Next]_vars
            => LiveIsScheduled' /\ OneLiveChain'
    BY StepKeepsOneChain, TaskAssumption, SyncAssumption
  <1> QED
    BY <1>1, <1>2, SyncTypeCorrect, PTL DEF Spec

\* While releasing a connection cannot fail and no user has asked for a sync, no
\* finished task ever loses its count: a chain that read zero before the vectors
\* came is the only one that could have counted them.
THEOREM CountIsKept == ASSUME ~ReleaseMayFail PROVE Spec => CountStays
  <1>1. Init => CountsAreSeen /\ LiveIsScheduled /\ OneLiveChain
    <2>1. Init => CountsAreSeen
      BY DEF Init, CountsAreSeen, ReadFits, FreeChain, NoRequest
    <2> QED
      BY <2>1, InitHolds, TaskAssumption, SyncAssumption
  <1>2. TypeOK /\ LiveIsScheduled /\ OneLiveChain /\ [Next]_vars
            => LiveIsScheduled' /\ OneLiveChain'
    BY StepKeepsOneChain, TaskAssumption, SyncAssumption
  <1>3. TypeOK /\ OneLiveChain /\ CountsAreSeen /\ [Next]_vars
            => /\ CountsAreSeen'
               /\ [\A t \in Tasks :
                    row[t] = "done" /\ counted[t] /\ syncs = 0 => counted'[t]]_vars
    BY StepKeepsCounts, TaskAssumption, SyncAssumption
  <1> QED
    BY <1>1, <1>2, <1>3, SyncTypeCorrect, PTL DEF Spec, CountStays
=============================================================================
