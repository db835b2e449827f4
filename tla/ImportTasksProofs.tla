------------------------- MODULE ImportTasksProofs -------------------------
(***************************************************************************)
(* Theorems about ImportTasks, for every value of its constants.           *)
(***************************************************************************)
EXTENDS ImportTasks, FiniteSetTheorems, TLAPS

(***************************************************************************)
(* How a step may change the slots.                                        *)
(***************************************************************************)
\* A busy invocation that goes on keeps its task, its slot stays busy, and no
\* other slot changes.
LEMMA GotoKeepsType ==
    ASSUME slot \in [Slots -> SlotRec], NEW s \in Slots, slot[s].pc # "free",
           NEW pc \in JobPc, slot' = [slot EXCEPT ![s].pc = pc]
    PROVE  /\ slot' \in [Slots -> SlotRec]
           /\ slot'[s] = [pc |-> pc, task |-> slot[s].task]
           /\ slot[s].task \in Tasks
           /\ \A q \in Slots \ {s} : slot'[q] = slot[q]
           /\ Busy' = Busy
  <1>1. slot[s] \in [pc : JobPc, task : Tasks]
    BY DEF SlotRec
  <1>2. slot'[s] = [pc |-> pc, task |-> slot[s].task]
    BY <1>1
  <1>3. /\ slot' \in [Slots -> SlotRec]
        /\ \A q \in Slots \ {s} : slot'[q] = slot[q]
    BY <1>1, <1>2 DEF SlotRec
  <1>4. pc # "free"
    BY DEF JobPc
  <1> QED
    BY <1>1, <1>2, <1>3, <1>4 DEF Busy

\* An invocation that leaves processTask frees its own slot and no other.
LEMMA LeaveKeepsType ==
    ASSUME slot \in [Slots -> SlotRec], NEW s \in Slots, slot[s].pc # "free",
           slot' = [slot EXCEPT ![s] = FreeSlot]
    PROVE  /\ slot' \in [Slots -> SlotRec]
           /\ slot'[s].pc = "free"
           /\ slot[s].task \in Tasks
           /\ \A q \in Slots \ {s} : slot'[q] = slot[q]
           /\ Busy' = Busy \ {s}
           /\ s \in Busy
  BY DEF SlotRec, FreeSlot, Busy

\* A dispatch makes as many slots busy as it starts tasks.
LEMMA DispatchCounts ==
    ASSUME WorkerAssumption, slot \in [Slots -> SlotRec], scanned \subseteq Tasks,
           NEW batch \in SUBSET scanned, NEW crew \in SUBSET (Slots \ Busy),
           NEW f \in [crew -> batch], Assignment(crew, batch, f),
           slot' = [s \in Slots |-> IF s \in crew THEN Job(f[s], "dispatched") ELSE slot[s]]
    PROVE  /\ slot' \in [Slots -> SlotRec]
           /\ Busy' = Busy \cup crew
           /\ IsFiniteSet(batch)
           /\ Cardinality(batch) \in Nat
           /\ Cardinality(Busy') = Cardinality(Busy) + Cardinality(batch)
  <1>1. slot' \in [Slots -> SlotRec]
    BY DEF SlotRec, Job, JobPc
  <1>2. Busy' = Busy \cup crew
    BY DEF Busy, Job
  <1>3. IsFiniteSet(Busy) /\ IsFiniteSet(crew)
    BY FS_Subset DEF WorkerAssumption, Busy
  <1>4. ExistsBijection(crew, batch)
    <2>1. f \in Injection(crew, batch)
      BY DEF Assignment, Injection, IsInjective
    <2>2. f \in Surjection(crew, batch)
      BY DEF Assignment, Surjection
    <2> QED
      BY <2>1, <2>2 DEF ExistsBijection, Bijection
  <1>5. IsFiniteSet(batch) /\ Cardinality(batch) = Cardinality(crew)
    BY <1>3, <1>4, FS_Bijection
  <1>6. Cardinality(Busy \cup crew) = Cardinality(Busy) + Cardinality(crew)
    <2>1. Busy \cap crew = {}
      OBVIOUS
    <2>2. Cardinality(Busy \cup crew)
             = Cardinality(Busy) + Cardinality(crew) - Cardinality(Busy \cap crew)
      BY <1>3, FS_Union
    <2>3. Cardinality(Busy \cap crew) = 0
      BY <2>1, FS_EmptySet
    <2>4. Cardinality(Busy) \in Nat /\ Cardinality(crew) \in Nat
      BY <1>3, FS_CardinalityType
    <2> QED
      BY <2>2, <2>3, <2>4
  <1> QED
    BY <1>1, <1>2, <1>3, <1>5, <1>6, FS_CardinalityType

(***************************************************************************)
(* Type correctness.                                                       *)
(***************************************************************************)
\* TypeOK without the counter, whose type follows from what it counts.
ShapeOK ==
    /\ status \in [Tasks -> Status]
    /\ resource \in [Tasks -> Level]
    /\ file \in [Tasks -> BOOLEAN]
    /\ contentUri \in [Tasks -> BOOLEAN]
    /\ phase \in {"boot", "up"}
    /\ isPolling \in BOOLEAN
    /\ unscanned \subseteq Tenants
    /\ scanned \subseteq Tasks
    /\ slot \in [Slots -> SlotRec]
    /\ req \in [Requests -> ReqRec]
    /\ abandoned \subseteq Tasks
    /\ calls \in 0..MaxCalls
    /\ restarts \in 0..MaxRestarts

\* The worker's steps: every slot stays well formed and no other row changes type.
LEMMA ProcessKeepsShape ==
    ASSUME ShapeOK, NEW s \in Slots, Process(s)
    PROVE  ShapeOK'
  <1> USE DEF ShapeOK, Process, At
  <1>1. CASE TenantGone(s)
    BY <1>1, LeaveKeepsType DEF TenantGone, Leave, durable, poller, bounds
  <1>2. CASE Claim(s)
    <2>1. slot' \in [Slots -> SlotRec] /\ slot[s].task \in Tasks
      BY <1>2, GotoKeepsType DEF Claim, Goto, JobPc
    <2> QED
      BY <1>2, <2>1 DEF Claim, Goto, SetStatus, Exists, Status, poller, bounds
  <1>3. CASE Prepare(s)
    <2>1. slot' \in [Slots -> SlotRec] /\ slot[s].task \in Tasks
      BY <1>3, GotoKeepsType DEF Prepare, Goto, JobPc
    <2> QED
      BY <1>3, <2>1 DEF Prepare, Goto, Level, poller, bounds
  <1>4. CASE PrepareFails(s)
    <2>1. slot' \in [Slots -> SlotRec] /\ slot[s].task \in Tasks
      BY <1>4, GotoKeepsType DEF PrepareFails, Goto, JobPc
    <2> QED
      BY <1>4, <2>1 DEF PrepareFails, Goto, Level, poller, bounds
  <1>5. CASE Inject(s)
    <2>1. slot' \in [Slots -> SlotRec] /\ slot[s].task \in Tasks
      BY <1>5, GotoKeepsType DEF Inject, Goto, JobPc
    <2> QED
      BY <1>5, <2>1 DEF Inject, Goto, Level, poller, bounds
  <1>6. CASE InjectFails(s)
    <2>1. slot' \in [Slots -> SlotRec] /\ slot[s].task \in Tasks
      BY <1>6, GotoKeepsType DEF InjectFails, Goto, JobPc
    <2> QED
      BY <1>6, <2>1 DEF InjectFails, Goto, Level, poller, bounds
  <1>7. CASE Record(s)
    <2>1. slot' \in [Slots -> SlotRec] /\ slot[s].task \in Tasks
      BY <1>7, GotoKeepsType DEF Record, Goto, JobPc
    <2>2. contentUri' \in [Tasks -> BOOLEAN]
      BY <1>7, <2>1, Zenon DEF Record, Exists
    <2> QED
      BY <1>7, <2>1, <2>2 DEF Record, Goto, poller, bounds
  <1>8. CASE Complete(s)
    <2>1. slot' \in [Slots -> SlotRec] /\ slot[s].task \in Tasks
      BY <1>8, GotoKeepsType DEF Complete, Goto, JobPc
    <2> QED
      BY <1>8, <2>1 DEF Complete, Goto, SetStatus, Exists, Status, poller, bounds
  <1>9. CASE Return(s)
    <2>1. slot' \in [Slots -> SlotRec] /\ slot[s].task \in Tasks
      BY <1>9, LeaveKeepsType DEF Return, Leave
    <2> QED
      BY <1>9, <2>1 DEF Return, Leave, poller, bounds
  <1>10. CASE ReturnFails(s)
    <2>1. slot' \in [Slots -> SlotRec] /\ slot[s].task \in Tasks
      BY <1>10, GotoKeepsType DEF ReturnFails, Goto, JobPc
    <2> QED
      BY <1>10, <2>1 DEF ReturnFails, Goto, poller, bounds
  <1>11. CASE Throws(s)
    <2>1. slot' \in [Slots -> SlotRec]
      BY <1>11, GotoKeepsType DEF Throws, Goto, JobPc
    <2> QED
      BY <1>11, <2>1 DEF Throws, durable, poller, bounds
  <1>12. CASE MarkFailed(s)
    <2>1. slot' \in [Slots -> SlotRec] /\ slot[s].task \in Tasks
      BY <1>12, LeaveKeepsType DEF MarkFailed, Leave
    <2> QED
      BY <1>12, <2>1 DEF MarkFailed, Leave, SetStatus, Exists, Status, poller, bounds
  <1>13. CASE MarkFailedLost(s)
    <2>1. slot' \in [Slots -> SlotRec] /\ slot[s].task \in Tasks
      BY <1>13, LeaveKeepsType DEF MarkFailedLost, Leave
    <2> QED
      BY <1>13, <2>1 DEF MarkFailedLost, Leave, durable, poller, bounds
  <1> QED
    BY <1>1, <1>2, <1>3, <1>4, <1>5, <1>6, <1>7, <1>8, <1>9, <1>10, <1>11, <1>12, <1>13

\* A handler holds a row it may write, and its request stays well formed.
LEMMA HandlerHoldsTask ==
    ASSUME req \in [Requests -> ReqRec], NEW r \in Requests, req[r].pc # "idle"
    PROVE  /\ req[r] \in [pc : HandlerPc, task : Tasks, was : Status, seen : Level]
           /\ \A pc \in HandlerPc : [req EXCEPT ![r].pc = pc] \in [Requests -> ReqRec]
           /\ [req EXCEPT ![r] = Idle] \in [Requests -> ReqRec]
  <1>1. req[r] \in [pc : HandlerPc, task : Tasks, was : Status, seen : Level]
    BY DEF ReqRec
  <1>2. ASSUME NEW pc \in HandlerPc
        PROVE  [req EXCEPT ![r].pc = pc] \in [Requests -> ReqRec]
    BY <1>1 DEF ReqRec
  <1> QED
    BY <1>1, <1>2 DEF ReqRec, Idle

\* A step of an HTTP handler writes only well-formed rows, and one request.
LEMMA HandleKeepsShape ==
    ASSUME ShapeOK, NEW r \in Requests, Handle(r)
    PROVE  ShapeOK'
  <1> DEFINE t == req[r].task
  <1>1. /\ req[r] \in [pc : HandlerPc, task : Tasks, was : Status, seen : Level]
        /\ \A pc \in HandlerPc : [req EXCEPT ![r].pc = pc] \in [Requests -> ReqRec]
        /\ [req EXCEPT ![r] = Idle] \in [Requests -> ReqRec]
    <2>1. req[r].pc # "idle"
      BY DEF Handle, InHandler, CancelUpdate, CancelFile, RetryProbe, RetryProbeFails,
             RetryAdopt, RetryClear, RetryRequeue, DeleteFile, DeleteResource, DeleteCommit,
             RequestFails
    <2> QED
      BY <2>1, HandlerHoldsTask DEF ShapeOK
  <1>2. t \in Tasks /\ req[r].was \in Status
    BY <1>1
  <1>3. AfterProbe(req[r].was) \in HandlerPc
    BY DEF AfterProbe, HandlerPc
  <1> USE <1>1, <1>2 DEF ShapeOK, poller, worker, bounds
  <1>4. CASE CancelUpdate(r)
    BY <1>4 DEF CancelUpdate, SetStatus, Exists, Status, Step, HandlerPc
  <1>5. CASE CancelFile(r)
    BY <1>5 DEF CancelFile, Done
  <1>6. CASE RetryProbe(r)
    <2>1. req' \in [Requests -> ReqRec]
      <3>1. \A pc \in HandlerPc :
               [req EXCEPT ![r] = Handler(t, pc, req[r].was, resource[t])] \in [Requests -> ReqRec]
        BY DEF Handler, ReqRec
      <3> QED
        BY <1>3, <1>6, <3>1 DEF RetryProbe, HandlerPc
    <2> QED
      BY <1>6, <2>1 DEF RetryProbe, durable
  <1>7. CASE RetryProbeFails(r)
    BY <1>3, <1>7 DEF RetryProbeFails, Step, durable
  <1>8. CASE RetryAdopt(r)
    <2>1. req' \in [Requests -> ReqRec]
      BY <1>3, <1>8 DEF RetryAdopt, Step, Done
    <2>2. status' \in [Tasks -> Status] /\ abandoned' \subseteq Tasks
      BY <1>8 DEF RetryAdopt, Status, Exists
    <2> QED
      BY <1>8, <2>1, <2>2 DEF RetryAdopt
  <1>9. CASE RetryClear(r)
    BY <1>9 DEF RetryClear, Step, Done, Level, HandlerPc
  <1>10. CASE RetryRequeue(r)
    BY <1>10 DEF RetryRequeue, SetStatus, Exists, Status, Done
  <1>11. CASE DeleteFile(r)
    BY <1>11 DEF DeleteFile, Step, HandlerPc
  <1>12. CASE DeleteResource(r)
    BY <1>12 DEF DeleteResource, Step, Level, HandlerPc
  <1>13. CASE DeleteCommit(r)
    BY <1>13 DEF DeleteCommit, Status, Done
  <1>14. CASE RequestFails(r)
    BY <1>14 DEF RequestFails, Done, durable
  <1> QED
    BY <1>4, <1>5, <1>6, <1>7, <1>8, <1>9, <1>10, <1>11, <1>12, <1>13, <1>14 DEF Handle

\* Every step keeps the shape.
LEMMA StepKeepsShape ==
    ASSUME WorkerAssumption, BoundAssumption, ShapeOK, [Next]_vars
    PROVE  ShapeOK'
  <1> USE DEF ShapeOK
  <1>1. CASE Poll
    <2>1. CASE PollStart
      BY <2>1 DEF PollStart, durable, worker, bounds
    <2>2. ASSUME NEW n \in Tenants, ScanTenant(n) \/ SkipTenant(n)
          PROVE  ShapeOK'
      BY <2>2 DEF ScanTenant, SkipTenant, durable, worker, bounds
    <2>3. CASE PollDispatch
      <3>1. slot' \in [Slots -> SlotRec]
        BY <2>3, DispatchCounts DEF PollDispatch
      <3> QED
        BY <2>3, <3>1 DEF PollDispatch, durable, bounds
    <2> QED
      BY <1>1, <2>1, <2>2, <2>3 DEF Poll
  <1>2. ASSUME NEW s \in Slots, Process(s)
        PROVE  ShapeOK'
    BY <1>2, ProcessKeepsShape
  <1>3. ASSUME NEW t \in Tasks, Create(t) \/ VectorsArrive(t)
        PROVE  ShapeOK'
    <2>1. CASE Create(t)
      <3>1. file' \in [Tasks -> BOOLEAN]
        <4>1. \A b \in BOOLEAN : [file EXCEPT ![t] = b] \in [Tasks -> BOOLEAN]
          OBVIOUS
        <4>2. (t \in Local) \in BOOLEAN
          OBVIOUS
        <4> QED
          BY <2>1, <4>1, <4>2, Zenon DEF Create
      <3> QED
        BY <2>1, <3>1 DEF Create, Status, poller, worker, bounds
    <2>2. CASE VectorsArrive(t)
      BY <2>2 DEF VectorsArrive, Level, poller, worker, bounds
    <2> QED
      BY <1>3, <2>1, <2>2
  <1>4. ASSUME NEW r \in Requests, Handle(r)
        PROVE  ShapeOK'
    BY <1>4, HandleKeepsShape
  <1>5. ASSUME NEW r \in Requests, NEW t \in Tasks, NEW op \in Ops[t], Call(r, op, t)
        PROVE  ShapeOK'
    <2>1. Entry(op) \in HandlerPc
      <3>1. op \in {"cancel", "retry", "delete"}
        BY OpsAssumption DEF OpsAssumption
      <3> QED
        BY <3>1 DEF Entry, HandlerPc
    <2>2. Handler(t, Entry(op), status[t], "none") \in ReqRec
      BY <2>1 DEF Handler, ReqRec, Level
    <2>3. req' \in [Requests -> ReqRec]
      BY <1>5, <2>2 DEF Call
    <2>4. calls' \in 0..MaxCalls
      BY <1>5 DEF Call, BoundAssumption
    <2> QED
      BY <1>5, <2>3, <2>4 DEF Call, durable, poller, worker
  <1>6. CASE Restart
    <2>1. CASE Crash
      <3>1. restarts' \in 0..MaxRestarts
        BY <2>1 DEF Crash, BoundAssumption
      <3> QED
        BY <2>1, <3>1 DEF Crash, durable, SlotRec, FreeSlot, ReqRec, Idle
    <2>2. ASSUME NEW readable \in SUBSET Tenants, Boot(readable)
          PROVE  ShapeOK'
      BY <2>2 DEF Boot, Zombies, Status, poller, worker, bounds
    <2> QED
      BY <1>6, <2>1, <2>2 DEF Restart
  <1>7. CASE UNCHANGED vars
    BY <1>7 DEF vars, durable, poller, worker, bounds
  <1> QED
    BY <1>1, <1>2, <1>3, <1>4, <1>5, <1>6, <1>7 DEF Next

(***************************************************************************)
(* The concurrency counter.                                                *)
(***************************************************************************)
\* An invocation either moves on or leaves through the finally block.
LEMMA ProcessMovesOrLeaves ==
    ASSUME NEW s \in Slots, Process(s)
    PROVE  /\ slot[s].pc # "free"
           /\ \/ /\ \E pc \in JobPc : slot' = [slot EXCEPT ![s].pc = pc]
                 /\ UNCHANGED currentConcurrency
              \/ Leave(s)
  <1> USE DEF Process, At, Goto, JobPc
  <1>1. CASE TenantGone(s) \/ MarkFailed(s) \/ MarkFailedLost(s) \/ Return(s)
    BY <1>1 DEF TenantGone, MarkFailed, MarkFailedLost, Return
  <1>2. CASE Claim(s) \/ Prepare(s) \/ PrepareFails(s)
    BY <1>2 DEF Claim, Prepare, PrepareFails
  <1>3. CASE Inject(s) \/ InjectFails(s) \/ Record(s)
    BY <1>3 DEF Inject, InjectFails, Record
  <1>4. CASE Complete(s) \/ ReturnFails(s) \/ Throws(s)
    BY <1>4 DEF Complete, ReturnFails, Throws
  <1> QED
    BY <1>1, <1>2, <1>3, <1>4

\* Every step keeps the counter equal to the number of invocations alive, and
\* within the limit: only a dispatch raises it, and by no more than the room left.
LEMMA StepKeepsCount ==
    ASSUME WorkerAssumption, ShapeOK, ConcurrencyAccounted, [Next]_vars
    PROVE  ConcurrencyAccounted'
  <1> USE DEF ConcurrencyAccounted
  <1>1. IsFiniteSet(Busy) /\ Cardinality(Busy) \in Nat /\ MaxConcurrency \in Nat
    BY FS_Subset, FS_CardinalityType DEF WorkerAssumption, Busy
  <1>2. CASE UNCHANGED worker
    BY <1>2 DEF worker, Busy
  <1>3. CASE PollDispatch
    <2>1. PICK batch \in SUBSET scanned :
            /\ Oldest(batch, MaxConcurrency - currentConcurrency)
            /\ \E crew \in SUBSET (Slots \ Busy) : \E f \in [crew -> batch] :
                /\ Assignment(crew, batch, f)
                /\ slot' = [s \in Slots |->
                                IF s \in crew THEN Job(f[s], "dispatched") ELSE slot[s]]
            /\ currentConcurrency' = currentConcurrency + Cardinality(batch)
      BY <1>3 DEF PollDispatch
    <2>2. /\ Cardinality(batch) \in Nat
          /\ Cardinality(Busy') = Cardinality(Busy) + Cardinality(batch)
      BY <2>1, DispatchCounts DEF ShapeOK
    <2>3. Cardinality(batch) <= MaxConcurrency - currentConcurrency
      BY <2>1 DEF Oldest
    <2> QED
      BY <1>1, <2>1, <2>2, <2>3
  <1>4. ASSUME NEW s \in Slots, Process(s)
        PROVE  ConcurrencyAccounted'
    <2>1. slot[s].pc # "free"
      BY <1>4, ProcessMovesOrLeaves
    <2>2. CASE /\ \E pc \in JobPc : slot' = [slot EXCEPT ![s].pc = pc]
               /\ UNCHANGED currentConcurrency
      <3>1. Busy' = Busy
        BY <2>1, <2>2, GotoKeepsType DEF ShapeOK
      <3> QED
        BY <2>2, <3>1
    <2>3. CASE Leave(s)
      <3>1. Busy' = Busy \ {s} /\ s \in Busy
        BY <2>1, <2>3, LeaveKeepsType DEF ShapeOK, Leave
      <3>2. Cardinality(Busy') = Cardinality(Busy) - 1
        BY <1>1, <3>1, FS_RemoveElement
      <3> QED
        BY <1>1, <2>3, <3>2 DEF Leave
    <2> QED
      BY <1>4, <2>2, <2>3, ProcessMovesOrLeaves
  <1>5. CASE Crash
    <2>1. Busy' = {} /\ currentConcurrency' = 0
      BY <1>5 DEF Crash, Busy, FreeSlot
    <2> QED
      BY <1>1, <2>1, FS_EmptySet DEF WorkerAssumption
  <1>6. CASE PollStart \/ \E n \in Tenants : ScanTenant(n) \/ SkipTenant(n)
    BY <1>2, <1>6 DEF PollStart, ScanTenant, SkipTenant
  <1>7. CASE \E t \in Tasks : Create(t) \/ VectorsArrive(t)
    BY <1>2, <1>7 DEF Create, VectorsArrive
  <1>8. ASSUME NEW r \in Requests, Handle(r) \/ \E t \in Tasks : \E op \in Ops[t] : Call(r, op, t)
        PROVE  ConcurrencyAccounted'
    BY <1>2, <1>8 DEF Call, Handle, CancelUpdate, CancelFile, RetryProbe, RetryProbeFails,
           RetryAdopt, RetryClear, RetryRequeue, DeleteFile, DeleteResource, DeleteCommit,
           RequestFails
  <1>9. CASE \E readable \in SUBSET Tenants : Boot(readable)
    BY <1>2, <1>9 DEF Boot
  <1>10. CASE UNCHANGED vars
    BY <1>2, <1>10 DEF vars
  <1> QED
    BY <1>3, <1>4, <1>5, <1>6, <1>7, <1>8, <1>9, <1>10 DEF Next, Poll, Restart

(***************************************************************************)
(* Who works on a RUNNING row.  Owned is the invariant for one row.        *)
(***************************************************************************)
Owned(t) ==
    status[t] = "running" => t \in abandoned \/ phase = "boot" \/ \E s \in Slots : Owns(s, t)

\* A row stays accounted for when a step changes nothing about it.
LEMMA OwnedKept ==
    ASSUME NEW t \in Tasks, Owned(t), status'[t] = status[t], t \in abandoned => t \in abandoned',
           phase = "boot" => phase' = "boot",
           \A q \in Slots : Owns(q, t) => slot'[q] = slot[q]
    PROVE  Owned(t)'
  BY DEF Owned, Owns

\* A step of an invocation that leaves every row's status alone and keeps
\* working on a row it worked on.
LEMMA MoveKeepsOwned ==
    ASSUME ShapeOK, \A u \in Tasks : Owned(u), NEW s \in Slots, slot[s].pc # "free",
           NEW pc \in JobPc, slot' = [slot EXCEPT ![s].pc = pc],
           pc \in {"claimed", "prepared", "injected", "recorded", "failing"}
               \/ ~ Owns(s, slot[s].task),
           UNCHANGED <<status, phase, abandoned>>
    PROVE  \A u \in Tasks : Owned(u)'
  <1>1. /\ slot'[s] = [pc |-> pc, task |-> slot[s].task]
        /\ \A q \in Slots \ {s} : slot'[q] = slot[q]
    BY GotoKeepsType DEF ShapeOK
  <1>2. \A q \in Slots, u \in Tasks : Owns(q, u) => Owns(q, u)'
    BY <1>1 DEF Owns
  <1> QED
    BY <1>2 DEF Owned

\* The worker's steps: a row made RUNNING is owned by the invocation that claimed
\* it, and an invocation leaves a RUNNING row only as a recorded abandoned one.
LEMMA ProcessKeepsOwned ==
    ASSUME ShapeOK, \A u \in Tasks : Owned(u), NEW s \in Slots, Process(s)
    PROVE  \A u \in Tasks : Owned(u)'
  <1>1. slot[s].pc # "free" /\ slot[s] \in SlotRec
    BY ProcessMovesOrLeaves DEF ShapeOK
  <1>2. PICK t \in Tasks : t = slot[s].task
    BY <1>1 DEF SlotRec
  <1>3. ASSUME Leave(s)
        PROVE  \A q \in Slots \ {s} : slot'[q] = slot[q]
    BY <1>1, <1>3, LeaveKeepsType DEF ShapeOK, Leave
  <1>4. CASE TenantGone(s)
    <2>1. \A u \in Tasks : ~ Owns(s, u)
      BY <1>4 DEF TenantGone, At, Owns
    <2> QED
      BY <1>3, <1>4, <2>1, OwnedKept DEF TenantGone, durable
  <1>5. CASE Claim(s)
    <2>1. /\ slot'[s] = [pc |-> "claimed", task |-> t]
          /\ \A q \in Slots \ {s} : slot'[q] = slot[q]
      BY <1>1, <1>2, <1>5, GotoKeepsType DEF Claim, Goto, ShapeOK, JobPc
    <2>2. Owns(s, t)'
      BY <2>1 DEF Owns
    <2>3. Owned(t)'
      BY <2>2 DEF Owned
    <2>4. ASSUME NEW u \in Tasks \ {t}
          PROVE  Owned(u)'
      <3>1. status'[u] = status[u] /\ (u \in abandoned => u \in abandoned') /\ phase' = phase
        BY <1>2, <1>5, <2>4 DEF Claim, SetStatus, ShapeOK
      <3>2. ~ Owns(s, u)
        BY <1>5 DEF Claim, At, Owns
      <3> QED
        BY <2>1, <3>1, <3>2, OwnedKept
    <2> QED
      BY <2>3, <2>4 DEF Owned
  <1>6. CASE Prepare(s) \/ PrepareFails(s) \/ Inject(s) \/ InjectFails(s) \/ Record(s)
    <2>1. PICK pc \in {"prepared", "injected", "recorded", "failing"} :
              slot' = [slot EXCEPT ![s].pc = pc]
      BY <1>6 DEF Prepare, PrepareFails, Inject, InjectFails, Record, Goto
    <2>2. UNCHANGED <<status, phase, abandoned>>
      BY <1>6 DEF Prepare, PrepareFails, Inject, InjectFails, Record
    <2> QED
      BY <1>1, <2>1, <2>2, MoveKeepsOwned DEF JobPc
  <1>7. CASE ReturnFails(s)
    BY <1>1, <1>7, MoveKeepsOwned DEF ReturnFails, Goto, JobPc
  <1>8. CASE Throws(s)
    <2>1. PICK pc \in {"failing", "aborting"} :
              /\ slot' = [slot EXCEPT ![s].pc = pc]
              /\ pc = "aborting" => slot[s].pc = "dispatched"
      BY <1>8 DEF Throws, At, Goto
    <2>2. UNCHANGED <<status, phase, abandoned>>
      BY <1>8 DEF Throws, durable
    <2>3. pc = "failing" \/ ~ Owns(s, t)
      BY <1>2, <2>1 DEF Owns
    <2> QED
      BY <1>1, <1>2, <2>1, <2>2, <2>3, MoveKeepsOwned DEF JobPc
  <1>9. CASE Complete(s) \/ MarkFailed(s)
    <2>1. PICK new \in {"done", "failed"} : SetStatus(t, new)
      BY <1>2, <1>9 DEF Complete, MarkFailed
    <2>2. \A q \in Slots \ {s} : slot'[q] = slot[q]
      <3>1. CASE Complete(s)
        BY <1>1, <3>1, GotoKeepsType DEF Complete, Goto, JobPc, ShapeOK
      <3>2. CASE MarkFailed(s)
        BY <1>3, <3>2 DEF MarkFailed
      <3> QED
        BY <1>9, <3>1, <3>2
    <2>3. phase' = phase
      BY <1>9 DEF Complete, MarkFailed
    <2>4. Owned(t)'
      BY <1>2, <2>1 DEF SetStatus, Exists, Owned, ShapeOK
    <2>5. ASSUME NEW u \in Tasks \ {t}
          PROVE  Owned(u)'
      <3>1. status'[u] = status[u] /\ (u \in abandoned => u \in abandoned')
        BY <1>2, <2>1 DEF SetStatus, ShapeOK
      <3>2. ~ Owns(s, u)
        BY <1>2 DEF Owns
      <3> QED
        BY <2>2, <2>3, <3>1, <3>2, OwnedKept
    <2> QED
      BY <2>4, <2>5 DEF Owned
  <1>10. CASE Return(s)
    <2>1. \A u \in Tasks : ~ Owns(s, u)
      BY <1>10 DEF Return, At, Owns
    <2> QED
      BY <1>3, <1>10, <2>1, OwnedKept DEF Return
  <1>11. CASE MarkFailedLost(s)
    <2>1. UNCHANGED <<status, phase>>
      BY <1>11 DEF MarkFailedLost, durable
    <2>2. Owned(t)'
      BY <1>2, <1>11, <2>1 DEF MarkFailedLost, Owned
    <2>3. ASSUME NEW u \in Tasks \ {t}
          PROVE  Owned(u)'
      <3>1. u \in abandoned => u \in abandoned'
        BY <1>11 DEF MarkFailedLost
      <3>2. ~ Owns(s, u)
        BY <1>2 DEF Owns
      <3> QED
        BY <1>3, <1>11, <2>1, <3>1, <3>2, OwnedKept DEF MarkFailedLost
    <2> QED
      BY <2>2, <2>3 DEF Owned
  <1> QED
    BY <1>4, <1>5, <1>6, <1>7, <1>8, <1>9, <1>10, <1>11 DEF Process

\* The handlers' steps: a retry that adopts a row as RUNNING records that nobody
\* works on it; every other handler moves rows out of RUNNING.
LEMMA HandleKeepsOwned ==
    ASSUME ShapeOK, \A u \in Tasks : Owned(u), NEW r \in Requests, Handle(r)
    PROVE  \A u \in Tasks : Owned(u)'
  <1>1. UNCHANGED <<phase, slot>>
    BY DEF Handle, CancelUpdate, CancelFile, RetryProbe, RetryProbeFails, RetryAdopt, RetryClear,
           RetryRequeue, DeleteFile, DeleteResource, DeleteCommit, RequestFails, worker
  <1>2. PICK t : t = req[r].task
    OBVIOUS
  <1>3. CASE UNCHANGED <<status, abandoned>>
    BY <1>1, <1>3 DEF Owned, Owns
  <1>4. CASE \E new \in {"cancelled", "pending"} : SetStatus(t, new)
    BY <1>1, <1>4 DEF SetStatus, ShapeOK, Owned, Owns, Exists
  <1>5. CASE RetryAdopt(r)
    <2>1. PICK new \in {"done", "running"} :
            /\ status' = [status EXCEPT ![t] = IF Exists(t) THEN new ELSE @]
            /\ abandoned' = (abandoned \ {t})
                                \cup {u \in {t} : Exists(t) /\ new = "running"}
      BY <1>2, <1>5 DEF RetryAdopt
    <2>2. ASSUME NEW u \in Tasks
          PROVE  Owned(u)'
      BY <1>1, <2>1 DEF ShapeOK, Owned, Owns, Exists
    <2> QED
      BY <2>2
  <1>6. CASE DeleteCommit(r)
    BY <1>1, <1>2, <1>6 DEF DeleteCommit, ShapeOK, Owned, Owns
  <1>7. CASE \/ CancelFile(r) \/ RetryProbe(r) \/ RetryProbeFails(r) \/ RetryClear(r)
             \/ DeleteFile(r) \/ DeleteResource(r) \/ RequestFails(r)
    BY <1>3, <1>7 DEF CancelFile, RetryProbe, RetryProbeFails, RetryClear, DeleteFile,
           DeleteResource, RequestFails, durable
  <1> QED
    BY <1>2, <1>4, <1>5, <1>6, <1>7 DEF Handle, CancelUpdate, RetryRequeue

\* After a boot only the rows of unreadable tenants are RUNNING.
LEMMA BootKeepsOwned ==
    ASSUME TenantAssumption, ShapeOK, NEW readable \in SUBSET Tenants, Boot(readable)
    PROVE  \A u \in Tasks : Owned(u)'
  BY DEF TenantAssumption, ShapeOK, Boot, Zombies, Owned

\* Every step keeps every RUNNING row accounted for.
LEMMA StepKeepsOwned ==
    ASSUME TenantAssumption, ShapeOK, RunningHasOwner, [Next]_vars
    PROVE  RunningHasOwner'
  <1>1. \A u \in Tasks : Owned(u)
    BY DEF RunningHasOwner, Owned
  <1>2. \A u \in Tasks : Owned(u)'
    <2>1. CASE UNCHANGED <<status, abandoned, phase, slot>>
      BY <1>1, <2>1 DEF Owned, Owns
    <2>2. CASE PollDispatch
      <3>1. \A q \in Slots, u \in Tasks : Owns(q, u) => Owns(q, u)'
        BY <2>2 DEF PollDispatch, Owns, Busy
      <3>2. UNCHANGED <<status, abandoned, phase>>
        BY <2>2 DEF PollDispatch, durable
      <3> QED
        BY <1>1, <3>1, <3>2 DEF Owned
    <2>3. CASE \E s \in Slots : Process(s)
      BY <1>1, <2>3, ProcessKeepsOwned
    <2>4. CASE \E r \in Requests : Handle(r)
      BY <1>1, <2>4, HandleKeepsOwned
    <2>5. CASE \E t \in Tasks : Create(t)
      BY <1>1, <2>5 DEF Create, ShapeOK, Owned, Owns, worker
    <2>6. CASE Crash
      BY <2>6 DEF Crash, Owned
    <2>7. CASE \E readable \in SUBSET Tenants : Boot(readable)
      BY <2>7, BootKeepsOwned
    <2>8. CASE PollStart \/ \E n \in Tenants : ScanTenant(n) \/ SkipTenant(n)
      BY <2>1, <2>8 DEF PollStart, ScanTenant, SkipTenant, durable, worker
    <2>9. CASE \E t \in Tasks : VectorsArrive(t)
      BY <2>1, <2>9 DEF VectorsArrive, worker
    <2>10. CASE \E r \in Requests, t \in Tasks : \E op \in Ops[t] : Call(r, op, t)
      BY <2>1, <2>10 DEF Call, durable, worker
    <2>11. CASE UNCHANGED vars
      BY <2>1, <2>11 DEF vars, durable, worker
    <2> QED
      BY <2>2, <2>3, <2>4, <2>5, <2>6, <2>7, <2>8, <2>9, <2>10, <2>11 DEF Next, Poll, Restart
  <1> QED
    BY <1>2 DEF RunningHasOwner, Owned

(***************************************************************************)
(* The invariant and the theorems.                                         *)
(***************************************************************************)
IInv == ShapeOK /\ ConcurrencyAccounted /\ RunningHasOwner

\* The inductive invariant holds when the process first starts.
LEMMA InitIInv ==
    ASSUME WorkerAssumption, BoundAssumption, SourceAssumption, Init
    PROVE  IInv
  <1>1. ShapeOK
    <2>1. contentUri \in [Tasks -> BOOLEAN]
      <3>1. \A t \in Tasks : (t \in Overwriting) \in BOOLEAN
        OBVIOUS
      <3> QED
        BY <3>1, Zenon DEF Init
    <2>2. slot \in [Slots -> SlotRec] /\ req \in [Requests -> ReqRec]
      BY DEF Init, SlotRec, FreeSlot, ReqRec, Idle
    <2>3. calls \in 0..MaxCalls /\ restarts \in 0..MaxRestarts
      BY DEF Init, BoundAssumption
    <2>4. /\ status \in [Tasks -> Status]
          /\ resource \in [Tasks -> Level]
          /\ file \in [Tasks -> BOOLEAN]
      BY DEF Init, Status, Level
    <2> QED
      BY <2>1, <2>2, <2>3, <2>4 DEF Init, ShapeOK
  <1>2. ConcurrencyAccounted
    <2>1. Busy = {} /\ currentConcurrency = 0
      BY DEF Init, Busy, FreeSlot
    <2> QED
      BY <2>1, FS_EmptySet DEF ConcurrencyAccounted, WorkerAssumption
  <1>3. RunningHasOwner
    BY DEF Init, RunningHasOwner
  <1> QED
    BY <1>1, <1>2, <1>3 DEF IInv

\* The counter is a number because it counts a finite set.
LEMMA IInvTypes ==
    ASSUME WorkerAssumption, IInv
    PROVE  TypeOK
  <1>1. currentConcurrency \in Nat
    BY FS_Subset, FS_CardinalityType DEF WorkerAssumption, IInv, ConcurrencyAccounted, Busy
  <1> QED
    BY <1>1 DEF IInv, ShapeOK, TypeOK

\* The inductive invariant holds in every state of every behaviour.
LEMMA Invariance == Spec => []IInv
  <1>1. Init => IInv
    BY InitIInv, WorkerAssumption, BoundAssumption, SourceAssumption
  <1>2. IInv /\ [Next]_vars => IInv'
    BY StepKeepsShape, StepKeepsCount, StepKeepsOwned, WorkerAssumption, BoundAssumption,
       TenantAssumption DEF IInv
  <1> QED
    BY <1>1, <1>2, PTL DEF Spec

\* For any number of tasks, tenants, slots and requests, whatever the users do
\* and however often the process crashes, every variable keeps its type.
THEOREM TypeCorrect == Spec => []TypeOK
  <1>1. IInv => TypeOK
    BY IInvTypes, WorkerAssumption
  <1> QED
    BY <1>1, Invariance, PTL

\* The counter behind the poll's throttle always equals the number of
\* invocations of processTask alive, and never passes the limit: no path out of
\* processTask, no failed tenant lookup and no overlap of polls leaks a place.
THEOREM ConcurrencySafe == Spec => []ConcurrencyAccounted
  <1>1. IInv => ConcurrencyAccounted
    BY DEF IInv
  <1> QED
    BY <1>1, Invariance, PTL

\* A RUNNING row nobody works on was adopted by a retry, lost its failure mark
\* or belongs to a tenant the boot could not read: overlapping requests, polls
\* and crashes add no other way for a task to be stuck.
THEOREM RunningOwned == Spec => []RunningHasOwner
  <1>1. IInv => RunningHasOwner
    BY DEF IInv
  <1> QED
    BY <1>1, Invariance, PTL

(***************************************************************************)
(* One user who waits for each answer and does not cancel, and claims that *)
(* commit before the next poll.  Then a row, the invocation that holds it  *)
(* and the handler that acts on it move together.                          *)
(***************************************************************************)
Solo ==
    /\ ClaimBeforeNextPoll
    /\ \A r, q \in Requests : r = q
    /\ \A t \in Tasks : "cancel" \notin Ops[t]

\* What the row of an invocation's task says while it is at each place.  After
\* the row is done only the release of a pooled connection can still fail.
Working(s) ==
    \/ slot[s].pc \in {"dispatched", "aborting"} /\ status[slot[s].task] = "pending"
    \/ /\ slot[s].pc \in {"claimed", "prepared", "injected", "recorded", "failing"}
       /\ status[slot[s].task] = "running"
    \/ slot[s].pc = "completed" /\ status[slot[s].task] \in {"done", "deleted"}
    \/ /\ slot[s].pc = "failing"
       /\ status[slot[s].task] \in {"done", "deleted"}
       /\ TenantOf[slot[s].task] \in Medium

RetryPc == {"retry_probe", "retry_adopt", "retry_clear", "retry_requeue"}
DeletePc == {"delete_file", "delete_resource", "delete_commit"}

\* What a handler may rely on, though it never looks again: a retry has the task
\* to itself and queues it with an empty target, a removal meets a task that ended.
Retries(r) ==
    /\ req[r].pc \in RetryPc
    /\ req[r].was = "failed"
    /\ \/ status[req[r].task] = "failed"
       \/ /\ req[r].pc \in {"retry_clear", "retry_requeue"}
          /\ status[req[r].task] \in {"running", "done"}
    /\ req[r].pc = "retry_requeue" => resource[req[r].task] = "none"
    /\ \A s \in Busy : slot[s].task # req[r].task
Deletes(r) ==
    /\ req[r].pc \in DeletePc
    /\ status[req[r].task] \in {"failed", "done"}
    /\ "delete" \in Ops[req[r].task]
Answering(r) == req[r].pc = "idle" \/ Retries(r) \/ Deletes(r)

\* What a poll has read is still pending when it starts it.
Polling ==
    /\ ~ isPolling => scanned = {}
    /\ isPolling => \A s \in Slots : slot[s].pc \notin {"dispatched", "aborting"}
    /\ \A t \in scanned : status[t] = "pending"

Booting ==
    phase = "boot" => /\ Busy = {} /\ ~ isPolling
                      /\ \A r \in Requests : req[r].pc = "idle"

Serial ==
    /\ \A t \in Tasks : status[t] # "cancelled"
    /\ Booting
    /\ Polling
    /\ AtMostOneImporter
    /\ \A s \in Busy : Working(s)
    /\ \A r \in Requests : Answering(r)

\* An invocation's step keeps the order when the row fits its new place, no
\* other row changes and a row that has ended stays so.
LEMMA WorkerSerial ==
    ASSUME ShapeOK, Serial, phase = "up", NEW s \in Slots, s \in Busy,
           NEW t \in Tasks, t = slot[s].task, UNCHANGED <<phase, poller, req>>,
           status' \in [Tasks -> Status], resource' \in [Tasks -> Level],
           slot' \in [Slots -> SlotRec],
           \A u \in Tasks : u # t => status'[u] = status[u] /\ resource'[u] = resource[u],
           \A q \in Slots : q # s => slot'[q] = slot[q],
           status'[t] # "cancelled",
           status[t] \in {"failed", "done"} => status'[t] \in {"failed", "done"},
           \/ slot'[s].pc = "free"
           \/ /\ slot'[s].task = t /\ slot'[s].pc # "dispatched"
              /\ slot'[s].pc = "aborting" => slot[s].pc = "dispatched"
              /\ Working(s)'
    PROVE  Serial'
  <1>1. Working(s) /\ slot[s] \in SlotRec
    BY DEF Serial, ShapeOK
  <1>2. t \notin scanned
    <2>1. SUFFICES ASSUME t \in scanned PROVE FALSE
      OBVIOUS
    <2>2. status[t] = "pending" /\ slot[s].pc \notin {"dispatched", "aborting"}
      BY <2>1 DEF Serial, Polling
    <2> QED
      BY <1>1, <2>2 DEF Working
  <1>3. Polling'
    <2>1. isPolling => slot'[s].pc \notin {"dispatched", "aborting"}
      BY DEF Serial, Polling
    <2> QED
      BY <1>2, <2>1 DEF Serial, Polling, poller, ShapeOK
  <1>4. Booting'
    BY DEF Booting
  <1>5. \A q \in Busy' : q \in Busy /\ slot'[q].task = slot[q].task
    BY DEF Busy
  <1>6. AtMostOneImporter'
    BY <1>5 DEF Serial, AtMostOneImporter
  <1>7. ASSUME NEW q \in Busy' PROVE Working(q)'
    <2>1. CASE q = s
      BY <1>7, <2>1 DEF Busy
    <2>2. CASE q # s
      <3>1. q \in Busy /\ slot[q].task # t /\ slot'[q] = slot[q] /\ slot[q] \in SlotRec
        BY <1>5, <1>7, <2>2 DEF Serial, AtMostOneImporter, Busy, ShapeOK
      <3>2. slot[q].task \in Tasks
        BY <3>1 DEF SlotRec, Busy
      <3> QED
        BY <3>1, <3>2 DEF Serial, Working
    <2> QED
      BY <2>1, <2>2
  <1>8. ASSUME NEW r \in Requests PROVE Answering(r)'
    <2>1. req' = req /\ Answering(r) /\ req[r] \in ReqRec
      BY DEF Serial, ShapeOK
    <2>2. CASE req[r].pc = "idle"
      BY <2>1, <2>2 DEF Answering
    <2>3. CASE Retries(r)
      <3>1. req[r].task \in Tasks /\ req[r].task # t
        BY <2>1, <2>3 DEF Retries, ReqRec, RetryPc
      <3> QED
        BY <1>5, <2>1, <2>3, <3>1 DEF Retries, Answering
    <2>4. CASE Deletes(r)
      <3>1. req[r].task \in Tasks
        BY <2>1, <2>4 DEF Deletes, ReqRec, DeletePc
      <3> QED
        BY <2>1, <2>4, <3>1 DEF Deletes, Answering
    <2> QED
      BY <2>1, <2>2, <2>3, <2>4 DEF Answering
  <1>9. \A u \in Tasks : status'[u] # "cancelled"
    BY DEF Serial
  <1> QED
    BY <1>3, <1>4, <1>6, <1>7, <1>8, <1>9 DEF Serial

\* The worker's steps: each leaves its row as its next place expects it.
LEMMA ProcessSerial ==
    ASSUME ShapeOK, Serial, NEW s \in Slots, Process(s), ShapeOK'
    PROVE  Serial'
  <1>1. slot[s].pc # "free" /\ slot[s] \in SlotRec /\ s \in Busy /\ Working(s)
    BY ProcessMovesOrLeaves DEF ShapeOK, Serial, Busy
  <1>2. PICK t \in Tasks : t = slot[s].task
    BY <1>1 DEF SlotRec
  <1>3. phase = "up" /\ UNCHANGED <<phase, poller, req>>
    BY DEF Process, At, TenantGone, Claim, Prepare, PrepareFails, Inject, InjectFails,
           Record, Complete, Return, ReturnFails, Throws, MarkFailed, MarkFailedLost
  <1>4. \A q \in Slots : q # s => slot'[q] = slot[q]
    <2>1. CASE \E pc \in JobPc : slot' = [slot EXCEPT ![s].pc = pc]
      BY <1>1, <2>1, GotoKeepsType DEF ShapeOK
    <2>2. CASE Leave(s)
      BY <1>1, <2>2, LeaveKeepsType DEF ShapeOK, Leave
    <2> QED
      BY <2>1, <2>2, ProcessMovesOrLeaves
  <1>5. /\ status' \in [Tasks -> Status] /\ resource' \in [Tasks -> Level]
        /\ slot' \in [Slots -> SlotRec]
    BY DEF ShapeOK
  <1>6. ASSUME Leave(s) PROVE slot'[s].pc = "free"
    BY <1>1, <1>6, LeaveKeepsType DEF ShapeOK, Leave
  <1>7. ASSUME NEW pc \in JobPc, Goto(s, pc) PROVE slot'[s] = [pc |-> pc, task |-> t]
    BY <1>1, <1>2, <1>7, GotoKeepsType DEF ShapeOK, Goto
  <1>8. ASSUME NEW new, SetStatus(t, new)
        PROVE  /\ \A u \in Tasks : u # t => status'[u] = status[u]
               /\ status'[t] = IF Exists(t) THEN new ELSE status[t]
    BY <1>8 DEF SetStatus, ShapeOK
  <1>9. CASE UNCHANGED <<status, resource>> /\ Leave(s)
    BY <1>1, <1>2, <1>3, <1>4, <1>5, <1>6, <1>9, WorkerSerial DEF Serial
  <1>10. CASE Claim(s)
    <2>1. slot[s].pc = "dispatched" /\ status[t] = "pending"
      BY <1>1, <1>2, <1>10 DEF Claim, At, Working
    <2>2. slot'[s] = [pc |-> "claimed", task |-> t]
      BY <1>7, <1>10 DEF Claim, JobPc
    <2>3. /\ \A u \in Tasks : u # t => status'[u] = status[u]
          /\ status'[t] = "running" /\ UNCHANGED resource
      BY <1>2, <1>8, <1>10, <2>1 DEF Claim, Exists
    <2>4. Working(s)'
      BY <2>2, <2>3 DEF Working
    <2> QED
      BY <1>1, <1>2, <1>3, <1>4, <1>5, <2>1, <2>2, <2>3, <2>4, WorkerSerial
  <1>11. CASE Prepare(s) \/ PrepareFails(s) \/ Inject(s) \/ InjectFails(s) \/ Record(s)
    <2>1. /\ slot[s].pc \in {"claimed", "prepared", "injected"} /\ status[t] = "running"
          /\ UNCHANGED status
      BY <1>1, <1>2, <1>11 DEF Prepare, PrepareFails, Inject, InjectFails, Record, At, Working
    <2>2. PICK pc \in {"prepared", "injected", "recorded", "failing"} :
              slot'[s] = [pc |-> pc, task |-> t]
      BY <1>7, <1>11 DEF Prepare, PrepareFails, Inject, InjectFails, Record, JobPc
    <2>3. Working(s)'
      BY <2>1, <2>2 DEF Working
    <2>4. \A u \in Tasks : u # t => resource'[u] = resource[u]
      BY <1>2, <1>11 DEF Prepare, PrepareFails, Inject, InjectFails, Record, ShapeOK
    <2> QED
      BY <1>1, <1>2, <1>3, <1>4, <1>5, <2>1, <2>2, <2>3, <2>4, WorkerSerial
  <1>12. CASE Complete(s)
    <2>1. slot[s].pc = "recorded" /\ status[t] = "running"
      BY <1>1, <1>2, <1>12 DEF Complete, At, Working
    <2>2. slot'[s] = [pc |-> "completed", task |-> t]
      BY <1>7, <1>12 DEF Complete, JobPc
    <2>3. /\ \A u \in Tasks : u # t => status'[u] = status[u]
          /\ status'[t] = "done" /\ UNCHANGED resource
      BY <1>2, <1>8, <1>12, <2>1 DEF Complete, Exists
    <2>4. Working(s)'
      BY <2>2, <2>3 DEF Working
    <2> QED
      BY <1>1, <1>2, <1>3, <1>4, <1>5, <2>1, <2>2, <2>3, <2>4, WorkerSerial
  <1>13. CASE ReturnFails(s)
    <2>1. /\ slot[s].pc = "completed" /\ status[t] \in {"done", "deleted"}
          /\ TenantOf[t] \in Medium /\ UNCHANGED <<status, resource>>
      BY <1>1, <1>2, <1>13 DEF ReturnFails, At, Working
    <2>2. slot'[s] = [pc |-> "failing", task |-> t]
      BY <1>7, <1>13 DEF ReturnFails, JobPc
    <2>3. Working(s)'
      BY <2>1, <2>2 DEF Working
    <2> QED
      BY <1>1, <1>2, <1>3, <1>4, <1>5, <2>1, <2>2, <2>3, WorkerSerial
  <1>14. CASE Throws(s)
    <2>1. PICK pc \in {"failing", "aborting"} :
              /\ slot'[s] = [pc |-> pc, task |-> t]
              /\ slot[s].pc \in IF pc = "failing" THEN {"injected", "recorded"}
                                                  ELSE {"dispatched"}
      BY <1>7, <1>14 DEF Throws, At, JobPc
    <2>2. UNCHANGED <<status, resource>> /\ status[t] \in {"pending", "running"}
      BY <1>1, <1>2, <1>14, <2>1 DEF Throws, durable, Working
    <2>3. Working(s)'
      BY <1>1, <1>2, <2>1, <2>2 DEF Working
    <2> QED
      BY <1>1, <1>2, <1>3, <1>4, <1>5, <2>1, <2>2, <2>3, WorkerSerial
  <1>15. CASE MarkFailed(s)
    <2>1. /\ \A u \in Tasks : u # t => status'[u] = status[u]
          /\ status'[t] = IF Exists(t) THEN "failed" ELSE status[t]
          /\ UNCHANGED resource
      BY <1>2, <1>8, <1>15 DEF MarkFailed
    <2>2. /\ status'[t] # "cancelled"
          /\ status[t] \in {"failed", "done"} => status'[t] \in {"failed", "done"}
      BY <2>1 DEF Serial, Exists
    <2>3. slot'[s].pc = "free"
      BY <1>6, <1>15 DEF MarkFailed
    <2> QED
      BY <1>1, <1>2, <1>3, <1>4, <1>5, <2>1, <2>2, <2>3, WorkerSerial
  <1> QED
    BY <1>9, <1>10, <1>11, <1>12, <1>13, <1>14, <1>15
       DEF Process, TenantGone, Return, MarkFailedLost, durable

\* A handler that holds a row has it to itself, but for an invocation that has
\* ended with it; so it may write the row when its own next step still fits.
LEMMA HandlerSerial ==
    ASSUME ShapeOK, Serial, Solo, NEW r \in Requests, req[r].pc # "idle",
           UNCHANGED <<phase, poller, slot>>, NEW t \in Tasks, t = req[r].task,
           \A u \in Tasks : u # t => status'[u] = status[u],
           status'[t] # "cancelled",
           \/ status'[t] = status[t]
           \/ status'[t] = "deleted"
           \/ \A s \in Busy : slot[s].task # t,
           Answering(r)'
    PROVE  Serial'
  <1>1. Answering(r) /\ status[t] \in {"failed", "running", "done"}
    BY DEF Serial, Answering, Retries, Deletes
  <1>2. t \notin scanned
    BY <1>1 DEF Serial, Polling
  <1>3. Booting'
    BY DEF Serial, Booting
  <1>4. Polling'
    BY <1>2 DEF Serial, Polling, poller, ShapeOK
  <1>5. AtMostOneImporter'
    BY DEF Serial, AtMostOneImporter, Busy
  <1>6. ASSUME NEW s \in Busy' PROVE Working(s)'
    <2>1. s \in Busy /\ slot' = slot /\ Working(s) /\ slot[s] \in SlotRec
      BY <1>6 DEF Busy, Serial, ShapeOK
    <2>2. slot[s].task \in Tasks
      BY <2>1 DEF SlotRec, Busy
    <2>3. CASE slot[s].task # t \/ status'[t] = status[t]
      BY <2>1, <2>2, <2>3 DEF Working
    <2>4. CASE slot[s].task = t /\ status'[t] = "deleted"
      <3>1. status[t] \in {"failed", "done"}
        BY <1>1, <2>1, <2>4 DEF Answering, Retries, Deletes
      <3> QED
        BY <2>1, <2>4, <3>1 DEF Working
    <2> QED
      BY <2>1, <2>3, <2>4
  <1>7. \A q \in Requests : Answering(q)'
    BY DEF Solo
  <1>8. \A u \in Tasks : status'[u] # "cancelled"
    BY DEF Serial
  <1> QED
    BY <1>3, <1>4, <1>5, <1>6, <1>7, <1>8 DEF Serial

\* A handler that goes on keeps what it has read.
LEMMA StepsRequest ==
    ASSUME ShapeOK, NEW r \in Requests, req[r].pc # "idle"
    PROVE  /\ Done(r) => req'[r].pc = "idle"
           /\ \A pc \in HandlerPc : Step(r, pc) =>
                req'[r].pc = pc /\ req'[r].task = req[r].task /\ req'[r].was = req[r].was
           /\ req[r].task \in Tasks
  <1>1. req[r] \in [pc : HandlerPc, task : Tasks, was : Status, seen : Level]
    BY HandlerHoldsTask DEF ShapeOK
  <1> QED
    BY <1>1 DEF Done, Step, Idle, ShapeOK

LEMMA HandleSerial ==
    ASSUME ShapeOK, Serial, Solo, NEW r \in Requests, Handle(r), ShapeOK'
    PROVE  Serial'
  <1>1. req[r].pc # "idle" /\ UNCHANGED <<phase, poller, slot>>
    BY DEF Handle, InHandler, CancelUpdate, CancelFile, RetryProbe, RetryProbeFails,
           RetryAdopt, RetryClear, RetryRequeue, DeleteFile, DeleteResource, DeleteCommit,
           RequestFails, worker
  <1>2. PICK t \in Tasks : t = req[r].task
    BY <1>1, StepsRequest
  <1>3. Answering(r) /\ slot' = slot
    BY <1>1 DEF Serial
  <1>4. status \in [Tasks -> Status] /\ resource \in [Tasks -> Level] /\ Busy' = Busy
    BY <1>1 DEF ShapeOK, Busy
  <1>5. CASE UNCHANGED status /\ Done(r)
    <2>1. Answering(r)'
      BY <1>1, <1>5, StepsRequest DEF Answering
    <2> QED
      BY <1>1, <1>2, <1>5, <2>1, HandlerSerial DEF Serial
  <1>6. CASE RetryProbe(r) \/ RetryProbeFails(r)
    <2>1. Retries(r) /\ status[t] = "failed" /\ UNCHANGED status
      BY <1>1, <1>2, <1>3, <1>6 DEF RetryProbe, RetryProbeFails, InHandler, Answering,
                                   Retries, Deletes, DeletePc, durable
    <2>2. \E pc \in {"retry_clear", "retry_adopt"} :
              req'[r].pc = pc /\ req'[r].task = t /\ req'[r].was = "failed"
      <3>1. AfterProbe(req[r].was) = "retry_clear" /\ req[r].was = "failed"
        BY <2>1 DEF Retries, AfterProbe
      <3>2. CASE RetryProbe(r)
        BY <1>2, <3>1, <3>2 DEF RetryProbe, Handler, ShapeOK
      <3>3. CASE RetryProbeFails(r)
        BY <1>1, <1>2, <3>1, <3>3, StepsRequest DEF RetryProbeFails, HandlerPc
      <3> QED
        BY <1>6, <3>2, <3>3
    <2>3. Answering(r)'
      BY <1>2, <1>3, <1>4, <2>1, <2>2 DEF Answering, Retries, RetryPc
    <2> QED
      BY <1>1, <1>2, <2>1, <2>3, HandlerSerial DEF Serial
  <1>7. CASE RetryAdopt(r)
    <2>1. Retries(r) /\ status[t] = "failed"
      BY <1>1, <1>2, <1>3, <1>7 DEF RetryAdopt, InHandler, Answering, Retries, Deletes,
                                   DeletePc
    <2>2. /\ \A u \in Tasks : u # t => status'[u] = status[u]
          /\ status'[t] \in {"done", "running"}
      BY <1>2, <1>4, <1>7, <2>1 DEF RetryAdopt, Exists
    <2>3. Answering(r)'
      <3>1. AfterProbe(req[r].was) = "retry_clear" /\ req[r].was = "failed"
        BY <2>1 DEF Retries, AfterProbe
      <3>2. CASE Done(r)
        BY <1>1, <3>2, StepsRequest DEF Answering
      <3>3. CASE Step(r, "retry_clear")
        <4>1. req'[r].pc = "retry_clear" /\ req'[r].task = t /\ req'[r].was = "failed"
          BY <1>1, <1>2, <3>1, <3>3, StepsRequest DEF HandlerPc
        <4> QED
          BY <1>2, <1>3, <1>4, <2>1, <2>2, <4>1 DEF Answering, Retries, RetryPc
      <3> QED
        BY <1>7, <3>1, <3>2, <3>3 DEF RetryAdopt
    <2> QED
      BY <1>1, <1>2, <2>1, <2>2, <2>3, HandlerSerial DEF Retries
  <1>8. CASE RetryClear(r) /\ Step(r, "retry_requeue")
    <2>1. Retries(r) /\ UNCHANGED status /\ resource'[t] = "none"
      BY <1>1, <1>2, <1>3, <1>4, <1>8 DEF RetryClear, InHandler, Answering, Deletes, DeletePc
    <2>2. req'[r].pc = "retry_requeue" /\ req'[r].task = t /\ req'[r].was = req[r].was
      BY <1>1, <1>2, <1>8, StepsRequest DEF HandlerPc
    <2>3. req[r].pc = "retry_clear"
      BY <1>8 DEF RetryClear, InHandler
    <2>4. Answering(r)'
      BY <1>2, <1>3, <1>4, <2>1, <2>2, <2>3 DEF Answering, Retries, RetryPc
    <2> QED
      BY <1>1, <1>2, <2>1, <2>4, HandlerSerial DEF Serial
  <1>9. CASE RetryRequeue(r)
    <2>1. Retries(r) /\ Done(r)
      BY <1>1, <1>2, <1>3, <1>9 DEF RetryRequeue, InHandler, Answering, Deletes, DeletePc
    <2>2. /\ \A u \in Tasks : u # t => status'[u] = status[u]
          /\ status'[t] = "pending"
      BY <1>2, <1>4, <1>9, <2>1 DEF RetryRequeue, SetStatus, Exists, Retries
    <2>3. Answering(r)'
      BY <1>1, <2>1, StepsRequest DEF Answering
    <2> QED
      BY <1>1, <1>2, <2>1, <2>2, <2>3, HandlerSerial DEF Retries
  <1>10. CASE DeleteFile(r) \/ DeleteResource(r)
    <2>1. Deletes(r) /\ UNCHANGED status
      BY <1>1, <1>3, <1>10 DEF DeleteFile, DeleteResource, InHandler, Answering, Retries, RetryPc
    <2>2. \E pc \in DeletePc : req'[r].pc = pc /\ req'[r].task = t
      BY <1>1, <1>2, <1>10, StepsRequest DEF DeleteFile, DeleteResource, HandlerPc, DeletePc
    <2>3. Answering(r)'
      BY <1>2, <2>1, <2>2 DEF Answering, Deletes
    <2> QED
      BY <1>1, <1>2, <2>1, <2>3, HandlerSerial DEF Serial
  <1>11. CASE DeleteCommit(r)
    <2>1. /\ \A u \in Tasks : u # t => status'[u] = status[u]
          /\ status'[t] = "deleted" /\ Done(r)
      BY <1>2, <1>4, <1>11 DEF DeleteCommit
    <2>2. Answering(r)'
      BY <1>1, <2>1, StepsRequest DEF Answering
    <2> QED
      BY <1>1, <1>2, <2>1, <2>2, HandlerSerial
  <1>12. CASE CancelUpdate(r) \/ CancelFile(r)
    BY <1>3, <1>12 DEF CancelUpdate, CancelFile, InHandler, Answering, Retries, RetryPc,
                       Deletes, DeletePc
  <1>13. CASE (RetryClear(r) /\ Done(r)) \/ RequestFails(r)
    BY <1>5, <1>13 DEF RetryClear, RequestFails, durable
  <1> QED
    BY <1>6, <1>7, <1>8, <1>9, <1>10, <1>11, <1>12, <1>13 DEF Handle, RetryClear

\* A poll reads pending rows, and starts them before anything else does.
LEMMA PollSerial ==
    ASSUME ShapeOK, Serial, Solo, Poll, ShapeOK'
    PROVE  Serial'
  <1>1. UNCHANGED <<status, resource, phase, req>>
    BY DEF Poll, PollStart, PollDispatch, ScanTenant, SkipTenant, durable
  <1>2. phase = "up"
    BY DEF Poll, PollStart, PollDispatch, ScanTenant, SkipTenant, Serial, Booting, ShapeOK
  <1>3. Booting'
    BY <1>1, <1>2 DEF Booting
  <1>4. CASE UNCHANGED slot
    <2>1. Polling'
      BY <1>1, <1>4 DEF Poll, PollStart, PollDispatch, ScanTenant, SkipTenant, Serial,
                         Polling, Solo
    <2>2. Busy' = Busy
      BY <1>4 DEF Busy
    <2> QED
      BY <1>1, <1>3, <1>4, <2>1, <2>2 DEF Serial, AtMostOneImporter, Working, Answering,
                                          Retries, Deletes
  <1>5. CASE PollDispatch
    <2> PICK batch \in SUBSET scanned :
            \E crew \in SUBSET (Slots \ Busy) : \E f \in [crew -> batch] :
                /\ Assignment(crew, batch, f)
                /\ slot' = [s \in Slots |->
                                IF s \in crew THEN Job(f[s], "dispatched") ELSE slot[s]]
      BY <1>5 DEF PollDispatch
    <2> PICK crew \in SUBSET (Slots \ Busy) : \E f \in [crew -> batch] :
            /\ Assignment(crew, batch, f)
            /\ slot' = [s \in Slots |->
                            IF s \in crew THEN Job(f[s], "dispatched") ELSE slot[s]]
      OBVIOUS
    <2>1. PICK f \in [crew -> batch] :
            /\ Assignment(crew, batch, f)
            /\ slot' = [s \in Slots |->
                            IF s \in crew THEN Job(f[s], "dispatched") ELSE slot[s]]
      OBVIOUS
    <2>2. /\ \A s \in crew : /\ slot'[s].pc = "dispatched" /\ slot'[s].task = f[s]
                             /\ f[s] \in scanned /\ f[s] \in Tasks
          /\ \A s \in Slots \ crew : slot'[s] = slot[s]
          /\ Busy' = Busy \cup crew /\ crew \subseteq Slots
          /\ scanned' = {} /\ isPolling' = FALSE /\ isPolling
      BY <1>5, <2>1 DEF Job, Busy, ShapeOK, PollDispatch
    <2>3. \A s \in Busy, u \in scanned : slot[s].task # u
      BY <2>2 DEF Serial, Polling, Working, Busy
    <2>4. AtMostOneImporter'
      <3>1. SUFFICES ASSUME NEW p \in Busy', NEW q \in Busy', slot'[p].task = slot'[q].task
                     PROVE  p = q
        BY DEF AtMostOneImporter
      <3>2. CASE p \in crew /\ q \in crew
        <4>1. f[p] = f[q]
          BY <2>2, <3>1, <3>2
        <4>2. \A s1, s2 \in crew : f[s1] = f[s2] => s1 = s2
          BY <2>1 DEF Assignment
        <4> QED
          BY <3>2, <4>1, <4>2
      <3>3. CASE p \notin crew /\ q \notin crew
        <4>1. p \in Busy /\ q \in Busy /\ slot'[p] = slot[p] /\ slot'[q] = slot[q]
          BY <2>2, <3>3 DEF Busy
        <4> QED
          BY <3>1, <4>1 DEF Serial, AtMostOneImporter
      <3>4. CASE (p \in crew /\ q \notin crew) \/ (p \notin crew /\ q \in crew)
        <4>1. ASSUME NEW x \in Busy', NEW y \in Busy', x \in crew, y \notin crew
              PROVE  slot'[x].task # slot'[y].task
          <5>1. y \in Busy /\ slot'[y] = slot[y]
            BY <2>2, <4>1 DEF Busy
          <5> QED
            BY <2>2, <2>3, <4>1, <5>1
        <4> QED
          BY <3>1, <3>4, <4>1
      <3> QED
        BY <3>2, <3>3, <3>4
    <2>5. ASSUME NEW s \in Busy' PROVE Working(s)'
      <3>1. CASE s \in crew
        BY <1>1, <2>2, <3>1 DEF Working, Serial, Polling
      <3>2. CASE s \notin crew
        <4>1. s \in Busy /\ slot'[s] = slot[s] /\ Working(s)
          BY <2>2, <2>5, <3>2 DEF Serial, Busy
        <4> QED
          BY <1>1, <4>1 DEF Working
      <3> QED
        BY <3>1, <3>2
    <2>6. ASSUME NEW r \in Requests PROVE Answering(r)'
      <3>1. CASE ~ Retries(r)
        BY <1>1, <3>1 DEF Serial, Answering, Deletes
      <3>2. CASE Retries(r)
        <4>1. req[r].task \notin scanned
          BY <3>2 DEF Serial, Polling, Retries
        <4>2. \A s \in Busy' : slot'[s].task # req[r].task
          <5>1. ASSUME NEW s \in Busy' PROVE slot'[s].task # req[r].task
            <6>1. CASE s \in crew
              BY <2>2, <4>1, <6>1
            <6>2. CASE s \notin crew
              BY <2>2, <3>2, <5>1, <6>2 DEF Retries, Busy
            <6> QED
              BY <6>1, <6>2
          <5> QED
            BY <5>1
        <4> QED
          BY <1>1, <3>2, <4>2 DEF Answering, Retries
      <3> QED
        BY <3>1, <3>2
    <2>7. Polling'
      BY <2>2 DEF Polling
    <2> QED
      BY <1>1, <1>3, <2>4, <2>5, <2>6, <2>7 DEF Serial
  <1> QED
    BY <1>4, <1>5 DEF Poll, PollStart, ScanTenant, SkipTenant, worker

\* A call finds the task nobody works on any more.
LEMMA CallSerial ==
    ASSUME ShapeOK, Serial, Solo, NEW r \in Requests, NEW t \in Tasks, NEW op \in Ops[t],
           Call(r, op, t)
    PROVE  Serial'
  <1>1. op \in {"retry", "delete"}
    BY OpsAssumption DEF OpsAssumption, Solo
  <1>2. /\ phase = "up" /\ UNCHANGED <<status, resource, phase, poller, slot>>
        /\ req'[r] = Handler(t, Entry(op), status[t], "none")
        /\ status[t] \in Accepted(op)
    BY DEF Call, InHandler, durable, worker, ShapeOK
  <1>3. Answering(r)'
    <2>1. CASE op = "retry"
      <3>1. status[t] = "failed"
        BY <1>2, <2>1 DEF Accepted, Serial
      <3>2. \A s \in Busy : slot[s].task # t
        BY <3>1 DEF Serial, Working, Busy
      <3>3. /\ req'[r].pc = "retry_probe" /\ req'[r].task = t
            /\ req'[r].was = "failed"
        BY <1>2, <2>1, <3>1 DEF Handler, Entry
      <3>4. Retries(r)'
        BY <1>2, <3>1, <3>2, <3>3 DEF Retries, RetryPc, Busy
      <3> QED
        BY <3>4 DEF Answering
    <2>2. CASE op = "delete"
      <3>1. status[t] \in {"failed", "done"}
        BY <1>2, <2>2 DEF Accepted
      <3>2. req'[r].pc = "delete_file" /\ req'[r].task = t
        BY <1>2, <2>2 DEF Handler, Entry
      <3> QED
        BY <1>2, <2>2, <3>1, <3>2 DEF Answering, Deletes, DeletePc
    <2> QED
      BY <1>1, <2>1, <2>2
  <1>4. \A q \in Requests : Answering(q)'
    BY <1>3 DEF Solo
  <1> QED
    BY <1>2, <1>4 DEF Serial, Booting, Polling, AtMostOneImporter, Working, Busy, poller

\* OpenViking's queue and a new task touch no row that somebody holds.
LEMMA CreateSerial ==
    ASSUME ShapeOK, Serial, NEW t \in Tasks, Create(t) \/ VectorsArrive(t)
    PROVE  Serial'
  <1>1. UNCHANGED <<phase, poller, slot, req>>
    BY DEF Create, VectorsArrive, worker
  <1>2. /\ \A u \in Tasks : u # t => status'[u] = status[u] /\ resource'[u] = resource[u]
        /\ \/ status[t] = "none" /\ status'[t] = "pending" /\ resource' = resource
           \/ status' = status /\ resource[t] = "nodes"
    BY DEF Create, VectorsArrive, ShapeOK
  <1>3. ASSUME NEW s \in Busy PROVE Working(s)'
    <2>1. Working(s) /\ slot[s] \in SlotRec
      BY <1>3 DEF Serial, Busy, ShapeOK
    <2>2. slot[s].task \in Tasks
      BY <2>1 DEF SlotRec, Working
    <2>3. status'[slot[s].task] = status[slot[s].task]
      BY <1>2, <2>1, <2>2 DEF Working
    <2> QED
      BY <1>1, <2>1, <2>3 DEF Working
  <1>4. ASSUME NEW r \in Requests PROVE Answering(r)'
    <2>1. Answering(r) /\ req[r] \in ReqRec
      BY DEF Serial, ShapeOK
    <2>2. CASE req[r].pc = "idle"
      BY <1>1, <2>2 DEF Answering
    <2>3. CASE req[r].pc # "idle"
      <3>1. req[r].task \in Tasks
        BY <2>1, <2>3 DEF ReqRec
      <3>2. status'[req[r].task] = status[req[r].task]
        BY <1>2, <2>1, <2>3, <3>1 DEF Answering, Retries, Deletes
      <3>3. req[r].pc = "retry_requeue" => resource'[req[r].task] = resource[req[r].task]
        BY <1>2, <2>1, <2>3, <3>1 DEF Answering, Retries, Deletes, DeletePc
      <3>4. Busy' = Busy
        BY <1>1 DEF Busy
      <3> QED
        BY <1>1, <2>1, <2>3, <3>2, <3>3, <3>4 DEF Answering, Retries, Deletes
    <2> QED
      BY <2>2, <2>3
  <1>5. Polling'
    BY <1>1, <1>2 DEF Serial, Polling, poller, ShapeOK
  <1>6. \A u \in Tasks : status'[u] # "cancelled"
    BY <1>2 DEF Serial
  <1> QED
    BY <1>1, <1>3, <1>4, <1>5, <1>6 DEF Serial, Booting, AtMostOneImporter, Busy, poller

\* The crash forgets whoever holds a row; the boot changes rows nobody holds.
LEMMA RestartSerial ==
    ASSUME ShapeOK, Serial, Restart
    PROVE  Serial'
  <1>1. Busy' = {} /\ scanned' = {} /\ isPolling' = FALSE /\ \A r \in Requests : req'[r].pc = "idle"
    <2>1. CASE Crash
      BY <2>1 DEF Crash, Busy, FreeSlot, Idle
    <2>2. ASSUME NEW readable \in SUBSET Tenants, Boot(readable)
          PROVE  /\ Busy' = {} /\ scanned' = {} /\ isPolling' = FALSE
                 /\ \A r \in Requests : req'[r].pc = "idle"
      <3>1. phase = "boot" /\ UNCHANGED <<slot, isPolling, scanned, req>>
        BY <2>2 DEF Boot, poller, worker
      <3>2. Busy = {} /\ ~ isPolling /\ scanned = {} /\ \A r \in Requests : req[r].pc = "idle"
        BY <3>1 DEF Serial, Booting, Polling
      <3>3. Busy' = Busy
        BY <3>1 DEF Busy
      <3> QED
        BY <3>1, <3>2, <3>3
    <2> QED
      BY <2>1, <2>2 DEF Restart
  <1>2. \A t \in Tasks : status'[t] # "cancelled"
    BY DEF Restart, Crash, Boot, durable, Serial, ShapeOK
  <1> QED
    BY <1>1, <1>2 DEF Serial, Booting, Polling, AtMostOneImporter, Answering

LEMMA NextSerial ==
    ASSUME Solo, ShapeOK, Serial, [Next]_vars, ShapeOK'
    PROVE  Serial'
  <1>1. CASE UNCHANGED vars
    BY <1>1 DEF vars, durable, poller, worker, Serial, Booting, Polling, AtMostOneImporter,
                Working, Answering, Retries, Deletes, Busy
  <1> QED
    BY <1>1, PollSerial, ProcessSerial, CreateSerial, HandleSerial, CallSerial, RestartSerial
       DEF Next

LEMMA InitSerial ==
    ASSUME Init
    PROVE  Serial
  BY DEF Init, FreeSlot, Idle, Serial, Booting, Polling, AtMostOneImporter, Answering, Busy

LEMMA SoloInvariance ==
    ASSUME Solo
    PROVE  Spec => [](IInv /\ Serial)
  <1>1. IInv /\ Serial /\ [Next]_vars /\ IInv' => Serial'
    BY NextSerial DEF IInv
  <1> QED
    BY <1>1, InitSerial, Invariance, PTL DEF Spec

(***************************************************************************)
(* One writer for each target.                                             *)
(***************************************************************************)
\* Nobody empties the target of a task under the invocation that writes it.
LEMMA NoClearStep ==
    ASSUME Solo, ShapeOK, Serial, Next
    PROVE  NoClearUnderImporter
  <1> SUFFICES ASSUME NEW t \in Tasks, resource[t] # "none", resource'[t] = "none",
                      NEW s \in Slots, slot[s].task = t,
                      slot[s].pc \in {"prepared", "injected", "recorded"}
               PROVE  FALSE
    BY DEF NoClearUnderImporter
  <1>1. s \in Busy /\ status[t] = "running"
    BY DEF Busy, Serial, Working
  <1>2. ASSUME NEW p \in Slots, Process(p) PROVE FALSE
    <2>1. p \in Busy /\ slot[p] \in SlotRec
      BY <1>2, ProcessMovesOrLeaves DEF Busy, ShapeOK
    <2>2. CASE p = s
      BY <1>2, <2>2 DEF Process, At, TenantGone, Claim, Prepare, PrepareFails, Inject,
             InjectFails, Record, Complete, Return, ReturnFails, Throws, MarkFailed,
             MarkFailedLost, durable, ShapeOK
    <2>3. CASE p # s
      <3>1. slot[p].task # t
        BY <1>1, <2>1, <2>3 DEF Serial, AtMostOneImporter
      <3>2. resource'[t] = resource[t]
        BY <1>2, <3>1 DEF Process, TenantGone, Claim, Prepare, PrepareFails, Inject,
               InjectFails, Record, Complete, Return, ReturnFails, Throws, MarkFailed,
               MarkFailedLost, durable, ShapeOK
      <3> QED
        BY <3>2
    <2> QED
      BY <2>2, <2>3
  <1>3. ASSUME NEW r \in Requests, Handle(r) PROVE FALSE
    <2>1. resource' # resource
      OBVIOUS
    <2>2. RetryClear(r) \/ DeleteResource(r)
      BY <1>3, <2>1 DEF Handle, CancelUpdate, CancelFile, RetryProbe, RetryProbeFails,
             RetryAdopt, RetryRequeue, DeleteFile, DeleteCommit, RequestFails, durable
    <2>3. req[r].task = t
      BY <2>2 DEF RetryClear, DeleteResource, ShapeOK
    <2>4. CASE RetryClear(r)
      <3>1. Retries(r)
        BY <2>4 DEF RetryClear, InHandler, Serial, Answering, Deletes, DeletePc
      <3> QED
        BY <1>1, <2>3, <3>1 DEF Retries
    <2>5. CASE DeleteResource(r)
      <3>1. Deletes(r)
        BY <2>5 DEF DeleteResource, InHandler, Serial, Answering, Retries, RetryPc
      <3> QED
        BY <1>1, <2>3, <3>1 DEF Deletes
    <2> QED
      BY <2>2, <2>4, <2>5
  <1>4. CASE Poll \/ Restart \/ \E u \in Tasks : Create(u) \/ VectorsArrive(u)
    BY <1>4 DEF Poll, PollStart, PollDispatch, ScanTenant, SkipTenant, Restart, Crash, Boot,
                Create, VectorsArrive, durable, ShapeOK
  <1>5. CASE \E r \in Requests, u \in Tasks : \E op \in Ops[u] : Call(r, op, u)
    BY <1>5 DEF Call, durable
  <1> QED
    BY <1>2, <1>3, <1>4, <1>5 DEF Next

\* While one user waits for each answer and does not cancel, and claims commit
\* before the next poll: no two invocations hold a task, and no handler and no
\* other invocation empties a target while it is written, in any number of tasks,
\* slots and restarts.
THEOREM TargetHasOneWriter ==
    ASSUME Solo
    PROVE  Spec => OneWriterPerTarget
  <1>1. /\ IInv /\ Serial /\ [Next]_vars /\ Serial'
           => [AtMostOneImporter' /\ NoClearUnderImporter]_vars
    BY NoClearStep DEF Serial, IInv
  <1> QED
    BY <1>1, SoloInvariance, PTL DEF Spec, OneWriterPerTarget

(***************************************************************************)
(* What a retry needs.                                                     *)
(***************************************************************************)
\* No user removes a local task, which takes its upload away before anything else
\* can fail, and no local task belongs to a MEDIUM tenant, whose connection may
\* fail to be released after the upload was cleaned up.
UploadsStay ==
    \A t \in Local : Ops[t] \subseteq {"retry"} /\ TenantOf[t] \notin Medium

\* The upload is there as long as the task may run again, the retry of a task
\* that was found DONE on the way included.
Files ==
    \A t \in Local :
        status[t] \in {"pending", "running", "failed"} \/ t \in Retrying => file[t]

LEMMA ProcessKeepsFiles ==
    ASSUME UploadsStay, ShapeOK, Serial, Files, NEW s \in Slots, Process(s)
    PROVE  Files'
  <1>1. s \in Busy /\ slot[s] \in SlotRec /\ Working(s)
    BY ProcessMovesOrLeaves DEF Busy, ShapeOK, Serial
  <1>2. slot[s].task \in Tasks
    BY <1>1 DEF SlotRec, Busy
  <1>3. req' = req
    BY DEF Process, TenantGone, Claim, Prepare, PrepareFails, Inject, InjectFails, Record,
           Complete, Return, ReturnFails, Throws, MarkFailed, MarkFailedLost
  <1>4. Retrying' = Retrying
    BY <1>3 DEF Retrying
  <1> SUFFICES ASSUME NEW t \in Local,
                      status'[t] \in {"pending", "running", "failed"} \/ t \in Retrying
               PROVE  file'[t]
    BY <1>4 DEF Files
  <1>5. t \in Tasks
    BY SourceAssumption
  <1>6. CASE t # slot[s].task
    BY <1>2, <1>5, <1>6 DEF Files, Process, TenantGone, Claim, Prepare, PrepareFails, Inject,
           InjectFails, Record, Complete, Return, ReturnFails, Throws, MarkFailed,
           MarkFailedLost, SetStatus, durable, ShapeOK
  <1>7. CASE t = slot[s].task
    <2>1. TenantOf[t] \notin Medium
      BY DEF UploadsStay
    <2>2. t \notin Retrying
      <3> SUFFICES ASSUME NEW r \in Requests, req[r].pc \in RetryPc, req[r].task = t
                   PROVE  FALSE
        BY DEF Retrying, RetryPc
      <3>1. Answering(r)
        BY DEF Serial
      <3>2. Retries(r)
        BY <3>1 DEF Answering, Deletes, RetryPc, DeletePc
      <3> QED
        BY <1>1, <1>7, <3>2 DEF Retries
    <2>3. CASE Return(s) \/ ReturnFails(s)
      <3>1. status' = status /\ slot[s].pc = "completed"
        BY <2>3 DEF Return, ReturnFails, At
      <3> QED
        BY <1>1, <1>7, <2>2, <3>1 DEF Working
    <2>4. CASE ~ (Return(s) \/ ReturnFails(s))
      <3>1. file' = file
        BY <2>4 DEF Process, TenantGone, Claim, Prepare, PrepareFails, Inject, InjectFails,
               Record, Complete, Throws, MarkFailed, MarkFailedLost, durable
      <3>2. status'[t] \in {"pending", "running", "failed"}
              => status[t] \in {"pending", "running", "failed"}
        <4>1. status' = status \/ Claim(s) \/ Complete(s) \/ MarkFailed(s)
          BY <2>4 DEF Process, TenantGone, Prepare, PrepareFails, Inject, InjectFails,
                 Record, Throws, MarkFailedLost, durable
        <4>2. CASE Claim(s)
          BY <1>1, <1>7, <4>2 DEF Claim, At, Working
        <4>3. CASE Complete(s)
          BY <1>1, <1>7, <4>3 DEF Complete, At, Working
        <4>4. CASE MarkFailed(s)
          BY <1>1, <1>7, <2>1, <4>4 DEF MarkFailed, At, Working
        <4> QED
          BY <4>1, <4>2, <4>3, <4>4
      <3> QED
        BY <2>2, <3>1, <3>2 DEF Files
    <2> QED
      BY <2>3, <2>4
  <1> QED
    BY <1>6, <1>7

LEMMA HandleKeepsFiles ==
    ASSUME Solo, UploadsStay, ShapeOK, Serial, Files, NEW r \in Requests, Handle(r)
    PROVE  Files'
  <1>1. req[r].pc # "idle" /\ Answering(r)
    BY DEF Handle, InHandler, CancelUpdate, CancelFile, RetryProbe, RetryProbeFails,
           RetryAdopt, RetryClear, RetryRequeue, DeleteFile, DeleteResource, DeleteCommit,
           RequestFails, Serial
  <1>2. req[r].task \in Tasks
    BY <1>1, StepsRequest
  <1>3. req'[r].pc = "idle" \/ req'[r].task = req[r].task
    <2>1. CASE Done(r) \/ \E pc \in HandlerPc : Step(r, pc)
      BY <1>1, <2>1, StepsRequest
    <2>2. CASE RetryProbe(r)
      BY <2>2 DEF RetryProbe, Handler, ShapeOK
    <2>3. CASE RetryProbeFails(r)
      BY <1>1, <2>3, StepsRequest DEF RetryProbeFails, AfterProbe, HandlerPc
    <2>4. CASE RetryAdopt(r)
      BY <1>1, <2>4, StepsRequest DEF RetryAdopt, AfterProbe, HandlerPc
    <2> QED
      BY <2>1, <2>2, <2>3, <2>4 DEF Handle, CancelUpdate, CancelFile, RetryClear,
         RetryRequeue, DeleteFile, DeleteResource, DeleteCommit, RequestFails, HandlerPc
  <1>4. Retrying' \subseteq {req[r].task}
    <2>1. \A q \in Requests : q = r
      BY DEF Solo
    <2>2. \A q \in Requests : req'[q].pc \in RetryPc => req'[q].task = req[r].task
      BY <1>3, <2>1 DEF RetryPc
    <2> QED
      BY <2>2 DEF Retrying, RetryPc
  <1> SUFFICES ASSUME NEW t \in Local,
                      status'[t] \in {"pending", "running", "failed"} \/ t \in Retrying'
               PROVE  file'[t]
    BY DEF Files
  <1>5. t \in Tasks
    BY SourceAssumption
  <1>6. CASE t # req[r].task
    <2>1. status'[t] = status[t] /\ file'[t] = file[t]
      BY <1>2, <1>5, <1>6 DEF Handle, CancelUpdate, CancelFile, RetryProbe, RetryProbeFails,
             RetryAdopt, RetryClear, RetryRequeue, DeleteFile, DeleteResource, DeleteCommit,
             RequestFails, SetStatus, durable, ShapeOK
    <2> QED
      BY <1>4, <1>6, <2>1 DEF Files
  <1>7. CASE t = req[r].task
    <2>1. Retries(r)
      BY <1>1, <1>7 DEF Answering, Deletes, UploadsStay
    <2>2. t \in Retrying
      BY <1>7, <2>1 DEF Retries, Retrying, RetryPc
    <2>3. file' = file
      BY <2>1 DEF Handle, InHandler, CancelUpdate, CancelFile, RetryProbe, RetryProbeFails,
             RetryAdopt, RetryClear, RetryRequeue, DeleteFile, DeleteResource, DeleteCommit,
             RequestFails, durable, Retries, RetryPc
    <2> QED
      BY <2>2, <2>3 DEF Files
  <1> QED
    BY <1>6, <1>7

LEMMA NextKeepsFiles ==
    ASSUME Solo, UploadsStay, ShapeOK, Serial, Files, [Next]_vars
    PROVE  Files'
  <1>1. CASE UNCHANGED vars
    BY <1>1 DEF vars, durable, Files, Retrying
  <1>2. CASE Poll
    BY <1>2 DEF Poll, PollStart, PollDispatch, ScanTenant, SkipTenant, durable, Files, Retrying
  <1>3. ASSUME NEW t \in Tasks, Create(t) \/ VectorsArrive(t) PROVE Files'
    <2>1. req' = req /\ \A u \in Local : (status'[u] = status[u] /\ file'[u] = file[u]) \/ file'[u]
      BY <1>3, SourceAssumption DEF Create, VectorsArrive, ShapeOK
    <2>2. Retrying' = Retrying
      BY <2>1 DEF Retrying
    <2> QED
      BY <2>1, <2>2 DEF Files
  <1>4. ASSUME NEW r \in Requests, NEW u \in Tasks, NEW op \in Ops[u], Call(r, op, u)
        PROVE  Files'
    <2>1. durable' = durable /\ req'[r].task = u /\ req'[r].pc = Entry(op)
          /\ status[u] \in Accepted(op) /\ op \in {"cancel", "retry", "delete"}
      BY <1>4, OpsAssumption DEF Call, Handler, ShapeOK
    <2>2. ASSUME NEW t \in Retrying' PROVE t = u /\ op = "retry"
      <3>1. req'[r].pc \in RetryPc /\ req'[r].task = t
        BY <2>2 DEF Retrying, Solo, RetryPc
      <3> QED
        BY <2>1, <3>1 DEF Entry, RetryPc
    <2>3. \A t \in Retrying' : status[t] = "failed"
      BY <2>1, <2>2 DEF Accepted, Serial
    <2> QED
      BY <2>1, <2>3 DEF Files, durable
  <1>5. CASE Crash
    BY <1>5 DEF Crash, durable, Files, Retrying, Idle
  <1>6. ASSUME NEW readable \in SUBSET Tenants, Boot(readable) PROVE Files'
    BY <1>6, SourceAssumption DEF Boot, Zombies, Files, Retrying, ShapeOK
  <1> QED
    BY <1>1, <1>2, <1>3, <1>4, <1>5, <1>6, ProcessKeepsFiles, HandleKeepsFiles
       DEF Next, Restart

\* Only the last step of a retry queues a failed task, and it has cleared the
\* target, or found it empty, and nobody has written to it since.
LEMMA RequeueStep ==
    ASSUME ShapeOK, Serial, Next
    PROVE  RetryStartsEmpty
  <1> SUFFICES ASSUME NEW t \in Tasks, status[t] = "failed", status'[t] = "pending"
               PROVE  resource'[t] = "none"
    BY DEF RetryStartsEmpty
  <1>1. PICK r \in Requests : RetryRequeue(r)
    <2>1. ~ Poll /\ ~ Restart
      BY DEF Poll, PollStart, PollDispatch, ScanTenant, SkipTenant, Restart, Crash, Boot,
             Zombies, durable, ShapeOK
    <2>2. \A u \in Tasks : ~ Create(u) /\ ~ VectorsArrive(u)
      BY DEF Create, VectorsArrive, ShapeOK
    <2>3. \A s \in Slots : ~ Process(s)
      BY DEF Process, TenantGone, Claim, Prepare, PrepareFails, Inject, InjectFails, Record,
             Complete, Return, ReturnFails, Throws, MarkFailed, MarkFailedLost, SetStatus,
             durable, ShapeOK
    <2>4. \A q \in Requests, op \in {"cancel", "retry", "delete"}, u \in Tasks : ~ Call(q, op, u)
      BY DEF Call, durable
    <2>5. ASSUME NEW q \in Requests, Handle(q), ~ RetryRequeue(q) PROVE FALSE
      BY <2>5 DEF Handle, CancelUpdate, CancelFile, RetryProbe, RetryProbeFails,
             RetryAdopt, RetryClear, DeleteFile, DeleteResource, DeleteCommit,
             RequestFails, SetStatus, durable, ShapeOK
    <2> QED
      BY <2>1, <2>2, <2>3, <2>4, <2>5, OpsAssumption DEF Next
  <1>2. t = req[r].task /\ resource' = resource
    BY <1>1 DEF RetryRequeue, SetStatus, ShapeOK
  <1>3. Retries(r) /\ req[r].pc = "retry_requeue"
    BY <1>1 DEF RetryRequeue, InHandler, Serial, Answering, Deletes, DeletePc
  <1> QED
    BY <1>2, <1>3 DEF Retries

\* While one user waits for each answer and does not cancel, removes no local task
\* and has no pooled connection to lose: every local task that is queued, running
\* or failed still has its upload, and a failed task is queued again only with an
\* empty target, in any number of tasks, slots and restarts.
THEOREM RetryInputsKept ==
    ASSUME Solo, UploadsStay
    PROVE  Spec => RetryFindsItsInputs
  <1>1. Init => Files
    BY SourceAssumption DEF Init, Files, Retrying, Idle
  <1>2. IInv /\ Serial /\ Files /\ [Next]_vars => Files'
    BY NextKeepsFiles DEF IInv
  <1>3. IInv /\ Serial /\ [Next]_vars /\ Files' => [RetryableKeepsFile' /\ RetryStartsEmpty]_vars
    BY RequeueStep DEF IInv, Files, RetryableKeepsFile
  <1> QED
    BY <1>1, <1>2, <1>3, SoloInvariance, PTL DEF Spec, RetryFindsItsInputs

(***************************************************************************)
(* The rows move as TaskLifecycle says.  A task that is DONE is never      *)
(* FAILED afterwards where no pooled connection has to be released.        *)
(***************************************************************************)
Released == Medium = {}

LEMMA OneRetry ==
    ASSUME Solo, NEW r \in Requests
    PROVE  /\ req[r].pc \in RetryPc => Retrying = {req[r].task}
           /\ req[r].pc \notin RetryPc => Retrying = {}
           /\ req'[r].pc \in RetryPc => Retrying' = {req'[r].task}
           /\ req'[r].pc \notin RetryPc => Retrying' = {}
  <1>1. \A q \in Requests : q = r
    BY DEF Solo
  <1> QED
    BY <1>1 DEF Retrying, RetryPc

LEMMA ProcessRefines ==
    ASSUME Released, ShapeOK, Serial, NEW s \in Slots, Process(s)
    PROVE  [Lifecycle!Next]_(Lifecycle!vars)
  <1>1. s \in Busy /\ slot[s] \in SlotRec /\ Working(s)
    BY ProcessMovesOrLeaves DEF Busy, ShapeOK, Serial
  <1>2. PICK t \in Tasks : t = slot[s].task
    BY <1>1 DEF SlotRec, Busy
  <1>3. Retrying' = Retrying
    BY DEF Process, TenantGone, Claim, Prepare, PrepareFails, Inject, InjectFails, Record,
           Complete, Return, ReturnFails, Throws, MarkFailed, MarkFailedLost, Retrying
  <1>4. CASE UNCHANGED status
    BY <1>3, <1>4 DEF Lifecycle!vars
  <1>5. CASE Claim(s)
    <2>1. status[t] = "pending"
      BY <1>1, <1>2, <1>5 DEF Claim, At, Working
    <2>2. Lifecycle!Start(t)
      BY <1>2, <1>3, <1>5, <2>1 DEF Claim, SetStatus, Exists, Lifecycle!Start, Lifecycle!Move
    <2> QED
      BY <2>2 DEF Lifecycle!Next
  <1>6. CASE Complete(s)
    <2>1. status[t] = "running"
      BY <1>1, <1>2, <1>6 DEF Complete, At, Working
    <2>2. Lifecycle!Succeed(t)
      BY <1>2, <1>3, <1>6, <2>1
         DEF Complete, SetStatus, Exists, Lifecycle!Succeed, Lifecycle!Move
    <2> QED
      BY <2>2 DEF Lifecycle!Next
  <1>7. CASE MarkFailed(s)
    <2>1. status[t] \in {"pending", "running"}
      BY <1>1, <1>2, <1>7 DEF MarkFailed, At, Working, Released
    <2>2. Lifecycle!Reject(t)
      BY <1>2, <1>3, <1>7, <2>1
         DEF MarkFailed, SetStatus, Exists, Lifecycle!Reject, Lifecycle!Move
    <2> QED
      BY <2>2 DEF Lifecycle!Next
  <1> QED
    BY <1>4, <1>5, <1>6, <1>7 DEF Process, TenantGone, Prepare, PrepareFails, Inject,
       InjectFails, Record, Return, ReturnFails, Throws, MarkFailedLost, durable

LEMMA HandleRefines ==
    ASSUME Solo, ShapeOK, Serial, NEW r \in Requests, Handle(r)
    PROVE  [Lifecycle!Next]_(Lifecycle!vars)
  <1>1. req[r].pc # "idle" /\ Answering(r)
    BY DEF Handle, InHandler, CancelUpdate, CancelFile, RetryProbe, RetryProbeFails,
           RetryAdopt, RetryClear, RetryRequeue, DeleteFile, DeleteResource, DeleteCommit,
           RequestFails, Serial
  <1>2. PICK t \in Tasks : t = req[r].task
    BY <1>1, StepsRequest
  <1>0. AfterProbe(req[r].was) \in HandlerPc
    BY DEF AfterProbe, HandlerPc
  <1>3. ASSUME UNCHANGED status, req[r].pc \in RetryPc
        PROVE  [Lifecycle!Next]_(Lifecycle!vars)
    <2>1. Retrying = {t}
      BY <1>2, <1>3, OneRetry
    <2>2. Retrying' = {t} \/ Retrying' = {}
      <3>1. CASE RetryProbe(r)
        BY <1>2, <3>1, OneRetry DEF RetryProbe, Handler, ShapeOK
      <3>2. CASE Done(r) \/ \E pc \in HandlerPc : Step(r, pc)
        <4>1. req'[r].pc = "idle" \/ req'[r].task = t
          BY <1>1, <1>2, <3>2, StepsRequest
        <4> QED
          BY <4>1, OneRetry DEF RetryPc
      <3>3. CASE RetryProbeFails(r) \/ RetryAdopt(r)
        BY <1>0, <3>2, <3>3 DEF RetryProbeFails, RetryAdopt
      <3> QED
        BY <3>1, <3>2, <3>3 DEF Handle, CancelUpdate, CancelFile, RetryClear, RetryRequeue,
           DeleteFile, DeleteResource, DeleteCommit, RequestFails, HandlerPc
    <2>3. CASE Retrying' = {t}
      BY <1>3, <2>1, <2>3 DEF Lifecycle!vars
    <2>4. CASE Retrying' = {}
      <3>1. Lifecycle!AbandonRetry(t)
        BY <1>3, <2>1, <2>4 DEF Lifecycle!AbandonRetry
      <3> QED
        BY <3>1 DEF Lifecycle!Next
    <2> QED
      BY <2>2, <2>3, <2>4
  <1>4. CASE RetryProbe(r) \/ RetryProbeFails(r) \/ RetryClear(r)
    BY <1>3, <1>4 DEF RetryProbe, RetryProbeFails, RetryClear, InHandler, RetryPc, durable
  <1>5. CASE RetryAdopt(r)
    <2>1. Retries(r) /\ req[r].pc = "retry_adopt"
      BY <1>1, <1>5 DEF RetryAdopt, InHandler, Answering, Deletes, DeletePc
    <2>2. status[t] = "failed" /\ Retrying = {t}
      BY <1>2, <2>1, OneRetry DEF Retries, RetryPc
    <2>3. \E new \in {"running", "done"} : status' = [status EXCEPT ![t] = new]
      BY <1>2, <1>5, <2>2 DEF RetryAdopt, Exists
    <2>4. Retrying' = {t} \/ Retrying' = {}
      <3>1. Done(r) \/ \E pc \in HandlerPc : Step(r, pc)
        BY <1>0, <1>5 DEF RetryAdopt
      <3>2. req'[r].pc = "idle" \/ req'[r].task = t
        BY <1>1, <1>2, <3>1, StepsRequest
      <3> QED
        BY <3>2, OneRetry DEF RetryPc
    <2>5. Lifecycle!Adopt(t)
      BY <2>2, <2>3, <2>4 DEF Lifecycle!Adopt, Lifecycle!Move
    <2> QED
      BY <2>5 DEF Lifecycle!Next
  <1>6. CASE RetryRequeue(r)
    <2>1. Retries(r)
      BY <1>1, <1>6 DEF RetryRequeue, InHandler, Answering, Deletes, DeletePc
    <2>2. status[t] \in {"failed", "running", "done"} /\ Retrying = {t}
      BY <1>2, <2>1, OneRetry DEF Retries
    <2>3. status' = [status EXCEPT ![t] = "pending"]
      BY <1>2, <1>6, <2>2 DEF RetryRequeue, SetStatus, Exists
    <2>4. Retrying' = {}
      BY <1>1, <1>6, StepsRequest, OneRetry DEF RetryRequeue, RetryPc
    <2>5. Lifecycle!Requeue(t)
      BY <2>2, <2>3, <2>4 DEF Lifecycle!Requeue, Lifecycle!Move
    <2> QED
      BY <2>5 DEF Lifecycle!Next
  <1>7. CASE RequestFails(r) /\ req[r].pc \in RetryPc
    BY <1>3, <1>7 DEF RequestFails, durable
  <1>8. ASSUME req[r].pc \notin RetryPc, req'[r].pc \notin RetryPc
        PROVE  Retrying' = Retrying
    BY <1>8, OneRetry
  <1>9. CASE \/ DeleteFile(r) \/ DeleteResource(r)
             \/ (RequestFails(r) /\ req[r].pc \notin RetryPc)
    <2>1. Retrying' = Retrying
      BY <1>1, <1>8, <1>9, StepsRequest
         DEF DeleteFile, DeleteResource, RequestFails, InHandler, RetryPc, HandlerPc
    <2> QED
      BY <1>9, <2>1 DEF DeleteFile, DeleteResource, RequestFails, durable, Lifecycle!vars
  <1>10. CASE DeleteCommit(r)
    <2>1. Retrying' = Retrying
      BY <1>1, <1>8, <1>10, StepsRequest DEF DeleteCommit, InHandler, RetryPc
    <2>2. status[t] \in {"failed", "done"}
      BY <1>1, <1>2, <1>10 DEF DeleteCommit, InHandler, Answering, Retries, RetryPc, Deletes
    <2>3. Lifecycle!Remove(t)
      BY <1>2, <1>10, <2>1, <2>2 DEF DeleteCommit, Lifecycle!Remove, Lifecycle!Move
    <2> QED
      BY <2>3 DEF Lifecycle!Next
  <1>11. ~ CancelUpdate(r) /\ ~ CancelFile(r)
    BY <1>1 DEF CancelUpdate, CancelFile, InHandler, Answering, Retries, RetryPc, Deletes,
                DeletePc
  <1> QED
    BY <1>4, <1>5, <1>6, <1>7, <1>9, <1>10, <1>11 DEF Handle

LEMMA CallRefines ==
    ASSUME Solo, ShapeOK, Serial, NEW r \in Requests, NEW t \in Tasks, NEW op \in Ops[t],
           Call(r, op, t)
    PROVE  [Lifecycle!Next]_(Lifecycle!vars)
  <1>1. UNCHANGED status /\ req[r].pc = "idle" /\ req'[r].task = t /\ req'[r].pc = Entry(op)
    BY DEF Call, durable, InHandler, Handler, ShapeOK
  <1>2. Retrying = {}
    BY <1>1, OneRetry DEF RetryPc
  <1>3. op = "retry" \/ op = "delete"
    BY OpsAssumption DEF Solo
  <1>4. CASE op = "delete"
    <2>1. Retrying' = {}
      BY <1>1, <1>4, OneRetry DEF Entry, RetryPc
    <2> QED
      BY <1>1, <1>2, <2>1 DEF Lifecycle!vars
  <1>5. CASE op = "retry"
    <2>1. Retrying' = {t}
      BY <1>1, <1>5, OneRetry DEF Entry, RetryPc
    <2>2. status[t] = "failed"
      BY <1>5 DEF Call, Accepted, Serial
    <2>3. Lifecycle!BeginRetry(t)
      BY <1>1, <1>2, <2>1, <2>2 DEF Lifecycle!BeginRetry
    <2> QED
      BY <2>3 DEF Lifecycle!Next
  <1> QED
    BY <1>3, <1>4, <1>5

LEMMA RestartRefines ==
    ASSUME ShapeOK, Serial, Restart
    PROVE  [Lifecycle!Next]_(Lifecycle!vars)
  <1>1. CASE Crash
    <2>1. Lifecycle!Crash
      BY <1>1 DEF Crash, durable, Idle, Retrying, Lifecycle!Crash
    <2> QED
      BY <2>1 DEF Lifecycle!Next
  <1>2. ASSUME NEW readable \in SUBSET Tenants, Boot(readable) PROVE Lifecycle!Recover
    <2>1. Retrying' = Retrying
      BY <1>2 DEF Boot, Retrying
    <2>2. Zombies(readable) \subseteq {t \in Tasks : status[t] = "running"}
      BY DEF Zombies
    <2> QED
      BY <1>2, <2>1, <2>2 DEF Boot, Lifecycle!Recover
  <1> QED
    BY <1>1, <1>2 DEF Restart, Lifecycle!Next

LEMMA NextRefines ==
    ASSUME Solo, Released, ShapeOK, Serial, [Next]_vars
    PROVE  [Lifecycle!Next]_(Lifecycle!vars)
  <1>1. CASE UNCHANGED vars
    BY <1>1 DEF vars, durable, Retrying, Lifecycle!vars
  <1>2. CASE Poll
    BY <1>2 DEF Poll, PollStart, PollDispatch, ScanTenant, SkipTenant, durable, Retrying,
                Lifecycle!vars
  <1>3. ASSUME NEW t \in Tasks, VectorsArrive(t) PROVE UNCHANGED (Lifecycle!vars)
    BY <1>3 DEF VectorsArrive, Retrying, Lifecycle!vars
  <1>4. ASSUME NEW t \in Tasks, Create(t) PROVE Lifecycle!Enqueue(t)
    BY <1>4 DEF Create, Retrying, Lifecycle!Enqueue, Lifecycle!Move
  <1> QED
    BY <1>1, <1>2, <1>3, <1>4, ProcessRefines, HandleRefines, CallRefines, RestartRefines
       DEF Next, Lifecycle!Next

\* While one user waits for each answer and does not cancel, and no connection is
\* pooled, the worker, the handlers, OpenViking's queue and the restarts move the
\* rows exactly as the documented lifecycle allows: every step is one of its
\* transitions or leaves the rows and the retries alone.
THEOREM ImplementsLifecycle ==
    ASSUME Solo, Released
    PROVE  Spec => LifecycleSpec
  <1>1. Init => Lifecycle!Init
    BY DEF Init, Idle, Retrying, Lifecycle!Init
  <1>2. IInv /\ Serial /\ [Next]_vars => [Lifecycle!Next]_(Lifecycle!vars)
    BY NextRefines DEF IInv
  <1> QED
    BY <1>1, <1>2, SoloInvariance, PTL DEF Spec, LifecycleSpec, Lifecycle!Spec

=============================================================================
