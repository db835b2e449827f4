--------------------------- MODULE TaskLifecycle ---------------------------
(***************************************************************************)
(* What the import queue promises of a task's status while users wait for  *)
(* each answer and do not cancel: the transitions of the documented        *)
(* diagram, the retry that may adopt what OpenViking already holds before  *)
(* it queues the task again, removal, and the restart that puts running    *)
(* tasks back into the queue.                                              *)
(***************************************************************************)
CONSTANT Tasks
VARIABLES
    status,
    retrying    \* tasks a retry, accepted while they were FAILED, is busy with

vars == <<status, retrying>>

Move(t, from, to) ==
    /\ status[t] \in from
    /\ status' = [status EXCEPT ![t] = to]

Enqueue(t) == Move(t, {"none"}, "pending") /\ UNCHANGED retrying
Start(t)   == Move(t, {"pending"}, "running") /\ UNCHANGED retrying
Succeed(t) == Move(t, {"running"}, "done") /\ UNCHANGED retrying
Reject(t)  == Move(t, {"pending", "running"}, "failed") /\ UNCHANGED retrying
Remove(t)  == Move(t, {"failed", "done"}, "deleted") /\ UNCHANGED retrying

BeginRetry(t) ==
    /\ status[t] = "failed"
    /\ retrying' = retrying \cup {t}
    /\ UNCHANGED status

AbandonRetry(t) == retrying' = retrying \ {t} /\ UNCHANGED status

Adopt(t) ==
    /\ t \in retrying
    /\ \E new \in {"running", "done"} : Move(t, {"failed"}, new)
    /\ retrying' \in {retrying, retrying \ {t}}

Requeue(t) ==
    /\ t \in retrying
    /\ Move(t, {"failed", "running", "done"}, "pending")
    /\ retrying' = retrying \ {t}

Crash == retrying' = {} /\ UNCHANGED status

Recover ==
    /\ \E S \in SUBSET {t \in Tasks : status[t] = "running"} :
        status' = [t \in Tasks |-> IF t \in S THEN "pending" ELSE status[t]]
    /\ UNCHANGED retrying

Init ==
    /\ status = [t \in Tasks |-> "none"]
    /\ retrying = {}

Next ==
    \/ \E t \in Tasks : \/ Enqueue(t) \/ Start(t) \/ Succeed(t) \/ Reject(t) \/ Remove(t)
                        \/ BeginRetry(t) \/ AbandonRetry(t) \/ Adopt(t) \/ Requeue(t)
    \/ Crash \/ Recover

Spec == Init /\ [][Next]_vars
=============================================================================
