---------------------------- MODULE CapabilityCalls ----------------------------
(***************************************************************************)
(* The call of a capability: four limits are asked one after the other,    *)
(* each a counter per window in Redis (or in a map of the process, which   *)
(* is the case where no command fails); then the handler runs against a    *)
(* timer, and the outcome goes to the metrics and to the audit log.        *)
(*                                                                         *)
(* The commands of one process travel over one connection, in the order    *)
(* they were sent.  The client starts as a cluster client and falls back,  *)
(* once, to a standalone one.                                              *)
(***************************************************************************)
EXTENDS Integers, Sequences, FiniteSets

CONSTANTS
    CapCalls,     \* calls
    Buckets,      \* counters
    BucketsFor,   \* the counters a call is counted in, in the order of the rules
    LimitOf,      \* what each counter admits in a window
    Window,       \* length of a window
    MaxClock,     \* bound on the time
    Clustered,    \* the server is a cluster
    Hanging       \* calls whose handler may never end

VARIABLES
    clock,        \* the time, as Date.now() says it
    bucket,       \* the counters: count, 0 for none, start of the window, expiry of the key
    redisClient,  \* unset, cluster, standalone
    wire,         \* commands sent and not answered
    capCall,      \* the calls: place, time stamp, rule they are at
    outcomes,     \* the counters of the metrics a call was counted in
    auditLost,    \* calls whose success could not be written to the audit log
    windows,      \* history: of each counter how many windows it has had, when the last
                  \* was opened, and the age of the oldest command that opened one
    passed        \* history: the calls each counter let through, when, and in which window

windowVars == <<windows, passed>>
capVars == <<clock, bucket, redisClient, wire, capCall, outcomes, auditLost, windowVars>>

ASSUME CapabilityAssumption ==
    /\ BucketsFor \in [CapCalls -> Seq(Buckets) \ {<<>>}]
    /\ LimitOf \in [Buckets -> Nat \ {0}]
    /\ Window \in Nat \ {0} /\ MaxClock \in Nat
    /\ Clustered \in BOOLEAN

CallAt(c, pc) == capCall[c].pc = pc
Go(c, pc) == capCall' = [capCall EXCEPT ![c].pc = pc]

(***************************************************************************)
(* CapabilityRateLimitService.assertAllowed over the Redis store.          *)
(***************************************************************************)
Command(c, client) == [call |-> c, client |-> client]
Current == IF redisClient = "unset" THEN "cluster" ELSE redisClient

\* One time stamp for all rules; the first use makes the client.
Ask(c) ==
    /\ CallAt(c, "none")
    /\ capCall' = [capCall EXCEPT ![c] = [pc |-> "limit", now |-> clock, rule |-> 1]]
    /\ redisClient' = Current
    /\ wire' = Append(wire, Command(c, Current))
    /\ UNCHANGED <<clock, bucket, outcomes, auditLost, windowVars>>

\* Redis removes the key when it has expired; its clock is the caller's.
NoKey(b) == bucket[b].count = 0 \/ clock >= bucket[b].expires

\* The script: it counts in the window the call falls into, or starts one.  Every
\* command extends the life of the key to what its own time stamp leaves.
EndedAtOnce(b, now) ==  \* a window that ends with the millisecond
    NoKey(b) \/ now > bucket[b].start
Ended(b, now) == NoKey(b) \/ now - bucket[b].start >= Window
Counted(b, now) ==
    IF Ended(b, now) THEN [count |-> 1, start |-> now, expires |-> clock + Window]
    ELSE [count |-> bucket[b].count + 1, start |-> bucket[b].start,
          expires |-> clock + Window - (now - bucket[b].start)]
Older(lag, age) == IF age > lag THEN age ELSE lag
Opened(b, now) ==
    [number |-> windows[b].number + 1, opened |-> clock, lag |-> Older(windows[b].lag, clock - now)]

Consume(b, now) ==
    /\ bucket' = [bucket EXCEPT ![b] = Counted(b, now)]
    /\ windows' = IF Ended(b, now) THEN [windows EXCEPT ![b] = Opened(b, now)] ELSE windows

Fits(client) == Clustered <=> client = "cluster"

Pass(c, window) == [call |-> c, at |-> clock, window |-> window]

\* The oldest command is answered: refused, the next rule, or admitted.
StoreAnswers ==
    /\ wire # <<>> /\ Fits(Head(wire).client)
    /\ LET c == Head(wire).call
           b == BucketsFor[c][capCall[c].rule]
           count == Counted(b, capCall[c].now).count
           more == capCall[c].rule < Len(BucketsFor[c])
       IN /\ Consume(b, capCall[c].now)
          /\ \/ /\ count > LimitOf[b]
                /\ Go(c, "refused")
                /\ wire' = Tail(wire)
                /\ UNCHANGED passed
             \/ /\ count <= LimitOf[b]
                /\ passed' = [passed EXCEPT ![b] = @ \cup {Pass(c, windows'[b].number)}]
                /\ capCall' = [capCall EXCEPT ![c].rule = @ + 1,
                                              ![c].pc = IF more THEN "limit" ELSE "handler"]
                /\ wire' = IF more THEN Append(Tail(wire), Command(c, redisClient)) ELSE Tail(wire)
    /\ UNCHANGED <<clock, redisClient, outcomes, auditLost>>

\* executeWithStandaloneFallback.  "cluster support disabled": the first to see
\* it changes the client and sends its command again; the others fail, because
\* the mode is then standalone.
FallBack ==
    /\ wire # <<>> /\ ~Fits(Head(wire).client)
    /\ IF redisClient = "cluster"
       THEN /\ redisClient' = "standalone"
            /\ wire' = Append(Tail(wire), Command(Head(wire).call, "standalone"))
            /\ UNCHANGED capCall
       ELSE /\ Go(Head(wire).call, "failed")
            /\ wire' = Tail(wire)
            /\ UNCHANGED redisClient
    /\ UNCHANGED <<clock, bucket, outcomes, auditLost, windowVars>>

\* A command that fails otherwise, run or not, fails its call.
StoreFails ==
    /\ wire # <<>> /\ Fits(Head(wire).client)
    /\ LET c == Head(wire).call
           b == BucketsFor[c][capCall[c].rule]
       IN UNCHANGED <<bucket, windows>> \/ Consume(b, capCall[c].now)
    /\ Go(Head(wire).call, "failed")
    /\ wire' = Tail(wire)
    /\ UNCHANGED <<clock, redisClient, outcomes, auditLost, passed>>

(***************************************************************************)
(* execute: Promise.race of the handler and the timer, then the record.    *)
(***************************************************************************)
HandlerEnds(c) ==
    /\ CallAt(c, "handler")
    /\ \/ Go(c, "succeeded") \/ Go(c, "failed")
    /\ UNCHANGED <<clock, bucket, redisClient, wire, outcomes, auditLost, windowVars>>

\* The handler goes on, but nobody listens to it.
TimeoutOthers(c) ==  \* a timer for some of the calls only
    /\ CallAt(c, "handler") /\ c \notin Hanging
    /\ Go(c, "failed")
    /\ UNCHANGED <<clock, bucket, redisClient, wire, outcomes, auditLost, windowVars>>
HandlerTimeout(c) ==
    /\ CallAt(c, "handler")
    /\ Go(c, "failed")
    /\ UNCHANGED <<clock, bucket, redisClient, wire, outcomes, auditLost, windowVars>>

Count(c, outcome) == outcomes' = [outcomes EXCEPT ![c] = @ \cup {outcome}]

\* recordSuccess counts and then logs; when the log fails, the call that has
\* succeeded fails.
RecordSuccess(c) ==
    /\ CallAt(c, "succeeded")
    /\ Count(c, "success")
    /\ \/ Go(c, "ended") /\ UNCHANGED auditLost
       \/ Go(c, "failed") /\ auditLost' = auditLost \cup {c}
    /\ UNCHANGED <<clock, bucket, redisClient, wire, windowVars>>

\* recordFailure swallows the failure of the log,
RecordFailure(c) ==
    /\ CallAt(c, "failed")
    /\ Count(c, "failure")
    /\ Go(c, "ended")
    /\ UNCHANGED <<clock, bucket, redisClient, wire, auditLost, windowVars>>

\* recordRejected passes it on, in place of the refusal.
RejectedFallsThrough(c) ==  \* a branch that does not leave the catch
    /\ CallAt(c, "refused")
    /\ Count(c, "rejected")
    /\ Go(c, "failed")
    /\ UNCHANGED <<clock, bucket, redisClient, wire, auditLost, windowVars>>
RecordRejected(c) ==
    /\ CallAt(c, "refused")
    /\ Count(c, "rejected")
    /\ Go(c, "ended")
    /\ UNCHANGED <<clock, bucket, redisClient, wire, auditLost, windowVars>>

TimePasses ==
    /\ clock < MaxClock
    /\ clock' = clock + 1
    /\ UNCHANGED <<bucket, redisClient, wire, capCall, outcomes, auditLost, windowVars>>

(***************************************************************************)
(* The specification: a command is answered or fails (the client gives up  *)
(* after its retries), a timer runs out, a record is written or not.       *)
(***************************************************************************)
CapInit ==
    /\ clock = 0
    /\ bucket = [b \in Buckets |-> [count |-> 0, start |-> 0, expires |-> 0]]
    /\ redisClient = "unset" /\ wire = <<>>
    /\ capCall = [c \in CapCalls |-> [pc |-> "none", now |-> 0, rule |-> 1]]
    /\ outcomes = [c \in CapCalls |-> {}] /\ auditLost = {}
    /\ windows = [b \in Buckets |-> [number |-> 0, opened |-> 0, lag |-> 0]]
    /\ passed = [b \in Buckets |-> {}]

Answered == StoreAnswers \/ FallBack \/ StoreFails
Recorded(c) == RecordSuccess(c) \/ RecordFailure(c) \/ RecordRejected(c)

CapNext ==
    \/ \E c \in CapCalls : Ask(c) \/ HandlerEnds(c) \/ HandlerTimeout(c) \/ Recorded(c)
    \/ Answered \/ TimePasses

CapSpec ==
    /\ CapInit /\ [][CapNext]_capVars
    /\ WF_capVars(Answered)
    /\ \A c \in CapCalls : WF_capVars(HandlerTimeout(c)) /\ WF_capVars(Recorded(c))

(***************************************************************************)
(* Properties.                                                             *)
(***************************************************************************)
CapTypeOK ==
    /\ clock \in 0..MaxClock
    /\ \A b \in Buckets : bucket[b].count \in 0..Cardinality(CapCalls) /\ bucket[b].start <= clock
    /\ redisClient \in {"unset", "cluster", "standalone"}
    /\ \A i \in DOMAIN wire : CallAt(wire[i].call, "limit")
    /\ \A c \in CapCalls :
          /\ capCall[c].pc \in {"none", "limit", "refused", "handler", "succeeded", "failed", "ended"}
          /\ capCall[c].now <= clock /\ capCall[c].rule \in 1..Len(BucketsFor[c]) + 1

\* No two windows of a counter open within Window less the age of the commands
\* that open them; so of any stretch of that length at most two windows have a
\* part, and a counter lets through at most the limits of two.  It is the time
\* of the store that counts here, not the time stamps: a command that comes late
\* counts in whatever window there is by then.
Stretch(b, from) ==
    {p \in passed[b] : p.at \in from..from + Window - windows[b].lag - 1}
AdmissionBound ==
    \A b \in Buckets, from \in 0..MaxClock : Cardinality(Stretch(b, from)) <= 2 * LimitOf[b]

\* A call is counted as one outcome only, unless its success could not be
\* logged.
CountedOnce == \A c \in CapCalls : Cardinality(outcomes[c]) > 1 => c \in auditLost

\* A call ends even if its handler does not.
CapCallsEnd == \A c \in CapCalls : ~CallAt(c, "none") ~> CallAt(c, "ended")
=============================================================================
