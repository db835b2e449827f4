----------------------------- MODULE PlatformProofs -----------------------------
(***************************************************************************)
(* Theorems about the components of the platform, for every value of the   *)
(* constants: the capability calls with their counters (CapabilityCalls),  *)
(* and the tenants: the data sources of LARGE ones (TenantSources), the    *)
(* connections of the others (TenantConnections), and their creation and   *)
(* migration (TenantStorage); and about its pages: the inspector of the    *)
(* knowledge tree (TreeInspector), the images of the editor (PageImages),  *)
(* the sessions of the windows (BrowserSession).                           *)
(***************************************************************************)
EXTENDS CapabilityCalls, TenantSources, TenantConnections, TenantStorage, TreeInspector,
        PageImages, BrowserSession, FiniteSetTheorems, FunctionTheorems, SequenceTheorems, TLAPS

(***************************************************************************)
(* Capability calls: the outcomes each is counted as, and how many a       *)
(* counter lets through.                                                   *)
(***************************************************************************)

CallPlaces == {"none", "limit", "refused", "handler", "succeeded", "failed", "ended"}
CallRec == [pc : CallPlaces, now : Nat, rule : Nat]
Clients == {"unset", "cluster", "standalone"}
CommandRec == [call : CapCalls, client : Clients]
Outcomes == {"success", "failure", "rejected"}

CapPlaces ==
    /\ clock \in Nat /\ redisClient \in Clients
    /\ wire \in Seq(CommandRec) /\ capCall \in [CapCalls -> CallRec]
    /\ outcomes \in [CapCalls -> SUBSET Outcomes] /\ auditLost \in SUBSET CapCalls

\* A command on the wire is the only one of its call, and the call waits for it.
WireSound ==
    /\ \A i \in DOMAIN wire : CallAt(wire[i].call, "limit")
    /\ \A i, j \in DOMAIN wire : wire[i].call = wire[j].call => i = j

\* A call that has not come to its record is counted nowhere; one that goes to
\* the record of failures is counted only if its success could not be logged.
RecordedOnce(c) ==
    /\ capCall[c].pc \notin {"failed", "ended"} => outcomes[c] = {}
    /\ capCall[c].pc = "failed" => outcomes[c] = {} \/ c \in auditLost
    /\ (\E o \in Outcomes : outcomes[c] \subseteq {o}) \/ c \in auditLost

CapInv == CapPlaces /\ WireSound /\ \A c \in CapCalls : RecordedOnce(c)

LEMMA CapInitInv == ASSUME CapInit PROVE CapInv
  <1>1. /\ redisClient = "unset" /\ clock = 0 /\ wire = <<>>
        /\ capCall = [c \in CapCalls |-> [pc |-> "none", now |-> 0, rule |-> 1]]
        /\ outcomes = [c \in CapCalls |-> {}] /\ auditLost = {}
    BY DEF CapInit
  <1>2. <<>> \in Seq(CommandRec)
    OBVIOUS
  <1>3. CapPlaces
    BY <1>1, <1>2 DEF CapPlaces, CallRec, CallPlaces, Clients
  <1>4. WireSound
    BY <1>1 DEF WireSound
  <1>5. \A c \in CapCalls : RecordedOnce(c)
    BY <1>1 DEF RecordedOnce, Outcomes
  <1> QED BY <1>3, <1>4, <1>5 DEF CapInv

\* A command leaves the wire and another one of the same call may join its end;
\* only that call moves.
LEMMA WireStep ==
    ASSUME CapInv, wire # <<>>, NEW r \in CallRec, NEW mode \in Clients,
           capCall' = [capCall EXCEPT ![Head(wire).call] = r],
           \/ wire' = Tail(wire)
           \/ wire' = Append(Tail(wire), Command(Head(wire).call, mode)) /\ r.pc = "limit",
           r.pc \in {"limit", "refused", "handler", "failed"},
           redisClient' \in Clients,
           UNCHANGED <<clock, outcomes, auditLost>>
    PROVE  CapInv'
  <1> USE DEF CapInv, CapPlaces
  <1> DEFINE c == Head(wire).call
             n == Len(wire)
  <1>1. /\ n \in Nat /\ n > 0 /\ DOMAIN wire = 1..n /\ wire[1] = Head(wire)
        /\ \A i \in 1..n : wire[i] \in CommandRec
        /\ Head(wire) \in CommandRec /\ Tail(wire) \in Seq(CommandRec)
        /\ DOMAIN Tail(wire) = 1..(n - 1) /\ Len(Tail(wire)) = n - 1
        /\ \A i \in 1..(n - 1) : Tail(wire)[i] = wire[i + 1]
    OBVIOUS
  <1> HIDE DEF n
  <1>2. c \in CapCalls /\ capCall[c].pc = "limit"
    BY <1>1 DEF CommandRec, WireSound, CallAt
  <1>3. \A i \in 1..(n - 1) : /\ Tail(wire)[i].call \in CapCalls /\ Tail(wire)[i].call # c
                              /\ capCall[Tail(wire)[i].call].pc = "limit"
    <2> TAKE i \in 1..(n - 1)
    <2>1. i + 1 \in DOMAIN wire /\ 1 \in DOMAIN wire /\ i + 1 # 1
      BY <1>1
    <2> QED BY <1>1, <2>1 DEF WireSound, CallAt, CommandRec
  <1>4. \A i, j \in 1..(n - 1) : Tail(wire)[i].call = Tail(wire)[j].call => i = j
    <2> TAKE i, j \in 1..(n - 1)
    <2>1. i + 1 \in DOMAIN wire /\ j + 1 \in DOMAIN wire
      BY <1>1
    <2> QED BY <1>1, <2>1 DEF WireSound
  <1>5. capCall' \in [CapCalls -> CallRec] /\ capCall'[c] = r
        /\ \A d \in CapCalls \ {c} : capCall'[d] = capCall[d]
    BY <1>2
  <1>6. CASE wire' = Tail(wire)
    <2>1. WireSound'
      BY <1>1, <1>3, <1>4, <1>5, <1>6 DEF WireSound, CallAt
    <2>2. CapPlaces'
      BY <1>1, <1>5, <1>6
    <2> QED BY <1>2, <1>5, <2>1, <2>2 DEF RecordedOnce
  <1>7. CASE wire' = Append(Tail(wire), Command(c, mode)) /\ r.pc = "limit"
    <2>1. Command(c, mode) \in CommandRec /\ Command(c, mode).call = c
      BY <1>2 DEF Command, CommandRec
    <2>2. /\ wire' \in Seq(CommandRec) /\ DOMAIN wire' = 1..n /\ wire'[n] = Command(c, mode)
          /\ \A i \in 1..(n - 1) : wire'[i] = Tail(wire)[i]
      BY <1>1, <1>7, <2>1
    <2>3. \A i \in 1..n : i = n \/ i \in 1..(n - 1)
      BY <1>1
    <2>4. WireSound'
      BY <1>3, <1>4, <1>5, <1>7, <2>1, <2>2, <2>3 DEF WireSound, CallAt
    <2>5. CapPlaces'
      BY <1>5, <2>2
    <2> QED BY <1>2, <1>5, <2>4, <2>5 DEF RecordedOnce
  <1> QED BY <1>6, <1>7

\* The store's answers, its failures and the fallback are such steps.
LEMMA AnsweredKeepsInv ==
    ASSUME CapabilityAssumption, CapInv, Answered
    PROVE  CapInv'
  <1> DEFINE c == Head(wire).call
  <1>1. wire # <<>> /\ UNCHANGED <<clock, outcomes, auditLost>>
    BY DEF Answered, StoreAnswers, FallBack, StoreFails
  <1>2. Head(wire) \in CommandRec /\ c \in CapCalls /\ capCall[c] \in CallRec /\ capCall[c].pc = "limit"
    <2>1. Head(wire) \in CommandRec /\ Head(wire) = wire[1] /\ 1 \in DOMAIN wire
      BY <1>1 DEF CapInv, CapPlaces
    <2> QED BY <2>1 DEF CommandRec, WireSound, CallAt, CapInv, CapPlaces
  <1>3. redisClient \in Clients /\ DOMAIN capCall = CapCalls
    BY DEF CapInv, CapPlaces
  <1> HIDE DEF c
  <1>4. ASSUME NEW pc \in {"refused", "failed"}, capCall' = [capCall EXCEPT ![c].pc = pc],
               wire' = Tail(wire), UNCHANGED redisClient
        PROVE  CapInv'
    <2>1. capCall' = [capCall EXCEPT ![c] = [capCall[c] EXCEPT !.pc = pc]]
      BY <1>2, <1>4
    <2>2. [capCall[c] EXCEPT !.pc = pc] \in CallRec /\ [capCall[c] EXCEPT !.pc = pc].pc = pc
      BY <1>2 DEF CallRec, CallPlaces
    <2> QED BY <1>1, <1>3, <1>4, <2>1, <2>2, WireStep DEF c
  <1>5. CASE StoreFails
    <2>1. capCall' = [capCall EXCEPT ![c].pc = "failed"] /\ wire' = Tail(wire) /\ UNCHANGED redisClient
      BY <1>5 DEF StoreFails, Go, c
    <2> QED BY <1>4, <2>1
  <1>6. CASE FallBack /\ redisClient # "cluster"
    <2>1. capCall' = [capCall EXCEPT ![c].pc = "failed"] /\ wire' = Tail(wire) /\ UNCHANGED redisClient
      BY <1>6 DEF FallBack, Go, c
    <2> QED BY <1>4, <2>1
  <1>7. CASE FallBack /\ redisClient = "cluster"
    <2>1. /\ redisClient' = "standalone" /\ wire' = Append(Tail(wire), Command(c, "standalone"))
          /\ capCall' = capCall
      BY <1>7 DEF FallBack, c
    <2>2. capCall' = [capCall EXCEPT ![c] = capCall[c]]
      BY <1>2, <1>3, <2>1, CapInv DEF CapInv, CapPlaces
    <2>3. "standalone" \in Clients
      BY DEF Clients
    <2> QED BY <1>1, <1>2, <2>1, <2>2, <2>3, WireStep DEF c
  <1>8. CASE StoreAnswers
    <2>1. UNCHANGED redisClient
      BY <1>8 DEF StoreAnswers
    <2>2. \/ capCall' = [capCall EXCEPT ![c].pc = "refused"] /\ wire' = Tail(wire)
          \/ \E more \in BOOLEAN :
               /\ capCall' = [capCall EXCEPT ![c].rule = @ + 1, ![c].pc = IF more THEN "limit" ELSE "handler"]
               /\ wire' = IF more THEN Append(Tail(wire), Command(c, redisClient)) ELSE Tail(wire)
      BY <1>8 DEF StoreAnswers, Go, c
    <2>3. CASE capCall' = [capCall EXCEPT ![c].pc = "refused"] /\ wire' = Tail(wire)
      BY <1>4, <2>1, <2>3
    <2>4. ASSUME NEW more \in BOOLEAN,
                 capCall' = [capCall EXCEPT ![c].rule = @ + 1, ![c].pc = IF more THEN "limit" ELSE "handler"],
                 wire' = IF more THEN Append(Tail(wire), Command(c, redisClient)) ELSE Tail(wire)
          PROVE  CapInv'
      <3> DEFINE pc == IF more THEN "limit" ELSE "handler"
                 r == [capCall[c] EXCEPT !.rule = capCall[c].rule + 1, !.pc = pc]
      <3>1. pc \in {"limit", "handler"}
        OBVIOUS
      <3>2. r \in CallRec /\ r.pc = pc
        <4> HIDE DEF pc
        <4>1. capCall[c].rule + 1 \in Nat /\ pc \in CallPlaces
          BY <1>2, <3>1 DEF CallRec, CallPlaces
        <4> QED BY <1>2, <4>1 DEF CallRec
      <3>3. capCall' = [capCall EXCEPT ![c] = r]
        BY <1>2, <2>4
      <3>4. /\ more => wire' = Append(Tail(wire), Command(c, redisClient)) /\ r.pc = "limit"
            /\ ~more => wire' = Tail(wire)
        BY <2>4, <3>2
      <3> HIDE DEF r, pc
      <3> QED BY <1>1, <1>3, <2>1, <3>1, <3>2, <3>3, <3>4, WireStep DEF c
    <2> QED BY <2>2, <2>3, <2>4
  <1> QED BY <1>5, <1>6, <1>7, <1>8 DEF Answered

\* Asking puts a command of a call that had none on the wire.
LEMMA AskKeepsInv ==
    ASSUME CapabilityAssumption, CapInv, NEW c \in CapCalls, Ask(c)
    PROVE  CapInv'
  <1> USE DEF CapInv, CapPlaces
  <1> DEFINE n == Len(wire)
  <1>1. /\ capCall' = [capCall EXCEPT ![c] = [pc |-> "limit", now |-> clock, rule |-> 1]]
        /\ wire' = Append(wire, Command(c, Current)) /\ redisClient' = Current
        /\ capCall[c].pc = "none" /\ UNCHANGED <<clock, outcomes, auditLost>>
    BY DEF Ask, CallAt
  <1>2. Current \in Clients
    BY DEF Current, Clients
  <1>3. [pc |-> "limit", now |-> clock, rule |-> 1] \in CallRec
    BY DEF CallRec, CallPlaces
  <1>4. Command(c, Current) \in CommandRec /\ Command(c, Current).call = c
    BY <1>2 DEF Command, CommandRec
  <1>5. /\ n \in Nat /\ DOMAIN wire = 1..n /\ \A i \in 1..n : wire[i] \in CommandRec
        /\ wire' \in Seq(CommandRec) /\ DOMAIN wire' = 1..(n + 1) /\ wire'[n + 1] = Command(c, Current)
        /\ \A i \in 1..n : wire'[i] = wire[i]
    BY <1>1, <1>4
  <1> HIDE DEF n
  <1>6. \A i \in 1..n : wire[i].call \in CapCalls /\ wire[i].call # c /\ capCall[wire[i].call].pc = "limit"
    BY <1>1, <1>5 DEF WireSound, CallAt, CommandRec
  <1>7. \A d \in CapCalls \ {c} : capCall'[d] = capCall[d]
    BY <1>1
  <1>8. capCall'[c].pc = "limit" /\ capCall' \in [CapCalls -> CallRec]
    BY <1>1, <1>3
  <1>9. CapPlaces'
    BY <1>1, <1>2, <1>5, <1>8
  <1>10. \A i \in 1..(n + 1) : i = n + 1 \/ i \in 1..n
    BY <1>5
  <1>11. WireSound'
    <2>1. wire'[n + 1].call = c /\ \A i \in 1..n : wire'[i].call = wire[i].call /\ wire'[i].call # c
      BY <1>4, <1>5, <1>6
    <2>2. \A i \in 1..n : capCall'[wire'[i].call].pc = "limit"
      BY <1>6, <1>7, <2>1
    <2>3. \A i \in DOMAIN wire' : capCall'[wire'[i].call].pc = "limit"
      BY <1>5, <1>8, <1>10, <2>1, <2>2
    <2>4. \A i, j \in 1..n : wire[i].call = wire[j].call => i = j
      BY <1>5 DEF WireSound
    <2>5. \A i, j \in DOMAIN wire' : wire'[i].call = wire'[j].call => i = j
      <3> HIDE DEF CapInv, CapPlaces
      <3> QED BY <1>5, <1>10, <2>1, <2>4
    <2> QED BY <2>3, <2>5 DEF WireSound, CallAt
  <1> QED BY <1>1, <1>7, <1>8, <1>9, <1>11 DEF RecordedOnce

\* A call off the wire goes to another place off the wire, counted or not.
LEMMA OffWireStep ==
    ASSUME CapInv, NEW c \in CapCalls, NEW pc \in CallPlaces, NEW o \in SUBSET Outcomes,
           NEW lost \in SUBSET CapCalls, auditLost \subseteq lost,
           capCall[c].pc # "limit", capCall' = [capCall EXCEPT ![c].pc = pc],
           outcomes' = [outcomes EXCEPT ![c] = o], auditLost' = lost,
           pc \notin {"failed", "ended"} => o = {},
           pc = "failed" => o = {} \/ c \in lost,
           (\E one \in Outcomes : o \subseteq {one}) \/ c \in lost,
           UNCHANGED <<clock, redisClient, wire>>
    PROVE  CapInv'
  <1> USE DEF CapInv, CapPlaces
  <1>1. capCall[c] \in CallRec
    OBVIOUS
  <1>2. [capCall[c] EXCEPT !.pc = pc] \in CallRec /\ [capCall[c] EXCEPT !.pc = pc].pc = pc
    BY <1>1 DEF CallRec
  <1>3. capCall' = [capCall EXCEPT ![c] = [capCall[c] EXCEPT !.pc = pc]]
    BY <1>1
  <1>4. capCall' \in [CapCalls -> CallRec] /\ capCall'[c].pc = pc
        /\ \A d \in CapCalls \ {c} : capCall'[d] = capCall[d]
    BY <1>2, <1>3
  <1>5. \A i \in DOMAIN wire : wire[i].call \in CapCalls \ {c}
    <2>1. \A i \in DOMAIN wire : wire[i] \in CommandRec
      OBVIOUS
    <2> QED BY <2>1 DEF WireSound, CallAt, CommandRec
  <1>6. WireSound'
    BY <1>4, <1>5 DEF WireSound, CallAt
  <1>7. outcomes'[c] = o /\ \A d \in CapCalls \ {c} : outcomes'[d] = outcomes[d]
    OBVIOUS
  <1>8. \A d \in CapCalls : RecordedOnce(d)'
    BY <1>4, <1>7 DEF RecordedOnce
  <1> QED BY <1>4, <1>6, <1>8

LEMMA HandlerKeepsInv ==
    ASSUME CapInv, NEW c \in CapCalls, HandlerEnds(c) \/ HandlerTimeout(c) \/ Recorded(c)
    PROVE  CapInv'
  <1> USE DEF CapInv, CapPlaces, CallAt, Go, Outcomes, CallPlaces
  <1>1. outcomes[c] \in SUBSET Outcomes /\ RecordedOnce(c) /\ UNCHANGED <<clock, redisClient, wire>>
    BY DEF HandlerEnds, HandlerTimeout, Recorded, RecordSuccess, RecordFailure, RecordRejected
  <1>2. CASE HandlerEnds(c) \/ HandlerTimeout(c)
    <2>1. PICK pc \in {"succeeded", "failed"} : capCall' = [capCall EXCEPT ![c].pc = pc]
      BY <1>2 DEF HandlerEnds, HandlerTimeout
    <2>2. capCall[c].pc = "handler" /\ UNCHANGED <<outcomes, auditLost>> /\ outcomes[c] = {}
      BY <1>1, <1>2 DEF HandlerEnds, HandlerTimeout, RecordedOnce
    <2>3. outcomes' = [outcomes EXCEPT ![c] = {}]
      BY <2>2
    <2> QED BY <1>1, <2>1, <2>2, <2>3, OffWireStep
  <1>3. CASE RecordSuccess(c)
    <2>1. capCall[c].pc = "succeeded" /\ outcomes[c] = {}
      BY <1>1, <1>3 DEF RecordSuccess, RecordedOnce
    <2>2. outcomes' = [outcomes EXCEPT ![c] = {"success"}]
      BY <1>3, <2>1 DEF RecordSuccess, Count
    <2>3. CASE capCall' = [capCall EXCEPT ![c].pc = "ended"] /\ auditLost' = auditLost
      BY <1>1, <2>1, <2>2, <2>3, OffWireStep
    <2>4. CASE capCall' = [capCall EXCEPT ![c].pc = "failed"] /\ auditLost' = auditLost \cup {c}
      <3>1. auditLost \cup {c} \in SUBSET CapCalls /\ auditLost \subseteq auditLost \cup {c}
        OBVIOUS
      <3>2. {"success"} \in SUBSET Outcomes /\ c \in auditLost \cup {c}
        OBVIOUS
      <3> QED BY <1>1, <2>1, <2>2, <2>4, <3>1, <3>2, OffWireStep
    <2> QED BY <1>3, <2>3, <2>4 DEF RecordSuccess
  <1>4. CASE RecordFailure(c)
    <2>1. /\ capCall[c].pc = "failed" /\ capCall' = [capCall EXCEPT ![c].pc = "ended"]
          /\ outcomes' = [outcomes EXCEPT ![c] = outcomes[c] \cup {"failure"}] /\ auditLost' = auditLost
      BY <1>4 DEF RecordFailure, Count
    <2>2. outcomes[c] = {} \/ c \in auditLost
      BY <1>1, <2>1 DEF RecordedOnce
    <2>3. outcomes[c] \cup {"failure"} \in SUBSET Outcomes
      BY <1>1
    <2> QED BY <1>1, <2>1, <2>2, <2>3, OffWireStep
  <1>5. CASE RecordRejected(c)
    <2>1. capCall[c].pc = "refused" /\ outcomes[c] = {}
      BY <1>1, <1>5 DEF RecordRejected, RecordedOnce
    <2>2. /\ capCall' = [capCall EXCEPT ![c].pc = "ended"] /\ auditLost' = auditLost
          /\ outcomes' = [outcomes EXCEPT ![c] = {"rejected"}]
      BY <1>5, <2>1 DEF RecordRejected, Count
    <2> QED BY <1>1, <2>1, <2>2, OffWireStep
  <1> QED BY <1>2, <1>3, <1>4, <1>5 DEF Recorded

LEMMA CapStep ==
    ASSUME CapabilityAssumption, CapInv, [CapNext]_capVars
    PROVE  CapInv'
  <1>1. CASE TimePasses
    BY <1>1 DEF TimePasses, CapInv, CapPlaces, WireSound, RecordedOnce, CallAt
  <1>2. CASE UNCHANGED capVars
    BY <1>2 DEF capVars, CapInv, CapPlaces, WireSound, RecordedOnce, CallAt
  <1> QED BY <1>1, <1>2, AskKeepsInv, HandlerKeepsInv, AnsweredKeepsInv DEF CapNext

\* recordSuccess, recordFailure and recordRejected count a call once, but for a
\* success whose audit entry could not be written.
THEOREM OutcomesExclusive == CapSpec => []CountedOnce
  <1>1. CapInit => CapInv
    BY CapInitInv
  <1>2. CapInv /\ [CapNext]_capVars => CapInv'
    BY CapStep, CapabilityAssumption
  <1>3. CapInv => CountedOnce
    <2> SUFFICES ASSUME CapInv, NEW c \in CapCalls, c \notin auditLost
                 PROVE  ~(Cardinality(outcomes[c]) > 1)
      BY DEF CountedOnce
    <2>1. PICK o \in Outcomes : outcomes[c] \subseteq {o}
      BY DEF CapInv, RecordedOnce
    <2>2. outcomes[c] = {} \/ outcomes[c] = {o}
      BY <2>1
    <2>3. Cardinality({}) = 0 /\ Cardinality({o}) = 1
      BY FS_EmptySet, FS_Singleton
    <2> QED BY <2>2, <2>3
  <1> QED BY <1>1, <1>2, <1>3, PTL DEF CapSpec

(***************************************************************************)
(* The limits.  WindowsOK is the inductive invariant of one counter: which *)
(* of its windows let through what, and how far apart windows open.  That  *)
(* the age of the openers has to be taken off follows from late commands:  *)
(* one that opens a window dates it back by its age.                       *)
(***************************************************************************)
BucketRec == [count : Nat, start : Nat, expires : Nat]
WindowRec == [number : Nat, opened : Nat, lag : Nat]
PassRec == [call : CapCalls, at : Nat, window : Nat]

LimitPlaces ==
    /\ bucket \in [Buckets -> BucketRec] /\ windows \in [Buckets -> WindowRec]
    /\ passed \in [Buckets -> SUBSET PassRec]

InWindow(b, w) == {p \in passed[b] : p.window = w}

\* A counter and the time stamps its current window was opened with.
WindowTimes(b) ==
    /\ bucket[b].count = 0 <=> windows[b].number = 0
    /\ bucket[b].start + Window <= bucket[b].expires \/ bucket[b].count = 0
    /\ windows[b].opened <= bucket[b].start + windows[b].lag \/ bucket[b].count = 0
    /\ windows[b].opened <= clock

\* Where in time the calls of a window, of the one before and of older ones are.
PassTimes(b) ==
    \A p \in passed[b] :
        /\ p.at <= clock /\ p.window \in 1..windows[b].number
        /\ p.window < windows[b].number => p.at <= windows[b].opened
        /\ p.window + 1 < windows[b].number => p.at + Window <= windows[b].opened + windows[b].lag

\* How many there are.
PassCounts(b) ==
    /\ IsFiniteSet(passed[b])
    /\ Cardinality(InWindow(b, windows[b].number)) <= bucket[b].count
    /\ \A w \in Nat : Cardinality(InWindow(b, w)) <= LimitOf[b]
    /\ \A from \in Nat : Cardinality(Stretch(b, from)) <= 2 * LimitOf[b]

WindowsOK(b) == WindowTimes(b) /\ PassTimes(b) /\ PassCounts(b)

\* A call is at one of its rules, with a time stamp of the past.
CallsAsk ==
    \A c \in CapCalls : /\ capCall[c].now <= clock
                        /\ capCall[c].pc = "limit" => capCall[c].rule \in 1..Len(BucketsFor[c])

LimitInv == CapInv /\ LimitPlaces /\ CallsAsk /\ \A b \in Buckets : WindowsOK(b)
LEMMA CardMonotone ==
    ASSUME NEW S, NEW T, IsFiniteSet(T), S \subseteq T
    PROVE  IsFiniteSet(S) /\ Cardinality(S) \in Nat /\ Cardinality(T) \in Nat
           /\ Cardinality(S) <= Cardinality(T)
  BY FS_Subset, FS_CardinalityType

LEMMA CardOneMore ==
    ASSUME NEW S, IsFiniteSet(S), NEW x
    PROVE  IsFiniteSet(S \cup {x}) /\ Cardinality(S) \in Nat
           /\ Cardinality(S \cup {x}) \in Nat /\ Cardinality(S \cup {x}) <= Cardinality(S) + 1
  BY FS_AddElement, FS_CardinalityType

LEMMA CardOfTwo ==
    ASSUME NEW S, NEW T, IsFiniteSet(S), IsFiniteSet(T), NEW n \in Nat,
           Cardinality(S) <= n, Cardinality(T) <= n
    PROVE  IsFiniteSet(S \cup T) /\ Cardinality(S \cup T) <= 2 * n
  <1>1. Cardinality(S \cup T) = Cardinality(S) + Cardinality(T) - Cardinality(S \cap T)
        /\ IsFiniteSet(S \cup T)
    BY FS_Union
  <1>2. IsFiniteSet(S \cap T)
    BY FS_Subset
  <1>3. Cardinality(S) \in Nat /\ Cardinality(T) \in Nat /\ Cardinality(S \cap T) \in Nat
    BY <1>2, FS_CardinalityType
  <1> QED BY <1>1, <1>3

\* A command counts in the window there is or opens one; it lets its call
\* through or not.
Counts(b, now, c) ==
    /\ Consume(b, now) /\ clock' = clock
    /\ \/ passed'[b] = passed[b]
       \/ /\ passed'[b] = passed[b] \cup {Pass(c, windows'[b].number)}
          /\ bucket'[b].count <= LimitOf[b]

LEMMA CountKeepsWindows ==
    ASSUME LimitPlaces, NEW b \in Buckets, WindowsOK(b), clock \in Nat,
           NEW now \in Nat, now <= clock, NEW c \in CapCalls, Counts(b, now, c)
    PROVE  /\ bucket'[b] \in BucketRec /\ windows'[b] \in WindowRec /\ passed'[b] \in SUBSET PassRec
           /\ WindowsOK(b)'
  <1> DEFINE k == bucket[b]
             w == windows[b]
             P == passed[b]
             q == Pass(c, w'.number)
             L == LimitOf[b]
  <1>1. /\ k \in BucketRec /\ k.count \in Nat /\ k.start \in Nat /\ k.expires \in Nat
        /\ w \in WindowRec /\ w.number \in Nat /\ w.opened \in Nat /\ w.lag \in Nat
        /\ L \in Nat /\ L >= 1 /\ Window \in Nat /\ Window >= 1
        /\ \A p \in P : p \in PassRec /\ p.at \in Nat /\ p.window \in Nat
    <2>1. k \in BucketRec /\ w \in WindowRec
      BY DEF LimitPlaces
    <2>2. L \in Nat \ {0}
      BY CapabilityAssumption DEF CapabilityAssumption
    <2>3. L \in Nat /\ L >= 1 /\ Window \in Nat /\ Window >= 1
      <3> HIDE DEF L
      <3> QED BY <2>2, CapabilityAssumption DEF CapabilityAssumption
    <2>4. \A p \in P : p \in PassRec /\ p.at \in Nat /\ p.window \in Nat
      BY DEF LimitPlaces, PassRec
    <2> HIDE DEF k, w, P, L
    <2> QED BY <2>1, <2>3, <2>4 DEF BucketRec, WindowRec
  <1>2. /\ k.count = 0 <=> w.number = 0
        /\ k.count # 0 => k.start + Window <= k.expires /\ w.opened <= k.start + w.lag
        /\ w.opened <= clock
    BY DEF WindowsOK, WindowTimes
  <1>3. \A p \in P : /\ p.at <= clock /\ p.window \in 1..w.number
                     /\ p.window < w.number => p.at <= w.opened
                     /\ p.window + 1 < w.number => p.at + Window <= w.opened + w.lag
    BY DEF WindowsOK, PassTimes
  <1>4. /\ IsFiniteSet(P) /\ Cardinality(InWindow(b, w.number)) <= k.count
        /\ \A v \in Nat : Cardinality(InWindow(b, v)) <= L
        /\ \A from \in Nat : Cardinality({p \in P : p.at \in from..from + Window - w.lag - 1}) <= 2 * L
    BY DEF WindowsOK, PassCounts, Stretch
  <1>5. \A v : InWindow(b, v) = {p \in P : p.window = v}
    BY DEF InWindow
  <1>6. /\ Ended(b, now) <=> k.count = 0 \/ clock >= k.expires \/ now - k.start >= Window
        /\ k' = IF Ended(b, now) THEN [count |-> 1, start |-> now, expires |-> clock + Window]
                ELSE [count |-> k.count + 1, start |-> k.start, expires |-> clock + Window - (now - k.start)]
        /\ w' = IF Ended(b, now)
                THEN [number |-> w.number + 1, opened |-> clock, lag |-> Older(w.lag, clock - now)]
                ELSE w
    BY DEF Counts, Consume, Counted, Opened, Ended, NoKey, LimitPlaces
  <1>7. P' = P \/ (P' = P \cup {q} /\ k'.count <= L)
    BY DEF Counts
  <1> HIDE DEF k, w, P, L
  <1>8. /\ k' \in BucketRec /\ w' \in WindowRec /\ k'.count \in Nat /\ k'.count >= 1
        /\ w'.number \in Nat /\ w'.number >= 1 /\ w'.opened \in Nat /\ w'.lag \in Nat
        /\ w'.lag >= w.lag /\ w'.opened <= clock
        /\ k'.start + Window <= k'.expires /\ w'.opened <= k'.start + w'.lag
        /\ Cardinality({p \in P : p.window = w'.number}) <= k'.count - 1
        /\ \A p \in P : /\ p.at <= clock /\ p.window \in 1..w'.number
                        /\ p.window < w'.number => p.at <= w'.opened
                        /\ p.window + 1 < w'.number => p.at + Window <= w'.opened + w'.lag
    <2>1. CASE Ended(b, now)
      <3> DEFINE age == clock - now
      <3>1. age \in Nat /\ clock = now + age
        OBVIOUS
      <3>2. Older(w.lag, age) \in Nat /\ Older(w.lag, age) >= w.lag /\ Older(w.lag, age) >= age
        BY <1>1, <3>1 DEF Older
      <3>3. /\ k' = [count |-> 1, start |-> now, expires |-> clock + Window]
            /\ w' = [number |-> w.number + 1, opened |-> clock, lag |-> Older(w.lag, age)]
        BY <1>6, <2>1
      <3>4. /\ k'.count = 1 /\ k'.start = now /\ k'.expires = clock + Window
            /\ w'.number = w.number + 1 /\ w'.opened = clock /\ w'.lag = Older(w.lag, age)
        BY <3>3
      <3>5. clock + Window \in Nat /\ w.number + 1 \in Nat
        BY <1>1
      <3>6. k' \in BucketRec /\ w' \in WindowRec
        BY <3>2, <3>3, <3>5 DEF BucketRec, WindowRec
      <3> HIDE DEF age
      <3>7. {p \in P : p.window = w'.number} = {}
        BY <1>1, <1>3, <3>4
      <3>8. k.count # 0 => w.opened + Window <= clock + w.lag
        BY <1>1, <1>2, <1>6, <2>1
      <3>9. ASSUME NEW p \in P
            PROVE  /\ p.at <= clock /\ p.window \in 1..w'.number
                   /\ p.window < w'.number => p.at <= w'.opened
                   /\ p.window + 1 < w'.number => p.at + Window <= w'.opened + w'.lag
        <4>1. p.at <= clock /\ p.window \in 1..w.number /\ (p.window < w.number => p.at <= w.opened)
          BY <1>3
        <4>2. k.count # 0 /\ p.window \in Nat /\ p.at \in Nat
          BY <1>1, <1>2, <4>1
        <4> QED BY <1>1, <3>2, <3>4, <3>8, <4>1, <4>2
      <3>10. /\ w'.lag >= w.lag /\ w'.opened <= clock /\ k'.count >= 1 /\ w'.number >= 1
             /\ k'.start + Window <= k'.expires /\ w'.opened <= k'.start + w'.lag
        BY <1>1, <3>1, <3>2, <3>4
      <3>11. Cardinality({p \in P : p.window = w'.number}) <= k'.count - 1
        BY <3>4, <3>7, FS_EmptySet
      <3>12. k'.count \in Nat /\ w'.number \in Nat /\ w'.opened \in Nat /\ w'.lag \in Nat
        BY <3>6 DEF BucketRec, WindowRec
      <3> QED BY <3>6, <3>9, <3>10, <3>11, <3>12
    <2>2. CASE ~Ended(b, now)
      <3>1. /\ k' = [count |-> k.count + 1, start |-> k.start, expires |-> clock + Window - (now - k.start)]
            /\ w' = w /\ k.count # 0 /\ now - k.start < Window
        BY <1>1, <1>6, <2>2
      <3>2. k.count + 1 \in Nat /\ clock + Window - (now - k.start) \in Nat
            /\ k.start + Window <= clock + Window - (now - k.start)
        BY <1>1, <3>1
      <3>3. /\ k'.count = k.count + 1 /\ k'.start = k.start
            /\ k'.expires = clock + Window - (now - k.start) /\ k' \in BucketRec
        BY <1>1, <3>1, <3>2 DEF BucketRec
      <3>4. Cardinality({p \in P : p.window = w'.number}) <= k'.count - 1
        <4>1. k'.count - 1 = k.count
          BY <1>1, <3>3
        <4> QED BY <1>4, <1>5, <3>1, <4>1
      <3>5. w.number >= 1
        BY <1>1, <1>2, <3>1
      <3> QED BY <1>1, <1>2, <1>3, <3>1, <3>2, <3>3, <3>4, <3>5
    <2> QED BY <2>1, <2>2
  <1>9. q \in PassRec /\ q.at = clock /\ q.window = w'.number
    BY <1>8 DEF Pass, PassRec
  <1> HIDE DEF q
  <1>10. P' \in SUBSET PassRec /\ P \subseteq P' /\ P' \subseteq P \cup {q} /\ IsFiniteSet(P')
    <2>1. IsFiniteSet(P \cup {q})
      BY <1>4, FS_AddElement
    <2>2. P \subseteq PassRec /\ IsFiniteSet(P)
      BY <1>1, <1>4
    <2> QED BY <1>7, <1>9, <2>1, <2>2
  <1>11. \A p \in P' : /\ p.at <= clock /\ p.window \in 1..w'.number
                       /\ p.window < w'.number => p.at <= w'.opened
                       /\ p.window + 1 < w'.number => p.at + Window <= w'.opened + w'.lag
    BY <1>8, <1>9, <1>10
  <1>12. \A v \in Nat : /\ Cardinality({p \in P' : p.window = v}) <= L
                        /\ v = w'.number => Cardinality({p \in P' : p.window = v}) <= k'.count
    <2> SUFFICES ASSUME NEW v \in Nat
                 PROVE  /\ Cardinality({p \in P' : p.window = v}) <= L
                        /\ v = w'.number => Cardinality({p \in P' : p.window = v}) <= k'.count
      OBVIOUS
    <2> DEFINE Old == {p \in P : p.window = v}
               New == {p \in P' : p.window = v}
    <2>1. IsFiniteSet(Old) /\ Cardinality(Old) \in Nat /\ Cardinality(Old) <= L
      BY <1>4, <1>5, CardMonotone
    <2>2. Cardinality(Old \cup {q}) \in Nat /\ Cardinality(Old \cup {q}) <= Cardinality(Old) + 1
          /\ IsFiniteSet(Old \cup {q})
      BY <2>1, CardOneMore
    <2>3. v = w'.number => Cardinality(Old) <= k'.count - 1
      BY <1>8
    <2>4. P' = P \/ v # w'.number => New = Old
      BY <1>7, <1>9
    <2>5. New \subseteq Old \cup {q}
      BY <1>7
    <2>6. Cardinality(New) \in Nat /\ Cardinality(New) <= Cardinality(Old \cup {q})
      BY <2>2, <2>5, CardMonotone
    <2> HIDE DEF Old, New
    <2>7. Cardinality(New) <= L /\ (v = w'.number => Cardinality(New) <= k'.count)
      <3>1. CASE P' = P \/ v # w'.number
        BY <1>1, <1>8, <2>1, <2>3, <2>4, <3>1
      <3>2. CASE P' # P /\ v = w'.number
        <4>1. k'.count <= L
          BY <1>7, <3>2
        <4> QED BY <1>1, <1>8, <2>1, <2>2, <2>3, <2>6, <3>2, <4>1
      <3> QED BY <3>1, <3>2
    <2> QED BY <2>7 DEF New
  <1>13. \A from \in Nat : Cardinality({p \in P' : p.at \in from..from + Window - w'.lag - 1}) <= 2 * L
    <2> SUFFICES ASSUME NEW from \in Nat
                 PROVE  Cardinality({p \in P' : p.at \in from..from + Window - w'.lag - 1}) <= 2 * L
      OBVIOUS
    <2> DEFINE Old == {p \in P : p.at \in from..from + Window - w.lag - 1}
               New == {p \in P' : p.at \in from..from + Window - w'.lag - 1}
               InW(v) == {p \in P' : p.window = v}
    <2>1. CASE clock \notin from..from + Window - w'.lag - 1
      <3>1. q \notin New
        BY <1>9, <2>1
      <3>2. New \subseteq P
        BY <1>10, <3>1
      <3>3. \A p \in P : p.at \in from..from + Window - w'.lag - 1 => p.at \in from..from + Window - w.lag - 1
        BY <1>1, <1>8
      <3>4. New \subseteq Old
        BY <3>2, <3>3
      <3>5. IsFiniteSet(Old) /\ Cardinality(Old) <= 2 * L
        BY <1>4, CardMonotone
      <3>6. Cardinality(New) \in Nat /\ Cardinality(Old) \in Nat /\ Cardinality(New) <= Cardinality(Old)
        BY <3>4, <3>5, CardMonotone
      <3> HIDE DEF Old, New
      <3>7. Cardinality(New) <= 2 * L
        BY <1>1, <3>5, <3>6
      <3> QED BY <3>7 DEF New
    <2>2. CASE clock \in from..from + Window - w'.lag - 1
      <3>1. w'.number - 1 \in Nat
        BY <1>8
      <3>2. ASSUME NEW p \in New
            PROVE  p.window = w'.number \/ p.window = w'.number - 1
        <4>1. p \in PassRec /\ p \in P' /\ p.at \in from..from + Window - w'.lag - 1
          BY <1>10
        <4>2. p.at \in Nat /\ p.window \in Nat
          BY <4>1 DEF PassRec
        <4>3. p.window \in 1..w'.number /\ (p.window + 1 < w'.number => p.at + Window <= w'.opened + w'.lag)
          BY <1>11, <4>1
        <4>4. p.at + Window > clock + w'.lag
          BY <1>1, <1>8, <2>2, <4>1, <4>2
        <4>5. w'.opened + w'.lag <= clock + w'.lag
          BY <1>8
        <4>6. ~(p.window + 1 < w'.number)
          BY <1>1, <1>8, <4>2, <4>3, <4>4, <4>5
        <4> QED BY <1>8, <4>2, <4>3, <4>6
      <3>3. New \subseteq InW(w'.number) \cup InW(w'.number - 1)
        BY <3>2
      <3>4. \A v \in Nat : IsFiniteSet(InW(v)) /\ Cardinality(InW(v)) <= L
        BY <1>10, <1>12, CardMonotone
      <3> HIDE DEF InW
      <3>5. IsFiniteSet(InW(w'.number) \cup InW(w'.number - 1))
            /\ Cardinality(InW(w'.number) \cup InW(w'.number - 1)) <= 2 * L
        BY <1>1, <1>8, <3>1, <3>4, CardOfTwo
      <3>6. /\ Cardinality(New) \in Nat /\ Cardinality(InW(w'.number) \cup InW(w'.number - 1)) \in Nat
            /\ Cardinality(New) <= Cardinality(InW(w'.number) \cup InW(w'.number - 1))
        BY <3>3, <3>5, CardMonotone
      <3> HIDE DEF New
      <3>7. Cardinality(New) <= 2 * L
        BY <1>1, <3>5, <3>6
      <3> QED BY <3>7 DEF New
    <2> QED BY <2>1, <2>2
  <1>14. WindowTimes(b)' /\ PassTimes(b)' /\ PassCounts(b)'
    <2>1. WindowTimes(b)'
      <3>1. k'.count # 0 /\ w'.number # 0
        BY <1>8
      <3> QED BY <1>8, <3>1 DEF WindowTimes, Counts, k, w
    <2>2. PassTimes(b)'
      BY <1>11 DEF PassTimes, Counts, P, w
    <2>3. PassCounts(b)'
      BY <1>8, <1>10, <1>12, <1>13 DEF PassCounts, InWindow, Stretch, P, L, w, k
    <2> QED BY <2>1, <2>2, <2>3
  <1> QED BY <1>8, <1>10, <1>14 DEF WindowsOK, k, w, P

LEMMA LimitInitInv == ASSUME CapInit PROVE LimitInv
  <1>1. /\ clock = 0 /\ bucket = [b \in Buckets |-> [count |-> 0, start |-> 0, expires |-> 0]]
        /\ windows = [b \in Buckets |-> [number |-> 0, opened |-> 0, lag |-> 0]]
        /\ passed = [b \in Buckets |-> {}]
        /\ capCall = [c \in CapCalls |-> [pc |-> "none", now |-> 0, rule |-> 1]]
    BY DEF CapInit
  <1>2. LimitPlaces
    BY <1>1 DEF LimitPlaces, BucketRec, WindowRec
  <1>3. CallsAsk
    BY <1>1 DEF CallsAsk
  <1>4. \A b \in Buckets : LimitOf[b] \in Nat
    BY CapabilityAssumption DEF CapabilityAssumption
  <1>5. ASSUME NEW b \in Buckets PROVE WindowsOK(b)
    <2>1. passed[b] = {} /\ bucket[b].count = 0 /\ windows[b].number = 0 /\ windows[b].opened = 0
      BY <1>1
    <2>2. (\A v : InWindow(b, v) = {}) /\ (\A from : Stretch(b, from) = {})
      BY <2>1 DEF InWindow, Stretch
    <2>3. Cardinality({}) = 0 /\ IsFiniteSet({})
      BY FS_EmptySet
    <2>4. WindowTimes(b) /\ PassTimes(b)
      BY <1>1, <2>1 DEF WindowTimes, PassTimes
    <2>5. PassCounts(b)
      <3>1. LimitOf[b] \in Nat /\ 0 <= LimitOf[b] /\ 0 <= 2 * LimitOf[b] /\ 0 <= 0
        BY <1>4
      <3> QED BY <2>1, <2>2, <2>3, <3>1 DEF PassCounts
    <2> QED BY <2>4, <2>5 DEF WindowsOK
  <1> QED BY <1>2, <1>3, <1>5, CapInitInv DEF LimitInv

\* Time alone, and steps that ask no counter, leave the windows as they are.
LEMMA WindowsRest ==
    ASSUME LimitPlaces, \A b \in Buckets : WindowsOK(b), UNCHANGED <<bucket, windows, passed>>,
           clock \in Nat, clock' \in Nat, clock' >= clock
    PROVE  LimitPlaces' /\ \A b \in Buckets : WindowsOK(b)'
  <1>1. LimitPlaces'
    BY DEF LimitPlaces
  <1>2. ASSUME NEW b \in Buckets PROVE WindowsOK(b)'
    <2>1. windows[b].opened \in Nat /\ \A p \in passed[b] : p.at \in Nat
      BY DEF LimitPlaces, WindowRec, PassRec
    <2>2. WindowTimes(b)'
      BY <2>1 DEF WindowsOK, WindowTimes
    <2>3. PassTimes(b)'
      BY <2>1 DEF WindowsOK, PassTimes
    <2>4. PassCounts(b)'
      BY DEF WindowsOK, PassCounts, InWindow, Stretch
    <2> QED BY <2>2, <2>3, <2>4 DEF WindowsOK
  <1> QED BY <1>1, <1>2

\* The store counts the oldest command in the counter its call is at.
LEMMA StoreKeepsLimits ==
    ASSUME LimitInv, StoreAnswers \/ StoreFails
    PROVE  LimitPlaces' /\ CallsAsk' /\ \A b \in Buckets : WindowsOK(b)'
  <1>1. /\ wire # <<>> /\ clock' = clock /\ clock \in Nat
        /\ LimitPlaces /\ CallsAsk /\ \A e \in Buckets : WindowsOK(e)
    BY DEF StoreAnswers, StoreFails, LimitInv, CapInv, CapPlaces
  <1>2. PICK c \in CapCalls : c = Head(wire).call
    <2>1. Head(wire) \in CommandRec
      BY <1>1 DEF LimitInv, CapInv, CapPlaces
    <2> QED BY <2>1 DEF CommandRec
  <1>3. capCall[c].pc = "limit" /\ capCall \in [CapCalls -> CallRec]
    <2>1. Head(wire) = wire[1] /\ 1 \in DOMAIN wire
      BY <1>1 DEF LimitInv, CapInv, CapPlaces
    <2> QED BY <1>2, <2>1 DEF WireSound, CallAt, LimitInv, CapInv, CapPlaces
  <1>4. PICK now \in Nat : now = capCall[c].now /\ now <= clock
    BY <1>1, <1>3 DEF CallRec, CallsAsk
  <1>5. PICK b \in Buckets : b = BucketsFor[c][capCall[c].rule]
    <2>1. BucketsFor[c] \in Seq(Buckets)
      BY CapabilityAssumption DEF CapabilityAssumption
    <2>2. capCall[c].rule \in 1..Len(BucketsFor[c])
      BY <1>1, <1>3 DEF CallsAsk
    <2> QED BY <2>1, <2>2
  <1>6. /\ Consume(b, now) \/ UNCHANGED <<bucket, windows>>
        /\ \/ UNCHANGED passed
           \/ /\ passed' = [passed EXCEPT ![b] = passed[b] \cup {Pass(c, windows'[b].number)}]
              /\ Counted(b, now).count <= LimitOf[b] /\ Consume(b, now)
    BY <1>2, <1>4, <1>5 DEF StoreAnswers, StoreFails
  <1>7. \A e \in Buckets \ {b} : bucket'[e] = bucket[e] /\ windows'[e] = windows[e] /\ passed'[e] = passed[e]
    BY <1>1, <1>6 DEF Consume, LimitPlaces
  <1>8. DOMAIN bucket' = Buckets /\ DOMAIN windows' = Buckets /\ DOMAIN passed' = Buckets
        /\ bucket' = [e \in Buckets |-> bucket'[e]] /\ windows' = [e \in Buckets |-> windows'[e]]
        /\ passed' = [e \in Buckets |-> passed'[e]]
    BY <1>1, <1>6 DEF Consume, LimitPlaces
  <1> DEFINE Sound(e) == /\ bucket'[e] \in BucketRec /\ windows'[e] \in WindowRec
                         /\ passed'[e] \in SUBSET PassRec /\ WindowsOK(e)'
  <1>9. ASSUME NEW e \in Buckets, bucket'[e] = bucket[e], windows'[e] = windows[e], passed'[e] = passed[e]
        PROVE  Sound(e)
    <2>1. bucket[e] \in BucketRec /\ windows[e] \in WindowRec /\ passed[e] \in SUBSET PassRec
      BY <1>1 DEF LimitPlaces
    <2>2. WindowsOK(e)'
      BY <1>1, <1>9 DEF WindowsOK, WindowTimes, PassTimes, PassCounts, InWindow, Stretch
    <2> QED BY <1>9, <2>1, <2>2
  <1>10. Consume(b, now) => Sound(b)
    <2> SUFFICES ASSUME Consume(b, now) PROVE Sound(b)
      OBVIOUS
    <2>1. bucket'[b] = Counted(b, now)
      BY <1>1, <1>5 DEF Consume, LimitPlaces
    <2>2. passed'[b] = passed[b] \/ (/\ passed'[b] = passed[b] \cup {Pass(c, windows'[b].number)}
                                     /\ bucket'[b].count <= LimitOf[b])
      BY <1>1, <1>5, <1>6, <2>1 DEF LimitPlaces
    <2>3. Counts(b, now, c)
      BY <1>1, <2>2 DEF Counts
    <2> QED BY <1>1, <1>2, <1>3, <1>4, <1>5, <2>3, CountKeepsWindows
  <1>11. \A e \in Buckets : Sound(e)
    <2> HIDE DEF Sound
    <2> TAKE e \in Buckets
    <2>1. CASE e = b /\ Consume(b, now)
      BY <1>10, <2>1
    <2>2. CASE ~(e = b /\ Consume(b, now))
      <3>1. bucket'[e] = bucket[e] /\ windows'[e] = windows[e] /\ passed'[e] = passed[e]
        BY <1>6, <1>7, <2>2
      <3> QED BY <1>9, <3>1
    <2> QED BY <2>1, <2>2
  <1>12. LimitPlaces'
    BY <1>8, <1>11 DEF LimitPlaces
  <1>13. CallsAsk'
    <2>1. \A d \in CapCalls \ {c} : capCall'[d] = capCall[d]
      BY <1>2, <1>3 DEF StoreAnswers, StoreFails, Go
    <2>2. capCall[c].rule \in Nat /\ Len(BucketsFor[c]) \in Nat /\ capCall[c].rule >= 1
      <3>1. BucketsFor[c] \in Seq(Buckets)
        BY CapabilityAssumption DEF CapabilityAssumption
      <3> QED BY <1>1, <1>3, <3>1 DEF CallRec, CallsAsk
    <2>3. /\ capCall'[c].now = now
          /\ capCall'[c].pc = "limit" => capCall[c].rule < Len(BucketsFor[c])
                                         /\ capCall'[c].rule = capCall[c].rule + 1
      <3>1. CASE capCall' = [capCall EXCEPT ![c].pc = "failed"] \/ capCall' = [capCall EXCEPT ![c].pc = "refused"]
        <4>1. capCall'[c].now = capCall[c].now /\ capCall'[c].pc \in {"failed", "refused"}
          BY <1>3, <3>1 DEF CallRec
        <4> QED BY <1>4, <4>1
      <3>2. CASE capCall' = [capCall EXCEPT ![c].rule = capCall[c].rule + 1,
                                            ![c].pc = IF capCall[c].rule < Len(BucketsFor[c])
                                                      THEN "limit" ELSE "handler"]
        <4>1. /\ capCall'[c].now = capCall[c].now /\ capCall'[c].rule = capCall[c].rule + 1
              /\ capCall'[c].pc = IF capCall[c].rule < Len(BucketsFor[c]) THEN "limit" ELSE "handler"
          BY <1>3, <3>2 DEF CallRec
        <4> QED BY <1>4, <4>1
      <3> QED BY <1>2, <3>1, <3>2 DEF StoreAnswers, StoreFails, Go
    <2> QED BY <1>1, <1>4, <2>1, <2>2, <2>3 DEF CallsAsk
  <1> QED BY <1>11, <1>12, <1>13

LEMMA LimitStep == ASSUME LimitInv, [CapNext]_capVars PROVE LimitInv'
  <1>1. CapInv'
    BY CapStep, CapabilityAssumption DEF LimitInv
  <1>2. capCall \in [CapCalls -> CallRec] /\ clock \in Nat /\ CallsAsk /\ LimitPlaces
        /\ \A b \in Buckets : WindowsOK(b)
    BY DEF LimitInv, CapInv, CapPlaces
  <1>3. CASE StoreAnswers \/ StoreFails
    BY <1>1, <1>3, StoreKeepsLimits DEF LimitInv
  <1>4. CASE TimePasses \/ UNCHANGED capVars
    <2>1. UNCHANGED <<bucket, windows, passed, capCall>> /\ clock' \in Nat /\ clock' >= clock
      BY <1>2, <1>4 DEF TimePasses, capVars, windowVars
    <2>2. CallsAsk'
      <3>1. \A c \in CapCalls : capCall[c].now \in Nat
        BY <1>2 DEF CallRec
      <3> QED BY <1>2, <2>1, <3>1 DEF CallsAsk
    <2> QED BY <1>1, <1>2, <2>1, <2>2, WindowsRest DEF LimitInv
  <1>5. ASSUME NEW c \in CapCalls, Ask(c) PROVE LimitInv'
    <2>1. /\ UNCHANGED <<clock, bucket, windows, passed>>
          /\ capCall' = [capCall EXCEPT ![c] = [pc |-> "limit", now |-> clock, rule |-> 1]]
      BY <1>5 DEF Ask, windowVars
    <2>2. 1 \in 1..Len(BucketsFor[c])
      <3>1. BucketsFor[c] \in Seq(Buckets) /\ BucketsFor[c] # <<>>
        BY CapabilityAssumption DEF CapabilityAssumption
      <3> QED BY <3>1
    <2>3. CallsAsk'
      BY <1>2, <2>1, <2>2 DEF CallsAsk
    <2> QED BY <1>1, <1>2, <2>1, <2>3, WindowsRest DEF LimitInv
  <1>6. ASSUME NEW c \in CapCalls, NEW pc, pc # "limit", capCall' = [capCall EXCEPT ![c].pc = pc],
               UNCHANGED <<clock, bucket, windows, passed>>
        PROVE  LimitInv'
    <2>1. capCall'[c].now = capCall[c].now /\ capCall'[c].pc = pc
          /\ \A d \in CapCalls \ {c} : capCall'[d] = capCall[d]
      BY <1>2, <1>6 DEF CallRec
    <2>2. CallsAsk'
      BY <1>2, <1>6, <2>1 DEF CallsAsk
    <2> QED BY <1>1, <1>2, <1>6, <2>2, WindowsRest DEF LimitInv
  <1>7. CASE FallBack
    <2>1. UNCHANGED <<clock, bucket, windows, passed>>
      BY <1>7 DEF FallBack, windowVars
    <2>2. CASE UNCHANGED capCall
      BY <1>1, <1>2, <2>1, <2>2, WindowsRest DEF LimitInv, CallsAsk
    <2>3. CASE Go(Head(wire).call, "failed")
      <3>1. Head(wire).call \in CapCalls
        <4>1. Head(wire) \in CommandRec
          BY <1>7 DEF FallBack, LimitInv, CapInv, CapPlaces
        <4> QED BY <4>1 DEF CommandRec
      <3> QED BY <1>6, <2>1, <2>3, <3>1 DEF Go
    <2> QED BY <1>7, <2>2, <2>3 DEF FallBack
  <1>8. ASSUME NEW c \in CapCalls, HandlerEnds(c) \/ HandlerTimeout(c) \/ Recorded(c) PROVE LimitInv'
    <2>1. UNCHANGED <<clock, bucket, windows, passed>>
      BY <1>8 DEF HandlerEnds, HandlerTimeout, Recorded, RecordSuccess, RecordFailure, RecordRejected, windowVars
    <2>2. \E pc \in {"succeeded", "failed", "ended"} : capCall' = [capCall EXCEPT ![c].pc = pc]
      BY <1>8 DEF HandlerEnds, HandlerTimeout, Recorded, RecordSuccess, RecordFailure, RecordRejected, Go
    <2> QED BY <1>6, <2>1, <2>2
  <1> QED BY <1>3, <1>4, <1>5, <1>7, <1>8 DEF CapNext, Answered

\* assertAllowed over the script of the store: in any stretch of time as long as
\* a window less the age of the commands that opened windows, a counter lets
\* through at most twice its limit.
THEOREM AdmissionBounded == CapSpec => []AdmissionBound
  <1>1. CapInit => LimitInv
    BY LimitInitInv
  <1>2. LimitInv /\ [CapNext]_capVars => LimitInv'
    BY LimitStep
  <1>3. LimitInv => AdmissionBound
    <2>1. 0..MaxClock \subseteq Nat
      OBVIOUS
    <2> QED BY <2>1 DEF LimitInv, WindowsOK, PassCounts, AdmissionBound
  <1> QED BY <1>1, <1>2, <1>3, PTL DEF CapSpec


(***************************************************************************)
(* Data sources.  Next to the property the invariant knows that a request  *)
(* at work has a data source that was ready once, that one that asked for  *)
(* it within the idle limit has kept the pool young, and that nothing is   *)
(* opened while the pool has something.                                    *)
(***************************************************************************)
SourceRec == [state : {"none", "starting", "ready", "gone"}, config : Nat]
SourcePlaces ==
    /\ source \in [Sources -> SourceRec]
    /\ pool \in Sources \cup {NoSource} /\ pending \in Sources \cup {NoSource}
    /\ config \in Nat /\ cache.config \in Nat
    /\ request \in [Requests -> [pc : Places, config : Nat, source : Sources \cup {NoSource}, lately : BOOLEAN]]

InUse ==
    \A r \in Requests :
        /\ request[r].pc \in {"waiting", "using"} => request[r].source \in Sources
        /\ request[r].pc = "using" => source[request[r].source].state \in {"ready", "gone"}
        /\ request[r].pc = "using" /\ request[r].lately => askedLately

OneAtATime == pending # NoSource => pool = NoSource

SourcesInv == SourcePlaces /\ NoSourceLost /\ InUse /\ OneAtATime

LEMMA SourcesInitInv == ASSUME SourcesAssumption PROVE SourcesInit => SourcesInv
  BY DEF SourcesInit, SourcesInv, SourcePlaces, NoSourceLost, InUse, OneAtATime, SourceRec, Waiting, NoCacheEntry,
         Places, SourcesAssumption

\* The steps that leave data sources and pool alone, and only move a request
\* that is not at work to another such place.
LEMMA RoutingKeepsInv ==
    ASSUME SourcesAssumption, SourcesInv, NEW r \in Requests,
           LookUp(r) \/ ReadConfig(r) \/ StoreConfig(r) \/ Finish(r)
    PROVE  SourcesInv' /\ source' = source
  <1> USE DEF SourcesInv, SourcePlaces, Places, OneAtATime
  <1>1. /\ UNCHANGED <<source, pool, pending, askedLately, config>>
        /\ cache'.config \in Nat
    BY DEF LookUp, ReadConfig, StoreConfig, Finish, RouteTo, CacheEntry, NoCacheEntry
  <1>2. \E t \in [pc : Places \ {"waiting", "using"}, config : Nat, source : Sources \cup {NoSource}, lately : BOOLEAN] :
            request' = [request EXCEPT ![r] = t]
    <2>1. CASE LookUp(r)
      <3>1. CASE request' = [request EXCEPT ![r].pc = "route", ![r].config = cache.config]
        <4>1. request' = [request EXCEPT ![r] = [@ EXCEPT !.pc = "route", !.config = cache.config]]
          BY <3>1
        <4>2. [request[r] EXCEPT !.pc = "route", !.config = cache.config]
                 \in [pc : Places \ {"waiting", "using"}, config : Nat, source : Sources \cup {NoSource}, lately : BOOLEAN]
          OBVIOUS
        <4> QED BY <4>1, <4>2
      <3>2. CASE request' = [request EXCEPT ![r].pc = "lookup"]
        BY <3>2
      <3> QED BY <2>1, <3>1, <3>2 DEF LookUp, RouteTo
    <2>2. CASE ReadConfig(r)
      <3>1. request' = [request EXCEPT ![r] = [@ EXCEPT !.pc = "found", !.config = config]]
        BY <2>2 DEF ReadConfig
      <3>2. [request[r] EXCEPT !.pc = "found", !.config = config]
                 \in [pc : Places \ {"waiting", "using"}, config : Nat, source : Sources \cup {NoSource}, lately : BOOLEAN]
        OBVIOUS
      <3> QED BY <3>1, <3>2
    <2>3. CASE StoreConfig(r)
      <3>1. request' = [request EXCEPT ![r] = [@ EXCEPT !.pc = "route", !.config = request[r].config]]
        BY <2>3 DEF StoreConfig, RouteTo
      <3>2. [request[r] EXCEPT !.pc = "route", !.config = request[r].config]
                 \in [pc : Places \ {"waiting", "using"}, config : Nat, source : Sources \cup {NoSource}, lately : BOOLEAN]
        OBVIOUS
      <3> QED BY <3>1, <3>2
    <2>4. CASE Finish(r)
      BY <2>4 DEF Finish, Waiting, SourcesAssumption
    <2> QED BY <2>1, <2>2, <2>3, <2>4
  <1>3. NoSourceLost'
    BY <1>1 DEF NoSourceLost
  <1>4. SourcePlaces'
    BY <1>1, <1>2
  <1>5. InUse'
    BY <1>1, <1>2 DEF InUse
  <1> QED BY <1>1, <1>3, <1>4, <1>5

\* A request that finds the data source in the pool.
LEMMA ReuseKeepsInv ==
    ASSUME SourcesAssumption, SourcesInv, NEW r \in Requests, Reuse(r)
    PROVE  SourcesInv' /\ source' = source
  <1> USE DEF SourcesInv, SourcePlaces, Places, OneAtATime
  <1>1. /\ UNCHANGED <<source, pool, pending, config, cache>> /\ askedLately' = TRUE
        /\ request' = [request EXCEPT ![r].pc = "using", ![r].source = pool, ![r].lately = TRUE]
        /\ pool \in Sources /\ source[pool].state = "ready"
    BY DEF Reuse, Use, Ready
  <1>2. NoSourceLost'
    BY <1>1 DEF NoSourceLost
  <1>3. [request[r] EXCEPT !.pc = "using", !.source = pool, !.lately = TRUE]
            \in [pc : Places, config : Nat, source : Sources \cup {NoSource}, lately : BOOLEAN]
    BY <1>1
  <1>4. request' \in [Requests -> [pc : Places, config : Nat, source : Sources \cup {NoSource}, lately : BOOLEAN]]
    BY <1>1, <1>3
  <1>5. InUse'
    BY <1>1 DEF InUse
  <1> QED BY <1>1, <1>2, <1>4, <1>5

\* A request that finds none: the pool is empty then, so nothing is thrown away.
LEMMA ConnectKeepsInv ==
    ASSUME SourcesAssumption, SourcesInv, NEW r \in Requests, Connect(r)
    PROVE  /\ SourcesInv'
           /\ \A q \in Requests : request[q].pc = "using"
                => source'[request[q].source].state = source[request[q].source].state
  <1> USE DEF SourcesInv, SourcePlaces, Places, OneAtATime
  <1>1. pool = NoSource /\ pool' = NoSource
    BY DEF Connect, Ready, NoSourceLost
  <1>2. UNCHANGED <<config, cache, askedLately>> /\ request[r].pc = "route"
    BY DEF Connect
  <1>3. CASE pending # NoSource
    <2>1. /\ request' = [request EXCEPT ![r].pc = "waiting", ![r].source = pending]
          /\ UNCHANGED <<source, pending>>
      BY <1>3 DEF Connect
    <2>2. NoSourceLost' /\ SourcePlaces'
      BY <1>1, <1>2, <2>1 DEF NoSourceLost
    <2>3. InUse'
      BY <1>2, <1>3, <2>1 DEF InUse
    <2>4. OneAtATime'
      BY <1>1
    <2> QED BY <2>1, <2>2, <2>3, <2>4
  <1>4. CASE pending = NoSource
    <2>1. PICK s \in Fresh : Initiate(r, s)
      BY <1>4 DEF Connect
    <2>2. /\ s \in Sources /\ source[s].state \in {"none", "gone"}
          /\ \A q \in Requests : request[q].source # s
      BY <2>1 DEF Fresh
    <2>3. /\ source' = [source EXCEPT ![s] = [state |-> "starting", config |-> request[r].config]]
          /\ pending' = s
          /\ request' = [request EXCEPT ![r].pc = "waiting", ![r].source = s]
      BY <2>1 DEF Initiate
    <2>4. SourcePlaces'
      BY <1>1, <1>2, <2>2, <2>3 DEF SourceRec
    <2>5. NoSourceLost'
      BY <1>1, <1>4, <2>2, <2>3 DEF NoSourceLost, SourceRec, SourcesAssumption
    <2>6. InUse'
      BY <1>2, <2>2, <2>3 DEF InUse, SourceRec
    <2>7. \A q \in Requests : request[q].pc = "using"
                => source'[request[q].source].state = source[request[q].source].state
      BY <2>2, <2>3 DEF InUse
    <2>8. OneAtATime'
      BY <1>1
    <2> QED BY <2>4, <2>5, <2>6, <2>7, <2>8
  <1> QED BY <1>3, <1>4

\* An initialisation that ends one way or the other was the pending one.
LEMMA OpeningKeepsInv ==
    ASSUME SourcesAssumption, SourcesInv, NEW s \in Sources, Opening(s)
    PROVE  /\ SourcesInv'
           /\ \A q \in Requests : request[q].pc = "using"
                => source'[request[q].source].state = source[request[q].source].state
  <1> USE DEF SourcesInv, SourcePlaces, Places, OneAtATime
  <1>1. source[s].state = "starting" /\ pending = s /\ s # NoSource
    BY DEF Opening, Connected, Refused, ConnectedOr, NoSourceLost, SourcesAssumption
  <1>2. PICK state \in {"ready", "gone"} :
            /\ source' = [source EXCEPT ![s].state = state]
            /\ request' = [r \in Requests |->
                  IF request[r].pc # "waiting" \/ request[r].source # s THEN request[r]
                  ELSE IF state = "ready" THEN [request[r] EXCEPT !.pc = "using", !.lately = TRUE]
                  ELSE Waiting]
            /\ pending' = NoSource
            /\ IF state = "ready" THEN pool' = s /\ askedLately' = TRUE
               ELSE UNCHANGED <<pool, askedLately>>
            /\ UNCHANGED <<config, cache>>
    BY DEF Opening, Connected, Refused, ConnectedOr
  <1>3. Waiting \in [pc : Places, config : Nat, source : Sources \cup {NoSource}, lately : BOOLEAN]
    BY DEF Waiting
  <1>4. \A q \in Requests :
            \/ request'[q] = request[q]
            \/ /\ request'[q] = Waiting
            \/ /\ request[q].pc = "waiting" /\ request[q].source = s /\ state = "ready"
               /\ request'[q] = [request[q] EXCEPT !.pc = "using", !.lately = TRUE]
    BY <1>2
  <1>5. SourcePlaces'
    <2>1. source' \in [Sources -> SourceRec]
      BY <1>2 DEF SourceRec
    <2>2. request' \in [Requests -> [pc : Places, config : Nat, source : Sources \cup {NoSource}, lately : BOOLEAN]]
      <3>1. \A q \in Requests : [request[q] EXCEPT !.pc = "using", !.lately = TRUE]
                \in [pc : Places, config : Nat, source : Sources \cup {NoSource}, lately : BOOLEAN]
        OBVIOUS
      <3> QED BY <1>2, <1>3, <3>1
    <2> QED BY <1>2, <2>1, <2>2
  <1>6. NoSourceLost'
    <2>1. \A t \in Sources : source'[t].state = IF t = s THEN state ELSE source[t].state
      BY <1>2 DEF SourceRec
    <2>2. \A t \in Sources : t # s => source[t].state # "starting"
      BY <1>1 DEF NoSourceLost
    <2>3. CASE state = "ready"
      <3>1. pool' = s /\ pending' = NoSource
        BY <1>2, <2>3
      <3>2. \A t \in Sources : source'[t].state = "ready" <=> t = s
        <4>1. pool = NoSource
          BY <1>1
        <4> QED BY <2>1, <2>3, <4>1 DEF NoSourceLost, SourcesAssumption
      <3> QED BY <2>1, <2>2, <2>3, <3>1, <3>2 DEF NoSourceLost, SourcesAssumption
    <2>4. CASE state = "gone"
      BY <1>1, <1>2, <2>1, <2>2, <2>4 DEF NoSourceLost, SourcesAssumption
    <2> QED BY <2>3, <2>4
  <1>7. \A q \in Requests : request[q].pc = "using" => request[q].source \in Sources \ {s}
    BY <1>1 DEF InUse
  <1>8. \A t \in Sources \ {s} : source'[t] = source[t]
    BY <1>2
  <1>9. InUse'
    <2>1. Waiting.pc = "idle"
      BY DEF Waiting
    <2>2. source'[s].state = state
      BY <1>2 DEF SourceRec
    <2>3. askedLately => askedLately'
      BY <1>2
    <2>4. state = "ready" => askedLately'
      BY <1>2
    <2>5. SUFFICES ASSUME NEW q \in Requests
                   PROVE  /\ request'[q].pc \in {"waiting", "using"} => request'[q].source \in Sources
                          /\ request'[q].pc = "using" => source'[request'[q].source].state \in {"ready", "gone"}
                          /\ request'[q].pc = "using" /\ request'[q].lately => askedLately'
      BY DEF InUse
    <2>6. CASE request'[q] = request[q]
      BY <1>7, <1>8, <2>3, <2>6 DEF InUse
    <2>7. CASE request'[q] = Waiting
      BY <2>1, <2>7
    <2>8. CASE /\ request[q].pc = "waiting" /\ request[q].source = s /\ state = "ready"
               /\ request'[q] = [request[q] EXCEPT !.pc = "using", !.lately = TRUE]
      <3>1. request'[q].source = s /\ request'[q].pc = "using"
        BY <2>8
      <3> QED BY <2>2, <2>4, <2>8, <3>1
    <2> QED BY <1>4, <2>6, <2>7, <2>8
  <1>10. OneAtATime'
    BY <1>2
  <1> QED BY <1>5, <1>6, <1>7, <1>8, <1>9, <1>10

\* Time, updates and the eviction, which meets no request that was young.
LEMMA UpkeepKeepsInv ==
    ASSUME SourcesAssumption, SourcesInv, Expire \/ UpdateTenant \/ Age \/ Evict
    PROVE  /\ SourcesInv'
           /\ \A q \in Requests : request[q].pc = "using" /\ request[q].lately
                => source'[request[q].source].state = source[request[q].source].state
  <1> USE DEF SourcesInv, SourcePlaces, Places, OneAtATime
  <1>1. CASE Expire
    BY <1>1 DEF Expire, NoSourceLost, InUse
  <1>2. CASE UpdateTenant
    BY <1>2 DEF UpdateTenant, NoSourceLost, InUse
  <1>3. CASE Age
    <2>1. /\ request' = [r \in Requests |-> [request[r] EXCEPT !.lately = FALSE]]
          /\ UNCHANGED <<config, cache, pool, pending, source>>
      BY <1>3 DEF Age
    <2>2. \A r \in Requests : /\ request'[r].pc = request[r].pc
                              /\ request'[r].source = request[r].source
                              /\ request'[r].lately = FALSE
      BY <2>1
    <2>3. SourcePlaces'
      <3>1. \A q \in Requests : [request[q] EXCEPT !.lately = FALSE]
                \in [pc : Places, config : Nat, source : Sources \cup {NoSource}, lately : BOOLEAN]
        OBVIOUS
      <3> QED BY <2>1, <3>1
    <2>4. InUse'
      BY <2>1, <2>2 DEF InUse
    <2> QED BY <2>1, <2>3, <2>4 DEF NoSourceLost
  <1>4. CASE Evict
    <2>1. /\ pool \in Sources /\ ~askedLately
          /\ source' = [source EXCEPT ![pool].state = "gone"]
          /\ pool' = NoSource
          /\ UNCHANGED <<config, cache, askedLately, pending, request>>
      BY <1>4 DEF Evict, Ready
    <2>2. \A t \in Sources : source'[t].state = IF t = pool THEN "gone" ELSE source[t].state
      BY <2>1 DEF SourceRec
    <2>3. SourcePlaces'
      BY <2>1 DEF SourceRec
    <2>4. NoSourceLost'
      BY <2>1, <2>2 DEF NoSourceLost, SourcesAssumption
    <2>5. InUse'
      BY <2>1, <2>2 DEF InUse
    <2>6. OneAtATime'
      BY <2>1
    <2> QED BY <2>1, <2>3, <2>4, <2>5, <2>6 DEF InUse
  <1> QED BY <1>1, <1>2, <1>3, <1>4

LEMMA SourcesStep ==
    ASSUME SourcesAssumption, SourcesInv, [SourcesNext]_sourceVars
    PROVE  /\ SourcesInv'
           /\ \A q \in Requests : request[q].pc = "using" /\ request[q].lately
                => source'[request[q].source].state = source[request[q].source].state
  <1>1. CASE \E r \in Requests : Serve(r)
    <2>1. PICK r \in Requests : Serve(r)
      BY <1>1
    <2>2. CASE Connect(r)
      BY <2>2, ConnectKeepsInv
    <2>3. CASE Reuse(r)
      BY <2>3, ReuseKeepsInv
    <2>4. CASE LookUp(r) \/ ReadConfig(r) \/ StoreConfig(r) \/ Finish(r)
      BY <2>4, RoutingKeepsInv
    <2> QED BY <2>1, <2>2, <2>3, <2>4 DEF Serve
  <1>2. CASE \E s \in Sources : Opening(s)
    BY <1>2, OpeningKeepsInv
  <1>3. CASE Expire \/ UpdateTenant \/ Age \/ Evict
    BY <1>3, UpkeepKeepsInv
  <1>4. CASE UNCHANGED sourceVars
    BY <1>4 DEF sourceVars, SourcesInv, SourcePlaces, NoSourceLost, InUse, OneAtATime
  <1> QED BY <1>1, <1>2, <1>3, <1>4 DEF SourcesNext

\* However many requests initialise, wait, fail and are evicted: the open data
\* source is the one in the pool, and the one being opened is the one others
\* wait for (getTenantDataSource with its two maps).
THEOREM SourcesKept == SourcesSpec => []NoSourceLost
  <1>1. SourcesInit => SourcesInv
    BY SourcesInitInv, SourcesAssumption
  <1>2. SourcesInv /\ [SourcesNext]_sourceVars => SourcesInv'
    BY SourcesStep, SourcesAssumption
  <1>3. SourcesInv => NoSourceLost
    BY DEF SourcesInv
  <1> QED BY <1>1, <1>2, <1>3, PTL DEF SourcesSpec

\* evictIdleTenants never closes a data source under a request that asked for
\* it within the idle limit.
THEOREM EvictionSparesUsers == SourcesSpec => SourcesInUseStay
  <1>1. SourcesInit => SourcesInv
    BY SourcesInitInv, SourcesAssumption
  <1>2. SourcesInv /\ [SourcesNext]_sourceVars => SourcesInv'
    BY SourcesStep, SourcesAssumption
  <1>3. SourcesInv /\ [SourcesNext]_sourceVars =>
            [\A r \in Requests : request[r].pc = "using" /\ request[r].lately
               => source'[request[r].source].state = source[request[r].source].state]_sourceVars
    BY SourcesStep, SourcesAssumption
  <1> QED BY <1>1, <1>2, <1>3, PTL DEF SourcesSpec, SourcesInUseStay

(***************************************************************************)
(* Connections.  Whoever has one of its own holds it, from the moment it   *)
(* takes it; from the SET on, the search_path is its own schema.           *)
(***************************************************************************)
CallerRec == [pc : {"away", "connect", "set", "guards", "work", "borrow", "leave"},
              connection : Connections \cup {NoConnection}]
ConnPlaces == holder \in [Connections -> Callers \cup {Nobody, Lost}] /\ caller \in [Callers -> CallerRec]
              /\ DOMAIN searchPath = Connections
Holding == {"set", "guards", "work", "borrow", "leave"}
HoldsOwn ==
    \A r \in Callers :
        /\ caller[r].pc \in {"connect", "set", "guards"} => OwnConnection(r)
        /\ caller[r].pc \in Holding /\ OwnConnection(r)
             => caller[r].connection \in Connections /\ holder[caller[r].connection] = r

ConnectionsInv == ConnPlaces /\ HoldsOwn /\ OwnSchemaFirst

LEMMA AcquireKeepsInv ==
    ASSUME ConnectionsAssumption, ConnectionsInv, NEW r \in Callers, Acquire(r)
    PROVE  ConnectionsInv'
  <1> USE DEF ConnectionsInv, ConnPlaces, CallerRec, Holding
  <1>1. PICK c \in Free : Take(r, c) /\ caller' = [caller EXCEPT ![r] = [pc |-> "set", connection |-> c]]
    BY DEF Acquire
  <1>2. /\ c \in Connections /\ holder[c] = Nobody /\ holder' = [holder EXCEPT ![c] = r]
        /\ caller[r].pc = "connect" /\ searchPath' = searchPath
    BY <1>1 DEF Free, Take, Acquire, Waits
  <1>3. ConnPlaces'
    BY <1>1, <1>2
  <1>4. HoldsOwn'
    BY <1>1, <1>2 DEF HoldsOwn, OwnConnection, ConnectionsAssumption
  <1>5. OwnSchemaFirst'
    BY <1>1, <1>2 DEF HoldsOwn, OwnSchemaFirst, OwnConnection, ConnectionsAssumption
  <1> QED BY <1>3, <1>4, <1>5

LEMMA SetPathKeepsInv ==
    ASSUME ConnectionsAssumption, ConnectionsInv, NEW r \in Callers, SetPath(r)
    PROVE  ConnectionsInv'
  <1> USE DEF ConnectionsInv, ConnPlaces, CallerRec, Holding
  <1>1. PICK pc \in {"guards", "work"} : caller' = [caller EXCEPT ![r].pc = pc]
    BY DEF SetPath
  <1>2. /\ caller[r].pc = "set" /\ holder' = holder
        /\ searchPath' = [searchPath EXCEPT ![caller[r].connection] = SchemaOf[r]]
    BY DEF SetPath, Waits
  <1>3. OwnConnection(r) /\ caller[r].connection \in Connections /\ holder[caller[r].connection] = r
    BY <1>2 DEF HoldsOwn
  <1>4. ConnPlaces'
    BY <1>1, <1>2
  <1>5. HoldsOwn'
    BY <1>1, <1>2, <1>3 DEF HoldsOwn, OwnConnection
  <1>6. OwnSchemaFirst'
    BY <1>1, <1>2, <1>3 DEF HoldsOwn, OwnSchemaFirst, OwnConnection
  <1> QED BY <1>4, <1>5, <1>6

\* The steps by which a caller gives its own connection away, or leaves without
\* having had one.
LEMMA LeavingKeepsInv ==
    ASSUME ConnectionsAssumption, ConnectionsInv, NEW r \in Callers,
           SetFails(r) \/ Refuse(r) \/ Release(r)
    PROVE  ConnectionsInv'
  <1> USE DEF ConnectionsInv, ConnPlaces, CallerRec, Holding
  <1>1. caller' = [caller EXCEPT ![r] = Away] /\ caller[r].pc \in Holding
    BY DEF SetFails, Refuse, Release, Leave, Waits
  <1>2. CASE ~OwnConnection(r)
    <2>1. UNCHANGED <<holder, searchPath>>
      BY <1>2 DEF SetFails, Refuse, Release, Waits, HoldsOwn
    <2> QED BY <1>1, <2>1 DEF HoldsOwn, OwnSchemaFirst, OwnConnection, Away
  <1>3. CASE OwnConnection(r)
    <2>1. caller[r].connection \in Connections /\ holder[caller[r].connection] = r
      BY <1>1, <1>3 DEF HoldsOwn
    <2>2. \E h \in {Nobody, Lost} : holder' = [holder EXCEPT ![caller[r].connection] = h]
      BY <1>3 DEF SetFails, Refuse, Release, Drop, Forget
    <2>3. \/ searchPath' = searchPath
          \/ searchPath' = [searchPath EXCEPT ![caller[r].connection] = Public]
      BY <1>3 DEF SetFails, Refuse, Release
    <2>4. ConnPlaces'
      BY <1>1, <2>1, <2>2, <2>3 DEF Away
    <2>5. \A q \in Callers \ {r} : caller[q].pc \in Holding /\ OwnConnection(q)
              => /\ caller[q].connection \in Connections
                 /\ caller[q].connection # caller[r].connection
                 /\ holder'[caller[q].connection] = q
                 /\ searchPath'[caller[q].connection] = searchPath[caller[q].connection]
      BY <2>1, <2>2, <2>3 DEF HoldsOwn
    <2>6. \A q \in Callers \ {r} : caller'[q] = caller[q]
      BY <1>1
    <2>7. caller'[r].pc = "away"
      BY <1>1 DEF Away
    <2>8. HoldsOwn'
      BY <2>5, <2>6, <2>7 DEF HoldsOwn, OwnConnection
    <2>9. OwnSchemaFirst'
      BY <2>5, <2>6, <2>7 DEF OwnSchemaFirst, OwnConnection
    <2> QED BY <2>4, <2>8, <2>9
  <1> QED BY <1>2, <1>3

\* The steps that touch no connection and set no search_path.
LEMMA WorkingKeepsInv ==
    ASSUME ConnectionsAssumption, ConnectionsInv, NEW r \in Callers,
           Arrive(r) \/ Timeout(r) \/ Admit(r) \/ Borrow(r) \/ Borrowed(r)
    PROVE  ConnectionsInv'
  <1> USE DEF ConnectionsInv, ConnPlaces, CallerRec, Holding
  <1>1. UNCHANGED <<holder, searchPath>>
    BY DEF Arrive, Timeout, Admit, Borrow, Borrowed
  <1>2. CASE Arrive(r)
    <2>1. caller[r].pc = "away" /\ \E pc \in {"connect", "work"} :
              /\ pc = "connect" <=> OwnConnection(r)
              /\ caller' = [caller EXCEPT ![r].pc = pc]
      BY <1>2 DEF Arrive, Waits
    <2> QED BY <1>1, <2>1 DEF HoldsOwn, OwnSchemaFirst, OwnConnection
  <1>3. CASE Timeout(r) /\ caller' = [caller EXCEPT ![r] = Away]
    BY <1>1, <1>3 DEF HoldsOwn, OwnSchemaFirst, OwnConnection, Away
  <1>4. CASE \E pc \in {"work", "borrow", "leave"} :
                 /\ caller[r].pc \in {"guards", "work", "borrow"}
                 /\ caller' = [caller EXCEPT ![r].pc = pc]
    BY <1>1, <1>4 DEF HoldsOwn, OwnSchemaFirst, OwnConnection
  <1>5. \/ Arrive(r)
        \/ Timeout(r) /\ caller' = [caller EXCEPT ![r] = Away]
        \/ \E pc \in {"work", "borrow", "leave"} :
               /\ caller[r].pc \in {"guards", "work", "borrow"}
               /\ caller' = [caller EXCEPT ![r].pc = pc]
    BY DEF Timeout, Admit, Borrow, Borrowed, Waits, Leave
  <1> QED BY <1>2, <1>3, <1>4, <1>5

\* Whoever works on a connection of its own finds its own schema in front
\* (TenantGuard, the WebDAV controller and the worker, each with its SET).
THEOREM SchemasApart == ConnectionsSpec => []OwnSchemaFirst
  <1>1. ConnectionsInit => ConnectionsInv
    BY DEF ConnectionsInit, ConnectionsInv, ConnPlaces, HoldsOwn, OwnSchemaFirst, CallerRec, Holding, Away
  <1>2. ConnectionsInv /\ [ConnectionsNext]_connVars => ConnectionsInv'
    <2> SUFFICES ASSUME ConnectionsInv, [ConnectionsNext]_connVars PROVE ConnectionsInv'
      OBVIOUS
    <2>1. CASE ConnectionsNext
      <3>1. PICK r \in Callers : Arrive(r) \/ Borrow(r) \/ Proceed(r)
        BY <2>1 DEF ConnectionsNext
      <3> QED BY <3>1, ConnectionsAssumption, AcquireKeepsInv, SetPathKeepsInv, LeavingKeepsInv,
                 WorkingKeepsInv DEF Proceed
    <2>2. CASE UNCHANGED connVars
      BY <2>2 DEF connVars, ConnectionsInv, ConnPlaces, HoldsOwn, OwnSchemaFirst, OwnConnection
    <2> QED BY <2>1, <2>2
  <1>3. ConnectionsInv => OwnSchemaFirst
    BY DEF ConnectionsInv
  <1> QED BY <1>1, <1>2, <1>3, PTL DEF ConnectionsSpec

(***************************************************************************)
(* TenantStorage.  Its theorems share one invariant: before the creation   *)
(* is done there are no rows and no tasks at work, and afterwards the      *)
(* storage is there and each row is as it was written, and so is each row  *)
(* that a task has read and the tenant has not written since, but for the  *)
(* rows that a task has set back.                                          *)
(***************************************************************************)

CreationRec == [pc : {"idle", "admin", "initialize", "tables", "rollback", "done"}, madeDatabase : BOOLEAN]
JobRec == [status : {"none", "pending", "running", "succeeded", "failed"},
           pc : {"none", "timer", "initialize", "tables", "read", "copy", "route", "catch"},
           madeDatabase : BOOLEAN, table : Nat, rows : [Rows -> Nat], missed : SUBSET Rows]
StorageTyped ==
    /\ level \in {"small", "medium", "large"} /\ level \in Levels /\ storage \in {"absent", "partial", "ready"}
    /\ tenant \in {"none", "active"} /\ admin \in BOOLEAN
    /\ stored \in [Rows -> Nat] /\ written \in [Rows -> Nat] /\ writes \in Nat
    /\ setBack \subseteq Rows /\ boots \in Nat /\ dirty \in BOOLEAN
    /\ creation \in CreationRec /\ job \in [Jobs -> JobRec]

\* The rows of a MEDIUM tenant are spared only if its second initialisation
\* cannot fail; those of the other levels in any case.
Spared == level = "medium" => "medium" \notin RefitFails

\* A task that something works on has a tenant whose creation is done; it has
\* not made the database, because that was there.
RowsSound(r) ==
    \A w \in Rows : r.rows[w] # 0 /\ w \notin r.missed /\ w \notin setBack => r.rows[w] = written[w]
JobSound(r) ==
    /\ r.pc # "none" => Working("done")
    /\ ~r.madeDatabase
    /\ r.pc = "copy" /\ Spared => RowsSound(r)

CreationSound ==
    /\ Spared => \A w \in Rows \ setBack : stored[w] = written[w]
    /\ ~Working("done") => written = NoRows /\ stored = NoRows
    /\ Working("done") => tenant = "active" /\ admin
    /\ Working("done") /\ Spared => Usable
    /\ Working("done") /\ level = "large" => storage = "ready"
    /\ Working("idle") /\ ~dirty => tenant = "none" /\ ~admin
    /\ creation.pc \in {"initialize", "tables"} => admin
    /\ creation.pc \in {"admin", "initialize", "tables"} => tenant = "active"

StorageInv == StorageTyped /\ CreationSound /\ \A j \in Jobs : JobSound(job[j])

LEMMA NoRowsType == NoRows \in [Rows -> Nat]
  BY DEF NoRows

\* A task that nothing works on, whatever its status.
LEMMA NoJobSound ==
    /\ NoJob \in JobRec /\ JobSound(NoJob)
    /\ \A status \in {"none", "pending", "running", "succeeded", "failed"} :
          /\ [NoJob EXCEPT !.status = status] \in JobRec
          /\ JobSound([NoJob EXCEPT !.status = status])
          /\ [NoJob EXCEPT !.status = status].pc = "none"
          /\ ~[NoJob EXCEPT !.status = status].madeDatabase
  <1>1. /\ NoJob.pc = "none" /\ ~NoJob.madeDatabase /\ NoJob \in JobRec
        /\ \A status \in {"none", "pending", "running", "succeeded", "failed"} :
             /\ [NoJob EXCEPT !.status = status] \in JobRec
             /\ [NoJob EXCEPT !.status = status].pc = "none"
             /\ ~[NoJob EXCEPT !.status = status].madeDatabase
    <2> HIDE DEF NoRows
    <2> QED BY NoRowsType DEF NoJob, JobRec
  <1> QED BY <1>1 DEF JobSound

LEMMA StorageInitInv == ASSUME StorageAssumption, StorageInit PROVE StorageInv
  <1>1. NoJob \in JobRec /\ JobSound(NoJob)
    BY NoJobSound
  <1>2. StorageTyped
    BY <1>1, NoRowsType DEF StorageInit, StorageTyped, NoCreation, CreationRec, StorageAssumption
  <1>3. CreationSound
    BY DEF StorageInit, CreationSound, NoCreation, Working
  <1>4. \A j \in Jobs : JobSound(job[j])
    BY <1>1 DEF StorageInit
  <1> QED BY <1>2, <1>3, <1>4 DEF StorageInv

\* A step of one task that leaves the creation alone, and gives the task's row
\* a sound value.
LEMMA OneJobChanges ==
    ASSUME StorageInv, NEW j \in Jobs, NEW r \in JobRec,
           job' = [job EXCEPT ![j] = r], JobSound(r),
           UNCHANGED <<level, tenant, admin, storage, tenantRows, creation, dirty, boots>>
    PROVE  StorageInv'
  <1> USE DEF StorageInv, tenantRows
  <1>1. StorageTyped'
    BY DEF StorageTyped
  <1>2. CreationSound'
    BY DEF CreationSound, Working, Usable, Spared
  <1>3. \A k \in Jobs : job'[k] = r \/ job'[k] = job[k]
    BY DEF StorageTyped
  <1>4. \A q \in JobRec : JobSound(q) => JobSound(q)'
    BY DEF JobSound, RowsSound, Working, Spared
  <1>5. \A k \in Jobs : job[k] \in JobRec
    BY DEF StorageTyped
  <1>6. \A k \in Jobs : JobSound(job[k])'
    BY <1>3, <1>4, <1>5
  <1> QED BY <1>1, <1>2, <1>6

\* The creation, up to its end: no task is at work.
LEMMA CreatingKeepsInv ==
    ASSUME StorageAssumption, StorageInv, Creating
    PROVE  StorageInv'
  <1> USE DEF StorageInv, tenantRows
  <1>1. /\ ~Working("done") /\ UNCHANGED <<level, written, writes, setBack, job, boots>>
        /\ written = NoRows /\ stored = NoRows /\ NoRows \in [Rows -> Nat]
    BY DEF Creating, SaveTenant, CreateAdmin, Initialize, InitializeDone, InitializeFails, ConnectFails,
           Rollback, Working, CreationSound, NoRows
  <1>2. /\ creation' \in CreationRec
        /\ storage' \in {"absent", "partial", "ready"} /\ stored' = NoRows
        /\ tenant' \in {"none", "active"} /\ admin' \in BOOLEAN /\ dirty' \in BOOLEAN
    <2>1. creation' \in CreationRec
      <3>1. \A pc \in {"idle", "admin", "initialize", "tables", "rollback", "done"}, d \in BOOLEAN :
                [pc |-> pc, madeDatabase |-> d] \in CreationRec
        BY DEF CreationRec
      <3>2. \A pc \in {"idle", "admin", "initialize", "tables", "rollback", "done"} :
                [creation EXCEPT !.pc = pc] \in CreationRec
        BY DEF CreationRec, StorageTyped
      <3> QED BY <3>1, <3>2 DEF Creating, SaveTenant, CreateAdmin, Initialize, InitializeDone,
                 InitializeFails, ConnectFails, Rollback, NoCreation, CreateAt, Missing
    <2>2. tenant' \in {"none", "active"} /\ admin' \in BOOLEAN /\ dirty' \in BOOLEAN
      BY DEF StorageTyped, Creating, SaveTenant, CreateAdmin, Initialize, InitializeDone,
             InitializeFails, ConnectFails, Rollback
    <2>3. storage' \in {"absent", "partial", "ready"} /\ stored' = NoRows
      BY <1>1 DEF StorageTyped, Creating, SaveTenant, CreateAdmin, Initialize, InitializeDone,
             InitializeFails, ConnectFails, Rollback, Breaks, Prepared, Undo, DropSchema, DropDatabase
    <2> QED BY <2>1, <2>2, <2>3
  <1>3. StorageTyped'
    BY <1>1, <1>2 DEF StorageTyped
  <1>4. CreationSound'
    <2> USE DEF CreationSound, Working, Usable, Spared, StorageTyped, CreationRec, CreateAt
    <2>1. CASE SaveTenant
      BY <1>1, <1>2, <2>1 DEF SaveTenant
    <2>2. CASE CreateAdmin
      BY <1>1, <1>2, <2>2 DEF CreateAdmin
    <2>3. CASE Initialize
      BY <1>1, <1>2, <2>3 DEF Initialize
    <2>4. CASE InitializeDone
      BY <1>1, <1>2, <2>4 DEF InitializeDone, Prepared
    <2>5. CASE InitializeFails \/ ConnectFails
      BY <1>1, <1>2, <2>5 DEF InitializeFails, ConnectFails
    <2>6. CASE Rollback
      BY <1>1, <1>2, <2>6 DEF Rollback, NoCreation
    <2> QED BY <2>1, <2>2, <2>3, <2>4, <2>5, <2>6 DEF Creating
  <1>5. \A j \in Jobs : JobSound(job[j])'
    BY <1>1 DEF JobSound, Spared
  <1> QED BY <1>3, <1>4, <1>5

\* The process ends: a done creation stays done, an unfinished one leaves dirt.
LEMMA DownKeepsInv ==
    ASSUME StorageAssumption, StorageInv, GoDown, boots' \in Nat,
           UNCHANGED <<level, tenant, admin, storage, tenantRows>>
    PROVE  StorageInv'
  <1> USE DEF StorageInv, tenantRows
  <1>1. /\ creation' = IF Working("done") THEN creation ELSE NoCreation
        /\ dirty' = (dirty \/ creation.pc \notin {"idle", "done"})
        /\ job' = [j \in Jobs |-> IF job[j].pc = "none" THEN job[j]
                                  ELSE [NoJob EXCEPT !.status = job[j].status]]
    BY DEF GoDown
  <1>2. creation' \in CreationRec /\ dirty' \in BOOLEAN
    BY <1>1 DEF NoCreation, CreationRec, StorageTyped
  <1>3. \A j \in Jobs : /\ ~[NoJob EXCEPT !.status = job[j].status].madeDatabase
                        /\ [NoJob EXCEPT !.status = job[j].status] \in JobRec
                        /\ [NoJob EXCEPT !.status = job[j].status].pc = "none"
    <2>1. \A j \in Jobs : job[j].status \in {"none", "pending", "running", "succeeded", "failed"}
      BY DEF JobRec, StorageTyped
    <2> QED BY <2>1, NoJobSound
  <1>4. StorageTyped'
    BY <1>1, <1>2, <1>3 DEF StorageTyped
  <1>5. Working("done") <=> Working("done")'
    BY <1>1 DEF Working, NoCreation
  <1>6. CreationSound'
    BY <1>1, <1>5 DEF CreationSound, Working, Usable, Spared, NoCreation, StorageTyped, CreationRec
  <1>7. \A j \in Jobs : JobSound(job[j])'
    <2>1. \A j \in Jobs : job'[j] = IF job[j].pc = "none" THEN job[j]
                                  ELSE [NoJob EXCEPT !.status = job[j].status]
      BY <1>1
    <2> QED BY <2>1, <1>3, <1>5 DEF JobSound, Spared
  <1> QED BY <1>4, <1>6, <1>7

\* The steps of a task that touch nothing but its row, or end the process.
LEMMA TaskKeepsInv ==
    ASSUME StorageAssumption, StorageInv, NEW j \in Jobs,
           CreateTask(j) \/ Execute(j) \/ Succeed(j) \/ JobThrows(j) \/ Fail(j)
    PROVE  StorageInv'
  <1> USE DEF StorageInv, tenantRows
  <1>1. job[j] \in JobRec /\ JobSound(job[j]) /\ boots \in Nat
    BY DEF StorageTyped
  <1>2. CASE \E r \in JobRec :
                /\ JobSound(r) /\ job' = [job EXCEPT ![j] = r]
                /\ UNCHANGED <<level, tenant, admin, storage, tenantRows, creation, dirty, boots>>
    BY <1>2, OneJobChanges
  <1>3. CASE GoDown /\ UNCHANGED <<level, tenant, admin, storage, tenantRows, boots>>
    BY <1>1, <1>3, DownKeepsInv
  <1>4. CASE CreateTask(j)
    <2>1. /\ [job[j] EXCEPT !.status = "pending", !.pc = "timer"] \in JobRec
          /\ JobSound([job[j] EXCEPT !.status = "pending", !.pc = "timer"])
      BY <1>1, <1>4 DEF CreateTask, JobRec, JobSound
    <2>2. job' = [job EXCEPT ![j] = [job[j] EXCEPT !.status = "pending", !.pc = "timer"]]
      BY <1>4 DEF CreateTask, StorageTyped
    <2> QED BY <1>2, <1>4, <2>1, <2>2 DEF CreateTask
  <1>5. CASE Execute(j)
    <2>1. /\ [job[j] EXCEPT !.status = "running", !.pc = "initialize"] \in JobRec
          /\ JobSound([job[j] EXCEPT !.status = "running", !.pc = "initialize"])
      BY <1>1, <1>5 DEF Execute, JobRec, JobSound
    <2>2. \/ GoDown
          \/ job' = [job EXCEPT ![j] = [job[j] EXCEPT !.status = "running", !.pc = "initialize"]]
             /\ UNCHANGED <<creation, dirty>>
      BY <1>5 DEF Execute, StorageTyped
    <2> QED BY <1>2, <1>3, <1>5, <2>1, <2>2 DEF Execute
  <1>6. CASE Succeed(j)
    <2>1. [NoJob EXCEPT !.status = "succeeded"] \in JobRec /\ JobSound([NoJob EXCEPT !.status = "succeeded"])
      BY NoJobSound
    <2> QED BY <1>2, <1>6, <2>1 DEF Succeed, Ends
  <1>7. CASE JobThrows(j)
    <2>1. [job[j] EXCEPT !.pc = "catch"] \in JobRec /\ JobSound([job[j] EXCEPT !.pc = "catch"])
      BY <1>1, <1>7 DEF JobThrows, JobRec, JobSound
    <2>2. job' = [job EXCEPT ![j] = [job[j] EXCEPT !.pc = "catch"]]
      BY <1>7 DEF JobThrows, JobAt, StorageTyped
    <2> QED BY <1>2, <1>7, <2>1, <2>2 DEF JobThrows
  <1>8. CASE Fail(j)
    <2>1. [NoJob EXCEPT !.status = "failed"] \in JobRec /\ JobSound([NoJob EXCEPT !.status = "failed"])
      BY NoJobSound
    <2> QED BY <1>2, <1>3, <1>8, <2>1 DEF Fail, Ends
  <1> QED BY <1>4, <1>5, <1>6, <1>7, <1>8

\* The steps of a task on the storage, in general: its row stays sound, the rows
\* stored are those written but for the rows it sets back, and only a MEDIUM
\* tenant's schema is dropped.
LEMMA StorageWork ==
    ASSUME StorageInv, Working("done"), NEW j \in Jobs, NEW q \in JobRec,
           job' = [job EXCEPT ![j] = q], JobSound(q),
           UNCHANGED <<level, tenant, admin, written, writes, creation, dirty, boots>>,
           stored' \in [Rows -> Nat], setBack' \subseteq Rows, setBack \subseteq setBack',
           storage' \in {"absent", "partial", "ready"},
           Spared => \A w \in Rows \ setBack' : stored'[w] = written[w],
           Usable /\ Spared => storage' = storage \/ storage' = "ready",
           level = "large" => storage' = "ready"
    PROVE  StorageInv'
  <1> USE DEF StorageInv
  <1>1. StorageTyped'
    BY DEF StorageTyped
  <1>2. CreationSound'
    BY DEF CreationSound, Working, Usable, Spared
  <1>3. \A k \in Jobs : JobSound(job[k])'
    <2>1. \A p \in JobRec : JobSound(p) => JobSound(p)'
      BY DEF JobSound, RowsSound, Working, Spared
    <2>2. \A k \in Jobs : job'[k] = q \/ job'[k] = job[k]
      BY DEF StorageTyped
    <2>3. \A k \in Jobs : job[k] \in JobRec
      BY DEF StorageTyped
    <2> QED BY <2>1, <2>2, <2>3
  <1> QED BY <1>1, <1>2, <1>3

\* What is prepared is there, what is read is what is stored.
LEMMA StorageWorkKeepsInv ==
    ASSUME StorageAssumption, StorageInv, NEW j \in Jobs,
           InitializeAgain(j) \/ InitializeAgainFails(j) \/ InitializedAgain(j) \/ ReadRows(j)
    PROVE  StorageInv'
  <1> USE DEF StorageInv, tenantRows
  <1>1. /\ job[j] \in JobRec /\ JobSound(job[j]) /\ Working("done")
        /\ level \in {"small", "medium", "large"} /\ storage \in {"absent", "partial", "ready"}
        /\ stored \in [Rows -> Nat] /\ setBack \subseteq Rows
    BY DEF StorageTyped, JobSound, InitializeAgain, InitializeAgainFails, InitializedAgain, ReadRows
  <1>2. /\ level = "large" => storage = "ready"
        /\ Spared => Usable
        /\ Spared => \A w \in Rows \ setBack : stored[w] = written[w]
    BY <1>1 DEF CreationSound
  <1>3. CASE InitializeAgain(j)
    <2> DEFINE q == [job[j] EXCEPT !.pc = "tables", !.madeDatabase = FALSE]
    <2>1. Missing = FALSE
      BY <1>2 DEF Missing
    <2>2. job' = [job EXCEPT ![j] = q]
      BY <1>3, <2>1 DEF InitializeAgain
    <2>3. q \in JobRec /\ q.pc = "tables" /\ q.madeDatabase = FALSE
      BY <1>1 DEF JobRec
    <2>6. JobSound(q)
      <3> HIDE DEF q
      <3> QED BY <1>1, <2>3 DEF JobSound
    <2>4. /\ storage' \in {"absent", "partial", "ready"}
          /\ Usable /\ Spared => storage' = storage
          /\ level = "large" => storage' = "ready"
      BY <1>1, <1>2, <1>3 DEF InitializeAgain, Breaks, Usable
    <2>5. UNCHANGED <<level, tenant, admin, stored, written, writes, setBack, creation, dirty, boots>>
      BY <1>3 DEF InitializeAgain
    <2> HIDE DEF q
    <2> QED BY <1>1, <1>2, <2>2, <2>3, <2>4, <2>5, <2>6, StorageWork
  <1>4. CASE InitializeAgainFails(j)
    <2> DEFINE q == [job[j] EXCEPT !.pc = "catch"]
    <2>1. job' = [job EXCEPT ![j] = q]
      BY <1>4 DEF InitializeAgainFails, JobAt, StorageTyped
    <2>2. q \in JobRec /\ JobSound(q)
      BY <1>1 DEF JobRec, JobSound
    <2>3. UNCHANGED <<level, tenant, admin, written, writes, setBack, creation, dirty, boots>>
      BY <1>4 DEF InitializeAgainFails
    <2>4. /\ storage' \in {"absent", "partial", "ready"} /\ stored' \in [Rows -> Nat]
          /\ Spared => stored' = stored /\ storage' = storage
          /\ level = "large" => storage' = "ready"
      <3>1. level \in RefitFails /\ Undo(job[j].madeDatabase) /\ ~job[j].madeDatabase
        BY <1>1, <1>4 DEF InitializeAgainFails, JobSound
      <3>2. NoRows \in [Rows -> Nat]
        BY DEF NoRows
      <3> QED BY <1>1, <1>2, <3>1, <3>2 DEF Undo, DropSchema, DropDatabase, Spared
    <2> HIDE DEF q
    <2> QED BY <1>1, <1>2, <2>1, <2>2, <2>3, <2>4, StorageWork
  <1>5. CASE InitializedAgain(j)
    <2> DEFINE q == [job[j] EXCEPT !.pc = "read", !.table = 1]
    <2>1. job' = [job EXCEPT ![j] = q]
      BY <1>5 DEF InitializedAgain, StorageTyped
    <2>2. q \in JobRec /\ JobSound(q)
      BY <1>1 DEF JobRec, JobSound
    <2>3. /\ storage' \in {"absent", "partial", "ready"}
          /\ Usable /\ Spared => storage' = storage \/ storage' = "ready"
          /\ level = "large" => storage' = "ready"
      BY <1>1, <1>2, <1>5 DEF InitializedAgain, Prepared
    <2>4. UNCHANGED <<level, tenant, admin, stored, written, writes, setBack, creation, dirty, boots>>
      BY <1>5 DEF InitializedAgain
    <2> HIDE DEF q
    <2> QED BY <1>1, <1>2, <2>1, <2>2, <2>3, <2>4, StorageWork
  <1>6. CASE ReadRows(j)
    <2> DEFINE seen == [w \in Rows |-> IF TableOf[w] = job[j].table THEN stored[w] ELSE 0]
               q == [job[j] EXCEPT !.pc = "copy", !.missed = {}, !.rows = seen]
    <2>1. job' = [job EXCEPT ![j] = q]
      BY <1>6 DEF ReadRows, StorageTyped
    <2>2. seen \in [Rows -> Nat] /\ \A w \in Rows : seen[w] # 0 => seen[w] = stored[w]
      BY <1>1
    <2> HIDE DEF seen
    <2>3. q \in JobRec /\ q.rows = seen /\ ~q.madeDatabase
      BY <1>1, <2>2 DEF JobRec, JobSound
    <2>4. JobSound(q)
      <3>1. Spared => \A w \in Rows : seen[w] # 0 /\ w \notin setBack => seen[w] = written[w]
        BY <1>2, <2>2
      <3> HIDE DEF q
      <3> QED BY <1>1, <2>3, <3>1 DEF JobSound, RowsSound
    <2>5. UNCHANGED <<level, tenant, admin, storage, stored, written, writes, setBack, creation, dirty, boots>>
      BY <1>6 DEF ReadRows
    <2> HIDE DEF q
    <2> QED BY <1>1, <1>2, <2>1, <2>3, <2>4, <2>5, StorageWork
  <1> QED BY <1>3, <1>4, <1>5, <1>6

\* A row that is put back is the one that was written, or the tenant has written
\* it since it was read.
LEMMA ReplaceKeepsInv ==
    ASSUME StorageAssumption, StorageInv, NEW j \in Jobs, ReplaceRows(j)
    PROVE  StorageInv'
  <1> USE DEF StorageInv
  <1>1. /\ job[j] \in JobRec /\ JobSound(job[j]) /\ Working("done") /\ job[j].pc = "copy"
        /\ storage \in {"absent", "partial", "ready"}
        /\ stored \in [Rows -> Nat] /\ setBack \subseteq Rows
    BY DEF StorageTyped, JobSound, ReplaceRows
  <1>2. job[j].rows \in [Rows -> Nat] /\ job[j].table \in Nat /\ Read(j) \subseteq Rows
    BY <1>1 DEF JobRec, Read
  <1>3. PICK pc \in {"read", "route"} :
             job' = [job EXCEPT ![j] = [job[j] EXCEPT !.pc = pc, !.table = job[j].table + 1,
                                                      !.rows = NoRows, !.missed = {}]]
    BY DEF ReplaceRows, NextTable
  <1> DEFINE q == [job[j] EXCEPT !.pc = pc, !.table = job[j].table + 1, !.rows = NoRows, !.missed = {}]
  <1>4. job' = [job EXCEPT ![j] = q]
    BY <1>3, Zenon
  <1>5. q \in JobRec /\ JobSound(q)
    <2>1. q \in JobRec /\ q.pc = pc /\ q.madeDatabase = job[j].madeDatabase
      <3>1. PICK n \in Nat : n = job[j].table + 1
        BY <1>2
      <3> QED BY <1>1, <3>1, NoRowsType DEF JobRec
    <2> HIDE DEF q
    <2> QED BY <1>1, <2>1 DEF JobSound
  <1>6. /\ UNCHANGED <<level, tenant, admin, storage, written, writes, creation, dirty, boots>>
        /\ setBack' = setBack \cup (Read(j) \cap job[j].missed)
        /\ stored' = [w \in Rows |-> IF w \in Read(j) THEN job[j].rows[w] ELSE stored[w]]
    BY DEF ReplaceRows
  <1>7. stored' \in [Rows -> Nat]
    BY <1>1, <1>2, <1>6
  <1>8. Spared => \A w \in Rows \ setBack' : stored'[w] = written[w]
    <2>1. Spared => RowsSound(job[j])
      BY <1>1 DEF JobSound
    <2>2. Spared => \A w \in Rows \ setBack : stored[w] = written[w]
      BY DEF CreationSound
    <2> SUFFICES ASSUME Spared, NEW w \in Rows \ setBack' PROVE stored'[w] = written[w]
      OBVIOUS
    <2>3. CASE w \in Read(j)
      BY <1>6, <2>1, <2>3 DEF RowsSound, Read
    <2>4. CASE w \notin Read(j)
      BY <1>6, <2>2, <2>4
    <2> QED BY <2>3, <2>4
  <1>9. /\ setBack' \subseteq Rows /\ setBack \subseteq setBack'
        /\ level = "large" => storage' = "ready"
    BY <1>1, <1>2, <1>6 DEF CreationSound
  <1> HIDE DEF q
  <1> QED BY <1>1, <1>4, <1>5, <1>6, <1>7, <1>8, <1>9, StorageWork

\* A row is written whatever task is at work: a task that has read it has missed
\* that, and it is no longer set back.
LEMMA WriteKeepsInv ==
    ASSUME StorageAssumption, StorageInv, NEW w \in Rows, Write(w)
    PROVE  StorageInv'
  <1> USE DEF StorageInv
  <1>1. /\ UNCHANGED <<level, tenant, admin, storage, creation, dirty, boots>>
        /\ Working("done") /\ writes' = writes + 1 /\ setBack' = setBack \ {w}
        /\ job' = [j \in Jobs |-> IF job[j].pc = "copy" THEN [job[j] EXCEPT !.missed = @ \cup {w}] ELSE job[j]]
    BY DEF Write
  <1>2. PICK content \in {writes'} \cup {0} :
             written' = [written EXCEPT ![w] = content] /\ stored' = [stored EXCEPT ![w] = content]
    BY DEF Write
  <1>3. /\ stored \in [Rows -> Nat] /\ written \in [Rows -> Nat] /\ writes \in Nat /\ content \in Nat
        /\ \A j \in Jobs : job[j] \in JobRec /\ JobSound(job[j])
    BY <1>1, <1>2 DEF StorageTyped
  <1>4. /\ stored'[w] = content /\ written'[w] = content
        /\ \A r \in Rows \ {w} : stored'[r] = stored[r] /\ written'[r] = written[r]
        /\ stored' \in [Rows -> Nat] /\ written' \in [Rows -> Nat]
    BY <1>2, <1>3
  <1>5. ASSUME NEW j \in Jobs PROVE job'[j] \in JobRec /\ JobSound(job[j])'
    <2>1. CASE job[j].pc = "copy"
      <3>1. /\ job'[j] \in JobRec /\ job'[j].pc = "copy" /\ job'[j].rows = job[j].rows
            /\ job'[j].missed = job[j].missed \cup {w} /\ job'[j].madeDatabase = job[j].madeDatabase
        BY <1>1, <1>3, <2>1 DEF JobRec
      <3>2. Spared => RowsSound(job[j])
        BY <1>3, <2>1 DEF JobSound
      <3>3. Spared => RowsSound(job[j])'
        BY <1>1, <1>4, <3>1, <3>2 DEF RowsSound
      <3>4. (Spared <=> Spared') /\ (Working("done") <=> Working("done")')
        BY <1>1 DEF Spared, Working
      <3> QED BY <1>1, <1>3, <3>1, <3>3, <3>4 DEF JobSound
    <2>2. CASE job[j].pc # "copy"
      <3>1. job'[j] = job[j]
        BY <1>1, <2>2
      <3> QED BY <1>1, <1>3, <2>2, <3>1 DEF JobSound, Working
    <2> QED BY <2>1, <2>2
  <1>6. StorageTyped'
    <2>1. job' \in [Jobs -> JobRec]
      BY <1>1, <1>5
    <2> QED BY <1>1, <1>3, <1>4, <2>1 DEF StorageTyped
  <1>7. CreationSound'
    BY <1>1, <1>4 DEF CreationSound, Working, Usable, Spared
  <1> QED BY <1>5, <1>6, <1>7

LEMMA StorageStep ==
    ASSUME StorageAssumption, StorageInv, [StorageNext]_storageVars
    PROVE  StorageInv'
  <1>1. CASE Creating
    BY <1>1, CreatingKeepsInv
  <1>2. CASE \E w \in Rows : Write(w)
    BY <1>2, WriteKeepsInv
  <1>3. CASE Reboot
    <2>1. boots' \in Nat
      BY <1>3 DEF Reboot, StorageInv, StorageTyped
    <2> QED BY <1>3, <2>1, DownKeepsInv DEF Reboot
  <1>4. CASE \E j \in Jobs : CreateTask(j) \/ Migrating(j)
    BY <1>4, TaskKeepsInv, StorageWorkKeepsInv, ReplaceKeepsInv DEF Migrating
  <1>5. CASE UNCHANGED storageVars
    BY <1>5 DEF storageVars, StorageInv, StorageTyped, CreationSound, JobSound, RowsSound, Working, Usable, Spared
  <1> QED BY <1>1, <1>2, <1>3, <1>4, <1>5 DEF StorageNext

LEMMA StorageInvAlways == StorageSpec => []StorageInv
  <1>1. StorageInit => StorageInv
    BY StorageInitInv, StorageAssumption
  <1>2. StorageInv /\ [StorageNext]_storageVars => StorageInv'
    BY StorageStep, StorageAssumption
  <1> QED BY <1>1, <1>2, PTL DEF StorageSpec

\* create leaves tenant, administrator and storage, or neither of the first
\* two, whichever await fails; only a crash or a failed rollback leaves parts.
THEOREM CreationIsWhole == StorageSpec => []CreateAllOrNothing
  <1>1. StorageInv => CreateAllOrNothing
    BY DEF StorageInv, CreationSound, CreateAllOrNothing
  <1> QED BY <1>1, StorageInvAlways, PTL

\* executeTask, initialize and the copy leave every tenant's rows alone, however
\* many tasks overlap and wherever they fail, except for a MEDIUM tenant whose
\* initialisation may fail.
THEOREM RowsSurviveMigration == StorageSpec => [](Spared => MigrationKeepsRows)
  <1>1. StorageInv => (Spared => MigrationKeepsRows)
    BY DEF StorageInv, CreationSound, MigrationKeepsRows
  <1> QED BY <1>1, StorageInvAlways, PTL

(***************************************************************************)
(* The inspector.  The two states differ only when no node is inspected,   *)
(* or when an answer inspected again a node that had been left.            *)
(***************************************************************************)
OneNode == selectedNode # NoTreeNode /\ ~strayed => editAcl = selectedNode
InspectorInv == OneNode /\ ~misplaced

LEMMA InspectorStep ==
    ASSUME InspectorInv, [InspectorNext]_inspectorVars PROVE InspectorInv'
  <1> USE DEF InspectorInv, OneNode
  <1>1. CASE UNCHANGED inspectorVars
    BY <1>1 DEF inspectorVars
  <1>2. CASE \E n \in TreeNodes : PickNode(n)
    BY <1>2 DEF PickNode, SelectNode
  <1>3. CASE ChangeBase
    BY <1>3 DEF ChangeBase
  <1>4. CASE SelectPending
    BY <1>4 DEF SelectPending, SelectNode, selection
  <1>5. CASE SaveNode
    BY <1>5 DEF SaveNode, selection
  <1>6. CASE SaveAnswered
    BY <1>6 DEF SaveAnswered, selection
  <1>7. ASSUME NEW c \in TreeCalls, NEW n \in TreeNodes, RenameNode(c, n) \/ RebuildNode(c, n)
        PROVE InspectorInv'
    BY <1>7 DEF RenameNode, RebuildNode, selection
  <1>8. ASSUME NEW c \in TreeCalls, DeleteNode(c) PROVE InspectorInv'
    BY <1>8 DEF DeleteNode, selection
  <1>9. ASSUME NEW c \in TreeCalls, NodeCallAnswered(c) PROVE InspectorInv'
    <2>1. misplaced' = misplaced
      BY <1>9 DEF NodeCallAnswered
    <2>2. CASE SelectNode(NoTreeNode)
      BY <2>1, <2>2 DEF SelectNode
    <2>3. CASE selectedNode' = treeCall[c].node /\ strayed' = (strayed \/ selectedNode # treeCall[c].node)
               /\ UNCHANGED editAcl
      BY <2>1, <2>3
    <2>4. CASE UNCHANGED selection
      BY <2>1, <2>4 DEF selection
    <2> QED BY <1>9, <2>2, <2>3, <2>4 DEF NodeCallAnswered
  <1>10. ASSUME NEW c \in TreeCalls, NodeCallRefused(c) PROVE InspectorInv'
    BY <1>10 DEF NodeCallRefused, selection
  <1> QED BY <1>1, <1>2, <1>3, <1>4, <1>5, <1>6, <1>7, <1>8, <1>9, <1>10 DEF InspectorNext

\* Permissions filled from one node are never saved to another one, unless an
\* answer inspected again a node that had been left (knowledge-tree/page.tsx).
THEOREM PermissionsKeepTheirNode == InspectorSpec => []PermissionsStay
  <1>1. InspectorInit => InspectorInv
    BY DEF InspectorInit, InspectorInv, OneNode
  <1>2. InspectorInv /\ [InspectorNext]_inspectorVars => InspectorInv'
    BY InspectorStep
  <1>3. InspectorInv => PermissionsStay
    BY DEF InspectorInv, PermissionsStay
  <1> QED BY <1>1, <1>2, <1>3, PTL DEF InspectorSpec

(***************************************************************************)
(* The images of the editor.  An object URL that a compression draws from  *)
(* is nobody else's, so that freeing it takes none that is shown; and      *)
(* while no calls overlap, a path that is asked for has none yet.          *)
(***************************************************************************)
ViewRec == [pc : {"none", "fetch", "wait", "blob", "shown", "failed"}, tries : Nat, url : Nat]
SendRec == [pc : {"none", "load", "encode", "post", "sent", "failed"}, drawn : Nat, encodes : Nat,
            path : SUBSET AssetPaths, url : Nat]
ImagePlaces ==
    /\ urlsMade \in Nat /\ urls \subseteq 1 .. urlsMade
    /\ urlOf \in [AssetPaths -> 0 .. urlsMade]
    /\ viewing \in [Views -> ViewRec] /\ sending \in [Sends -> SendRec]
    /\ \A v \in Views : viewing[v].url <= urlsMade
    /\ \A s \in Sends : sending[s].url <= urlsMade /\ sending[s].drawn <= urlsMade
    /\ editorOpen \in BOOLEAN /\ overlapped \in BOOLEAN

ShownView(v) == viewing[v].pc = "shown"
SentSend(s) == sending[s].pc = "sent"
Draws(s) == sending[s].pc \in {"load", "encode"}
Asks(v) == UnderFetch(viewing[v].pc)

InSight ==
    editorOpen =>
        /\ \A path \in AssetPaths : urlOf[path] # 0 => urlOf[path] \in urls
        /\ \A v \in Views : ShownView(v) => viewing[v].url \in urls
        /\ \A s \in Sends : SentSend(s) => sending[s].url \in urls
DrawnApart ==
    \A s \in Sends : Draws(s) =>
        /\ sending[s].drawn \in urls
        /\ \A path \in AssetPaths : urlOf[path] # sending[s].drawn
        /\ \A v \in Views : ShownView(v) => viewing[v].url # sending[s].drawn
        /\ \A t \in Sends : SentSend(t) => sending[t].url # sending[s].drawn
        /\ \A t \in Sends : Draws(t) /\ t # s => sending[t].drawn # sending[s].drawn
KeptOrDrawn(u) == (\E path \in AssetPaths : urlOf[path] = u) \/ \E s \in Sends : Draws(s) /\ sending[s].drawn = u
OneUrlEach ==
    ~overlapped =>
        /\ \A u \in urls : KeptOrDrawn(u)
        /\ \A path \in AssetPaths : urlOf[path] # 0 => urlOf[path] \in urls
        /\ editorOpen =>
              /\ \A v \in Views : ShownView(v) => urlOf[v[1]] = viewing[v].url
              /\ \A s \in Sends, path \in AssetPaths : path \in sending[s].path => urlOf[path] = sending[s].url
        /\ \A v \in Views : Asks(v) => urlOf[v[1]] = 0
        /\ \A v, w \in Views : Asks(v) /\ Asks(w) /\ v[1] = w[1] => v = w
        /\ ~editorOpen => /\ \A v \in Views : ~Asks(v)
                          /\ \A s \in Sends : ~Draws(s) /\ sending[s].pc # "post"
PathsSent == \A s \in Sends : sending[s].path # {} => SentSend(s)
ImagesInv == ImagePlaces /\ InSight /\ DrawnApart /\ OneUrlEach /\ PathsSent

LEMMA ViewHasPath == ASSUME NEW v \in Views PROVE v[1] \in AssetPaths
  BY DEF Views

LEMMA ImagesInitInv == ASSUME ImagesInit PROVE ImagesInv
  <1>1. /\ urlsMade = 0 /\ urls = {} /\ editorOpen = TRUE /\ overlapped = FALSE
        /\ urlOf = [path \in AssetPaths |-> 0]
        /\ viewing = [v \in Views |-> [pc |-> "none", tries |-> 0, url |-> 0]]
        /\ sending = [s \in Sends |-> [pc |-> "none", drawn |-> 0, encodes |-> 0, path |-> {}, url |-> 0]]
    BY DEF ImagesInit, NotViewed, NotSent
  <1>2. /\ \A v \in Views : viewing[v].pc = "none" /\ viewing[v].url = 0
        /\ \A s \in Sends : sending[s].pc = "none" /\ sending[s].url = 0 /\ sending[s].drawn = 0 /\ sending[s].path = {}
    BY <1>1
  <1>3. ImagePlaces
    <2>1. viewing \in [Views -> ViewRec]
      BY <1>1 DEF ViewRec
    <2>2. sending \in [Sends -> SendRec]
      BY <1>1 DEF SendRec
    <2>3. urlOf \in [AssetPaths -> 0 .. urlsMade]
      BY <1>1
    <2>4. urlsMade \in Nat /\ urls \subseteq 1 .. urlsMade
      BY <1>1
    <2>5. \A v \in Views : viewing[v].url <= urlsMade
      BY <1>1, <1>2
    <2>6. \A s \in Sends : sending[s].url <= urlsMade /\ sending[s].drawn <= urlsMade
      BY <1>1, <1>2
    <2> QED BY <1>1, <2>1, <2>2, <2>3, <2>4, <2>5, <2>6 DEF ImagePlaces
  <1> USE DEF ShownView, SentSend, Draws, Asks, UnderFetch
  <1>4. InSight /\ DrawnApart /\ PathsSent
    BY <1>1, <1>2 DEF InSight, DrawnApart, PathsSent
  <1>5. OneUrlEach
    BY <1>1, <1>2, ViewHasPath DEF OneUrlEach
  <1> QED BY <1>3, <1>4, <1>5 DEF ImagesInv

\* A call for an image goes on: what it shows is the URL kept for its path, and
\* what it asks for has none.
LEMMA ViewGoesOn ==
    ASSUME ImagesInv, NEW v \in Views, NEW r \in ViewRec,
           viewing' = [viewing EXCEPT ![v] = r],
           UNCHANGED <<urlOf, urls, urlsMade, sending, editorOpen>>,
           overlapped' \in BOOLEAN, overlapped => overlapped', r.url <= urlsMade,
           r.pc = "shown" => urlOf[v[1]] # 0 /\ r.url = urlOf[v[1]],
           ~overlapped' /\ UnderFetch(r.pc) =>
               \/ Asks(v)
               \/ editorOpen /\ urlOf[v[1]] = 0 /\ \A w \in Views : Asks(w) => w[1] # v[1]
    PROVE  ImagesInv'
  <1>0. /\ viewing'[v] = r /\ \A w \in Views : w # v => viewing'[w] = viewing[w]
        /\ v[1] \in AssetPaths
    BY ViewHasPath DEF ImagesInv, ImagePlaces
  <1> USE DEF ImagesInv, ShownView, SentSend, Draws, Asks
  <1>1. ImagePlaces'
    BY <1>0 DEF ImagePlaces
  <1>2. InSight'
    BY <1>0 DEF InSight
  <1>3. DrawnApart'
    BY <1>0 DEF DrawnApart
  <1>4. PathsSent'
    BY DEF PathsSent
  <1>5. OneUrlEach'
    <2> SUFFICES ASSUME ~overlapped' PROVE OneUrlEach'
      BY DEF OneUrlEach
    <2>1. ~overlapped
      OBVIOUS
    <2>2. \A u \in urls' : KeptOrDrawn(u)'
      BY <2>1 DEF OneUrlEach, KeptOrDrawn
    <2>3. editorOpen' => \A w \in Views : ShownView(w)' => urlOf'[w[1]] = viewing'[w].url
      BY <1>0, <2>1 DEF OneUrlEach
    <2>4. \A w \in Views : Asks(w)' => urlOf'[w[1]] = 0
      BY <1>0, <2>1 DEF OneUrlEach
    <2>5. \A w, x \in Views : Asks(w)' /\ Asks(x)' /\ w[1] = x[1] => w = x
      BY <1>0, <2>1 DEF OneUrlEach
    <2>6. ~editorOpen' => \A w \in Views : ~Asks(w)'
      BY <1>0, <2>1 DEF OneUrlEach
    <2> QED BY <2>1, <2>2, <2>3, <2>4, <2>5, <2>6 DEF OneUrlEach
  <1> QED BY <1>1, <1>2, <1>3, <1>4, <1>5

\* An upload goes on, with what it draws from, and shows nothing yet.
LEMMA SendGoesOn ==
    ASSUME ImagesInv, NEW s \in Sends, NEW r \in SendRec,
           sending' = [sending EXCEPT ![s] = r],
           UNCHANGED <<urlOf, urls, urlsMade, viewing, editorOpen, overlapped>>,
           r.pc # "sent", r.path = {}, r.url <= urlsMade, r.drawn = sending[s].drawn,
           r.pc \in {"load", "encode"} <=> Draws(s),
           editorOpen \/ Draws(s) \/ sending[s].pc = "post"
    PROVE  ImagesInv'
  <1>0. sending'[s] = r /\ \A t \in Sends : t # s => sending'[t] = sending[t]
    BY DEF ImagesInv, ImagePlaces
  <1> USE DEF ImagesInv, ShownView, SentSend, Draws, Asks
  <1>1. ImagePlaces'
    BY <1>0 DEF ImagePlaces
  <1>2. InSight'
    BY <1>0 DEF InSight
  <1>3. DrawnApart'
    BY <1>0 DEF DrawnApart
  <1>4. PathsSent'
    BY <1>0 DEF PathsSent
  <1>5. OneUrlEach'
    <2> SUFFICES ASSUME ~overlapped' PROVE OneUrlEach'
      BY DEF OneUrlEach
    <2>1. ~overlapped
      OBVIOUS
    <2>2. \A u \in urls' : KeptOrDrawn(u)'
      BY <1>0, <2>1 DEF OneUrlEach, KeptOrDrawn
    <2>3. editorOpen' => \A t \in Sends, path \in AssetPaths : path \in sending'[t].path => urlOf'[path] = sending'[t].url
      BY <1>0, <2>1 DEF OneUrlEach
    <2>4. ~editorOpen' => \A t \in Sends : ~Draws(t)' /\ sending'[t].pc # "post"
      BY <1>0, <2>1 DEF OneUrlEach
    <2> QED BY <2>1, <2>2, <2>3, <2>4 DEF OneUrlEach
  <1> QED BY <1>1, <1>2, <1>3, <1>4, <1>5

\* A compression begins with an object URL of its own.
LEMMA SendDraws ==
    ASSUME ImagesInv, NEW s \in Sends, NEW r \in SendRec,
           sending' = [sending EXCEPT ![s] = r], urls' = urls \cup {NewUrl}, urlsMade' = NewUrl,
           UNCHANGED <<urlOf, viewing, editorOpen, overlapped>>,
           ~Draws(s), editorOpen,
           r.pc = "load", r.path = {}, r.url <= urlsMade, r.drawn = NewUrl
    PROVE  ImagesInv'
  <1>0. sending'[s] = r /\ \A t \in Sends : t # s => sending'[t] = sending[t]
    BY DEF ImagesInv, ImagePlaces
  <1>1. /\ NewUrl \in Nat /\ NewUrl > urlsMade /\ NewUrl \notin urls /\ urlsMade \in Nat
        /\ \A path \in AssetPaths : urlOf[path] # NewUrl
    BY DEF ImagesInv, ImagePlaces, NewUrl
  <1> USE DEF ImagesInv, ShownView, SentSend, Draws, Asks
  <1>2. ImagePlaces'
    <2>0. urls \subseteq 1 .. urlsMade /\ urlOf \in [AssetPaths -> 0 .. urlsMade] /\ urlsMade' = urlsMade + 1
      BY DEF ImagePlaces, NewUrl
    <2>1. urls' \subseteq 1 .. urlsMade' /\ urlOf' \in [AssetPaths -> 0 .. urlsMade']
      <3>1. 1 .. urlsMade \subseteq 1 .. urlsMade' /\ 0 .. urlsMade \subseteq 0 .. urlsMade' /\ NewUrl \in 1 .. urlsMade'
        BY <1>1, <2>0 DEF NewUrl
      <3>2. urls' = urls \cup {NewUrl} /\ urlOf' = urlOf
        OBVIOUS
      <3> QED BY <2>0, <3>1, <3>2
    <2>2. \A v \in Views : viewing'[v].url <= urlsMade'
      BY <1>1 DEF ImagePlaces, ViewRec, NewUrl
    <2>3. \A t \in Sends : sending'[t].url <= urlsMade' /\ sending'[t].drawn <= urlsMade'
      BY <1>0, <1>1 DEF ImagePlaces, SendRec, NewUrl
    <2> QED BY <1>0, <1>1, <2>1, <2>2, <2>3 DEF ImagePlaces
  <1>3. InSight'
    BY <1>0 DEF InSight
  <1>4. DrawnApart'
    <2>1. \A v \in Views : viewing[v].url # NewUrl
      BY <1>1 DEF ImagePlaces, ViewRec
    <2>2. \A t \in Sends : sending[t].url # NewUrl /\ sending[t].drawn # NewUrl
      BY <1>1 DEF ImagePlaces, SendRec
    <2> QED BY <1>0, <1>1, <2>1, <2>2 DEF DrawnApart
  <1>5. PathsSent'
    BY <1>0 DEF PathsSent
  <1>6. OneUrlEach'
    <2> SUFFICES ASSUME ~overlapped' PROVE OneUrlEach'
      BY DEF OneUrlEach
    <2>1. ~overlapped
      OBVIOUS
    <2>2. \A u \in urls' : KeptOrDrawn(u)'
      BY <1>0, <2>1 DEF OneUrlEach, KeptOrDrawn
    <2>3. \A t \in Sends, path \in AssetPaths : path \in sending'[t].path => urlOf'[path] = sending'[t].url
      BY <1>0, <2>1 DEF OneUrlEach
    <2> QED BY <2>1, <2>2, <2>3 DEF OneUrlEach
  <1> QED BY <1>2, <1>3, <1>4, <1>5, <1>6

\* A compression ends and frees what it drew from, which nobody else shows.
LEMMA SendFrees ==
    ASSUME ImagesInv, NEW s \in Sends, NEW r \in SendRec, Draws(s),
           sending' = [sending EXCEPT ![s] = r], urls' = urls \ {sending[s].drawn},
           UNCHANGED <<urlOf, urlsMade, viewing, editorOpen, overlapped>>,
           r.pc = "post", r.path = {}, r.url <= urlsMade, r.drawn = sending[s].drawn
    PROVE  ImagesInv'
  <1>0. sending'[s] = r /\ \A t \in Sends : t # s => sending'[t] = sending[t]
    BY DEF ImagesInv, ImagePlaces
  <1> USE DEF ImagesInv, ShownView, SentSend, Draws, Asks
  <1>1. ImagePlaces'
    BY <1>0 DEF ImagePlaces
  <1>2. InSight'
    BY <1>0 DEF InSight, DrawnApart
  <1>3. DrawnApart'
    BY <1>0 DEF DrawnApart
  <1>4. PathsSent'
    BY <1>0 DEF PathsSent
  <1>5. OneUrlEach'
    <2> SUFFICES ASSUME ~overlapped' PROVE OneUrlEach'
      BY DEF OneUrlEach
    <2>1. ~overlapped
      OBVIOUS
    <2>2. \A u \in urls' : KeptOrDrawn(u)'
      BY <1>0, <2>1 DEF OneUrlEach, KeptOrDrawn
    <2>4. editorOpen' => \A t \in Sends, path \in AssetPaths : path \in sending'[t].path => urlOf'[path] = sending'[t].url
      BY <1>0, <2>1 DEF OneUrlEach
    <2>5. \A path \in AssetPaths : urlOf'[path] # 0 => urlOf'[path] \in urls'
      BY <2>1 DEF OneUrlEach, DrawnApart
    <2>6. editorOpen
      BY <2>1 DEF OneUrlEach
    <2> QED BY <2>1, <2>2, <2>4, <2>5, <2>6 DEF OneUrlEach
  <1> QED BY <1>1, <1>2, <1>3, <1>4, <1>5

LEMMA StartViewKeeps ==
    ASSUME ImagesInv, NEW v \in Views, StartView(v) PROVE ImagesInv'
  <1>0. /\ UNCHANGED <<urlOf, urls, urlsMade, sending, editorOpen>> /\ editorOpen /\ viewing[v].pc = "none"
        /\ urlOf[v[1]] \in 0 .. urlsMade /\ urlsMade \in Nat
        /\ viewing \in [Views -> ViewRec] /\ viewing[v] \in ViewRec /\ viewing[v].url <= urlsMade
        /\ overlapped \in BOOLEAN
    BY ViewHasPath DEF StartView, OnlyUrls, ImagesInv, ImagePlaces
  <1>1. CASE /\ urlOf[v[1]] # 0
             /\ viewing' = [viewing EXCEPT ![v].pc = "shown", ![v].url = urlOf[v[1]]]
             /\ UNCHANGED overlapped
    <2> PICK url \in Nat : url = urlOf[v[1]] /\ url <= urlsMade
      BY <1>0
    <2> PICK r : r = [viewing[v] EXCEPT !.pc = "shown", !.url = url]
      OBVIOUS
    <2>1. r \in ViewRec /\ r.pc = "shown" /\ r.url = url
      BY <1>0 DEF ViewRec
    <2>2. viewing' = [viewing EXCEPT ![v] = r]
      BY <1>0, <1>1
    <2>3. ~UnderFetch(r.pc) /\ urlOf[v[1]] # 0 /\ r.url = urlOf[v[1]] /\ r.url <= urlsMade
      BY <1>1, <2>1 DEF UnderFetch
    <2> QED BY <1>0, <1>1, <2>1, <2>2, <2>3, ViewGoesOn
  <1>2. CASE viewing' = [viewing EXCEPT ![v].pc = "failed"] /\ UNCHANGED overlapped
    <2> PICK r : r = [viewing[v] EXCEPT !.pc = "failed"]
      OBVIOUS
    <2>1. r \in ViewRec /\ r.pc = "failed" /\ r.url = viewing[v].url
      BY <1>0 DEF ViewRec
    <2>2. viewing' = [viewing EXCEPT ![v] = r]
      BY <1>0, <1>2
    <2> QED BY <1>0, <1>2, <2>1, <2>2, ViewGoesOn DEF UnderFetch
  <1>3. CASE /\ urlOf[v[1]] = 0
             /\ viewing' = [viewing EXCEPT ![v].pc = "fetch", ![v].tries = 1]
             /\ overlapped' = (overlapped \/ AskedOf(v[1]) # {})
    <2> PICK r : r = [viewing[v] EXCEPT !.pc = "fetch", !.tries = 1]
      OBVIOUS
    <2>1. r \in ViewRec /\ r.pc = "fetch" /\ r.url = viewing[v].url
      BY <1>0 DEF ViewRec
    <2>2. viewing' = [viewing EXCEPT ![v] = r]
      BY <1>0, <1>3
    <2>3. overlapped' \in BOOLEAN /\ (overlapped => overlapped')
      BY <1>0, <1>3
    <2>4. ~overlapped' => \A w \in Views : Asks(w) => w[1] # v[1]
      BY <1>3 DEF AskedOf, Asks
    <2> QED BY <1>0, <1>3, <2>1, <2>2, <2>3, <2>4, ViewGoesOn
  <1> QED BY <1>1, <1>2, <1>3 DEF StartView

LEMMA FetchKeeps ==
    ASSUME ImagesInv, NEW v \in Views, FetchAnswers(v) \/ WaitEnds(v) PROVE ImagesInv'
  <1>0. /\ UNCHANGED <<urlOf, urls, urlsMade, sending, editorOpen, overlapped>> /\ Asks(v)
        /\ viewing \in [Views -> ViewRec] /\ viewing[v] \in ViewRec /\ viewing[v].url <= urlsMade
        /\ overlapped \in BOOLEAN
    BY DEF FetchAnswers, WaitEnds, NoUrls, OnlyUrls, ImagesInv, ImagePlaces, Asks, UnderFetch
  <1>1. ASSUME NEW pc \in {"blob", "wait", "failed"}, viewing' = [viewing EXCEPT ![v].pc = pc]
        PROVE  ImagesInv'
    <2> PICK r : r = [viewing[v] EXCEPT !.pc = pc]
      OBVIOUS
    <2>1. r \in ViewRec /\ r.pc = pc /\ r.url = viewing[v].url
      BY <1>0 DEF ViewRec
    <2>2. viewing' = [viewing EXCEPT ![v] = r]
      BY <1>0, <1>1
    <2> QED BY <1>0, <2>1, <2>2, ViewGoesOn
  <1>2. CASE WaitEnds(v)
    <2> PICK tries \in Nat : tries = viewing[v].tries + 1
      BY <1>0 DEF ViewRec
    <2> PICK r : r = [viewing[v] EXCEPT !.pc = "fetch", !.tries = tries]
      OBVIOUS
    <2>1. r \in ViewRec /\ r.pc = "fetch" /\ r.url = viewing[v].url
      BY <1>0 DEF ViewRec
    <2>2. viewing' = [viewing EXCEPT ![v] = r]
      BY <1>0, <1>2 DEF WaitEnds
    <2> QED BY <1>0, <2>1, <2>2, ViewGoesOn
  <1> QED BY <1>1, <1>2 DEF FetchAnswers

\* The image has come: its path has a URL, and nobody else asks for it.
LEMMA BlobKeeps ==
    ASSUME ImagesInv, NEW v \in Views, BlobComes(v) PROVE ImagesInv'
  <1>0. /\ UNCHANGED <<sending, editorOpen, overlapped>> /\ Asks(v)
        /\ viewing \in [Views -> ViewRec] /\ viewing[v] \in ViewRec /\ viewing[v].url <= urlsMade
        /\ overlapped \in BOOLEAN /\ v[1] \in AssetPaths /\ urlOf \in [AssetPaths -> 0 .. urlsMade]
    BY ViewHasPath DEF BlobComes, OnlyUrls, ImagesInv, ImagePlaces, Asks, UnderFetch
  <1>1. CASE viewing' = [viewing EXCEPT ![v].pc = "failed"] /\ UNCHANGED <<urlOf, urls, urlsMade>>
    <2> PICK r : r = [viewing[v] EXCEPT !.pc = "failed"]
      OBVIOUS
    <2>1. r \in ViewRec /\ r.pc = "failed" /\ r.url = viewing[v].url
      BY <1>0 DEF ViewRec
    <2>2. viewing' = [viewing EXCEPT ![v] = r]
      BY <1>0, <1>1
    <2> QED BY <1>0, <1>1, <2>1, <2>2, ViewGoesOn
  <1>2. CASE /\ viewing' = [viewing EXCEPT ![v].pc = "shown", ![v].url = NewUrl]
             /\ urlOf' = [urlOf EXCEPT ![v[1]] = NewUrl]
             /\ urls' = urls \cup {NewUrl} /\ urlsMade' = NewUrl
    <2>1. viewing'[v].pc = "shown" /\ viewing'[v].url = NewUrl /\ \A w \in Views : w # v => viewing'[w] = viewing[w]
      BY <1>0, <1>2 DEF ViewRec
    <2>2. urlOf'[v[1]] = NewUrl /\ \A path \in AssetPaths : path # v[1] => urlOf'[path] = urlOf[path]
      BY <1>0, <1>2
    <2>3. /\ NewUrl \in Nat /\ NewUrl > urlsMade /\ NewUrl # 0 /\ NewUrl \notin urls /\ urlsMade \in Nat
          /\ \A path \in AssetPaths : urlOf[path] # NewUrl
      BY DEF ImagesInv, ImagePlaces, NewUrl
    <2>4. \A s \in Sends : sending[s].url # NewUrl /\ sending[s].drawn # NewUrl
      BY <2>3 DEF ImagesInv, ImagePlaces, SendRec
    <2>5. urls' = urls \cup {NewUrl}
      BY <1>2
    <2> USE DEF ImagesInv, ShownView, SentSend, Draws, Asks
    <2>6. ImagePlaces'
      <3>1. urls' \subseteq 1 .. urlsMade' /\ urlOf' \in [AssetPaths -> 0 .. urlsMade'] /\ urlsMade' \in Nat
        BY <1>0, <1>2, <2>3 DEF ImagePlaces, NewUrl
      <3>2. viewing' \in [Views -> ViewRec]
        BY <1>0, <1>2, <2>3 DEF ViewRec
      <3>3. \A w \in Views : viewing'[w].url <= urlsMade'
        BY <1>2, <2>1, <2>3 DEF ImagePlaces, ViewRec, NewUrl
      <3>4. \A t \in Sends : sending'[t].url <= urlsMade' /\ sending'[t].drawn <= urlsMade'
        BY <1>0, <1>2, <2>3 DEF ImagePlaces, SendRec, NewUrl
      <3> QED BY <1>0, <3>1, <3>2, <3>3, <3>4 DEF ImagePlaces
    <2>7. InSight'
      BY <1>0, <2>1, <2>2, <2>5 DEF InSight
    <2>8. DrawnApart'
      BY <1>0, <2>1, <2>2, <2>4, <2>5 DEF DrawnApart
    <2>9. PathsSent'
      BY <1>0 DEF PathsSent
    <2>10. OneUrlEach'
      <3> SUFFICES ASSUME ~overlapped' PROVE OneUrlEach'
        BY DEF OneUrlEach
      <3>1. ~overlapped /\ editorOpen /\ urlOf[v[1]] = 0
        BY <1>0 DEF OneUrlEach
      <3>2. \A w \in Views : Asks(w) /\ w # v => w[1] # v[1]
        BY <1>0, <3>1 DEF OneUrlEach
      <3>3. \A u \in urls' : KeptOrDrawn(u)'
        <4> TAKE u \in urls'
        <4>1. CASE u = NewUrl
          BY <1>0, <2>2, <4>1 DEF KeptOrDrawn
        <4>2. CASE u # NewUrl
          <5>1. u \in urls /\ KeptOrDrawn(u)
            BY <2>5, <3>1, <4>2 DEF OneUrlEach
          <5>2. u # 0
            BY <5>1 DEF ImagePlaces
          <5> QED BY <1>0, <2>2, <3>1, <5>1, <5>2 DEF KeptOrDrawn
        <4> QED BY <4>1, <4>2
      <3>4. \A path \in AssetPaths : urlOf'[path] # 0 => urlOf'[path] \in urls'
        BY <2>2, <2>5, <3>1 DEF OneUrlEach
      <3>5. \A w \in Views : ShownView(w) => w[1] # v[1]
        <4> TAKE w \in Views
        <4> HAVE ShownView(w)
        <4>1. viewing[w].url \in urls /\ urlOf[w[1]] = viewing[w].url
          BY <3>1 DEF OneUrlEach, InSight
        <4> QED BY <3>1, <4>1 DEF ImagePlaces
      <3>6. \A w \in Views : ShownView(w)' => urlOf'[w[1]] = viewing'[w].url
        BY <2>1, <2>2, <3>1, <3>5, ViewHasPath DEF OneUrlEach
      <3>7. \A s \in Sends : v[1] \notin sending[s].path
        <4> TAKE s \in Sends
        <4> SUFFICES ASSUME v[1] \in sending[s].path PROVE FALSE
          OBVIOUS
        <4>1. urlOf[v[1]] = sending[s].url /\ sending[s].url \in urls
          BY <1>0, <3>1 DEF OneUrlEach, InSight, PathsSent
        <4> QED BY <3>1, <4>1 DEF ImagePlaces
      <3>8. \A s \in Sends, path \in AssetPaths : path \in sending'[s].path => urlOf'[path] = sending'[s].url
        BY <1>0, <2>2, <3>1, <3>7 DEF OneUrlEach
      <3>9. \A w \in Views : Asks(w)' => urlOf'[w[1]] = 0
        BY <2>1, <2>2, <3>1, <3>2, ViewHasPath DEF OneUrlEach, UnderFetch
      <3>10. \A w, x \in Views : Asks(w)' /\ Asks(x)' /\ w[1] = x[1] => w = x
        BY <2>1, <3>1 DEF OneUrlEach, UnderFetch
      <3> QED BY <1>0, <3>1, <3>3, <3>4, <3>6, <3>8, <3>9, <3>10 DEF OneUrlEach
    <2> QED BY <2>6, <2>7, <2>8, <2>9, <2>10
  <1> QED BY <1>1, <1>2 DEF BlobComes

LEMMA StartSendKeeps ==
    ASSUME ImagesInv, NEW s \in Sends, StartSend(s) PROVE ImagesInv'
  <1>0. /\ UNCHANGED <<viewing, urlOf, overlapped, editorOpen>> /\ editorOpen /\ sending[s].pc = "none"
        /\ sending \in [Sends -> SendRec] /\ sending[s] \in SendRec /\ sending[s].url <= urlsMade
        /\ sending[s].path = {} /\ ~Draws(s)
    BY DEF StartSend, OnlyUrls, ImagesInv, ImagePlaces, PathsSent, SentSend, Draws
  <1>1. ASSUME NEW pc \in {"failed", "post"}, sending' = [sending EXCEPT ![s].pc = pc],
               UNCHANGED <<urls, urlsMade>>
        PROVE  ImagesInv'
    <2> PICK r : r = [sending[s] EXCEPT !.pc = pc]
      OBVIOUS
    <2>1. r \in SendRec /\ r.pc = pc /\ r.url = sending[s].url /\ r.path = {} /\ r.drawn = sending[s].drawn
      BY <1>0 DEF SendRec
    <2>2. sending' = [sending EXCEPT ![s] = r]
      BY <1>0, <1>1
    <2> QED BY <1>0, <1>1, <2>1, <2>2, SendGoesOn
  <1>2. CASE /\ sending' = [sending EXCEPT ![s].pc = "load", ![s].drawn = NewUrl]
             /\ urls' = urls \cup {NewUrl} /\ urlsMade' = NewUrl
    <2> PICK url \in Nat : url = NewUrl
      BY DEF NewUrl, ImagesInv, ImagePlaces
    <2> PICK r : r = [sending[s] EXCEPT !.pc = "load", !.drawn = url]
      OBVIOUS
    <2>1. r \in SendRec /\ r.pc = "load" /\ r.url = sending[s].url /\ r.path = {} /\ r.drawn = url
      BY <1>0 DEF SendRec
    <2>2. sending' = [sending EXCEPT ![s] = r]
      BY <1>0, <1>2
    <2> QED BY <1>0, <1>2, <2>1, <2>2, SendDraws
  <1> QED BY <1>1, <1>2 DEF StartSend

\* Drawn, encoded again, or sent as it is.
LEMMA CompressKeeps ==
    ASSUME ImagesInv, NEW s \in Sends, ImageLoads(s) \/ Encodes(s) PROVE ImagesInv'
  <1>0. /\ UNCHANGED <<viewing, urlOf, urlsMade, overlapped, editorOpen>> /\ Draws(s)
        /\ sending \in [Sends -> SendRec] /\ sending[s] \in SendRec /\ sending[s].url <= urlsMade
        /\ sending[s].path = {}
    BY DEF ImageLoads, Encodes, OnlyUrls, ImagesInv, ImagePlaces, PathsSent, SentSend, Draws
  <1>1. ASSUME NEW encodes \in Nat, urls' = urls,
               sending' = [sending EXCEPT ![s].pc = "encode", ![s].encodes = encodes]
        PROVE  ImagesInv'
    <2> PICK r : r = [sending[s] EXCEPT !.pc = "encode", !.encodes = encodes]
      OBVIOUS
    <2>1. r \in SendRec /\ r.pc = "encode" /\ r.url = sending[s].url /\ r.path = {} /\ r.drawn = sending[s].drawn
      BY <1>0 DEF SendRec
    <2>2. sending' = [sending EXCEPT ![s] = r]
      BY <1>0, <1>1
    <2> QED BY <1>0, <1>1, <2>1, <2>2, SendGoesOn
  <1>2. CASE Compressed(s)
    <2> PICK r : r = [sending[s] EXCEPT !.pc = "post"]
      OBVIOUS
    <2>1. r \in SendRec /\ r.pc = "post" /\ r.url = sending[s].url /\ r.path = {} /\ r.drawn = sending[s].drawn
      BY <1>0 DEF SendRec
    <2>2. sending' = [sending EXCEPT ![s] = r] /\ urls' = urls \ {sending[s].drawn}
      BY <1>0, <1>2 DEF Compressed
    <2> QED BY <1>0, <2>1, <2>2, SendFrees
  <1>3. CASE ImageLoads(s) /\ ~Compressed(s)
    BY <1>1, <1>3 DEF ImageLoads
  <1>4. CASE Encodes(s) /\ ~Compressed(s)
    <2>1. sending[s].pc = "encode" /\ sending' = [sending EXCEPT ![s].encodes = @ + 1] /\ urls' = urls
      BY <1>4 DEF Encodes
    <2> PICK encodes \in Nat : encodes = sending[s].encodes + 1
      BY <1>0 DEF SendRec
    <2> PICK r : r = [sending[s] EXCEPT !.encodes = encodes]
      OBVIOUS
    <2>2. r \in SendRec /\ r.pc = "encode" /\ r.url = sending[s].url /\ r.path = {} /\ r.drawn = sending[s].drawn
      BY <1>0, <2>1 DEF SendRec
    <2>3. sending' = [sending EXCEPT ![s] = r]
      BY <1>0, <2>1
    <2> QED BY <1>0, <2>1, <2>2, <2>3, SendGoesOn
  <1> QED BY <1>2, <1>3, <1>4

\* The upload is answered: its path keeps the URL it has, or gets a new one, and
\* nobody asks for it.
LEMMA PostKeeps ==
    ASSUME ImagesInv, NEW s \in Sends, PostAnswers(s) PROVE ImagesInv'
  <1>0. /\ UNCHANGED <<viewing, editorOpen>> /\ sending[s].pc = "post" /\ ~Draws(s)
        /\ sending \in [Sends -> SendRec] /\ sending[s] \in SendRec /\ sending[s].url <= urlsMade
        /\ sending[s].path = {} /\ urlOf \in [AssetPaths -> 0 .. urlsMade] /\ overlapped \in BOOLEAN
    BY DEF PostAnswers, OnlyUrls, ImagesInv, ImagePlaces, PathsSent, SentSend, Draws
  <1>1. CASE sending' = [sending EXCEPT ![s].pc = "failed"] /\ UNCHANGED <<urlOf, urls, urlsMade, overlapped>>
    <2> PICK r : r = [sending[s] EXCEPT !.pc = "failed"]
      OBVIOUS
    <2>1. r \in SendRec /\ r.pc = "failed" /\ r.url = sending[s].url /\ r.path = {} /\ r.drawn = sending[s].drawn
      BY <1>0 DEF SendRec
    <2>2. sending' = [sending EXCEPT ![s] = r]
      BY <1>0, <1>1
    <2> QED BY <1>0, <1>1, <2>1, <2>2, SendGoesOn
  <1>2. ASSUME NEW path \in AssetPaths, KeepUrl(path),
               sending' = [sending EXCEPT ![s].pc = "sent", ![s].path = {path}, ![s].url = urlOf'[path]],
               overlapped' = (overlapped \/ AskedOf(path) # {})
        PROVE  ImagesInv'
    <2>1. /\ NewUrl \in Nat /\ NewUrl > urlsMade /\ NewUrl # 0 /\ NewUrl \notin urls /\ urlsMade \in Nat
          /\ \A other \in AssetPaths : urlOf[other] # NewUrl
      BY DEF ImagesInv, ImagePlaces, NewUrl
    <2> PICK url : url = urlOf'[path]
      OBVIOUS
    <2>2. /\ sending'[s].pc = "sent" /\ sending'[s].path = {path} /\ sending'[s].url = url
          /\ sending'[s].drawn = sending[s].drawn /\ \A t \in Sends : t # s => sending'[t] = sending[t]
      BY <1>0, <1>2 DEF SendRec
    <2>3. \/ url = urlOf[path] /\ url # 0 /\ UNCHANGED <<urlOf, urls, urlsMade>>
          \/ /\ urlOf[path] = 0 /\ url = NewUrl /\ urlsMade' = NewUrl
             /\ urls' = urls \cup {url} /\ urlOf' = [urlOf EXCEPT ![path] = url]
      BY <1>0, <1>2 DEF KeepUrl
    <2>4. urlOf'[path] = url /\ \A other \in AssetPaths : other # path => urlOf'[other] = urlOf[other]
      BY <1>0, <2>3
    <2>5. url \in Nat /\ url # 0 /\ urlsMade' \in Nat /\ urlsMade <= urlsMade' /\ url <= urlsMade' /\ url \in 0 .. urlsMade'
      BY <1>0, <2>1, <2>3 DEF NewUrl
    <2>6. \A t \in Sends : sending[t].url # NewUrl /\ sending[t].drawn # NewUrl
      BY <2>1 DEF ImagesInv, ImagePlaces, SendRec
    <2>7. urls \subseteq urls' /\ urls' \subseteq urls \cup {url} /\ (urlOf[path] = 0 => url \in urls')
      BY <2>3
    <2> USE DEF ImagesInv, ShownView, SentSend, Draws, Asks
    <2>8. ImagePlaces'
      <3>1. urls' \subseteq 1 .. urlsMade'
        <4>1. \A u \in urls : u \in 1 .. urlsMade'
          BY <2>1, <2>5 DEF ImagePlaces
        <4>2. url \in 1 .. urlsMade'
          BY <2>5
        <4> QED BY <2>7, <4>1, <4>2
      <3>2. urlOf' \in [AssetPaths -> 0 .. urlsMade']
        BY <1>0, <2>1, <2>3 DEF NewUrl
      <3>3. sending' \in [Sends -> SendRec]
        BY <1>0, <1>2, <2>5 DEF SendRec
      <3>4. \A v \in Views : viewing'[v].url <= urlsMade'
        BY <1>0, <2>1, <2>5 DEF ImagePlaces, ViewRec
      <3>5. \A t \in Sends : sending'[t].url <= urlsMade' /\ sending'[t].drawn <= urlsMade'
        BY <2>1, <2>2, <2>5 DEF ImagePlaces, SendRec
      <3>6. overlapped' \in BOOLEAN
        BY <1>0, <1>2
      <3>7. urlsMade' \in Nat /\ viewing' \in [Views -> ViewRec] /\ editorOpen' \in BOOLEAN
        BY <1>0, <2>5 DEF ImagePlaces
      <3> QED BY <3>1, <3>2, <3>3, <3>4, <3>5, <3>6, <3>7 DEF ImagePlaces
    <2>9. InSight'
      BY <1>0, <2>2, <2>3, <2>4, <2>7 DEF InSight
    <2>10. DrawnApart'
      <3>1. \A t \in Sends : Draws(t) => sending[t].drawn # url
        BY <2>3, <2>6 DEF DrawnApart
      <3> QED BY <1>0, <2>2, <2>4, <2>7, <3>1 DEF DrawnApart
    <2>11. PathsSent'
      BY <2>2 DEF PathsSent
    <2>12. OneUrlEach'
      <3> SUFFICES ASSUME ~overlapped' PROVE OneUrlEach'
        BY DEF OneUrlEach
      <3>1. ~overlapped /\ \A v \in Views : Asks(v) => v[1] # path
        BY <1>2 DEF AskedOf
      <3>2. editorOpen
        BY <1>0, <3>1 DEF OneUrlEach
      <3>3. \A u \in urls' : KeptOrDrawn(u)'
        <4> TAKE u \in urls'
        <4>1. CASE u = url
          BY <2>4, <4>1 DEF KeptOrDrawn
        <4>2. CASE u # url
          <5>1. u \in urls /\ KeptOrDrawn(u)
            BY <2>7, <3>1, <4>2 DEF OneUrlEach
          <5>2. u # 0
            BY <5>1 DEF ImagePlaces
          <5>3. u # urlOf[path]
            BY <2>3, <4>2, <5>2
          <5> QED BY <1>0, <2>2, <2>4, <5>1, <5>3 DEF KeptOrDrawn
        <4> QED BY <4>1, <4>2
      <3>4. \A other \in AssetPaths : urlOf'[other] # 0 => urlOf'[other] \in urls'
        BY <2>3, <2>4, <2>7, <3>1 DEF OneUrlEach
      <3>5. \A v \in Views : ShownView(v)' => urlOf'[v[1]] = viewing'[v].url
        <4> TAKE v \in Views
        <4> HAVE ShownView(v)'
        <4>1. v[1] \in AssetPaths /\ urlOf[v[1]] = viewing[v].url /\ viewing[v].url \in urls /\ viewing'[v] = viewing[v]
          BY <1>0, <3>1, <3>2, ViewHasPath DEF OneUrlEach, InSight
        <4>2. urlOf[v[1]] # 0
          BY <4>1 DEF ImagePlaces
        <4> QED BY <2>3, <2>4, <4>1, <4>2
      <3>6. \A t \in Sends, other \in AssetPaths : other \in sending'[t].path => urlOf'[other] = sending'[t].url
        <4> TAKE t \in Sends, other \in AssetPaths
        <4> HAVE other \in sending'[t].path
        <4>1. CASE t = s
          BY <2>2, <2>4, <4>1
        <4>2. CASE t # s
          <5>1. urlOf[other] = sending[t].url /\ sending[t].url \in urls /\ sending'[t] = sending[t]
            BY <2>2, <3>1, <3>2, <4>2 DEF OneUrlEach, InSight, PathsSent
          <5>2. urlOf[other] # 0
            BY <5>1 DEF ImagePlaces
          <5> QED BY <2>3, <2>4, <5>1, <5>2
        <4> QED BY <4>1, <4>2
      <3>7. \A v \in Views : Asks(v)' => urlOf'[v[1]] = 0
        BY <1>0, <2>4, <3>1, ViewHasPath DEF OneUrlEach
      <3>8. \A v, w \in Views : Asks(v)' /\ Asks(w)' /\ v[1] = w[1] => v = w
        BY <1>0, <3>1 DEF OneUrlEach
      <3> QED BY <1>0, <3>2, <3>3, <3>4, <3>5, <3>6, <3>7, <3>8 DEF OneUrlEach
    <2> QED BY <2>8, <2>9, <2>10, <2>11, <2>12
  <1> QED BY <1>1, <1>2 DEF PostAnswers

\* The URLs that are kept are freed with the editor; what is under way has
\* overlapped its end.
LEMMA CloseKeeps ==
    ASSUME ImagesInv, CloseEditor PROVE ImagesInv'
  <1>0. /\ editorOpen /\ editorOpen' = FALSE /\ urls' = urls \ Range(urlOf)
        /\ urlOf' = [path \in AssetPaths |-> 0] /\ overlapped' = (overlapped \/ ImagesBusy)
        /\ UNCHANGED <<urlsMade, viewing, sending>>
    BY DEF CloseEditor
  <1>1. \A path \in AssetPaths : urlOf[path] \notin urls' /\ urlOf'[path] = 0
    BY <1>0 DEF Range, ImagesInv, ImagePlaces
  <1> USE DEF ImagesInv, ShownView, SentSend, Draws, Asks
  <1>2. ImagePlaces'
    <2>1. overlapped' \in BOOLEAN
      BY <1>0
    <2>2. urls' \subseteq 1 .. urlsMade' /\ urlsMade' \in Nat
      BY <1>0 DEF ImagePlaces
    <2>3. urlOf' \in [AssetPaths -> 0 .. urlsMade']
      BY <1>0, <2>2
    <2>4. viewing' = viewing /\ sending' = sending /\ urlsMade' = urlsMade /\ editorOpen' \in BOOLEAN
      BY <1>0
    <2> QED BY <2>1, <2>2, <2>3, <2>4 DEF ImagePlaces
  <1>3. InSight' /\ PathsSent'
    BY <1>0 DEF InSight, PathsSent
  <1>4. \A s \in Sends : Draws(s) => sending[s].drawn \in urls'
    BY <1>0 DEF DrawnApart, Range, ImagePlaces
  <1>5. \A s \in Sends : Draws(s) => sending[s].drawn # 0
    BY DEF DrawnApart, ImagePlaces
  <1>6. DrawnApart'
    BY <1>0, <1>1, <1>4, <1>5 DEF DrawnApart
  <1>7. OneUrlEach'
    <2> SUFFICES ASSUME ~overlapped' PROVE OneUrlEach'
      BY DEF OneUrlEach
    <2>1. ~overlapped /\ ~ImagesBusy
      BY <1>0
    <2>2. /\ \A s \in Sends : ~Draws(s) /\ sending[s].pc # "post"
          /\ \A v \in Views : ~Asks(v)
      BY <2>1, ViewHasPath DEF ImagesBusy, Compressing, AskedOf
    <2>3. \A u \in urls' : FALSE
      BY <1>0, <1>1, <2>1, <2>2 DEF OneUrlEach, KeptOrDrawn
    <2> QED BY <1>0, <1>1, <2>2, <2>3 DEF OneUrlEach
  <1> QED BY <1>2, <1>3, <1>6, <1>7

LEMMA StillImages ==
    ASSUME ImagesInv, UNCHANGED <<editorOpen, urlOf, urls, urlsMade, viewing, sending, overlapped>>
    PROVE  ImagesInv'
  BY DEF ImagesInv, ImagePlaces, InSight, DrawnApart, OneUrlEach, PathsSent, ShownView, SentSend,
         Draws, Asks, KeptOrDrawn

LEMMA ImagesStep ==
    ASSUME ImagesInv, [ImagesNext]_imageVars PROVE ImagesInv'
  <1>1. CASE UNCHANGED imageVars
    BY <1>1, StillImages DEF imageVars
  <1>2. ASSUME NEW path \in AssetPaths, ServerShows(path) PROVE ImagesInv'
    BY <1>2, StillImages DEF ServerShows
  <1>3. CASE \E v \in Views : StartView(v) \/ FetchAnswers(v) \/ WaitEnds(v) \/ BlobComes(v)
    BY <1>3, StartViewKeeps, FetchKeeps, BlobKeeps
  <1>4. CASE \E s \in Sends : StartSend(s) \/ ImageLoads(s) \/ Encodes(s) \/ PostAnswers(s)
    BY <1>4, StartSendKeeps, CompressKeeps, PostKeeps
  <1> QED BY <1>1, <1>2, <1>3, <1>4, CloseKeeps DEF ImagesNext

\* While the editor is open no image loses its URL; and unless two calls for one
\* path overlapped, or one the end of the editor, a path has one URL and none
\* stays behind (document-assets.ts), for any number of images and calls.
THEOREM ImagesStay == ImagesSpec => []ImagesHold
  <1>1. ImagesInit => ImagesInv
    BY ImagesInitInv
  <1>2. ImagesInv /\ [ImagesNext]_imageVars => ImagesInv'
    BY ImagesStep
  <1>3. ImagesInv => ImagesHold
    <2> SUFFICES ASSUME ImagesInv PROVE ImagesHold
      OBVIOUS
    <2> USE DEF ImagesInv, ShownView, SentSend, Draws
    <2>1. ShownStay
      BY DEF ShownStay, InSight
    <2>2. CASE ~overlapped
      <3>1. \A u \in urls : u \in (Range(urlOf) \ {0}) \cup {sending[s].drawn : s \in Compressing}
        BY <2>2 DEF OneUrlEach, KeptOrDrawn, Compressing, Range, ImagePlaces
      <3>2. \A path \in AssetPaths : urlOf[path] # 0 => urlOf[path] \in urls
        BY <2>2 DEF OneUrlEach
      <3>3. \A s \in Compressing : sending[s].drawn \in urls
        BY DEF DrawnApart, Compressing
      <3>4. urls = (Range(urlOf) \ {0}) \cup {sending[s].drawn : s \in Compressing}
        BY <3>1, <3>2, <3>3 DEF Range, ImagePlaces
      <3> QED BY <2>1, <2>2, <3>4 DEF ImagesHold, UrlsKept, OneUrlEach
    <2> QED BY <2>1, <2>2 DEF ImagesHold, UrlsKept
  <1> QED BY <1>1, <1>2, <1>3, PTL DEF ImagesSpec

(***************************************************************************)
(* The sessions of the windows.  After a sign-out that is over, whatever a *)
(* window has under way carries the token it keeps: what was asked before  *)
(* went with the page, and a page is at home only with a token.            *)
(***************************************************************************)
WebRec == [does : {"none", "page", "me", "switch", "signIn", "over"}, in : Windows, token : Nat]
KeptRec == [token : Nat, user : Nat]
KeptTyped ==
    /\ kept \in [Windows -> KeptRec] /\ foreign \in [Windows -> {"no", "lent", "late"}]
    /\ left \in [Windows -> {"none", "lost", "logout", "replaced"}]
WindowPlaces ==
    /\ KeptTyped /\ known \in [Windows -> Nat]
    /\ place \in [Windows -> {"login", "home", "boot", "opening", "leaving", "closed"}]
    /\ given \in Nat /\ aged \subseteq 1 .. given
    /\ webCall \in [BrowserCalls -> WebRec]

OneUser(w) ==
    kept[w].token # 0 =>
        /\ foreign[w] = "no" => kept[w].user \in {0, kept[w].token}
        /\ place[w] \in {"login", "home"} => known[w] = kept[w].user
Authorized(c) == webCall[c].does \in {"page", "me", "switch"}
AfterLogout(w) ==
    left[w] = "logout" =>
        /\ place[w] \notin {"boot", "opening"}
        /\ place[w] = "home" => kept[w].token # 0
        /\ place[w] # "leaving" =>
              \A c \in BrowserCalls : OfWindow(w, c) /\ Authorized(c) =>
                  webCall[c].token = kept[w].token /\ kept[w].token # 0
WindowHolds(w) == OneUser(w) /\ AfterLogout(w)
SessionInv == WindowPlaces /\ ~crossed /\ \A w \in Windows : WindowHolds(w)

LEMMA SessionInit == ASSUME BrowserInit PROVE SessionInv
  <1>1. /\ kept = [w \in Windows |-> [token |-> 0, user |-> 0]] /\ known = [w \in Windows |-> 0]
        /\ place = [w \in Windows |-> IF w = Popup THEN "closed" ELSE "login"]
        /\ given = 0 /\ aged = {} /\ crossed = FALSE
        /\ webCall = [c \in BrowserCalls |-> [does |-> "none", in |-> Popup, token |-> 0]]
        /\ foreign = [w \in Windows |-> "no"] /\ left = [w \in Windows |-> "none"]
    BY DEF BrowserInit, SignedOut, NoWebCall
  <1>2. KeptTyped
    BY <1>1 DEF KeptTyped, KeptRec
  <1>3. webCall \in [BrowserCalls -> WebRec]
    BY <1>1, BrowserAssumption DEF WebRec
  <1>4. WindowPlaces
    BY <1>1, <1>2, <1>3 DEF WindowPlaces
  <1>5. \A w \in Windows : WindowHolds(w)
    BY <1>1 DEF WindowHolds, OneUser, AfterLogout
  <1> QED BY <1>1, <1>4, <1>5 DEF SessionInv

\* A window where nothing changes but for calls that end stays as it is.
LEMMA OtherWindow ==
    ASSUME NEW x \in Windows, WindowHolds(x), kept'[x] = kept[x], known'[x] = known[x],
           place'[x] = place[x], foreign'[x] = foreign[x], left'[x] = left[x],
           \A c \in BrowserCalls : OfWindow(x, c)' => OfWindow(x, c) /\ webCall'[c] = webCall[c]
    PROVE  WindowHolds(x)'
  BY DEF WindowHolds, OneUser, AfterLogout, Authorized

\* A session that is cleared, or only if its token has expired.
LEMMA ClearedIs ==
    ASSUME KeptTyped, NEW w \in Windows, NEW how \in {"lost", "logout"}, ClearSessionToken(w, how)
    PROVE  /\ KeptTyped'
           /\ kept'[w].token = 0 /\ kept'[w].user = 0 /\ foreign'[w] = "no"
           /\ left'[w] = IF kept[w].token # 0 THEN how ELSE left[w]
           /\ \A x \in Windows : x # w => kept'[x] = kept[x] /\ foreign'[x] = foreign[x] /\ left'[x] = left[x]
  <1>1. /\ kept' = [kept EXCEPT ![w] = [token |-> 0, user |-> 0]] /\ foreign' = [foreign EXCEPT ![w] = "no"]
        /\ left' = [left EXCEPT ![w] = IF kept[w].token # 0 THEN how ELSE left[w]]
    BY DEF ClearSessionToken, SignedOut
  <1>2. [token |-> 0, user |-> 0] \in KeptRec
    BY DEF KeptRec
  <1>3. (IF kept[w].token # 0 THEN how ELSE left[w]) \in {"none", "lost", "logout", "replaced"}
    BY DEF KeptTyped
  <1> QED BY <1>1, <1>2, <1>3 DEF KeptTyped

LEMMA OrClearedIs ==
    ASSUME WindowPlaces, NEW w \in Windows, OrCleared(w)
    PROVE  /\ KeptTyped'
           /\ \A x \in Windows : x # w => kept'[x] = kept[x] /\ foreign'[x] = foreign[x] /\ left'[x] = left[x]
           /\ \/ /\ kept'[w].token = 0 /\ kept'[w].user = 0 /\ left'[w] = "lost" /\ kept[w].token # 0
                 /\ foreign'[w] = "no" /\ ReadSessionToken(w) = 0
              \/ /\ kept'[w] = kept[w] /\ foreign'[w] = foreign[w] /\ left'[w] = left[w]
                 /\ ReadSessionToken(w) = kept[w].token
  <1>1. CASE TokenExpired(w)
    <2>1. ClearSessionToken(w, "lost")
      BY <1>1 DEF OrCleared
    <2>2. kept[w].token # 0
      BY <1>1 DEF TokenExpired, WindowPlaces
    <2>3. ReadSessionToken(w) = 0
      BY <1>1 DEF ReadSessionToken
    <2> QED BY <2>1, <2>2, <2>3, ClearedIs DEF WindowPlaces
  <1>2. CASE ~TokenExpired(w)
    <2>1. UNCHANGED <<kept, foreign, left>> /\ ReadSessionToken(w) = kept[w].token
      BY <1>2 DEF OrCleared, ReadSessionToken
    <2> QED BY <2>1 DEF WindowPlaces, KeptTyped
  <1> QED BY <1>1, <1>2

OverRec == [NoWebCall EXCEPT !.does = "over"]
LEMMA OverIs == OverRec \in WebRec /\ OverRec.does = "over"
  BY BrowserAssumption DEF OverRec, NoWebCall, WebRec

LEMMA CutIs ==
    ASSUME NEW calls \in [BrowserCalls -> WebRec], NEW w \in Windows
    PROVE  /\ Cut(calls, w) \in [BrowserCalls -> WebRec]
           /\ \A c \in BrowserCalls : Cut(calls, w)[c] = IF OfWindow(w, c) THEN OverRec ELSE calls[c]
  BY OverIs DEF Cut, OverRec

\* A call that is over, alone or with those of the window it opened.
LEMMA ClosedIs ==
    ASSUME webCall \in [BrowserCalls -> WebRec], NEW c \in BrowserCalls, NEW calls,
           calls = ClosedWith(c) \/ calls = CallClosed(c)
    PROVE  /\ calls \in [BrowserCalls -> WebRec]
           /\ \A d \in BrowserCalls : calls[d] = webCall[d] \/ calls[d].does = "over"
           /\ calls[c].does = "over"
           /\ calls = ClosedWith(c) /\ webCall[c].does = "switch" =>
                  \A d \in BrowserCalls : OfWindow(Popup, d) => calls[d].does = "over"
  <1>1. /\ CallClosed(c) = [webCall EXCEPT ![c] = OverRec] /\ CallClosed(c) \in [BrowserCalls -> WebRec]
        /\ CallClosed(c)[c] = OverRec /\ \A d \in BrowserCalls : d # c => CallClosed(c)[d] = webCall[d]
    BY OverIs DEF CallClosed, OverRec
  <1>2. CASE calls = CallClosed(c) /\ (calls = ClosedWith(c) => webCall[c].does # "switch")
    BY <1>1, <1>2, OverIs
  <1>3. CASE webCall[c].does = "switch" /\ calls = ClosedWith(c)
    <2>1. calls = Cut(CallClosed(c), Popup)
      BY <1>3 DEF ClosedWith
    <2>2. /\ calls \in [BrowserCalls -> WebRec]
          /\ \A d \in BrowserCalls : calls[d] = IF OfWindow(Popup, d) THEN OverRec ELSE CallClosed(c)[d]
      BY <1>1, <2>1, CutIs, BrowserAssumption
    <2> QED BY <1>1, <2>2, OverIs
  <1> QED BY <1>2, <1>3 DEF ClosedWith

\* A request that is sent carries the token its window keeps.
LEMMA SendIs ==
    ASSUME WindowPlaces, NEW c \in BrowserCalls, NEW w \in Windows,
           NEW does \in {"page", "switch"}, SendRequest(c, w, does)
    PROVE  /\ webCall' \in [BrowserCalls -> WebRec]
           /\ webCall'[c].does = does /\ webCall'[c].in = w /\ webCall'[c].token = ReadSessionToken(w)
           /\ \A d \in BrowserCalls : d # c => webCall'[d] = webCall[d]
  <1>1. ReadSessionToken(w) \in Nat
    BY DEF ReadSessionToken, WindowPlaces, KeptTyped, KeptRec
  <1> QED BY <1>1 DEF SendRequest, WindowPlaces, WebRec

\* What a request finds in its window after it was sent.
LEMMA SendHolds ==
    ASSUME SessionInv, NEW c \in BrowserCalls, NEW w \in Windows, NEW does \in {"page", "switch"},
           c \in FreshCalls, place[w] = "home", SendRequest(c, w, does), OrCleared(w),
           UNCHANGED <<known, place, given, aged, crossed>>
    PROVE  SessionInv'
  <1> USE DEF SessionInv
  <1>1. /\ webCall' \in [BrowserCalls -> WebRec]
        /\ webCall'[c].does = does /\ webCall'[c].in = w /\ webCall'[c].token = ReadSessionToken(w)
        /\ \A d \in BrowserCalls : d # c => webCall'[d] = webCall[d]
    BY SendIs
  <1>2. WindowPlaces'
    BY <1>1, OrClearedIs DEF WindowPlaces
  <1>3. \A x \in Windows : x # w => WindowHolds(x)'
    <2> TAKE x \in Windows
    <2> HAVE x # w
    <2>1. \A d \in BrowserCalls : OfWindow(x, d)' => OfWindow(x, d) /\ webCall'[d] = webCall[d]
      BY <1>1 DEF OfWindow
    <2> QED BY <2>1, OtherWindow, OrClearedIs
  <1>4. WindowHolds(w)'
    <2>1. OneUser(w)'
      BY OrClearedIs DEF WindowHolds, OneUser
    <2>2. AfterLogout(w)'
      <3> SUFFICES ASSUME left'[w] = "logout" PROVE AfterLogout(w)'
        BY DEF AfterLogout
      <3>1. /\ kept'[w] = kept[w] /\ left[w] = "logout" /\ ReadSessionToken(w) = kept[w].token
        BY OrClearedIs
      <3>2. kept[w].token # 0
        BY <3>1 DEF WindowHolds, AfterLogout
      <3> QED BY <1>1, <3>1, <3>2 DEF WindowHolds, AfterLogout, OfWindow, Authorized
    <2> QED BY <2>1, <2>2 DEF WindowHolds
  <1> QED BY <1>2, <1>3, <1>4

LEMMA LoadHolds ==
    ASSUME SessionInv, NEW w \in Windows, LoadPage(w),
           \/ UNCHANGED place
           \/ /\ place[w] \in {"leaving", "opening"}
              /\ place' = [place EXCEPT ![w] = IF place[w] = "opening" THEN "home" ELSE "login"]
    PROVE  SessionInv'
  <1> USE DEF SessionInv
  <1> PICK mine : mine = ReadSessionToken(w)
    OBVIOUS
  <1>1. OrCleared(w) /\ UNCHANGED <<given, aged, crossed>> /\ known' = [known EXCEPT ![w] = IF mine = 0 THEN 0 ELSE kept[w].user]
    BY DEF LoadPage
  <1>2. mine \in Nat /\ webCall \in [BrowserCalls -> WebRec]
    BY DEF ReadSessionToken, WindowPlaces, KeptTyped, KeptRec
  <1> PICK cut : cut = Cut(webCall, w)
    OBVIOUS
  <1>3. cut \in [BrowserCalls -> WebRec] /\ \A c \in BrowserCalls : cut[c] = IF OfWindow(w, c) THEN OverRec ELSE webCall[c]
    BY <1>2, CutIs
  <1>4. \/ mine = 0 /\ webCall' = cut
        \/ mine # 0 /\ \E c \in FreshCalls : webCall' = [cut EXCEPT ![c] = [does |-> "me", in |-> w, token |-> mine]]
    BY DEF LoadPage
  <1>5. /\ webCall' \in [BrowserCalls -> WebRec]
        /\ \A c \in BrowserCalls : OfWindow(w, c)' => mine # 0 /\ webCall'[c].token = mine
        /\ \A c \in BrowserCalls, x \in Windows : x # w /\ OfWindow(x, c)' => OfWindow(x, c) /\ webCall'[c] = webCall[c]
    <2>1. CASE mine = 0 /\ webCall' = cut
      BY <1>3, <2>1, OverIs DEF OfWindow
    <2>2. ASSUME NEW c \in FreshCalls, mine # 0, webCall' = [cut EXCEPT ![c] = [does |-> "me", in |-> w, token |-> mine]]
          PROVE  <1>5
      <3>1. c \in BrowserCalls /\ [does |-> "me", in |-> w, token |-> mine] \in WebRec
        BY <1>2 DEF FreshCalls, WebRec
      <3>2. webCall'[c] = [does |-> "me", in |-> w, token |-> mine] /\ \A d \in BrowserCalls : d # c => webCall'[d] = cut[d]
        BY <1>3, <2>2, <3>1
      <3> QED BY <1>3, <2>2, <3>1, <3>2, OverIs DEF OfWindow
    <2> QED BY <1>4, <2>1, <2>2
  <1>6. /\ place' \in [Windows -> {"login", "home", "boot", "opening", "leaving", "closed"}]
        /\ \A x \in Windows : x # w => place'[x] = place[x]
        /\ place'[w] \in {place[w], "login", "home"} /\ (place'[w] = "home" => place[w] \in {"home", "opening"})
        /\ place'[w] \in {"boot", "opening"} => place'[w] = place[w]
    BY DEF WindowPlaces
  <1>7. /\ known' \in [Windows -> Nat] /\ known'[w] = (IF mine = 0 THEN 0 ELSE kept[w].user)
        /\ \A x \in Windows : x # w => known'[x] = known[x]
    BY <1>1, <1>2 DEF WindowPlaces, KeptTyped, KeptRec
  <1>8. WindowPlaces'
    BY <1>1, <1>5, <1>6, <1>7, OrClearedIs DEF WindowPlaces
  <1>9. \A x \in Windows : x # w => WindowHolds(x)'
    <2> TAKE x \in Windows
    <2> HAVE x # w
    <2> QED BY <1>1, <1>5, <1>6, <1>7, OtherWindow, OrClearedIs
  <1>10. WindowHolds(w)'
    <2>1. OneUser(w)'
      BY <1>1, <1>7, OrClearedIs DEF WindowHolds, OneUser
    <2>2. AfterLogout(w)'
      <3> SUFFICES ASSUME left'[w] = "logout" PROVE AfterLogout(w)'
        BY DEF AfterLogout
      <3>1. kept'[w] = kept[w] /\ left[w] = "logout" /\ mine = kept[w].token
        BY <1>1, OrClearedIs
      <3>2. place[w] \notin {"boot", "opening"} /\ (place[w] = "home" => kept[w].token # 0)
        BY <3>1 DEF WindowHolds, AfterLogout
      <3> QED BY <1>5, <1>6, <3>1, <3>2 DEF AfterLogout
    <2> QED BY <2>1, <2>2 DEF WindowHolds
  <1> QED BY <1>1, <1>8, <1>9, <1>10

\* The window an action is about, when no call of another one begins or changes.
LEMMA OneWindow ==
    ASSUME SessionInv, WindowPlaces', ~crossed', NEW w \in Windows, WindowHolds(w)',
           \A x \in Windows : x # w =>
               /\ kept'[x] = kept[x] /\ known'[x] = known[x] /\ place'[x] = place[x]
               /\ foreign'[x] = foreign[x] /\ left'[x] = left[x],
           \A c \in BrowserCalls : webCall'[c] = webCall[c] \/ webCall'[c].does \in {"none", "over"} \/ webCall'[c].in = w
    PROVE  SessionInv'
  <1>1. \A x \in Windows : x # w => WindowHolds(x)'
    <2> TAKE x \in Windows
    <2> HAVE x # w
    <2>1. \A c \in BrowserCalls : OfWindow(x, c)' => OfWindow(x, c) /\ webCall'[c] = webCall[c]
      BY DEF OfWindow
    <2> QED BY <2>1, OtherWindow DEF SessionInv
  <1> QED BY <1>1 DEF SessionInv

\* What a request of a signed-out window carries is what the window keeps.
LEMMA CallsAfterLogout ==
    ASSUME SessionInv, NEW w \in Windows, NEW c \in BrowserCalls, OfWindow(w, c), Authorized(c),
           left[w] = "logout", place[w] # "leaving"
    PROVE  webCall[c].token = kept[w].token /\ kept[w].token # 0
  BY DEF SessionInv, WindowHolds, AfterLogout

LEMMA RedirectHolds ==
    ASSUME SessionInv, NEW w \in Windows, Redirect(w) PROVE SessionInv'
  <1>1. /\ place[w] = "home" /\ place' = [place EXCEPT ![w] = "login"]
        /\ UNCHANGED <<kept, known, given, aged, webCall, foreign, left, crossed>>
    BY DEF Redirect
  <1>2. WindowPlaces'
    BY <1>1 DEF SessionInv, WindowPlaces, KeptTyped
  <1>3. place'[w] = "login" /\ \A x \in Windows : x # w => place'[x] = place[x]
    BY <1>1 DEF SessionInv, WindowPlaces
  <1>4. WindowHolds(w)'
    BY <1>1, <1>3 DEF SessionInv, WindowHolds, OneUser, AfterLogout, Authorized, OfWindow
  <1> QED BY <1>1, <1>2, <1>3, <1>4, OneWindow DEF SessionInv

LEMMA SendSignInHolds ==
    ASSUME SessionInv, NEW w \in Windows, NEW c \in BrowserCalls, SendSignIn(c, w) PROVE SessionInv'
  <1>1. /\ webCall' = [webCall EXCEPT ![c] = [does |-> "signIn", in |-> w, token |-> 0]]
        /\ UNCHANGED <<kept, known, place, given, aged, foreign, left, crossed>>
    BY DEF SendSignIn
  <1>2. webCall'[c].does = "signIn" /\ webCall'[c].in = w /\ \A d \in BrowserCalls : d # c => webCall'[d] = webCall[d]
    BY <1>1 DEF SessionInv, WindowPlaces
  <1>3. WindowPlaces'
    BY <1>1 DEF SessionInv, WindowPlaces, KeptTyped, WebRec
  <1>4. WindowHolds(w)'
    BY <1>1, <1>2 DEF SessionInv, WindowHolds, OneUser, AfterLogout, Authorized, OfWindow
  <1> QED BY <1>1, <1>2, <1>3, <1>4, OneWindow DEF SessionInv

LEMMA SignedInHolds ==
    ASSUME SessionInv, NEW w \in Windows, NEW c \in BrowserCalls, SignedIn(c, w) PROVE SessionInv'
  <1> PICK n : n = given + 1
    OBVIOUS
  <1>0. n \in Nat /\ n # 0 /\ given \in Nat /\ aged \subseteq 1 .. n
    BY DEF SessionInv, WindowPlaces
  <1> PICK how : how = IF kept[w].token # 0 THEN "replaced" ELSE left[w]
    OBVIOUS
  <1> PICK where : where = IF place[w] = "login" THEN "home" ELSE place[w]
    OBVIOUS
  <1>1. /\ given' = n /\ kept' = [kept EXCEPT ![w] = [token |-> n, user |-> n]]
        /\ known' = [known EXCEPT ![w] = n] /\ foreign' = [foreign EXCEPT ![w] = "no"]
        /\ left' = [left EXCEPT ![w] = how] /\ place' = [place EXCEPT ![w] = where]
        /\ webCall' = CallClosed(c) /\ UNCHANGED <<aged, crossed>>
    BY DEF SignedIn
  <1>2. /\ webCall' \in [BrowserCalls -> WebRec]
        /\ \A d \in BrowserCalls : webCall'[d] = webCall[d] \/ webCall'[d].does = "over"
    BY <1>1, ClosedIs DEF SessionInv, WindowPlaces
  <1>3. KeptTyped'
    <2>1. [token |-> n, user |-> n] \in KeptRec /\ how \in {"none", "lost", "logout", "replaced"}
      BY <1>0 DEF KeptRec, SessionInv, WindowPlaces, KeptTyped
    <2> QED BY <1>1, <2>1 DEF SessionInv, WindowPlaces, KeptTyped
  <1>4. where \in {"login", "home", "boot", "opening", "leaving", "closed"}
    BY DEF SessionInv, WindowPlaces
  <1>5. WindowPlaces'
    BY <1>0, <1>1, <1>2, <1>3, <1>4 DEF SessionInv, WindowPlaces
  <1>6. /\ kept'[w].token = n /\ kept'[w].user = n /\ known'[w] = n /\ foreign'[w] = "no" /\ left'[w] = how /\ place'[w] = where
        /\ \A x \in Windows : x # w =>
               /\ kept'[x] = kept[x] /\ known'[x] = known[x] /\ place'[x] = place[x]
               /\ foreign'[x] = foreign[x] /\ left'[x] = left[x]
    BY <1>1 DEF SessionInv, WindowPlaces, KeptTyped
  <1>7. AfterLogout(w)'
    <2> SUFFICES ASSUME left'[w] = "logout" PROVE AfterLogout(w)'
      BY DEF AfterLogout
    <2>1. kept[w].token = 0 /\ left[w] = "logout"
      BY <1>6
    <2>2. place[w] \notin {"boot", "opening"} /\ (place[w] # "leaving" => \A d \in BrowserCalls : ~(OfWindow(w, d) /\ Authorized(d)))
      BY <2>1 DEF SessionInv, WindowHolds, AfterLogout
    <2>3. \A d \in BrowserCalls : OfWindow(w, d)' /\ Authorized(d)' => OfWindow(w, d) /\ Authorized(d)
      BY <1>2 DEF OfWindow, Authorized
    <2> QED BY <1>0, <1>6, <2>2, <2>3 DEF AfterLogout
  <1>8. WindowHolds(w)'
    BY <1>6, <1>7 DEF WindowHolds, OneUser
  <1> QED BY <1>1, <1>2, <1>5, <1>6, <1>8, OneWindow DEF SessionInv

\* A new window is lent the session of its opener: nothing is promised of it yet.
LEMMA OpenTenantHolds ==
    ASSUME SessionInv, NEW w \in Windows, NEW c \in BrowserCalls, OpenTenant(c, w) PROVE SessionInv'
  <1>0. /\ c \in FreshCalls /\ place[w] = "home" /\ w # Popup /\ SendRequest(c, w, "switch")
        /\ UNCHANGED <<known, given, aged, crossed>>
    BY DEF OpenTenant
  <1>1. CASE place[Popup] # "closed"
    <2>1. OrCleared(w) /\ UNCHANGED place
      BY <1>1 DEF OpenTenant
    <2> QED BY <1>0, <2>1, SendHolds
  <1>2. CASE place[Popup] = "closed"
    <2> USE BrowserAssumption
    <2> PICK gone \in BOOLEAN : gone <=> TokenExpired(w)
      OBVIOUS
    <2> PICK mine : mine = IF gone THEN SignedOut ELSE kept[w]
      OBVIOUS
    <2> PICK alien : alien = IF gone THEN "no" ELSE foreign[w]
      OBVIOUS
    <2> PICK how : how = IF gone THEN "lost" ELSE left[w]
      OBVIOUS
    <2>1. /\ place' = [place EXCEPT ![Popup] = "boot"]
          /\ kept' = [kept EXCEPT ![Popup] = kept[w], ![w] = mine]
          /\ foreign' = [foreign EXCEPT ![Popup] = "lent", ![w] = alien]
          /\ left' = [left EXCEPT ![Popup] = "replaced", ![w] = how]
      BY <1>0, <1>2 DEF OpenTenant, SessionInv, WindowPlaces, KeptTyped
    <2>2. mine \in KeptRec /\ kept[w] \in KeptRec /\ alien \in {"no", "lent", "late"} /\ how \in {"none", "lost", "logout", "replaced"}
      BY DEF SignedOut, KeptRec, SessionInv, WindowPlaces, KeptTyped
    <2>3. KeptTyped'
      BY <2>1, <2>2 DEF SessionInv, WindowPlaces, KeptTyped
    <2>4. /\ kept'[w] = mine /\ foreign'[w] = alien /\ left'[w] = how /\ place'[w] = "home"
          /\ foreign'[Popup] = "lent" /\ left'[Popup] = "replaced" /\ place'[Popup] = "boot"
          /\ \A x \in Windows : x # w /\ x # Popup =>
                 /\ kept'[x] = kept[x] /\ place'[x] = place[x] /\ foreign'[x] = foreign[x] /\ left'[x] = left[x]
      BY <1>0, <2>1 DEF SessionInv, WindowPlaces, KeptTyped
    <2>5. /\ webCall' \in [BrowserCalls -> WebRec]
          /\ webCall'[c].does = "switch" /\ webCall'[c].in = w /\ webCall'[c].token = ReadSessionToken(w)
          /\ \A d \in BrowserCalls : d # c => webCall'[d] = webCall[d]
      BY <1>0, SendIs DEF SessionInv
    <2>6. place' \in [Windows -> {"login", "home", "boot", "opening", "leaving", "closed"}]
      BY <2>1 DEF SessionInv, WindowPlaces
    <2>7. WindowPlaces'
      BY <1>0, <2>3, <2>5, <2>6 DEF SessionInv, WindowPlaces
    <2>8. \A x \in Windows : x # w /\ x # Popup => WindowHolds(x)'
      <3> TAKE x \in Windows
      <3> HAVE x # w /\ x # Popup
      <3>1. \A d \in BrowserCalls : OfWindow(x, d)' => OfWindow(x, d) /\ webCall'[d] = webCall[d]
        BY <2>5 DEF OfWindow
      <3> QED BY <1>0, <2>4, <3>1, OtherWindow DEF SessionInv
    <2>9. WindowHolds(Popup)'
      BY <2>4 DEF WindowHolds, OneUser, AfterLogout
    <2>10. OneUser(w)'
      <3>1. CASE gone
        BY <2>4, <3>1 DEF OneUser, SignedOut
      <3>2. CASE ~gone
        BY <1>0, <2>4, <3>2 DEF SessionInv, WindowHolds, OneUser
      <3> QED BY <3>1, <3>2
    <2>11. AfterLogout(w)'
      <3> SUFFICES ASSUME left'[w] = "logout" PROVE AfterLogout(w)'
        BY DEF AfterLogout
      <3>1. ~gone /\ kept'[w] = kept[w] /\ left[w] = "logout" /\ ReadSessionToken(w) = kept[w].token
        BY <2>4 DEF ReadSessionToken
      <3>2. kept[w].token # 0
        BY <1>0, <3>1 DEF SessionInv, WindowHolds, AfterLogout
      <3> QED BY <1>0, <2>4, <2>5, <3>1, <3>2 DEF SessionInv, WindowHolds, AfterLogout, OfWindow, Authorized
    <2> QED BY <1>0, <2>7, <2>8, <2>9, <2>10, <2>11 DEF SessionInv, WindowHolds
  <1> QED BY <1>1, <1>2

LEMMA TenantOpenedHolds ==
    ASSUME SessionInv, NEW c \in BrowserCalls, TenantOpened(c) PROVE SessionInv'
  <1> USE BrowserAssumption
  <1> PICK n : n = given + 1
    OBVIOUS
  <1>0. n \in Nat /\ given \in Nat /\ aged \subseteq 1 .. n
    BY DEF SessionInv, WindowPlaces
  <1> PICK r : r = [kept[Popup] EXCEPT !.token = n]
    OBVIOUS
  <1>1. /\ given' = n /\ kept' = [kept EXCEPT ![Popup] = r] /\ foreign' = [foreign EXCEPT ![Popup] = "lent"]
        /\ left' = [left EXCEPT ![Popup] = "replaced"] /\ place' = [place EXCEPT ![Popup] = "opening"]
        /\ webCall' = CallClosed(c) /\ UNCHANGED <<known, aged, crossed>>
    BY DEF TenantOpened
  <1>2. /\ webCall' \in [BrowserCalls -> WebRec]
        /\ \A d \in BrowserCalls : webCall'[d] = webCall[d] \/ webCall'[d].does = "over"
    BY <1>1, ClosedIs DEF SessionInv, WindowPlaces
  <1>3. r \in KeptRec
    BY <1>0 DEF KeptRec, SessionInv, WindowPlaces, KeptTyped
  <1>4. KeptTyped'
    BY <1>1, <1>3 DEF SessionInv, WindowPlaces, KeptTyped
  <1>5. WindowPlaces'
    BY <1>0, <1>1, <1>2, <1>4 DEF SessionInv, WindowPlaces
  <1>6. /\ foreign'[Popup] = "lent" /\ left'[Popup] = "replaced" /\ place'[Popup] = "opening"
        /\ \A x \in Windows : x # Popup =>
               /\ kept'[x] = kept[x] /\ known'[x] = known[x] /\ place'[x] = place[x]
               /\ foreign'[x] = foreign[x] /\ left'[x] = left[x]
    BY <1>1 DEF SessionInv, WindowPlaces, KeptTyped
  <1>7. WindowHolds(Popup)'
    BY <1>6 DEF WindowHolds, OneUser, AfterLogout
  <1> QED BY <1>1, <1>2, <1>5, <1>6, <1>7, OneWindow DEF SessionInv

LEMMA UserRefreshedHolds ==
    ASSUME SessionInv, NEW w \in Windows, NEW c \in BrowserCalls, UserRefreshed(c, w) PROVE SessionInv'
  <1> PICK t : t = webCall[c].token
    OBVIOUS
  <1> PICK r : r = [kept[w] EXCEPT !.user = t]
    OBVIOUS
  <1> PICK alien : alien = IF t = kept[w].token THEN "no" ELSE "late"
    OBVIOUS
  <1>1. /\ kept' = [kept EXCEPT ![w] = r] /\ known' = [known EXCEPT ![w] = t] /\ foreign' = [foreign EXCEPT ![w] = alien]
        /\ crossed' = (crossed \/ Crosses(c, w)) /\ webCall' = CallClosed(c)
        /\ UNCHANGED <<place, given, aged, left>> /\ OfWindow(w, c) /\ Authorized(c)
    BY DEF UserRefreshed, Authorized
  <1>2. /\ webCall' \in [BrowserCalls -> WebRec]
        /\ \A d \in BrowserCalls : webCall'[d] = webCall[d] \/ webCall'[d].does = "over"
    BY <1>1, ClosedIs DEF SessionInv, WindowPlaces
  <1>3. t \in Nat /\ r \in KeptRec /\ r.token = kept[w].token /\ r.user = t /\ alien \in {"no", "lent", "late"}
    BY DEF KeptRec, WebRec, SessionInv, WindowPlaces, KeptTyped
  <1>4. KeptTyped'
    BY <1>1, <1>3 DEF SessionInv, WindowPlaces, KeptTyped
  <1>5. WindowPlaces'
    BY <1>1, <1>2, <1>3, <1>4 DEF SessionInv, WindowPlaces
  <1>6. /\ kept'[w] = r /\ known'[w] = t /\ foreign'[w] = alien
        /\ \A x \in Windows : x # w => kept'[x] = kept[x] /\ known'[x] = known[x] /\ foreign'[x] = foreign[x]
    BY <1>1 DEF SessionInv, WindowPlaces, KeptTyped
  <1>7. ~crossed'
    BY <1>1, CallsAfterLogout DEF Crosses, SessionInv
  <1>8. OneUser(w)'
    BY <1>3, <1>6 DEF OneUser
  <1>9. AfterLogout(w)'
    <2>1. \A d \in BrowserCalls : OfWindow(w, d)' /\ Authorized(d)' => OfWindow(w, d) /\ Authorized(d) /\ webCall'[d] = webCall[d]
      BY <1>2 DEF OfWindow, Authorized
    <2> QED BY <1>1, <1>3, <1>6, <2>1 DEF SessionInv, WindowHolds, AfterLogout
  <1>10. WindowHolds(w)'
    BY <1>8, <1>9 DEF WindowHolds
  <1> QED BY <1>1, <1>2, <1>5, <1>6, <1>7, <1>10, OneWindow

\* The window opened for a tenant when a switch fails: closed, with nothing under way.
LEMMA ClosedPopup ==
    ASSUME SessionInv, place'[Popup] = "closed", kept'[Popup] = kept[Popup] \/ kept'[Popup].token = 0,
           foreign'[Popup] = foreign[Popup] \/ kept'[Popup].token = 0,
           \A d \in BrowserCalls : webCall'[d] = webCall[d] \/ webCall'[d].does = "over",
           \A d \in BrowserCalls : OfWindow(Popup, d) => webCall'[d].does = "over"
    PROVE  WindowHolds(Popup)'
  <1>1. OneUser(Popup)'
    BY BrowserAssumption DEF SessionInv, WindowHolds, OneUser
  <1>2. \A d \in BrowserCalls : ~OfWindow(Popup, d)'
    BY DEF OfWindow
  <1> QED BY <1>1, <1>2 DEF WindowHolds, AfterLogout

LEMMA UnauthorizedHolds ==
    ASSUME SessionInv, NEW w \in Windows, NEW c \in BrowserCalls, ApiUnauthorized(c, w) PROVE SessionInv'
  <1> USE BrowserAssumption
  <1>1. /\ ClearSessionToken(w, "lost") /\ crossed' = (crossed \/ Crosses(c, w)) /\ webCall' = ClosedWith(c)
        /\ UNCHANGED <<given, aged>> /\ OfWindow(w, c) /\ Authorized(c)
        /\ known' = IF webCall[c].does = "me" THEN [known EXCEPT ![w] = 0] ELSE known
    BY DEF ApiUnauthorized, Authorized
  <1>2. \/ UNCHANGED place /\ webCall[c].does # "switch"
        \/ place[w] = "home" /\ place' = [place EXCEPT ![w] = "login"] /\ webCall[c].does # "switch"
        \/ webCall[c].does = "switch" /\ place' = [place EXCEPT ![Popup] = "closed"]
    BY DEF ApiUnauthorized
  <1>3. /\ webCall' \in [BrowserCalls -> WebRec]
        /\ \A d \in BrowserCalls : webCall'[d] = webCall[d] \/ webCall'[d].does = "over"
        /\ webCall[c].does = "switch" => \A d \in BrowserCalls : OfWindow(Popup, d) => webCall'[d].does = "over"
    BY <1>1, ClosedIs DEF SessionInv, WindowPlaces
  <1>4. /\ KeptTyped' /\ kept'[w].token = 0
        /\ left'[w] = IF kept[w].token # 0 THEN "lost" ELSE left[w]
        /\ \A x \in Windows : x # w => kept'[x] = kept[x] /\ foreign'[x] = foreign[x] /\ left'[x] = left[x]
    BY <1>1, ClearedIs DEF SessionInv, WindowPlaces
  <1>5. known' \in [Windows -> Nat] /\ \A x \in Windows : x # w => known'[x] = known[x]
    BY <1>1 DEF SessionInv, WindowPlaces
  <1>6. place' \in [Windows -> {"login", "home", "boot", "opening", "leaving", "closed"}]
    BY <1>2 DEF SessionInv, WindowPlaces
  <1>7. WindowPlaces'
    BY <1>1, <1>3, <1>4, <1>5, <1>6 DEF SessionInv, WindowPlaces
  <1>8. ~crossed'
    BY <1>1, CallsAfterLogout DEF Crosses, SessionInv
  <1>9. \A x \in Windows : x # w /\ place'[x] = place[x] => WindowHolds(x)'
    <2> TAKE x \in Windows
    <2> HAVE x # w /\ place'[x] = place[x]
    <2>1. \A d \in BrowserCalls : OfWindow(x, d)' => OfWindow(x, d) /\ webCall'[d] = webCall[d]
      BY <1>3 DEF OfWindow
    <2> QED BY <1>4, <1>5, <2>1, OtherWindow DEF SessionInv
  <1>10. webCall[c].does = "switch" => WindowHolds(Popup)'
    <2> HAVE webCall[c].does = "switch"
    <2>1. place'[Popup] = "closed"
      BY <1>2 DEF SessionInv, WindowPlaces
    <2> QED BY <1>3, <1>4, <2>1, ClosedPopup
  <1>11. ~(w = Popup /\ webCall[c].does = "switch") => WindowHolds(w)'
    <2> HAVE ~(w = Popup /\ webCall[c].does = "switch")
    <2>1. OneUser(w)'
      BY <1>4 DEF OneUser
    <2>2. AfterLogout(w)'
      <3> SUFFICES ASSUME left'[w] = "logout" PROVE AfterLogout(w)'
        BY DEF AfterLogout
      <3>1. kept[w].token = 0 /\ left[w] = "logout"
        BY <1>4
      <3>2. place[w] = "leaving"
        BY <1>1, <3>1, CallsAfterLogout
      <3>3. place'[w] = "leaving"
        BY <1>2, <3>2 DEF SessionInv, WindowPlaces
      <3> QED BY <3>3 DEF AfterLogout
    <2> QED BY <2>1, <2>2 DEF WindowHolds
  <1>12. \A x \in Windows : x # w => place'[x] = place[x] \/ (x = Popup /\ webCall[c].does = "switch")
    BY <1>2 DEF SessionInv, WindowPlaces
  <1> QED BY <1>7, <1>8, <1>9, <1>10, <1>11, <1>12 DEF SessionInv

LEMMA AnsweredHolds ==
    ASSUME SessionInv, NEW w \in Windows, NEW c \in BrowserCalls, ApiAnswered(c, w) PROVE SessionInv'
  <1> USE BrowserAssumption
  <1>1. /\ place' = IF webCall[c].does = "switch" THEN [place EXCEPT ![Popup] = "closed"] ELSE place
        /\ webCall' = ClosedWith(c) /\ UNCHANGED <<kept, known, given, aged, foreign, left, crossed>>
    BY DEF ApiAnswered
  <1>2. /\ webCall' \in [BrowserCalls -> WebRec]
        /\ \A d \in BrowserCalls : webCall'[d] = webCall[d] \/ webCall'[d].does = "over"
        /\ webCall[c].does = "switch" => \A d \in BrowserCalls : OfWindow(Popup, d) => webCall'[d].does = "over"
    BY <1>1, ClosedIs DEF SessionInv, WindowPlaces
  <1>3. /\ place' \in [Windows -> {"login", "home", "boot", "opening", "leaving", "closed"}]
        /\ \A x \in Windows : place'[x] = place[x] \/ (x = Popup /\ webCall[c].does = "switch" /\ place'[x] = "closed")
    BY <1>1 DEF SessionInv, WindowPlaces
  <1>4. WindowPlaces'
    BY <1>1, <1>2, <1>3 DEF SessionInv, WindowPlaces, KeptTyped
  <1>5. \A x \in Windows : place'[x] = place[x] => WindowHolds(x)'
    <2> TAKE x \in Windows
    <2> HAVE place'[x] = place[x]
    <2>1. \A d \in BrowserCalls : OfWindow(x, d)' => OfWindow(x, d) /\ webCall'[d] = webCall[d]
      BY <1>2 DEF OfWindow
    <2> QED BY <1>1, <2>1, OtherWindow DEF SessionInv
  <1>6. ASSUME webCall[c].does = "switch", place'[Popup] = "closed" PROVE WindowHolds(Popup)'
    BY <1>1, <1>2, <1>6, ClosedPopup
  <1> QED BY <1>1, <1>3, <1>4, <1>5, <1>6 DEF SessionInv

LEMMA LogoutHolds ==
    ASSUME SessionInv, NEW w \in Windows, Logout(w) PROVE SessionInv'
  <1>1. /\ ClearSessionToken(w, "logout") /\ known' = [known EXCEPT ![w] = 0] /\ place' = [place EXCEPT ![w] = "leaving"]
        /\ UNCHANGED <<given, aged, webCall, crossed>>
    BY DEF Logout
  <1>2. /\ KeptTyped' /\ kept'[w].token = 0
        /\ \A x \in Windows : x # w => kept'[x] = kept[x] /\ foreign'[x] = foreign[x] /\ left'[x] = left[x]
    BY <1>1, ClearedIs DEF SessionInv, WindowPlaces
  <1>3. WindowPlaces'
    BY <1>1, <1>2 DEF SessionInv, WindowPlaces
  <1>4. place'[w] = "leaving" /\ \A x \in Windows : x # w => place'[x] = place[x] /\ known'[x] = known[x]
    BY <1>1 DEF SessionInv, WindowPlaces
  <1>5. WindowHolds(w)'
    BY <1>2, <1>4 DEF WindowHolds, OneUser, AfterLogout
  <1> QED BY <1>1, <1>2, <1>3, <1>4, <1>5, OneWindow DEF SessionInv

LEMMA SameWindows ==
    ASSUME SessionInv, UNCHANGED <<kept, known, place, given, webCall, foreign, left, crossed>>, aged' \subseteq 1 .. given
    PROVE  SessionInv'
  <1>1. WindowPlaces'
    BY DEF SessionInv, WindowPlaces, KeptTyped
  <1> QED BY <1>1 DEF SessionInv, WindowHolds, OneUser, AfterLogout, OfWindow, Authorized

LEMMA SessionStep == ASSUME SessionInv, [BrowserNext]_sessionVars PROVE SessionInv'
  <1>1. CASE UNCHANGED sessionVars
    BY <1>1, SameWindows DEF sessionVars, SessionInv, WindowPlaces
  <1>2. CASE ADayPasses
    <2>1. aged' \subseteq 1 .. given
      BY <1>2 DEF ADayPasses, SessionInv, WindowPlaces
    <2> QED BY <1>2, <2>1, SameWindows DEF ADayPasses
  <1>3. ASSUME NEW w \in Windows, Reloaded(w) \/ LoadNext(w) PROVE SessionInv'
    BY <1>3, LoadHolds DEF Reloaded, LoadNext
  <1>4. ASSUME NEW w \in Windows, Redirect(w) \/ Logout(w) PROVE SessionInv'
    BY <1>4, RedirectHolds, LogoutHolds
  <1>5. ASSUME NEW w \in Windows, NEW c \in BrowserCalls, StartRequest(c, w) PROVE SessionInv'
    BY <1>5, SendHolds DEF StartRequest
  <1>6. ASSUME NEW w \in Windows, NEW c \in BrowserCalls, SendSignIn(c, w) \/ SignedIn(c, w) \/ OpenTenant(c, w) PROVE SessionInv'
    BY <1>6, SendSignInHolds, SignedInHolds, OpenTenantHolds
  <1>7. ASSUME NEW w \in Windows, NEW c \in BrowserCalls, UserRefreshed(c, w) \/ ApiUnauthorized(c, w) \/ ApiAnswered(c, w)
        PROVE SessionInv'
    BY <1>7, UserRefreshedHolds, UnauthorizedHolds, AnsweredHolds
  <1> QED BY <1>1, <1>2, <1>3, <1>4, <1>5, <1>6, <1>7, TenantOpenedHolds DEF BrowserNext

\* A token and the user kept beside it belong together, but for a lent session
\* and a late answer, the page shows that user, and nothing asked before a
\* sign-out touches the next session (session.ts, app/providers.tsx).
THEOREM SessionsStay == BrowserSpec => []SessionsHold
  <1>1. BrowserInit => SessionInv
    BY SessionInit
  <1>2. SessionInv /\ [BrowserNext]_sessionVars => SessionInv'
    BY SessionStep
  <1>3. SessionInv => SessionsHold
    BY DEF SessionInv, WindowHolds, OneUser, SessionsHold
  <1> QED BY <1>1, <1>2, <1>3, PTL DEF BrowserSpec

=================================================================================
