------------------------------- MODULE ListsProofs ------------------------------
(***************************************************************************)
(* Theorems about lists that are filtered and sorted (Arrangements), and   *)
(* what rests on them: the streams of MCP sessions (McpStreams), the calls *)
(* of OpenViking (KnowledgeSearch), and the files an agent is set up with  *)
(* (AgentSetup); each for every value of the constants.                    *)
(***************************************************************************)
EXTENDS McpStreams, KnowledgeSearch, AgentSetup, FiniteSetTheorems, FunctionTheorems,
        SequenceTheorems, TLAPS

(***************************************************************************)
(* Lists in an order.  A strict order of finitely many places gives each   *)
(* rank to one place, so that an arrangement is a permutation of what is   *)
(* at those places, and what comes before has a lower rank.                *)
(***************************************************************************)
StrictOrder(places, before) ==
    /\ \A i \in places : <<i, i>> \notin before
    /\ \A i, j, k \in places : <<i, j>> \in before /\ <<j, k>> \in before => <<i, k>> \in before
    /\ \A i, j \in places : i # j => <<i, j>> \in before \/ <<j, i>> \in before

LEMMA RankRange ==
    ASSUME NEW places, IsFiniteSet(places), NEW before, StrictOrder(places, before), NEW i \in places
    PROVE  Rank(places, before, i) \in 0 .. (Cardinality(places) - 1)
  <1> DEFINE ahead == {j \in places : <<j, i>> \in before}
  <1>1. ahead \subseteq places \ {i}
    BY DEF StrictOrder
  <1>2. IsFiniteSet(places \ {i}) /\ Cardinality(places \ {i}) = Cardinality(places) - 1
    BY FS_RemoveElement
  <1>3. Cardinality(ahead) <= Cardinality(places \ {i})
    BY <1>1, <1>2, FS_Subset
  <1>4. Cardinality(ahead) \in Nat /\ Cardinality(places) \in Nat
    BY <1>1, <1>2, FS_Subset, FS_CardinalityType
  <1> QED BY <1>2, <1>3, <1>4 DEF Rank

LEMMA RankGrows ==
    ASSUME NEW places, IsFiniteSet(places), NEW before, StrictOrder(places, before),
           NEW i \in places, NEW j \in places, <<i, j>> \in before
    PROVE  Rank(places, before, i) < Rank(places, before, j)
  <1> DEFINE ahead(k) == {l \in places : <<l, k>> \in before}
  <1>1. ahead(i) \cup {i} \subseteq ahead(j) /\ i \notin ahead(i)
    BY DEF StrictOrder
  <1>2. IsFiniteSet(ahead(i)) /\ IsFiniteSet(ahead(j))
    BY FS_Subset
  <1>3. Cardinality(ahead(i) \cup {i}) = Cardinality(ahead(i)) + 1
    BY <1>1, <1>2, FS_AddElement
  <1>4. Cardinality(ahead(i) \cup {i}) <= Cardinality(ahead(j))
    BY <1>1, <1>2, FS_Subset
  <1>5. Cardinality(ahead(i)) \in Nat /\ Cardinality(ahead(j)) \in Nat
    BY <1>2, FS_CardinalityType
  <1> QED BY <1>3, <1>4, <1>5 DEF Rank

\* Every rank below the number of places is that of one place.
LEMMA EachRankTaken ==
    ASSUME NEW places, IsFiniteSet(places), NEW before, StrictOrder(places, before),
           NEW k \in 1 .. Cardinality(places)
    PROVE  /\ \E i \in places : Rank(places, before, i) = k - 1
           /\ \A i, j \in places : Rank(places, before, i) = Rank(places, before, j) => i = j
  <1> DEFINE n == Cardinality(places)
             rank == [i \in places |-> Rank(places, before, i)]
  <1>1. n \in Nat
    BY FS_CardinalityType
  <1>2. \A i, j \in places : Rank(places, before, i) = Rank(places, before, j) => i = j
    <2> SUFFICES ASSUME NEW i \in places, NEW j \in places, i # j
                 PROVE  Rank(places, before, i) # Rank(places, before, j)
      OBVIOUS
    <2>1. <<i, j>> \in before \/ <<j, i>> \in before
      BY DEF StrictOrder
    <2>2. Rank(places, before, i) \in 0 .. (n - 1) /\ Rank(places, before, j) \in 0 .. (n - 1)
      BY RankRange
    <2>3. Rank(places, before, i) < Rank(places, before, j) \/ Rank(places, before, j) < Rank(places, before, i)
      BY <2>1, RankGrows
    <2> QED BY <1>1, <2>2, <2>3
  <1>3. rank \in Injection(places, 0 .. (n - 1))
    <2>1. rank \in [places -> 0 .. (n - 1)]
      BY RankRange
    <2>2. \A i, j \in places : rank[i] = rank[j] => i = j
      BY <1>2
    <2> HIDE DEF rank
    <2> QED BY <2>1, <2>2, Fun_IsInj
  <1>4. IsFiniteSet(0 .. (n - 1)) /\ Cardinality(0 .. (n - 1)) = n
    <2>1. 0 \in Int /\ n - 1 \in Int
      BY <1>1
    <2> QED BY <1>1, <2>1, FS_Interval
  <1>5. rank \in Surjection(places, 0 .. (n - 1))
    <2> HIDE DEF rank, n
    <2> QED BY <1>3, <1>4, FS_Injection DEF n
  <1>6. k - 1 \in 0 .. (n - 1)
    BY <1>1
  <1>7. \E i \in places : rank[i] = k - 1
    <2> HIDE DEF rank, n
    <2> QED BY <1>5, <1>6 DEF Surjection
  <1> QED BY <1>2, <1>7

\* What an arrangement has at a rank, and where it has a place.
LEMMA ArrangedIs ==
    ASSUME NEW list, NEW places, IsFiniteSet(places), NEW before, StrictOrder(places, before)
    PROVE  /\ Cardinality(places) \in Nat
           /\ DOMAIN Arranged(list, places, before) = 1 .. Cardinality(places)
           /\ \A k \in 1 .. Cardinality(places) :
                 \E i \in places : Rank(places, before, i) = k - 1 /\ Arranged(list, places, before)[k] = list[i]
           /\ \A i \in places :
                 /\ Rank(places, before, i) + 1 \in 1 .. Cardinality(places)
                 /\ Arranged(list, places, before)[Rank(places, before, i) + 1] = list[i]
  <1>1. Cardinality(places) \in Nat
    BY FS_CardinalityType
  <1>2. DOMAIN Arranged(list, places, before) = 1 .. Cardinality(places)
    BY DEF Arranged
  <1>3. ASSUME NEW k \in 1 .. Cardinality(places), NEW i \in places, Rank(places, before, i) = k - 1
        PROVE  Arranged(list, places, before)[k] = list[i]
    <2>1. (CHOOSE j \in places : Rank(places, before, j) = k - 1) = i
      BY <1>3, EachRankTaken
    <2> QED BY <2>1 DEF Arranged
  <1>4. ASSUME NEW k \in 1 .. Cardinality(places)
        PROVE  \E i \in places : Rank(places, before, i) = k - 1 /\ Arranged(list, places, before)[k] = list[i]
    <2>1. PICK i \in places : Rank(places, before, i) = k - 1
      BY EachRankTaken
    <2> QED BY <1>3, <2>1
  <1>5. ASSUME NEW i \in places
        PROVE  /\ Rank(places, before, i) + 1 \in 1 .. Cardinality(places)
               /\ Arranged(list, places, before)[Rank(places, before, i) + 1] = list[i]
    <2>1. Rank(places, before, i) \in 0 .. (Cardinality(places) - 1)
      BY RankRange
    <2> PICK k : k = Rank(places, before, i) + 1
      OBVIOUS
    <2>2. k \in 1 .. Cardinality(places) /\ Rank(places, before, i) = k - 1
      BY <1>1, <2>1
    <2> QED BY <1>3, <2>2
  <1> QED BY <1>1, <1>2, <1>4, <1>5

LEMMA EarlierIsStrict ==
    ASSUME NEW S, NEW list \in Seq(S), NEW places \in SUBSET DOMAIN list
    PROVE  StrictOrder(places, Earlier(list)) /\ IsFiniteSet(places)
  <1>1. DOMAIN list = 1 .. Len(list) /\ Len(list) \in Nat
    OBVIOUS
  <1>2. IsFiniteSet(DOMAIN list)
    BY <1>1, FS_Interval
  <1>3. \A i, j \in DOMAIN list : <<i, j>> \in Earlier(list) <=> i < j
    BY DEF Earlier
  <1>4. IsFiniteSet(places)
    BY <1>2, FS_Subset
  <1>5. \A i \in places : i \in DOMAIN list /\ i \in Nat
    BY <1>1
  <1> QED BY <1>3, <1>4, <1>5 DEF StrictOrder

LEMMA FilteredIsSeq ==
    ASSUME NEW S, NEW list \in Seq(S), NEW places \in SUBSET DOMAIN list
    PROVE  Filtered(list, places) \in Seq(S)
  <1>1. /\ DOMAIN Filtered(list, places) = 1 .. Cardinality(places) /\ Cardinality(places) \in Nat
        /\ \A k \in 1 .. Cardinality(places) : \E i \in places : Filtered(list, places)[k] = list[i]
    <2>1. StrictOrder(places, Earlier(list)) /\ IsFiniteSet(places)
      BY EarlierIsStrict
    <2>2. /\ DOMAIN Arranged(list, places, Earlier(list)) = 1 .. Cardinality(places) /\ Cardinality(places) \in Nat
          /\ \A k \in 1 .. Cardinality(places) : \E i \in places : Arranged(list, places, Earlier(list))[k] = list[i]
      BY <2>1, ArrangedIs
    <2> QED BY <2>2 DEF Filtered
  <1>2. \A k \in 1 .. Cardinality(places) : Filtered(list, places)[k] \in S
    BY <1>1
  <1>3. Filtered(list, places) = [k \in 1 .. Cardinality(places) |-> Filtered(list, places)[k]]
    BY <1>1 DEF Filtered, Arranged
  <1> QED BY <1>1, <1>2, <1>3

LEMMA ListIs ==
    ASSUME NEW S, NEW n \in Nat, NEW f \in [1 .. n -> S]
    PROVE  f \in Seq(S) /\ Len(f) = n
  OBVIOUS

LEMMA ListOfMore ==
    ASSUME NEW S, NEW T, S \subseteq T, NEW n \in Nat, NEW f \in [1 .. n -> S]
    PROVE  f \in Seq(T)
  <1>1. f \in [1 .. n -> T]
    OBVIOUS
  <1> QED BY <1>1

LEMMA FirstOfIs ==
    ASSUME NEW S, NEW list \in Seq(S), NEW n \in Nat
    PROVE  /\ FirstOf(list, n) \in Seq(S) /\ Len(FirstOf(list, n)) <= n /\ Len(FirstOf(list, n)) <= Len(list)
           /\ \A i \in DOMAIN FirstOf(list, n) : i \in DOMAIN list /\ FirstOf(list, n)[i] = list[i]
  <1> PICK m : m = IF Len(list) < n THEN Len(list) ELSE n
    OBVIOUS
  <1>1. m \in Nat /\ m <= n /\ m <= Len(list) /\ FirstOf(list, n) = SubSeq(list, 1, m)
    BY DEF FirstOf
  <1> QED BY <1>1

(***************************************************************************)
(* The event stream of an MCP session.  While it is listened to, what is   *)
(* delivered is a beginning of the queue: the poll in flight carries the   *)
(* rows that follow it, then the last ones of it, and what was written to  *)
(* the client comes before those.                                          *)
(***************************************************************************)
EventRec == [message : Messages, delivered : BOOLEAN, deleted : BOOLEAN]
PollRec == [pc : {"none", "mark", "send", "touch"}, rows : Seq(Messages)]
Ordered(feed, rows) ==
    \A i, j \in 1 .. Len(feed) : i < j =>
        \E k, l \in 1 .. Len(rows) : k < l /\ rows[k].message = feed[i] /\ rows[l].message = feed[j]
Within(feed, rows, d) ==
    \A i \in 1 .. Len(feed) : \E k \in 1 .. d : rows[k].message = feed[i]
Carried(rows, r, d) ==
    /\ r.pc = "mark" => /\ d + Len(r.rows) <= Len(rows)
                        /\ \A k \in 1 .. Len(r.rows) : r.rows[k] = rows[d + k].message
    /\ r.pc = "send" => /\ Len(r.rows) <= d
                        /\ \A k \in 1 .. Len(r.rows) : r.rows[k] = rows[d - Len(r.rows) + k].message
Reached(rows, feed, polls, d) ==
    /\ d \in 0 .. Len(rows)
    /\ \A i \in 1 .. Len(rows) : (rows[i].delivered <=> i <= d) /\ (rows[i].deleted => rows[i].delivered)
    /\ Within(feed, rows, d)
    /\ \A p \in Polls : Carried(rows, polls[p], d)
    /\ \A p \in Polls : polls[p].pc = "send" => Within(feed, rows, d - Len(polls[p].rows))
Distinct(rows) == \A i, j \in 1 .. Len(rows) : rows[i].message = rows[j].message => i = j
OnePoll(polls) == \A p, o \in Polls : polls[p].pc # "none" /\ polls[o].pc # "none" => p = o

StreamsTyped ==
    /\ queue \in [McpSessions -> Seq(EventRec)] /\ sent \in [McpSessions -> Seq(Messages)]
    /\ poll \in [McpSessions -> [Polls -> PollRec]]
    /\ stream \in [McpSessions -> {"none", "resolving", "up", "closing", "down"}]
    /\ session \in [McpSessions -> {"none", "open", "closed"}]
    /\ message \in [Messages -> {"none", "running", "done"}]
Heard(s) == stream[s] \in {"none", "resolving", "up"}
StreamHolds(s) ==
    /\ Distinct(queue[s]) /\ OnePoll(poll[s]) /\ Ordered(sent[s], queue[s])
    /\ Heard(s) => \E d \in Nat : Reached(queue[s], sent[s], poll[s], d)
    /\ session[s] = "none" => stream[s] = "none"
    /\ \A i \in 1 .. Len(queue[s]) : message[queue[s][i].message] = "done"
McpInv == StreamsTyped /\ \A s \in McpSessions : StreamHolds(s)

LEMMA McpInitHolds == ASSUME McpInit PROVE McpInv
  <1>1. NoPoll \in PollRec /\ NoPoll.pc = "none" /\ NoPoll.rows = <<>>
    BY DEF NoPoll, PollRec
  <1>2. StreamsTyped
    BY <1>1 DEF McpInit, StreamsTyped
  <1>3. ASSUME NEW s \in McpSessions PROVE StreamHolds(s)
    <2>1. queue[s] = <<>> /\ sent[s] = <<>> /\ \A p \in Polls : poll[s][p].pc = "none"
      BY <1>1 DEF McpInit
    <2>2. Reached(queue[s], sent[s], poll[s], 0)
      BY <2>1 DEF Reached, Within, Carried
    <2> QED BY <2>1, <2>2 DEF McpInit, StreamHolds, Distinct, OnePoll, Ordered
  <1> QED BY <1>2, <1>3 DEF McpInv

\* One stream goes on, the others stay.
LEMMA OneStreamSteps ==
    ASSUME McpInv, StreamsTyped', NEW s \in McpSessions, StreamHolds(s)', UNCHANGED message,
           \A t \in McpSessions : t # s =>
               /\ queue'[t] = queue[t] /\ sent'[t] = sent[t] /\ poll'[t] = poll[t]
               /\ stream'[t] = stream[t] /\ session'[t] = session[t]
    PROVE  McpInv'
  BY DEF McpInv, StreamHolds, Heard

\* A stream that ends, or a row of the session that changes: nothing of the queue does.
LEMMA StreamGoes ==
    ASSUME McpInv, NEW s \in McpSessions, UNCHANGED <<queue, sent, poll, message>>,
           NEW to \in {"resolving", "up", "closing", "down"}, NEW row \in {"open", "closed"},
           to \in {"resolving", "up"} => Heard(s),
           stream' = [stream EXCEPT ![s] = to] \/ UNCHANGED stream,
           session' = [session EXCEPT ![s] = row] \/ (UNCHANGED session /\ session[s] # "none")
    PROVE  McpInv'
  <1>1. StreamsTyped'
    BY DEF McpInv, StreamsTyped
  <1>2. StreamHolds(s)'
    BY DEF McpInv, StreamHolds, Heard, StreamsTyped
  <1> QED BY <1>1, <1>2, OneStreamSteps DEF McpInv, StreamsTyped

(***************************************************************************)
(* The queue.                                                              *)
(***************************************************************************)
LEMMA MessagesStay ==
    ASSUME NEW rows \in Seq(EventRec), NEW more \in Seq(EventRec), Len(rows) <= Len(more),
           \A i \in 1 .. Len(rows) : more[i].message = rows[i].message, NEW feed
    PROVE  /\ Ordered(feed, rows) => Ordered(feed, more)
           /\ \A d \in 0 .. Len(rows) : Within(feed, rows, d) => Within(feed, more, d)
           /\ \A d \in 0 .. Len(rows), r \in PollRec : Carried(rows, r, d) => Carried(more, r, d)
  <1>0. Len(rows) \in Nat /\ Len(more) \in Nat
    OBVIOUS
  <1>1. Ordered(feed, rows) => Ordered(feed, more)
    <2> SUFFICES ASSUME Ordered(feed, rows), NEW i \in 1 .. Len(feed), NEW j \in 1 .. Len(feed), i < j
                 PROVE  \E k, l \in 1 .. Len(more) : k < l /\ more[k].message = feed[i] /\ more[l].message = feed[j]
      BY DEF Ordered
    <2>1. PICK k \in 1 .. Len(rows), l \in 1 .. Len(rows) :
                   k < l /\ rows[k].message = feed[i] /\ rows[l].message = feed[j]
      BY DEF Ordered
    <2>2. k \in 1 .. Len(more) /\ l \in 1 .. Len(more)
      BY <1>0
    <2> QED BY <2>1, <2>2
  <1>2. \A d \in 0 .. Len(rows) : Within(feed, rows, d) => Within(feed, more, d)
    BY <1>0 DEF Within
  <1>3. ASSUME NEW d \in 0 .. Len(rows), NEW r \in PollRec, Carried(rows, r, d) PROVE Carried(more, r, d)
    <2>1. r.rows \in Seq(Messages) /\ Len(r.rows) \in Nat
      BY DEF PollRec
    <2>2. CASE r.pc = "mark"
      <3>1. d + Len(r.rows) <= Len(more)
        BY <1>0, <1>3, <2>1, <2>2 DEF Carried
      <3>2. \A k \in 1 .. Len(r.rows) : d + k \in 1 .. Len(rows)
        BY <1>0, <1>3, <2>1, <2>2 DEF Carried
      <3>3. \A k \in 1 .. Len(r.rows) : r.rows[k] = more[d + k].message
        BY <1>3, <2>2, <3>2 DEF Carried
      <3> QED BY <2>2, <3>1, <3>3 DEF Carried
    <2>3. CASE r.pc = "send"
      <3>1. \A k \in 1 .. Len(r.rows) : d - Len(r.rows) + k \in 1 .. Len(rows)
        BY <1>0, <1>3, <2>1, <2>3 DEF Carried
      <3>2. \A k \in 1 .. Len(r.rows) : r.rows[k] = more[d - Len(r.rows) + k].message
        BY <1>3, <2>3, <3>1 DEF Carried
      <3>3. Len(r.rows) <= d
        BY <1>3, <2>3 DEF Carried
      <3> QED BY <2>3, <3>2, <3>3 DEF Carried
    <2> QED BY <2>2, <2>3 DEF Carried
  <1> QED BY <1>1, <1>2, <1>3

LEMMA AfterIs ==
    ASSUME NEW a \in Nat, NEW b \in Nat, a <= b
    PROVE  Cardinality((a + 1) .. b) = b - a
  <1> PICK c \in Int : c = a + 1
    OBVIOUS
  <1>1. b \in Int /\ Cardinality(c .. b) = IF c > b THEN 0 ELSE b - c + 1
    BY FS_Interval
  <1>2. CASE c > b
    <2>1. b - a = 0
      BY <1>2
    <2> QED BY <1>1, <1>2, <2>1
  <1>3. CASE ~(c > b)
    <2>1. b - c + 1 = b - a
      OBVIOUS
    <2> QED BY <1>1, <1>3, <2>1
  <1> QED BY <1>2, <1>3

\* The rows that are not delivered yet, in their order.
LEMMA RestIs ==
    ASSUME NEW S, NEW list \in Seq(S), NEW d \in 0 .. Len(list)
    PROVE  /\ Filtered(list, (d + 1) .. Len(list)) \in Seq(S)
           /\ Len(Filtered(list, (d + 1) .. Len(list))) = Len(list) - d
           /\ \A k \in 1 .. (Len(list) - d) : Filtered(list, (d + 1) .. Len(list))[k] = list[d + k]
  <1> PICK n \in Nat : n = Len(list)
    OBVIOUS
  <1> PICK places : places = (d + 1) .. n
    OBVIOUS
  <1>1. places \in SUBSET DOMAIN list /\ DOMAIN list = 1 .. n /\ d \in Nat /\ d <= n
    OBVIOUS
  <1>2. StrictOrder(places, Earlier(list)) /\ IsFiniteSet(places)
    BY <1>1, EarlierIsStrict
  <1>3. Cardinality(places) = n - d
    BY <1>1, AfterIs
  <1>4. \A i \in places : Rank(places, Earlier(list), i) = i - 1 - d
    <2> TAKE i \in places
    <2> PICK ahead : ahead = {j \in places : <<j, i>> \in Earlier(list)}
      OBVIOUS
    <2>1. ahead = (d + 1) .. (i - 1)
      BY <1>1 DEF Earlier
    <2>2. i - 1 \in Nat /\ d <= i - 1
      BY <1>1
    <2>3. Cardinality((d + 1) .. (i - 1)) = (i - 1) - d
      BY <1>1, <2>2, AfterIs
    <2>4. Cardinality(ahead) = i - 1 - d
      BY <2>1, <2>3
    <2> QED BY <2>4 DEF Rank
  <1>5. Filtered(list, places) \in Seq(S)
    BY <1>1, FilteredIsSeq
  <1>6. /\ DOMAIN Filtered(list, places) = 1 .. Cardinality(places)
        /\ \A i \in places : Filtered(list, places)[Rank(places, Earlier(list), i) + 1] = list[i]
    <2>1. /\ DOMAIN Arranged(list, places, Earlier(list)) = 1 .. Cardinality(places)
          /\ \A i \in places : Arranged(list, places, Earlier(list))[Rank(places, Earlier(list), i) + 1] = list[i]
      BY <1>2, ArrangedIs
    <2> QED BY <2>1 DEF Filtered
  <1>7. ASSUME NEW k \in 1 .. (n - d) PROVE Filtered(list, places)[k] = list[d + k]
    <2>1. d + k \in places /\ k = Rank(places, Earlier(list), d + k) + 1
      BY <1>1, <1>4
    <2> QED BY <1>6, <2>1
  <1>8. Len(Filtered(list, places)) = n - d
    BY <1>1, <1>3, <1>5, <1>6
  <1> QED BY <1>5, <1>7, <1>8

\* The messages of the rows that were taken.
LEMMA PulledIs ==
    ASSUME McpInv, NEW s \in McpSessions, NEW d \in Nat, Reached(queue[s], sent[s], poll[s], d)
    PROVE  /\ Pulled(s) \in Seq(Messages) /\ d + Len(Pulled(s)) <= Len(queue[s])
           /\ \A k \in 1 .. Len(Pulled(s)) : Pulled(s)[k] = queue[s][d + k].message
  <1> PICK rows : rows = queue[s]
    OBVIOUS
  <1> PICK n : n = Len(rows)
    OBVIOUS
  <1>1. rows \in Seq(EventRec) /\ n \in Nat /\ d \in 0 .. n
    BY DEF McpInv, StreamsTyped, Reached
  <1>2. Undelivered(s) = (d + 1) .. n
    <2>1. \A i \in 1 .. n : (rows[i].delivered <=> i <= d) /\ (rows[i].deleted => rows[i].delivered)
      BY DEF Reached
    <2>2. DOMAIN queue[s] = 1 .. n
      BY <1>1
    <2> QED BY <1>1, <2>1, <2>2 DEF Undelivered
  <1> PICK rest : rest = Filtered(rows, (d + 1) .. n)
    OBVIOUS
  <1>3. rest \in Seq(EventRec) /\ Len(rest) = n - d /\ \A k \in 1 .. (n - d) : rest[k] = rows[d + k]
    BY <1>1, RestIs
  <1> PICK batch : batch = FirstOf(rest, Batch)
    OBVIOUS
  <1>4. /\ batch \in Seq(EventRec) /\ Len(batch) <= Len(rest)
        /\ \A i \in DOMAIN batch : i \in DOMAIN rest /\ batch[i] = rest[i]
    BY <1>3, FirstOfIs, McpAssumption
  <1>5. Pulled(s) = RowsOf(batch)
    BY <1>2 DEF Pulled
  <1> PICK m \in Nat : m = Len(batch)
    BY <1>4
  <1>6. DOMAIN batch = 1 .. m /\ \A k \in 1 .. m : batch[k] \in EventRec
    BY <1>4
  <1>7. RowsOf(batch) \in [1 .. m -> Messages]
    BY <1>6 DEF RowsOf, EventRec
  <1>8. Pulled(s) \in Seq(Messages) /\ Len(Pulled(s)) = m
    BY <1>5, <1>7
  <1>9. ASSUME NEW k \in 1 .. m PROVE Pulled(s)[k] = rows[d + k].message
    <2>1. k \in 1 .. (n - d) /\ batch[k] = rest[k]
      BY <1>1, <1>3, <1>4, <1>6
    <2> QED BY <1>3, <1>5, <1>6, <2>1 DEF RowsOf
  <1> QED BY <1>1, <1>3, <1>4, <1>8, <1>9

\* One poll of the stream changes.
LEMMA PollIs ==
    ASSUME McpInv, NEW s \in McpSessions, NEW p \in Polls, NEW r \in PollRec, poll' = [poll EXCEPT ![s][p] = r]
    PROVE  /\ poll' \in [McpSessions -> [Polls -> PollRec]] /\ poll'[s][p] = r
           /\ \A o \in Polls : o # p => poll'[s][o] = poll[s][o]
           /\ \A t \in McpSessions : t # s => poll'[t] = poll[t]
  <1> PICK polls : polls = [poll[s] EXCEPT ![p] = r]
    OBVIOUS
  <1>1. poll' = [poll EXCEPT ![s] = polls] /\ poll[s] \in [Polls -> PollRec]
    BY DEF McpInv, StreamsTyped
  <1>2. polls \in [Polls -> PollRec] /\ polls[p] = r /\ \A o \in Polls : o # p => polls[o] = poll[s][o]
    BY <1>1
  <1> QED BY <1>1, <1>2 DEF McpInv, StreamsTyped

LEMMA PollAtIs ==
    ASSUME McpInv, NEW s \in McpSessions, NEW p \in Polls, NEW pc \in {"send", "touch"}, PollAt(s, p, pc)
    PROVE  \E r \in PollRec : /\ r.pc = pc /\ r.rows = poll[s][p].rows
                              /\ poll' = [poll EXCEPT ![s][p] = r]
  <1> PICK r : r = [poll[s][p] EXCEPT !.pc = pc]
    OBVIOUS
  <1>1. poll[s][p] \in PollRec
    BY DEF McpInv, StreamsTyped
  <1>2. r \in PollRec /\ r.pc = pc /\ r.rows = poll[s][p].rows
    BY <1>1 DEF PollRec
  <1>3. poll' = [poll EXCEPT ![s][p] = r]
    BY DEF PollAt
  <1> QED BY <1>2, <1>3

LEMMA PollHolds ==
    ASSUME McpInv, NEW s \in McpSessions, NEW p \in Polls, Poll(s, p) PROVE McpInv'
  <1>1. Heard(s) /\ UNCHANGED <<session, stream, message, queue, sent>>
    BY DEF Poll, Heard
  <1>2. PICK d \in Nat : Reached(queue[s], sent[s], poll[s], d)
    BY <1>1 DEF McpInv, StreamHolds
  <1> PICK r : r = [pc |-> "mark", rows |-> Pulled(s)]
    OBVIOUS
  <1>3. r.pc = "mark" /\ r \in PollRec /\ Carried(queue[s], r, d)
    BY <1>2, PulledIs DEF PollRec, Carried
  <1>4. poll' = [poll EXCEPT ![s][p] = r]
    BY DEF Poll
  <1>5. /\ poll' \in [McpSessions -> [Polls -> PollRec]] /\ poll'[s][p] = r
        /\ \A o \in Polls : o # p => poll'[s][o] = poll[s][o]
        /\ \A t \in McpSessions : t # s => poll'[t] = poll[t]
    BY <1>3, <1>4, PollIs
  <1>6. \A o \in Polls : poll[s][o].pc = "none"
    BY DEF Poll, NoPoll
  <1>7. OnePoll(poll'[s])
    BY <1>5, <1>6 DEF OnePoll
  <1>8. Reached(queue[s], sent[s], poll'[s], d)
    BY <1>2, <1>3, <1>5 DEF Reached
  <1>9. StreamHolds(s)'
    BY <1>1, <1>7, <1>8 DEF McpInv, StreamHolds, Heard
  <1>10. StreamsTyped'
    BY <1>1, <1>5 DEF McpInv, StreamsTyped
  <1> QED BY <1>1, <1>5, <1>9, <1>10, OneStreamSteps

LEMMA TouchHolds ==
    ASSUME McpInv, NEW s \in McpSessions, NEW p \in Polls, Touch(s, p) PROVE McpInv'
  <1>1. NoPoll \in PollRec /\ NoPoll.pc = "none"
    BY DEF NoPoll, PollRec
  <1>2. UNCHANGED <<session, stream, message, queue, sent>> /\ poll' = [poll EXCEPT ![s][p] = NoPoll]
    BY DEF Touch
  <1>3. /\ poll' \in [McpSessions -> [Polls -> PollRec]] /\ poll'[s][p].pc = "none"
        /\ \A o \in Polls : o # p => poll'[s][o] = poll[s][o]
        /\ \A t \in McpSessions : t # s => poll'[t] = poll[t]
    BY <1>1, <1>2, PollIs
  <1>4. OnePoll(poll'[s])
    BY <1>3 DEF McpInv, StreamHolds, OnePoll
  <1>5. ASSUME NEW d \in Nat, Reached(queue[s], sent[s], poll[s], d)
        PROVE  Reached(queue[s], sent[s], poll'[s], d)
    <2>1. \A o \in Polls : Carried(queue[s], poll'[s][o], d)
      <3>1. \A o \in Polls : Carried(queue[s], poll[s][o], d)
        BY <1>5 DEF Reached
      <3>2. Carried(queue[s], poll'[s][p], d)
        BY <1>3 DEF Carried
      <3> QED BY <1>3, <3>1, <3>2
    <2>2. \A o \in Polls : poll'[s][o].pc = "send" => Within(sent[s], queue[s], d - Len(poll'[s][o].rows))
      BY <1>3, <1>5 DEF Reached
    <2> QED BY <1>5, <2>1, <2>2 DEF Reached
  <1>6. StreamHolds(s)'
    BY <1>2, <1>4, <1>5 DEF McpInv, StreamHolds, Heard
  <1>7. StreamsTyped'
    BY <1>2, <1>3 DEF McpInv, StreamsTyped
  <1> QED BY <1>2, <1>3, <1>6, <1>7, OneStreamSteps

\* Of the stream, only the poll in flight and the rows it marks change.
LEMMA OnlyOne ==
    ASSUME McpInv, NEW s \in McpSessions, NEW p \in Polls, poll[s][p].pc # "none",
           NEW o \in Polls, o # p
    PROVE  poll[s][o].pc = "none"
  BY DEF McpInv, StreamHolds, OnePoll

\* The rows of the poll are the ones that follow what is delivered, and no others.
LEMMA MarkedIs ==
    ASSUME McpInv, NEW s \in McpSessions, NEW p \in Polls, Mark(s, p)
    PROVE  /\ queue' \in [McpSessions -> Seq(EventRec)] /\ Len(queue'[s]) = Len(queue[s])
           /\ \A t \in McpSessions : t # s => queue'[t] = queue[t]
           /\ \A i \in 1 .. Len(queue[s]) :
                 /\ queue'[s][i].message = queue[s][i].message /\ queue'[s][i].deleted = queue[s][i].deleted
                 /\ queue'[s][i].delivered
                       <=> queue[s][i].delivered \/ Contains(poll[s][p].rows, queue[s][i].message)
  <1> PICK rows : rows = queue[s]
    OBVIOUS
  <1> PICK n : n = Len(rows)
    OBVIOUS
  <1> PICK taken : taken = poll[s][p].rows
    OBVIOUS
  <1> PICK marked : marked = [i \in 1 .. n |->
         IF Contains(taken, rows[i].message) THEN [rows[i] EXCEPT !.delivered = TRUE] ELSE rows[i]]
    OBVIOUS
  <1>1. rows \in Seq(EventRec) /\ n \in Nat /\ DOMAIN rows = 1 .. n
    BY DEF McpInv, StreamsTyped
  <1>2. queue' = [queue EXCEPT ![s] = marked]
    BY <1>1 DEF Mark
  <1>3. ASSUME NEW i \in 1 .. n
        PROVE  /\ marked[i] \in EventRec
               /\ marked[i].message = rows[i].message /\ marked[i].deleted = rows[i].deleted
               /\ marked[i].delivered <=> rows[i].delivered \/ Contains(taken, rows[i].message)
    <2>1. rows[i] \in EventRec
      BY <1>1
    <2> PICK r : r = [rows[i] EXCEPT !.delivered = TRUE]
      OBVIOUS
    <2>2. r \in EventRec /\ r.message = rows[i].message /\ r.deleted = rows[i].deleted /\ r.delivered
      BY <2>1 DEF EventRec
    <2>3. marked[i] = IF Contains(taken, rows[i].message) THEN r ELSE rows[i]
      OBVIOUS
    <2> QED BY <2>1, <2>2, <2>3
  <1>4. marked \in Seq(EventRec) /\ Len(marked) = n
    <2>1. marked \in [1 .. n -> EventRec]
      BY <1>3
    <2> QED BY <1>1, <2>1
  <1> QED BY <1>2, <1>3, <1>4 DEF McpInv, StreamsTyped

\* The rows that follow the delivered ones are marked: no others, since a message
\* is queued once, and so the delivered ones stay a beginning of the queue.
MarksFollow(rows, more, taken, size, d, n) ==
    /\ d + n <= size
    /\ \A i, j \in 1 .. size : rows[i].message = rows[j].message => i = j
    /\ \A k \in 1 .. n : taken[k] = rows[d + k].message
    /\ \A i \in 1 .. size : rows[i].delivered <=> i <= d
    /\ \A i \in 1 .. size : rows[i].deleted => rows[i].delivered
    /\ \A i \in 1 .. size : more[i].message = rows[i].message
    /\ \A i \in 1 .. size : more[i].deleted = rows[i].deleted
    /\ \A i \in 1 .. size : more[i].delivered
           <=> rows[i].delivered \/ \E k \in 1 .. n : taken[k] = rows[i].message
MarkedUpTo(more, taken, size, d, n) ==
    /\ \A i \in 1 .. size : more[i].delivered <=> i <= d + n
    /\ \A i \in 1 .. size : more[i].deleted => more[i].delivered
    /\ \A k \in 1 .. n : taken[k] = more[d + k].message
LEMMA MarksWhatFollows ==
    ASSUME NEW rows, NEW more, NEW taken, NEW size \in Nat, NEW d \in Nat, NEW n \in Nat,
           MarksFollow(rows, more, taken, size, d, n)
    PROVE  MarkedUpTo(more, taken, size, d, n)
  <1>0. /\ d + n <= size
        /\ \A i, j \in 1 .. size : rows[i].message = rows[j].message => i = j
        /\ \A k \in 1 .. n : taken[k] = rows[d + k].message
        /\ \A i \in 1 .. size : rows[i].delivered <=> i <= d
        /\ \A i \in 1 .. size : rows[i].deleted => rows[i].delivered
        /\ \A i \in 1 .. size : more[i].message = rows[i].message
        /\ \A i \in 1 .. size : more[i].deleted = rows[i].deleted
        /\ \A i \in 1 .. size : more[i].delivered
               <=> rows[i].delivered \/ \E k \in 1 .. n : taken[k] = rows[i].message
    BY DEF MarksFollow
  <1>1. \A k \in 1 .. n : d + k \in 1 .. size
    BY <1>0
  <1>2. ASSUME NEW i \in 1 .. size
        PROVE  (\E k \in 1 .. n : taken[k] = rows[i].message) <=> i \in (d + 1) .. (d + n)
    <2>1. ASSUME NEW k \in 1 .. n, taken[k] = rows[i].message PROVE i = d + k
      <3>1. d + k \in 1 .. size /\ rows[d + k].message = rows[i].message
        BY <1>0, <1>1, <2>1
      <3> QED BY <1>0, <3>1
    <2>2. ASSUME i \in (d + 1) .. (d + n) PROVE \E k \in 1 .. n : taken[k] = rows[i].message
      <3> PICK k : k = i - d
        OBVIOUS
      <3>1. k \in 1 .. n /\ d + k = i
        BY <2>2
      <3> QED BY <1>0, <3>1
    <2> QED BY <2>1, <2>2
  <1>3. ASSUME NEW i \in 1 .. size PROVE more[i].delivered <=> i <= d + n
    <2>1. (i <= d \/ i \in (d + 1) .. (d + n)) <=> i <= d + n
      OBVIOUS
    <2>2. more[i].delivered <=> i <= d \/ i \in (d + 1) .. (d + n)
      BY <1>0, <1>2
    <2> QED BY <2>1, <2>2
  <1>4. ASSUME NEW i \in 1 .. size PROVE more[i].deleted => more[i].delivered
    BY <1>0, <1>3
  <1>5. ASSUME NEW k \in 1 .. n PROVE taken[k] = more[d + k].message
    <2> PICK i : i = d + k
      OBVIOUS
    <2>1. i \in 1 .. size /\ taken[k] = rows[i].message
      BY <1>0, <1>1
    <2>2. more[i].message = rows[i].message
      BY <1>0, <2>1
    <2> QED BY <2>1, <2>2
  <1> QED BY <1>3, <1>4, <1>5 DEF MarkedUpTo

Follows(rows, r, d, n) ==
    /\ r.pc = "send" /\ Len(r.rows) = n
    /\ \A k \in 1 .. n : r.rows[k] = rows[d + k].message
LEMMA CarriedOn ==
    ASSUME NEW rows, NEW r, NEW d \in Nat, NEW n \in Nat, Follows(rows, r, d, n),
           NEW e \in Nat, e = d + n
    PROVE  Carried(rows, r, e) /\ e - Len(r.rows) = d
  <1>1. e - n = d /\ n <= e
    OBVIOUS
  <1>2. \A k \in 1 .. n : r.rows[k] = rows[e - n + k].message
    BY <1>1 DEF Follows
  <1> QED BY <1>1, <1>2 DEF Carried, Follows

LEMMA ReachedIs ==
    ASSUME NEW rows, NEW feed, NEW polls, NEW e, e \in 0 .. Len(rows), Within(feed, rows, e),
           \A i \in 1 .. Len(rows) : (rows[i].delivered <=> i <= e) /\ (rows[i].deleted => rows[i].delivered),
           \A o \in Polls : Carried(rows, polls[o], e),
           \A o \in Polls : polls[o].pc = "send" => Within(feed, rows, e - Len(polls[o].rows))
    PROVE  Reached(rows, feed, polls, e)
  BY DEF Reached

MarkedBy(rows, more, polls, after, p) ==
    /\ after[p].pc = "send" /\ after[p].rows = polls[p].rows
    /\ \A o \in Polls : o # p => after[o].pc = "none"
    /\ Len(more) = Len(rows)
    /\ \A i \in 1 .. Len(rows) : more[i].message = rows[i].message
    /\ \A i \in 1 .. Len(rows) : more[i].deleted = rows[i].deleted
    /\ \A i \in 1 .. Len(rows) : more[i].delivered
           <=> rows[i].delivered \/ Contains(polls[p].rows, rows[i].message)
LEMMA MarkReaches ==
    ASSUME NEW rows \in Seq(EventRec), NEW more, NEW feed, NEW polls, NEW after, NEW p \in Polls,
           NEW d \in Nat, NEW n \in Nat, Distinct(rows), Reached(rows, feed, polls, d),
           polls[p].pc = "mark", Len(polls[p].rows) = n, MarkedBy(rows, more, polls, after, p)
    PROVE  \E e \in Nat : Reached(more, feed, after, e)
  <1>1. Len(rows) \in Nat /\ d \in 0 .. Len(rows) /\ Within(feed, rows, d)
    BY DEF Reached
  <1>2. d + n <= Len(rows) /\ \A k \in 1 .. n : polls[p].rows[k] = rows[d + k].message
    BY DEF Reached, Carried
  <1>3. \A i \in 1 .. Len(rows) : more[i].delivered
            <=> rows[i].delivered \/ \E k \in 1 .. n : polls[p].rows[k] = rows[i].message
    BY DEF Contains, MarkedBy
  <1>4. /\ \A i \in 1 .. Len(rows) : more[i].delivered <=> i <= d + n
        /\ \A i \in 1 .. Len(rows) : more[i].deleted => more[i].delivered
        /\ \A k \in 1 .. n : polls[p].rows[k] = more[d + k].message
    <2>1. \A i, j \in 1 .. Len(rows) : rows[i].message = rows[j].message => i = j
      BY DEF Distinct
    <2>2. /\ \A i \in 1 .. Len(rows) : rows[i].delivered <=> i <= d
          /\ \A i \in 1 .. Len(rows) : rows[i].deleted => rows[i].delivered
      BY DEF Reached
    <2>3. MarksFollow(rows, more, polls[p].rows, Len(rows), d, n)
      BY <1>2, <1>3, <2>1, <2>2 DEF MarksFollow, MarkedBy
    <2>4. MarkedUpTo(more, polls[p].rows, Len(rows), d, n)
      BY <1>1, <2>3, MarksWhatFollows
    <2> QED BY <2>4 DEF MarkedUpTo
  <1>5. Within(feed, more, d)
    <2> SUFFICES ASSUME NEW i \in 1 .. Len(feed) PROVE \E k \in 1 .. d : more[k].message = feed[i]
      BY DEF Within
    <2>1. PICK k \in 1 .. d : rows[k].message = feed[i]
      BY <1>1 DEF Within
    <2>2. k \in 1 .. Len(rows)
      BY <1>1
    <2>3. more[k].message = rows[k].message
      BY <2>2 DEF MarkedBy
    <2> QED BY <2>1, <2>3
  <1> PICK e \in Nat : e = d + n
    OBVIOUS
  <1>6. e \in 0 .. Len(more) /\ Len(more) = Len(rows)
    BY <1>1, <1>2 DEF MarkedBy
  <1>7. Within(feed, more, e)
    <2>1. \A k \in 1 .. d : k \in 1 .. e
      OBVIOUS
    <2> QED BY <1>5, <2>1 DEF Within
  <1>8. Carried(more, after[p], e) /\ e - Len(after[p].rows) = d
    <2>1. Follows(more, after[p], d, n)
      BY <1>4 DEF Follows, MarkedBy
    <2> QED BY <2>1, CarriedOn
  <1>9. \A o \in Polls : Carried(more, after[o], e)
    <2>1. \A o \in Polls : o # p => Carried(more, after[o], e)
      BY DEF Carried, MarkedBy
    <2> QED BY <1>8, <2>1
  <1>10. \A o \in Polls : after[o].pc = "send" => Within(feed, more, e - Len(after[o].rows))
    BY <1>5, <1>8 DEF MarkedBy
  <1>11. \A i \in 1 .. Len(more) : (more[i].delivered <=> i <= e) /\ (more[i].deleted => more[i].delivered)
    <2> SUFFICES ASSUME NEW i \in 1 .. Len(more)
                 PROVE  (more[i].delivered <=> i <= e) /\ (more[i].deleted => more[i].delivered)
      OBVIOUS
    <2>1. (more[i].delivered <=> i <= d + n) /\ (more[i].deleted => more[i].delivered)
      BY <1>4, <1>6
    <2>2. i <= e <=> i <= d + n
      OBVIOUS
    <2> QED BY <2>1, <2>2
  <1>12. Reached(more, feed, after, e)
    BY <1>6, <1>7, <1>9, <1>10, <1>11, ReachedIs
  <1> QED BY <1>12

LEMMA MarkHolds ==
    ASSUME McpInv, NEW s \in McpSessions, NEW p \in Polls, Mark(s, p) PROVE McpInv'
  <1> PICK rows : rows = queue[s]
    OBVIOUS
  <1> PICK more : more = queue'[s]
    OBVIOUS
  <1> PICK taken : taken = poll[s][p].rows
    OBVIOUS
  <1>1. /\ poll[s][p].pc = "mark" /\ UNCHANGED <<session, stream, message, sent>> /\ PollAt(s, p, "send")
    BY DEF Mark
  <1>2. PICK r \in PollRec : r.pc = "send" /\ r.rows = taken /\ poll' = [poll EXCEPT ![s][p] = r]
    BY <1>1, PollAtIs
  <1>3. /\ poll' \in [McpSessions -> [Polls -> PollRec]] /\ poll'[s][p] = r
        /\ \A o \in Polls : o # p => poll'[s][o] = poll[s][o]
        /\ \A t \in McpSessions : t # s => poll'[t] = poll[t]
    BY <1>2, PollIs
  <1>4. /\ queue' \in [McpSessions -> Seq(EventRec)] /\ Len(more) = Len(rows)
        /\ \A t \in McpSessions : t # s => queue'[t] = queue[t]
        /\ \A i \in 1 .. Len(rows) :
              /\ more[i].message = rows[i].message /\ more[i].deleted = rows[i].deleted
              /\ more[i].delivered <=> rows[i].delivered \/ Contains(taken, rows[i].message)
    BY MarkedIs
  <1>5. /\ rows \in Seq(EventRec) /\ more \in Seq(EventRec) /\ Len(rows) \in Nat
        /\ taken \in Seq(Messages) /\ Len(taken) \in Nat
    <2>1. rows \in Seq(EventRec) /\ poll[s][p] \in PollRec
      BY DEF McpInv, StreamsTyped
    <2>2. more \in Seq(EventRec)
      BY <1>4
    <2>3. taken \in Seq(Messages)
      BY <2>1 DEF PollRec
    <2> QED BY <2>1, <2>2, <2>3
  <1>6. OnePoll(poll'[s])
    BY <1>1, <1>3, OnlyOne DEF OnePoll
  <1>7. Distinct(more)
    <2>1. \A i, j \in 1 .. Len(rows) : rows[i].message = rows[j].message => i = j
      BY DEF McpInv, StreamHolds, Distinct
    <2>2. \A i \in 1 .. Len(rows) : more[i].message = rows[i].message
      BY <1>4
    <2>3. \A i, j \in 1 .. Len(rows) : more[i].message = more[j].message => i = j
      BY <2>1, <2>2
    <2> QED BY <1>4, <2>3 DEF Distinct
  <1>8. /\ Ordered(sent[s], rows) => Ordered(sent[s], more)
        /\ \A d \in 0 .. Len(rows) : Within(sent[s], rows, d) => Within(sent[s], more, d)
    <2>1. Len(rows) <= Len(more) /\ \A i \in 1 .. Len(rows) : more[i].message = rows[i].message
      BY <1>4, <1>5
    <2> QED BY <1>5, <2>1, MessagesStay
  <1>9. ASSUME NEW d \in Nat, Reached(rows, sent[s], poll[s], d)
        PROVE  \E e \in Nat : Reached(more, sent[s], poll'[s], e)
    <2>1. /\ poll'[s][p].pc = "send" /\ poll'[s][p].rows = poll[s][p].rows
          /\ \A o \in Polls : o # p => poll'[s][o].pc = "none"
      BY <1>1, <1>2, <1>3, OnlyOne
    <2>2. Distinct(rows)
      BY DEF McpInv, StreamHolds
    <2>3. MarkedBy(rows, more, poll[s], poll'[s], p)
      BY <1>4, <2>1 DEF MarkedBy
    <2>4. PICK n \in Nat : Len(poll[s][p].rows) = n
      BY <1>5
    <2>5. \E e \in Nat : Reached(more, sent[s], poll'[s], e)
      BY <1>1, <1>5, <1>9, <2>2, <2>3, <2>4, MarkReaches
    <2> QED BY <2>5
  <1>10. \A i \in 1 .. Len(more) : message[more[i].message] = "done"
    <2>1. \A i \in 1 .. Len(rows) : message[rows[i].message] = "done"
      BY DEF McpInv, StreamHolds
    <2>2. Len(more) = Len(rows) /\ \A i \in 1 .. Len(rows) : more[i].message = rows[i].message
      BY <1>4
    <2> QED BY <2>1, <2>2
  <1>11. StreamHolds(s)'
    BY <1>1, <1>6, <1>7, <1>8, <1>9, <1>10 DEF McpInv, StreamHolds, Heard
  <1>12. StreamsTyped'
    BY <1>1, <1>3, <1>4 DEF McpInv, StreamsTyped
  <1> QED BY <1>1, <1>3, <1>4, <1>11, <1>12, OneStreamSteps

\* What is written after what came before is in the order of the queue.
WrittenAfter(rows, feed, size, m, n, e) ==
    /\ e + n <= size
    /\ \A i \in 1 .. m : \E k \in 1 .. e : rows[k].message = feed[i]
    /\ \A i, j \in 1 .. m : i < j =>
           \E k, l \in 1 .. size : k < l /\ rows[k].message = feed[i] /\ rows[l].message = feed[j]
    /\ \A k \in 1 .. n : feed[m + k] = rows[e + k].message
WrittenTo(rows, feed, size, m, n, e) ==
    /\ \A i \in 1 .. (m + n) : \E k \in 1 .. (e + n) : rows[k].message = feed[i]
    /\ \A i, j \in 1 .. (m + n) : i < j =>
          \E k, l \in 1 .. size : k < l /\ rows[k].message = feed[i] /\ rows[l].message = feed[j]
LEMMA WritesOn ==
    ASSUME NEW rows, NEW feed, NEW size \in Nat, NEW m \in Nat, NEW n \in Nat, NEW e \in Nat,
           WrittenAfter(rows, feed, size, m, n, e)
    PROVE  WrittenTo(rows, feed, size, m, n, e)
  <1>0. /\ e + n <= size
        /\ \A i \in 1 .. m : \E k \in 1 .. e : rows[k].message = feed[i]
        /\ \A i, j \in 1 .. m : i < j =>
              \E k, l \in 1 .. size : k < l /\ rows[k].message = feed[i] /\ rows[l].message = feed[j]
        /\ \A k \in 1 .. n : feed[m + k] = rows[e + k].message
    BY DEF WrittenAfter
  <1>1. ASSUME NEW i \in 1 .. (m + n), i \notin 1 .. m
        PROVE  /\ e + (i - m) \in 1 .. (e + n) /\ e + (i - m) > e
               /\ rows[e + (i - m)].message = feed[i]
    <2> PICK k : k = i - m
      OBVIOUS
    <2>1. k \in 1 .. n /\ m + k = i
      BY <1>1
    <2>2. e + k \in 1 .. (e + n) /\ e + k > e
      BY <2>1
    <2> QED BY <1>0, <2>1, <2>2
  <1>2. /\ \A k \in 1 .. e : k \in 1 .. (e + n)
        /\ \A k \in 1 .. (e + n) : k \in 1 .. size
    BY <1>0
  <1>3. ASSUME NEW i \in 1 .. (m + n) PROVE \E k \in 1 .. (e + n) : rows[k].message = feed[i]
    <2>1. CASE i \in 1 .. m
      BY <1>0, <1>2, <2>1
    <2>2. CASE i \notin 1 .. m
      BY <1>1, <2>2
    <2> QED BY <2>1, <2>2
  <1>4. ASSUME NEW i \in 1 .. (m + n), NEW j \in 1 .. (m + n), i < j
        PROVE  \E k, l \in 1 .. size : k < l /\ rows[k].message = feed[i] /\ rows[l].message = feed[j]
    <2>1. CASE j \in 1 .. m
      <3>1. i \in 1 .. m
        BY <1>4, <2>1
      <3> QED BY <1>0, <1>4, <2>1, <3>1
    <2>2. CASE i \in 1 .. m /\ j \notin 1 .. m
      <3>1. PICK k \in 1 .. e : rows[k].message = feed[i]
        BY <1>0, <2>2
      <3> PICK l : l = e + (j - m)
        OBVIOUS
      <3>2. l \in 1 .. (e + n) /\ l > e /\ rows[l].message = feed[j]
        BY <1>1, <2>2
      <3>3. k < l /\ k \in 1 .. size /\ l \in 1 .. size
        BY <1>2, <3>2
      <3> QED BY <3>1, <3>2, <3>3
    <2>3. CASE i \notin 1 .. m
      <3>1. j \notin 1 .. m
        BY <1>4, <2>3
      <3> PICK k : k = e + (i - m)
        OBVIOUS
      <3> PICK l : l = e + (j - m)
        OBVIOUS
      <3>2. k \in 1 .. (e + n) /\ rows[k].message = feed[i] /\ l \in 1 .. (e + n) /\ rows[l].message = feed[j]
        BY <1>1, <2>3, <3>1
      <3>3. k < l
        BY <1>4
      <3> QED BY <1>2, <3>2, <3>3
    <2> QED BY <2>1, <2>2, <2>3
  <1> QED BY <1>3, <1>4 DEF WrittenTo

LEMMA JoinedIs ==
    ASSUME NEW feed \in Seq(Messages), NEW taken \in Seq(Messages)
    PROVE  /\ feed \o taken \in Seq(Messages) /\ Len(feed \o taken) = Len(feed) + Len(taken)
           /\ \A i \in 1 .. Len(feed) : (feed \o taken)[i] = feed[i]
           /\ \A k \in 1 .. Len(taken) : (feed \o taken)[Len(feed) + k] = taken[k]
  OBVIOUS

LEMMA WireIsOrdered ==
    ASSUME NEW rows \in Seq(EventRec), NEW feed \in Seq(Messages), NEW taken \in Seq(Messages),
           NEW longer, longer = feed \o taken, NEW d \in 0 .. Len(rows), Len(taken) <= d,
           Within(feed, rows, d - Len(taken)), Ordered(feed, rows),
           \A k \in 1 .. Len(taken) : taken[k] = rows[d - Len(taken) + k].message
    PROVE  Within(longer, rows, d) /\ Ordered(longer, rows)
  <1>1. /\ longer \in Seq(Messages) /\ Len(longer) = Len(feed) + Len(taken)
        /\ \A i \in 1 .. Len(feed) : longer[i] = feed[i]
        /\ \A k \in 1 .. Len(taken) : longer[Len(feed) + k] = taken[k]
    BY JoinedIs
  <1>2. Len(rows) \in Nat /\ Len(feed) \in Nat /\ Len(taken) \in Nat /\ d - Len(taken) \in Nat
    OBVIOUS
  <1>3. d - Len(taken) + Len(taken) = d /\ d <= Len(rows)
    BY <1>2
  <1>4. \A i \in 1 .. Len(feed) : \E k \in 1 .. (d - Len(taken)) : rows[k].message = longer[i]
    BY <1>1 DEF Within
  <1>5. \A i, j \in 1 .. Len(feed) : i < j =>
            \E k, l \in 1 .. Len(rows) : k < l /\ rows[k].message = longer[i] /\ rows[l].message = longer[j]
    BY <1>1 DEF Ordered
  <1>6. \A k \in 1 .. Len(taken) : longer[Len(feed) + k] = rows[d - Len(taken) + k].message
    BY <1>1
  <1>7. WrittenAfter(rows, longer, Len(rows), Len(feed), Len(taken), d - Len(taken))
    BY <1>3, <1>4, <1>5, <1>6 DEF WrittenAfter
  <1>8. WrittenTo(rows, longer, Len(rows), Len(feed), Len(taken), d - Len(taken))
    BY <1>2, <1>7, WritesOn
  <1>9. \A i \in 1 .. (Len(feed) + Len(taken)) : \E k \in 1 .. d : rows[k].message = longer[i]
    BY <1>3, <1>8 DEF WrittenTo
  <1>10. \A i, j \in 1 .. (Len(feed) + Len(taken)) : i < j =>
            \E k, l \in 1 .. Len(rows) : k < l /\ rows[k].message = longer[i] /\ rows[l].message = longer[j]
    BY <1>8 DEF WrittenTo
  <1>11. \A i \in 1 .. Len(longer) : i \in 1 .. (Len(feed) + Len(taken))
    BY <1>1
  <1>12. Within(longer, rows, d)
    BY <1>9, <1>11 DEF Within
  <1>13. Ordered(longer, rows)
    BY <1>10, <1>11 DEF Ordered
  <1> QED BY <1>12, <1>13

LEMMA SendHolds ==
    ASSUME McpInv, NEW s \in McpSessions, NEW p \in Polls, Send(s, p) PROVE McpInv'
  <1> PICK rows : rows = queue[s]
    OBVIOUS
  <1> PICK feed : feed = sent[s]
    OBVIOUS
  <1> PICK taken : taken = poll[s][p].rows
    OBVIOUS
  <1> PICK longer : longer = feed \o taken
    OBVIOUS
  <1>1. /\ poll[s][p].pc = "send" /\ UNCHANGED <<session, stream, message, queue>> /\ PollAt(s, p, "touch")
        /\ sent' = (IF stream[s] = "up" /\ client[s] THEN [sent EXCEPT ![s] = longer] ELSE sent)
    BY DEF Send
  <1>2. PICK r \in PollRec : r.pc = "touch" /\ r.rows = taken /\ poll' = [poll EXCEPT ![s][p] = r]
    BY <1>1, PollAtIs
  <1>3. /\ poll' \in [McpSessions -> [Polls -> PollRec]] /\ poll'[s][p] = r
        /\ \A o \in Polls : o # p => poll'[s][o] = poll[s][o]
        /\ \A t \in McpSessions : t # s => poll'[t] = poll[t]
    BY <1>2, PollIs
  <1>4. /\ rows \in Seq(EventRec) /\ Len(rows) \in Nat /\ feed \in Seq(Messages) /\ Len(feed) \in Nat
        /\ taken \in Seq(Messages) /\ Len(taken) \in Nat
    <2>1. rows \in Seq(EventRec) /\ feed \in Seq(Messages) /\ poll[s][p] \in PollRec
      BY DEF McpInv, StreamsTyped
    <2>2. taken \in Seq(Messages)
      BY <2>1 DEF PollRec
    <2> QED BY <2>1, <2>2
  <1>5. longer \in Seq(Messages)
    BY <1>4, JoinedIs
  <1>6. OnePoll(poll'[s])
    BY <1>1, <1>3, OnlyOne DEF OnePoll
  <1>7. sent' \in [McpSessions -> Seq(Messages)] /\ \A t \in McpSessions : t # s => sent'[t] = sent[t]
    BY <1>1, <1>5 DEF McpInv, StreamsTyped
  <1>8. \A o \in Polls : poll'[s][o].pc \notin {"mark", "send"}
    BY <1>1, <1>2, <1>3, OnlyOne
  <1>9. ASSUME NEW d \in Nat, Reached(rows, feed, poll[s], d), NEW now, Within(now, rows, d)
        PROVE  Reached(rows, now, poll'[s], d)
    BY <1>8, <1>9 DEF Reached, Carried
  <1>10. ASSUME NEW d \in Nat, Reached(rows, feed, poll[s], d)
         PROVE  Within(longer, rows, d) /\ Ordered(longer, rows)
    <2>1. /\ d \in 0 .. Len(rows) /\ Len(taken) <= d /\ Within(feed, rows, d - Len(taken))
          /\ \A k \in 1 .. Len(taken) : taken[k] = rows[d - Len(taken) + k].message
      BY <1>1, <1>10 DEF Reached, Carried
    <2>2. Ordered(feed, rows)
      BY DEF McpInv, StreamHolds
    <2> QED BY <1>4, <2>1, <2>2, WireIsOrdered
  <1>11. StreamHolds(s)'
    <2>1. CASE stream[s] = "up" /\ client[s]
      <3>1. sent'[s] = longer
        BY <1>1, <2>1 DEF McpInv, StreamsTyped
      <3>2. PICK d \in Nat : Reached(rows, feed, poll[s], d)
        BY <2>1 DEF McpInv, StreamHolds, Heard
      <3>3. Ordered(longer, rows) /\ Reached(rows, longer, poll'[s], d)
        BY <1>9, <1>10, <3>2
      <3>4. Ordered(sent'[s], queue'[s]) /\ Reached(queue'[s], sent'[s], poll'[s], d)
        BY <1>1, <3>1, <3>3
      <3>5. /\ Distinct(queue[s])
            /\ session[s] = "none" => stream[s] = "none"
            /\ \A i \in 1 .. Len(queue[s]) : message[queue[s][i].message] = "done"
        BY DEF McpInv, StreamHolds
      <3>6. Distinct(queue'[s])
        BY <1>1, <3>5
      <3>7. session'[s] = "none" => stream'[s] = "none"
        BY <1>1, <2>1, <3>5
      <3>8. \A i \in 1 .. Len(queue'[s]) : message'[queue'[s][i].message] = "done"
        BY <1>1, <3>5
      <3> QED BY <1>6, <3>4, <3>6, <3>7, <3>8 DEF StreamHolds
    <2>2. CASE ~(stream[s] = "up" /\ client[s])
      <3>1. sent'[s] = feed
        BY <1>1, <2>2
      <3>2. \A d \in Nat : Reached(rows, feed, poll[s], d) => Reached(rows, feed, poll'[s], d)
        BY <1>9 DEF Reached
      <3> QED BY <1>1, <1>6, <3>1, <3>2 DEF McpInv, StreamHolds, Heard
    <2> QED BY <2>1, <2>2
  <1>12. StreamsTyped'
    BY <1>1, <1>3, <1>7 DEF McpInv, StreamsTyped
  <1> QED BY <1>1, <1>3, <1>7, <1>11, <1>12, OneStreamSteps

LEMMA LessIsIn ==
    ASSUME NEW size \in Nat, NEW d \in 0 .. size, NEW n \in Nat, n <= d
    PROVE  d - n \in 0 .. size
  OBVIOUS

\* An answer is a new row at the end.
Grown(rows, more) ==
    /\ Len(more) = Len(rows) + 1 /\ ~more[Len(rows) + 1].delivered /\ ~more[Len(rows) + 1].deleted
    /\ \A i \in 1 .. Len(rows) : more[i] = rows[i]
LEMMA QueueGrows ==
    ASSUME NEW rows \in Seq(EventRec), NEW more \in Seq(EventRec), NEW feed, NEW polls \in [Polls -> PollRec],
           Grown(rows, more)
    PROVE  /\ Ordered(feed, rows) => Ordered(feed, more)
           /\ \A d \in Nat : Reached(rows, feed, polls, d) => Reached(more, feed, polls, d)
  <1>0. Len(rows) \in Nat /\ Len(more) = Len(rows) + 1
    BY DEF Grown
  <1>1. Len(rows) <= Len(more) /\ \A i \in 1 .. Len(rows) : more[i].message = rows[i].message
    BY <1>0 DEF Grown
  <1>2. /\ Ordered(feed, rows) => Ordered(feed, more)
        /\ \A d \in 0 .. Len(rows) : Within(feed, rows, d) => Within(feed, more, d)
    BY <1>1, MessagesStay
  <1>3. \A d \in 0 .. Len(rows), r \in PollRec : Carried(rows, r, d) => Carried(more, r, d)
    BY <1>1, MessagesStay
  <1>4. ASSUME NEW d \in Nat, Reached(rows, feed, polls, d) PROVE Reached(more, feed, polls, d)
    <2>1. d \in 0 .. Len(rows) /\ d \in 0 .. Len(more)
      BY <1>0, <1>4 DEF Reached
    <2>2. \A i \in 1 .. Len(more) : (more[i].delivered <=> i <= d) /\ (more[i].deleted => more[i].delivered)
      <3> SUFFICES ASSUME NEW i \in 1 .. Len(more)
                   PROVE  (more[i].delivered <=> i <= d) /\ (more[i].deleted => more[i].delivered)
        OBVIOUS
      <3>1. CASE i \in 1 .. Len(rows)
        BY <1>4, <3>1 DEF Reached, Grown
      <3>2. CASE i = Len(rows) + 1
        <4>1. ~(i <= d)
          BY <1>0, <2>1, <3>2
        <4> QED BY <3>2, <4>1 DEF Grown
      <3> QED BY <1>0, <3>1, <3>2
    <2>3. \A p \in Polls : polls[p] \in PollRec
      OBVIOUS
    <2>4. Within(feed, more, d) /\ \A p \in Polls : Carried(more, polls[p], d)
      BY <1>2, <1>3, <1>4, <2>1, <2>3 DEF Reached
    <2>5. \A p \in Polls : polls[p].pc = "send" => Within(feed, more, d - Len(polls[p].rows))
      <3> SUFFICES ASSUME NEW p \in Polls, polls[p].pc = "send"
                   PROVE  Within(feed, more, d - Len(polls[p].rows))
        OBVIOUS
      <3>1. Len(polls[p].rows) \in Nat
        BY <2>3 DEF PollRec
      <3>2. Len(polls[p].rows) <= d /\ Within(feed, rows, d - Len(polls[p].rows))
        BY <1>4 DEF Reached, Carried
      <3>3. d - Len(polls[p].rows) \in 0 .. Len(rows)
        BY <1>0, <2>1, <3>1, <3>2, LessIsIn
      <3> QED BY <1>2, <3>2, <3>3
    <2> QED BY <2>1, <2>2, <2>4, <2>5 DEF Reached
  <1> QED BY <1>2, <1>4

LEMMA AnswerHolds ==
    ASSUME McpInv, NEW m \in Messages, Answer(m) PROVE McpInv'
  <1> PICK s \in McpSessions : s = SessionFor[m]
    BY McpAssumption
  <1> PICK rows : rows = queue[s]
    OBVIOUS
  <1>1. /\ message[m] = "running" /\ message' = [message EXCEPT ![m] = "done"]
        /\ UNCHANGED <<session, stream, poll, sent>>
        /\ queue' = [queue EXCEPT ![s] = Append(rows, EventRow(m))] \/ UNCHANGED queue
    BY DEF Answer
  <1>2. message' \in [Messages -> {"none", "running", "done"}]
    BY <1>1 DEF McpInv, StreamsTyped
  <1>3. message'[m] = "done" /\ \A o \in Messages : message[o] = "done" => message'[o] = "done"
    BY <1>1 DEF McpInv, StreamsTyped
  <1>4. \A t \in McpSessions : queue[t] \in Seq(EventRec) /\ \A i \in 1 .. Len(queue[t]) : queue[t][i].message \in Messages
    <2> TAKE t \in McpSessions
    <2>1. queue[t] \in Seq(EventRec)
      BY DEF McpInv, StreamsTyped
    <2>2. \A i \in 1 .. Len(queue[t]) : queue[t][i] \in EventRec
      BY <2>1
    <2> QED BY <2>1, <2>2 DEF EventRec
  <1>5. \A t \in McpSessions : queue'[t] = queue[t] => StreamHolds(t)'
    BY <1>1, <1>3, <1>4 DEF McpInv, StreamHolds, Heard
  <1>6. CASE UNCHANGED queue
    <2>1. StreamsTyped'
      BY <1>1, <1>2, <1>6 DEF McpInv, StreamsTyped
    <2> QED BY <1>5, <1>6, <2>1 DEF McpInv
  <1>7. CASE queue' = [queue EXCEPT ![s] = Append(rows, EventRow(m))]
    <2> PICK row : row = EventRow(m)
      OBVIOUS
    <2> PICK more : more = Append(rows, row)
      OBVIOUS
    <2>1. row \in EventRec /\ row.message = m /\ ~row.delivered /\ ~row.deleted
      BY DEF EventRow, EventRec
    <2>2. /\ more \in Seq(EventRec) /\ Len(rows) \in Nat /\ Len(more) = Len(rows) + 1 /\ more[Len(rows) + 1] = row
          /\ \A i \in 1 .. Len(rows) : more[i] = rows[i]
      BY <1>4, <2>1
    <2>3. queue' \in [McpSessions -> Seq(EventRec)] /\ queue'[s] = more /\ \A t \in McpSessions : t # s => queue'[t] = queue[t]
      BY <1>7, <2>2 DEF McpInv, StreamsTyped
    <2>4. StreamsTyped'
      BY <1>1, <1>2, <2>3 DEF McpInv, StreamsTyped
    <2>5. \A i \in 1 .. Len(rows) : message[rows[i].message] = "done" /\ rows[i].message # m
      BY <1>1 DEF McpInv, StreamHolds
    <2>6. \A i \in 1 .. Len(more) : message'[more[i].message] = "done"
      BY <1>3, <1>4, <2>1, <2>2, <2>5
    <2>7. Distinct(more)
      <3>1. Distinct(rows)
        BY DEF McpInv, StreamHolds
      <3>2. \A i \in 1 .. Len(more) : i \in 1 .. Len(rows) \/ i = Len(rows) + 1
        BY <2>2
      <3> QED BY <2>1, <2>2, <2>5, <3>1, <3>2 DEF Distinct
    <2>8. Grown(rows, more)
      BY <2>1, <2>2 DEF Grown
    <2>9. /\ Ordered(sent[s], rows) => Ordered(sent[s], more)
          /\ \A d \in Nat : Reached(rows, sent[s], poll[s], d) => Reached(more, sent[s], poll[s], d)
      <3>1. poll[s] \in [Polls -> PollRec]
        BY DEF McpInv, StreamsTyped
      <3> QED BY <1>4, <2>2, <2>8, <3>1, QueueGrows
    <2>10. StreamHolds(s)'
      BY <1>1, <2>3, <2>6, <2>7, <2>8, <2>9 DEF McpInv, StreamHolds, Heard
    <2> QED BY <1>5, <2>3, <2>4, <2>10 DEF McpInv
  <1> QED BY <1>1, <1>6, <1>7

\* The rows whose TTL has passed: of a stream that is listened to, only delivered ones.
LEMMA CleanedIs ==
    ASSUME McpInv, NEW s \in McpSessions,
           queue' = [t \in McpSessions |-> [i \in DOMAIN queue[t] |->
                        [queue[t][i] EXCEPT !.deleted = @ \/ i \in Expired(t)]]]
    PROVE  /\ queue' \in [McpSessions -> Seq(EventRec)] /\ Len(queue'[s]) = Len(queue[s])
           /\ \A i \in 1 .. Len(queue[s]) :
                 /\ queue'[s][i].message = queue[s][i].message
                 /\ queue'[s][i].delivered = queue[s][i].delivered
                 /\ queue'[s][i].deleted => queue[s][i].deleted \/ queue[s][i].delivered \/ stream[s] = "down"
  <1>1. ASSUME NEW t \in McpSessions
        PROVE  /\ queue'[t] \in Seq(EventRec) /\ Len(queue'[t]) = Len(queue[t])
               /\ \A i \in 1 .. Len(queue[t]) :
                     /\ queue'[t][i].message = queue[t][i].message
                     /\ queue'[t][i].delivered = queue[t][i].delivered
                     /\ queue'[t][i].deleted => queue[t][i].deleted \/ queue[t][i].delivered \/ stream[t] = "down"
    <2>1. queue[t] \in Seq(EventRec) /\ Len(queue[t]) \in Nat /\ DOMAIN queue[t] = 1 .. Len(queue[t])
      BY DEF McpInv, StreamsTyped
    <2> DEFINE n == Len(queue[t])
               rows == queue'[t]
    <2>2. rows = [i \in 1 .. n |-> [queue[t][i] EXCEPT !.deleted = @ \/ i \in Expired(t)]]
      BY <2>1
    <2>3. ASSUME NEW i \in 1 .. n
          PROVE  /\ rows[i] \in EventRec
                 /\ rows[i].message = queue[t][i].message
                 /\ rows[i].delivered = queue[t][i].delivered
                 /\ rows[i].deleted => queue[t][i].deleted \/ queue[t][i].delivered \/ stream[t] = "down"
      <3> PICK gone \in BOOLEAN : gone <=> queue[t][i].deleted \/ i \in Expired(t)
        OBVIOUS
      <3> PICK row : row = queue[t][i]
        OBVIOUS
      <3>1. row \in EventRec
        BY <2>1
      <3>2. rows[i] = [row EXCEPT !.deleted = row.deleted \/ i \in Expired(t)]
        BY <2>2
      <3>3. (row.deleted \/ i \in Expired(t)) = gone
        OBVIOUS
      <3>4. rows[i] = [row EXCEPT !.deleted = gone]
        BY <3>2, <3>3
      <3>5. /\ rows[i] \in EventRec /\ rows[i].message = row.message
            /\ rows[i].delivered = row.delivered /\ rows[i].deleted = gone
        BY <3>1, <3>4 DEF EventRec
      <3>6. gone => row.deleted \/ row.delivered \/ stream[t] = "down"
        BY DEF Expired
      <3> QED BY <3>5, <3>6
    <2>4. rows \in [1 .. n -> EventRec]
      BY <2>2, <2>3
    <2>5. rows \in Seq(EventRec) /\ Len(rows) = n
      <3>1. n \in Nat
        BY <2>1
      <3> HIDE DEF n, rows
      <3> QED BY <2>4, <3>1, ListIs
    <2> QED BY <2>3, <2>5
  <1>2. queue' \in [McpSessions -> Seq(EventRec)]
    BY <1>1
  <1> QED BY <1>1, <1>2

LEMMA OpenSessionHolds ==
    ASSUME McpInv, NEW s \in McpSessions, OpenSession(s) PROVE McpInv'
  <1>1. /\ session[s] = "none" /\ session' = [session EXCEPT ![s] = "open"]
        /\ stream' = [stream EXCEPT ![s] = "resolving"] /\ UNCHANGED <<poll, message, sent>>
    BY DEF OpenSession
  <1>2. stream[s] = "none"
    BY <1>1 DEF McpInv, StreamHolds
  <1>3. CASE UNCHANGED queue
    BY <1>1, <1>2, <1>3, StreamGoes DEF Heard
  <1>4. CASE queue' = [t \in McpSessions |-> [i \in DOMAIN queue[t] |->
                          [queue[t][i] EXCEPT !.deleted = @ \/ i \in Expired(t)]]]
    <2>1. /\ queue' \in [McpSessions -> Seq(EventRec)]
          /\ \A t \in McpSessions : Len(queue'[t]) = Len(queue[t])
          /\ \A t \in McpSessions : \A i \in 1 .. Len(queue[t]) :
                 /\ queue'[t][i].message = queue[t][i].message
                 /\ queue'[t][i].delivered = queue[t][i].delivered
                 /\ queue'[t][i].deleted => queue[t][i].deleted \/ queue[t][i].delivered \/ stream[t] = "down"
      <3>1. \A t \in McpSessions :
               /\ queue' \in [McpSessions -> Seq(EventRec)] /\ Len(queue'[t]) = Len(queue[t])
               /\ \A i \in 1 .. Len(queue[t]) :
                 /\ queue'[t][i].message = queue[t][i].message
                 /\ queue'[t][i].delivered = queue[t][i].delivered
                 /\ queue'[t][i].deleted => queue[t][i].deleted \/ queue[t][i].delivered \/ stream[t] = "down"
        BY <1>4, CleanedIs
      <3> QED BY <3>1
    <2>2. StreamsTyped'
      BY <1>1, <2>1 DEF McpInv, StreamsTyped
    <2>3. ASSUME NEW t \in McpSessions PROVE StreamHolds(t)'
      <3>1. /\ queue[t] \in Seq(EventRec) /\ queue'[t] \in Seq(EventRec) /\ Len(queue[t]) <= Len(queue'[t])
            /\ \A i \in 1 .. Len(queue[t]) : queue'[t][i].message = queue[t][i].message
        BY <2>1 DEF McpInv, StreamsTyped
      <3>2. \A d \in 0 .. Len(queue[t]), r \in PollRec : Carried(queue[t], r, d) => Carried(queue'[t], r, d)
        BY <3>1, MessagesStay
      <3>3. /\ Ordered(sent[t], queue[t]) => Ordered(sent[t], queue'[t])
            /\ \A d \in 0 .. Len(queue[t]) : Within(sent[t], queue[t], d) => Within(sent[t], queue'[t], d)
        BY <3>1, MessagesStay
      <3>4. Heard(t)' => Heard(t)
        BY <1>1, <1>2 DEF Heard, McpInv, StreamsTyped
      <3>5. ASSUME Heard(t), NEW d \in Nat, Reached(queue[t], sent[t], poll[t], d)
            PROVE  Reached(queue'[t], sent[t], poll[t], d)
        <4>1. d \in 0 .. Len(queue[t]) /\ Len(queue'[t]) = Len(queue[t])
          BY <2>1, <3>5 DEF Reached
        <4>2. \A i \in 1 .. Len(queue[t]) :
                 (queue'[t][i].delivered <=> i <= d) /\ (queue'[t][i].deleted => queue'[t][i].delivered)
          BY <2>1, <3>5 DEF Reached, Heard
        <4>3. \A p \in Polls : poll[t][p] \in PollRec
          BY DEF McpInv, StreamsTyped
        <4>4. Within(sent[t], queue'[t], d) /\ \A p \in Polls : Carried(queue'[t], poll[t][p], d)
          BY <3>2, <3>3, <3>5, <4>1, <4>3 DEF Reached
        <4>5. \A p \in Polls : poll[t][p].pc = "send" => Within(sent[t], queue'[t], d - Len(poll[t][p].rows))
          <5> SUFFICES ASSUME NEW p \in Polls, poll[t][p].pc = "send"
                       PROVE  Within(sent[t], queue'[t], d - Len(poll[t][p].rows))
            OBVIOUS
          <5>1. Len(poll[t][p].rows) \in Nat
            BY <4>3 DEF PollRec
          <5>2. Len(poll[t][p].rows) <= d /\ Within(sent[t], queue[t], d - Len(poll[t][p].rows))
            BY <3>5 DEF Reached, Carried
          <5>3. d - Len(poll[t][p].rows) \in 0 .. Len(queue[t])
            <6>1. /\ Len(queue[t]) \in Nat /\ d \in 0 .. Len(queue[t])
                  /\ Len(poll[t][p].rows) \in Nat /\ Len(poll[t][p].rows) <= d
              BY <3>1, <4>1, <5>1, <5>2
            <6> QED BY <6>1, LessIsIn, Zenon
          <5> QED BY <3>3, <5>2, <5>3
        <4> QED BY <4>1, <4>2, <4>4, <4>5 DEF Reached
      <3>6. Distinct(queue'[t])
        BY <2>1 DEF McpInv, StreamHolds, Distinct
      <3>7. \A i \in 1 .. Len(queue'[t]) : message[queue'[t][i].message] = "done"
        BY <2>1 DEF McpInv, StreamHolds
      <3>8. session'[t] = "none" => stream'[t] = "none"
        BY <1>1 DEF McpInv, StreamHolds, StreamsTyped
      <3> QED BY <1>1, <3>3, <3>4, <3>5, <3>6, <3>7, <3>8 DEF McpInv, StreamHolds
    <2> QED BY <2>2, <2>3 DEF McpInv
  <1> QED BY <1>3, <1>4 DEF OpenSession

LEMMA SessionHolds ==
    ASSUME McpInv, NEW s \in McpSessions,
           OpenStream(s) \/ ClientGoes(s) \/ IdleTimer(s) \/ CloseSession(s) \/ ExpireSession(s)
    PROVE  McpInv'
  <1>1. UNCHANGED <<queue, sent, poll, message>>
    BY DEF OpenStream, ClientGoes, IdleTimer, CloseSession, ExpireSession
  <1>2. stream[s] # "none" => session[s] # "none"
    BY DEF McpInv, StreamHolds
  <1>3. CASE OpenStream(s)
    BY <1>1, <1>2, <1>3, StreamGoes DEF OpenStream, Heard
  <1>4. CASE ClientGoes(s)
    <2>1. CASE stream[s] = "up"
      BY <1>1, <1>2, <1>4, <2>1, StreamGoes DEF ClientGoes, CleanUp
    <2>2. CASE stream[s] # "up"
      <3>1. UNCHANGED <<stream, session>>
        BY <1>4, <2>2 DEF ClientGoes
      <3> QED BY <1>1, <3>1 DEF McpInv, StreamsTyped, StreamHolds, Heard
    <2> QED BY <2>1, <2>2
  <1>5. CASE IdleTimer(s)
    BY <1>1, <1>2, <1>5, StreamGoes DEF IdleTimer, CleanUp
  <1>6. CASE CloseSession(s)
    BY <1>1, <1>6, StreamGoes DEF CloseSession
  <1>7. CASE ExpireSession(s)
    BY <1>1, <1>7, StreamGoes DEF ExpireSession
  <1> QED BY <1>3, <1>4, <1>5, <1>6, <1>7

LEMMA PostHolds ==
    ASSUME McpInv, NEW m \in Messages, Post(m) PROVE McpInv'
  <1>1. /\ message[m] = "none" /\ message' = [message EXCEPT ![m] = "running"]
        /\ UNCHANGED <<session, stream, poll, queue, sent>>
    BY DEF Post
  <1>2. StreamsTyped'
    BY <1>1 DEF McpInv, StreamsTyped
  <1>3. \A o \in Messages : message[o] = "done" => message'[o] = "done"
    BY <1>1 DEF McpInv, StreamsTyped
  <1>4. ASSUME NEW s \in McpSessions PROVE StreamHolds(s)'
    <2>1. queue[s] \in Seq(EventRec)
      BY DEF McpInv, StreamsTyped
    <2>2. \A i \in 1 .. Len(queue[s]) : queue[s][i] \in EventRec
      BY <2>1
    <2>3. \A i \in 1 .. Len(queue[s]) : message'[queue[s][i].message] = "done"
      BY <1>3, <2>2 DEF McpInv, StreamHolds, EventRec
    <2> QED BY <1>1, <2>3 DEF McpInv, StreamHolds, Heard
  <1> QED BY <1>2, <1>4 DEF McpInv

LEMMA ExitHolds == ASSUME McpInv, Exit PROVE McpInv'
  <1>0. NoPoll \in PollRec /\ NoPoll.pc = "none"
    BY DEF NoPoll, PollRec
  <1>1. /\ stream' = [s \in McpSessions |-> IF stream[s] = "none" THEN "none" ELSE "down"]
        /\ poll' = [s \in McpSessions |-> [p \in Polls |-> NoPoll]]
        /\ message' = [m \in Messages |-> IF message[m] = "running" THEN "done" ELSE message[m]]
        /\ UNCHANGED <<session, queue, sent>>
    BY DEF Exit
  <1>2. StreamsTyped'
    BY <1>0, <1>1 DEF McpInv, StreamsTyped
  <1>3. \A o \in Messages : message[o] = "done" => message'[o] = "done"
    BY <1>1
  <1>4. ASSUME NEW s \in McpSessions PROVE StreamHolds(s)'
    <2>1. queue[s] \in Seq(EventRec)
      BY DEF McpInv, StreamsTyped
    <2>2. \A i \in 1 .. Len(queue[s]) : queue[s][i] \in EventRec
      BY <2>1
    <2>3. \A i \in 1 .. Len(queue[s]) : message'[queue[s][i].message] = "done"
      BY <1>3, <2>2 DEF McpInv, StreamHolds, EventRec
    <2>4. \A p \in Polls : poll'[s][p].pc = "none"
      BY <1>0, <1>1
    <2>5. \A d \in Nat : Reached(queue[s], sent[s], poll[s], d) => Reached(queue[s], sent[s], poll'[s], d)
      BY <2>4 DEF Reached, Carried
    <2>6. OnePoll(poll'[s])
      BY <2>4 DEF OnePoll
    <2>7. (stream'[s] = "none" <=> stream[s] = "none") /\ (Heard(s)' => stream[s] = "none")
      BY <1>1 DEF Heard
    <2>8. Heard(s)' => \E d \in Nat : Reached(queue[s], sent[s], poll'[s], d)
      BY <2>5, <2>7 DEF McpInv, StreamHolds, Heard
    <2> QED BY <1>1, <2>3, <2>6, <2>7, <2>8 DEF McpInv, StreamHolds
  <1> QED BY <1>2, <1>4 DEF McpInv

\* For any number of sessions, requests and polls, and batches of any size: an
\* answer is written to its client at most once and after those queued before it,
\* however slow the polls are and whenever a stream or the process ends
\* (mcp-sse.service.ts).
THEOREM AnswersInOrder == McpSpec => []AnsweredInOrder
  <1>1. McpInit => McpInv
    BY McpInitHolds
  <1>2. McpInv /\ [McpNext]_mcpVars => McpInv'
    <2> SUFFICES ASSUME McpInv, [McpNext]_mcpVars PROVE McpInv'
      OBVIOUS
    <2>1. CASE UNCHANGED mcpVars
      BY <2>1 DEF mcpVars, McpInv, StreamsTyped, StreamHolds, Heard
    <2>2. CASE McpNext
      BY <2>2, OpenSessionHolds, SessionHolds, PollHolds, MarkHolds, SendHolds, TouchHolds, PostHolds, AnswerHolds,
         ExitHolds DEF McpNext, Flush, Ending
    <2> QED BY <2>1, <2>2
  <1>3. McpInv => AnsweredInOrder
    <2> SUFFICES ASSUME McpInv, NEW s \in McpSessions, NEW i \in DOMAIN sent[s], NEW j \in DOMAIN sent[s], i < j
                 PROVE  \E k, l \in DOMAIN queue[s] :
                            k < l /\ queue[s][k].message = sent[s][i] /\ queue[s][l].message = sent[s][j]
      BY DEF AnsweredInOrder
    <2>1. DOMAIN sent[s] = 1 .. Len(sent[s]) /\ DOMAIN queue[s] = 1 .. Len(queue[s])
      BY DEF McpInv, StreamsTyped
    <2>2. Ordered(sent[s], queue[s])
      BY DEF McpInv, StreamHolds
    <2>3. i \in 1 .. Len(sent[s]) /\ j \in 1 .. Len(sent[s])
      BY <2>1
    <2>4. \E k, l \in 1 .. Len(queue[s]) : k < l /\ queue[s][k].message = sent[s][i] /\ queue[s][l].message = sent[s][j]
      BY <2>2, <2>3 DEF Ordered
    <2> QED BY <2>1, <2>4
  <1> QED BY <1>1, <1>2, <1>3, PTL DEF McpSpec

(***************************************************************************)
(* Searches.  Sorting by score is a strict order with the places to break  *)
(* the ties, so that of what is cut off nothing was better.                *)
(***************************************************************************)
HitRec == [hit : Hits, score : Nat]
Best(hits, all) ==
    /\ Len(hits) <= TopK
    /\ \A i \in DOMAIN hits : \E j \in DOMAIN all : hits[i] = all[j]
    /\ \A i \in DOMAIN hits, j \in DOMAIN all :
          hits[i].score < all[j].score => \E k \in 1 .. i : hits[k] = all[j]

LEMMA BetterIsStrict ==
    ASSUME NEW hits \in Seq(HitRec)
    PROVE  StrictOrder(DOMAIN hits, Better(hits)) /\ IsFiniteSet(DOMAIN hits) /\ Cardinality(DOMAIN hits) = Len(hits)
  <1>1. DOMAIN hits = 1 .. Len(hits) /\ Len(hits) \in Nat
    OBVIOUS
  <1>2. IsFiniteSet(DOMAIN hits) /\ Cardinality(DOMAIN hits) = Len(hits)
    BY <1>1, FS_Interval
  <1>3. \A i \in DOMAIN hits : i \in Nat /\ hits[i].score \in Nat
    <2>1. \A i \in DOMAIN hits : i \in Nat /\ hits[i] \in HitRec
      OBVIOUS
    <2> QED BY <2>1 DEF HitRec
  <1>4. \A i, j \in DOMAIN hits :
           <<i, j>> \in Better(hits) <=> hits[i].score > hits[j].score \/ (hits[i].score = hits[j].score /\ i < j)
    BY DEF Better, Earlier
  <1>5. \A i \in DOMAIN hits : <<i, i>> \notin Better(hits)
    BY <1>3, <1>4
  <1>6. \A i, j \in DOMAIN hits : i # j => <<i, j>> \in Better(hits) \/ <<j, i>> \in Better(hits)
    BY <1>3, <1>4
  <1>7. ASSUME NEW i \in DOMAIN hits, NEW j \in DOMAIN hits, NEW k \in DOMAIN hits,
               <<i, j>> \in Better(hits), <<j, k>> \in Better(hits)
        PROVE  <<i, k>> \in Better(hits)
    <2>1. /\ hits[i].score > hits[j].score \/ (hits[i].score = hits[j].score /\ i < j)
          /\ hits[j].score > hits[k].score \/ (hits[j].score = hits[k].score /\ j < k)
      BY <1>4, <1>7
    <2>2. hits[i].score > hits[k].score \/ (hits[i].score = hits[k].score /\ i < k)
      BY <1>3, <2>1
    <2> QED BY <1>4, <2>2
  <1> QED BY <1>2, <1>5, <1>6, <1>7 DEF StrictOrder

\* The first of the sorted hits are the best of them.
LEMMA BestAreFirst ==
    ASSUME NEW hits \in Seq(HitRec), TopK \in Nat
    PROVE  FirstOf(Descending(hits), TopK) \in Seq(HitRec) /\ Best(FirstOf(Descending(hits), TopK), hits)
  <1> DEFINE before == Better(hits)
             sorted == Descending(hits)
             first == FirstOf(sorted, TopK)
             place(i) == Rank(DOMAIN hits, before, i)
  <1>1. StrictOrder(DOMAIN hits, before) /\ IsFiniteSet(DOMAIN hits) /\ Cardinality(DOMAIN hits) = Len(hits)
    BY BetterIsStrict
  <1>2. /\ DOMAIN sorted = 1 .. Len(hits)
        /\ \A k \in 1 .. Len(hits) : \E i \in DOMAIN hits : place(i) = k - 1 /\ sorted[k] = hits[i]
        /\ \A i \in DOMAIN hits : place(i) + 1 \in 1 .. Len(hits) /\ sorted[place(i) + 1] = hits[i]
    <2>1. sorted = Arranged(hits, DOMAIN hits, before)
      BY DEF Descending
    <2> HIDE DEF before, sorted
    <2> QED BY <1>1, <2>1, ArrangedIs
  <1>3. sorted \in Seq(HitRec)
    <2>1. \A k \in 1 .. Len(hits) : sorted[k] \in HitRec
      BY <1>2
    <2>2. sorted = [k \in 1 .. Len(hits) |-> sorted[k]]
      BY <1>1 DEF Descending, Arranged
    <2> QED BY <2>1, <2>2
  <1> HIDE DEF sorted
  <1>4. /\ first \in Seq(HitRec) /\ Len(first) <= TopK
        /\ \A i \in DOMAIN first : i \in DOMAIN sorted /\ first[i] = sorted[i]
    BY <1>3, FirstOfIs
  <1> HIDE DEF first
  <1>5. ASSUME NEW i \in DOMAIN first PROVE \E j \in DOMAIN hits : first[i] = hits[j]
    BY <1>2, <1>4
  <1>6. ASSUME NEW i \in DOMAIN first, NEW j \in DOMAIN hits, first[i].score < hits[j].score
        PROVE  \E k \in 1 .. i : first[k] = hits[j]
    <2>1. PICK l \in DOMAIN hits : place(l) = i - 1 /\ first[i] = hits[l]
      BY <1>2, <1>4
    <2>2. <<j, l>> \in before
      BY <1>6, <2>1 DEF Better, HitRec
    <2>3. place(j) < place(l)
      BY <1>1, <2>2, RankGrows
    <2> PICK k : k = place(j) + 1
      OBVIOUS
    <2>4. k \in 1 .. Len(hits) /\ sorted[k] = hits[j]
      BY <1>2
    <2>5. i \in 1 .. Len(first) /\ Len(first) \in Nat /\ DOMAIN first = 1 .. Len(first)
      BY <1>4
    <2>6. place(j) \in Nat /\ place(l) \in Nat
      BY <1>1, RankRange, FS_CardinalityType
    <2>7. k \in 1 .. i /\ k \in DOMAIN first
      BY <2>1, <2>3, <2>4, <2>5, <2>6
    <2> QED BY <1>4, <2>4, <2>7
  <1> QED BY <1>4, <1>5, <1>6 DEF Best, first, sorted

(***************************************************************************)
(* Each call by itself.  A call that changes OpenViking makes one attempt, *)
(* so that what it asks for is done at most once; and what a reranker said *)
(* stays beside the hits that were cut by it until they are logged.        *)
(***************************************************************************)
CallRecord ==
    [pc : {"none", "refused", "request", "rerank", "log", "answered", "failed"},
     attempt : Nat, path : Nat, status : {"none", "200"} \cup Statuses]
CallsTyped ==
    /\ ovCall \in [OvCalls -> CallRecord]
    /\ found \in [OvCalls -> Seq(HitRec)] /\ opinion \in [OvCalls -> Seq(HitRec)]
    /\ executed \in [OvCalls -> Nat] /\ searchLog \in [OvCalls -> Seq(Nat)]
    /\ allowed \in [OvCalls -> SUBSET Hits]
Begun(c) == ovCall[c].pc \in {"none", "request"}
CallHolds(c) ==
    /\ CallKind[c] \in {"upload", "command"} =>
          /\ executed[c] <= 1 /\ (Begun(c) => executed[c] = 0)
    /\ ovCall[c].pc \in {"none", "request", "rerank"} => opinion[c] = <<>>
    /\ ovCall[c].pc \in {"none", "request", "rerank", "log"} => searchLog[c] = <<>>
    /\ opinion[c] # <<>> => Best(found[c], opinion[c])
    /\ opinion[c] # <<>> /\ ovCall[c].pc = "answered" => searchLog[c] = <<Len(found[c])>>
    /\ ovCall[c].pc \in {"rerank", "log"} => CallKind[c] = "find"
SearchInv == CallsTyped /\ \A c \in OvCalls : CallHolds(c)

LEMMA SearchInitHolds == ASSUME SearchInit PROVE SearchInv
  <1>1. OvPlace("none", 1) \in CallRecord /\ OvPlace("none", 1).pc = "none"
    BY DEF OvPlace, CallRecord
  <1>2. CallsTyped
    BY <1>1 DEF SearchInit, CallsTyped
  <1>3. \A c \in OvCalls : CallHolds(c)
    BY <1>1 DEF SearchInit, CallHolds, Begun
  <1> QED BY <1>2, <1>3 DEF SearchInv

\* One call goes on, the others stay.
LEMMA OneCallSteps ==
    ASSUME SearchInv, CallsTyped', NEW c \in OvCalls, CallHolds(c)',
           \A d \in OvCalls : d # c =>
               /\ ovCall'[d] = ovCall[d] /\ found'[d] = found[d] /\ opinion'[d] = opinion[d]
               /\ executed'[d] = executed[d] /\ searchLog'[d] = searchLog[d]
    PROVE  SearchInv'
  BY DEF SearchInv, CallHolds, Begun

LEMMA PlaceIs ==
    ASSUME NEW pc \in {"none", "refused", "request", "rerank", "log", "answered", "failed"}, NEW path \in Nat
    PROVE  OvPlace(pc, path) \in CallRecord /\ OvPlace(pc, path).pc = pc
  BY DEF OvPlace, CallRecord

\* The place of a call after an answer or a failure.
LEMMA GoIs ==
    ASSUME CallsTyped, NEW c \in OvCalls,
           NEW pc \in {"refused", "request", "rerank", "log", "answered", "failed"}, OvGo(c, pc)
    PROVE  /\ ovCall' \in [OvCalls -> CallRecord] /\ ovCall'[c].pc = pc
           /\ \A d \in OvCalls : d # c => ovCall'[d] = ovCall[d]
  BY PlaceIs DEF OvGo, CallsTyped

LEMMA StatusesKnown ==
    ASSUME NEW reply \in Replies, NEW body, body.status \in {"200"} \cup Statuses
    PROVE  ResultOf(reply, body).status \in {"200"} \cup Statuses
  BY DEF ResultOf, NormalizedError, HttpError, OvError, Statuses, Replies

LEMMA BodiesKnown ==
    ASSUME NEW reply \in Replies
    PROVE  /\ ParsedJson(reply).status \in {"200"} \cup Statuses
           /\ (IF reply = "empty" THEN HttpError("502") ELSE OvValue).status \in {"200"} \cup Statuses
  BY DEF ParsedJson, HttpError, OvError, OvValue, Statuses

LEMMA FailedIs ==
    ASSUME CallsTyped, NEW c \in OvCalls, NEW result, result.status \in {"200"} \cup Statuses, OvFailed(c, result)
    PROVE  /\ ovCall' \in [OvCalls -> CallRecord] /\ ovCall'[c].pc = "failed"
           /\ \A d \in OvCalls : d # c => ovCall'[d] = ovCall[d]
  <1> PICK r : r = [OvPlace("failed", 1) EXCEPT !.status = result.status]
    OBVIOUS
  <1>1. r \in CallRecord /\ r.pc = "failed"
    BY DEF OvPlace, CallRecord
  <1>2. ovCall' = [ovCall EXCEPT ![c] = r]
    BY DEF OvFailed
  <1> QED BY <1>1, <1>2 DEF CallsTyped

LEMMA TriesAgain ==
    ASSUME CallsTyped, NEW c \in OvCalls, OvTryAgain(c)
    PROVE  /\ ovCall' \in [OvCalls -> CallRecord] /\ ovCall'[c].pc = ovCall[c].pc
           /\ \A d \in OvCalls : d # c => ovCall'[d] = ovCall[d]
  <1> PICK n : n = ovCall[c].attempt + 1
    OBVIOUS
  <1> PICK r : r = [ovCall[c] EXCEPT !.attempt = n]
    OBVIOUS
  <1>1. ovCall[c] \in CallRecord /\ n \in Nat
    BY DEF CallsTyped, CallRecord
  <1>2. r \in CallRecord /\ r.pc = ovCall[c].pc
    BY <1>1 DEF CallRecord
  <1>3. ovCall' = [ovCall EXCEPT ![c] = r]
    BY DEF OvTryAgain
  <1> QED BY <1>2, <1>3 DEF CallsTyped

LEMMA EffectIs ==
    ASSUME CallsTyped, NEW c \in OvCalls, NEW reply, Effect(c, reply)
    PROVE  /\ executed' \in [OvCalls -> Nat] /\ executed'[c] \in {executed[c], executed[c] + 1}
           /\ \A d \in OvCalls : d # c => executed'[d] = executed[d]
  <1> PICK n : n = executed[c] + 1
    OBVIOUS
  <1>1. executed[c] \in Nat /\ n \in Nat
    BY DEF CallsTyped
  <1>2. executed' = [executed EXCEPT ![c] = n] \/ UNCHANGED executed
    BY DEF Effect
  <1> QED BY <1>1, <1>2 DEF CallsTyped

\* A request's reply that changes nothing but the place of its call; a call that
\* changes OpenViking is not asked again.
LEMMA ReplyHolds ==
    ASSUME SearchInv, NEW c \in OvCalls, NEW reply, OvAt(c, "request"), Effect(c, reply),
           UNCHANGED <<allowed, found, opinion, searchLog>>, ovCall' \in [OvCalls -> CallRecord],
           \A d \in OvCalls : d # c => ovCall'[d] = ovCall[d],
           \/ ovCall'[c].pc \in {"answered", "failed"}
           \/ ovCall'[c].pc = "request" /\ CallKind[c] \notin {"upload", "command"}
    PROVE  SearchInv'
  <1>1. /\ executed' \in [OvCalls -> Nat] /\ executed'[c] \in {executed[c], executed[c] + 1}
        /\ \A d \in OvCalls : d # c => executed'[d] = executed[d]
    BY EffectIs DEF SearchInv
  <1>2. CallsTyped'
    BY <1>1 DEF SearchInv, CallsTyped
  <1>3. executed[c] \in Nat
    BY DEF SearchInv, CallsTyped
  <1>4. CallHolds(c)'
    BY <1>1, <1>3 DEF SearchInv, CallHolds, Begun, OvAt
  <1> QED BY <1>1, <1>2, <1>4, OneCallSteps

\* The hits of a search or a grep, within the scope.
LEMMA FoundHolds ==
    ASSUME SearchInv, NEW c \in OvCalls, NEW reply, OvAt(c, "request"), Effect(c, reply),
           CallKind[c] \in {"find", "grep"}, NEW hits \in Candidates(c),
           found' = [found EXCEPT ![c] = WithinScope(c, hits)],
           NEW pc \in {"rerank", "log", "answered"}, OvGo(c, pc), CallKind[c] = "grep" => pc = "answered",
           UNCHANGED <<allowed, opinion, searchLog>>
    PROVE  SearchInv'
  <1>1. /\ executed' \in [OvCalls -> Nat] /\ \A d \in OvCalls : d # c => executed'[d] = executed[d]
    BY EffectIs DEF SearchInv
  <1>2. [hit : Hits, score : Scores] \subseteq HitRec
    BY SearchAssumption DEF HitRec
  <1>3. hits \in Seq(HitRec)
    <2>1. PICK n \in 0 .. Asked(c) : hits \in [1 .. n -> [hit : Hits, score : Scores]]
      BY DEF Candidates
    <2>2. n \in Nat
      BY <2>1, SearchAssumption DEF Asked
    <2> QED BY <1>2, <2>1, <2>2, ListOfMore
  <1>4. WithinScope(c, hits) \in Seq(HitRec)
    <2> PICK places : places = {i \in DOMAIN hits : hits[i].hit \in allowed[c]}
      OBVIOUS
    <2>1. Filtered(hits, places) \in Seq(HitRec)
      BY <1>3, FilteredIsSeq
    <2> QED BY <2>1 DEF WithinScope
  <1>5. found' \in [OvCalls -> Seq(HitRec)] /\ \A d \in OvCalls : d # c => found'[d] = found[d]
    BY <1>4 DEF SearchInv, CallsTyped
  <1>6. /\ ovCall' \in [OvCalls -> CallRecord] /\ ovCall'[c].pc = pc
        /\ \A d \in OvCalls : d # c => ovCall'[d] = ovCall[d]
    BY GoIs DEF SearchInv
  <1>7. CallsTyped'
    BY <1>1, <1>5, <1>6 DEF SearchInv, CallsTyped
  <1>8. CallHolds(c)'
    BY <1>6 DEF SearchInv, CallHolds, Begun, OvAt
  <1> QED BY <1>1, <1>5, <1>6, <1>7, <1>8, OneCallSteps

LEMMA RequestJsonHolds ==
    ASSUME SearchInv, NEW c \in OvCalls, NEW reply \in Replies, RequestJson(c, reply) PROVE SearchInv'
  <1> PICK result : result = ResultOf(reply, ParsedJson(reply))
    OBVIOUS
  <1>0. OvAt(c, "request") /\ Effect(c, reply) /\ CallKind[c] \in {"find", "grep", "browse", "command"}
    BY DEF RequestJson
  <1>1. result.status \in {"200"} \cup Statuses
    BY StatusesKnown, BodiesKnown
  <1>2. CASE OvAgain(c, result) /\ OvTryAgain(c)
    <2>1. CallKind[c] # "command"
      BY <1>2 DEF OvAgain, RetryCount, SearchInv, CallsTyped, CallRecord
    <2>2. UNCHANGED <<allowed, found, opinion, searchLog>>
      BY <1>2 DEF OvTryAgain
    <2>3. ovCall' \in [OvCalls -> CallRecord] /\ ovCall'[c].pc = "request" /\ \A d \in OvCalls : d # c => ovCall'[d] = ovCall[d]
      BY <1>0, <1>2, TriesAgain DEF SearchInv, OvAt
    <2> QED BY <1>0, <2>1, <2>2, <2>3, ReplyHolds
  <1>3. CASE OvFailed(c, result)
    <2>1. UNCHANGED <<allowed, found, opinion, searchLog>>
      BY <1>3 DEF OvFailed
    <2>2. ovCall' \in [OvCalls -> CallRecord] /\ ovCall'[c].pc = "failed" /\ \A d \in OvCalls : d # c => ovCall'[d] = ovCall[d]
      BY <1>1, <1>3, FailedIs DEF SearchInv
    <2> QED BY <1>0, <2>1, <2>2, ReplyHolds
  <1>4. CASE CallKind[c] = "find" /\ SearchFound(c)
    <2>1. PICK hits \in Candidates(c) : found' = [found EXCEPT ![c] = WithinScope(c, hits)]
      BY <1>4 DEF SearchFound
    <2>2. PICK pc \in {"rerank", "log", "answered"} : OvGo(c, pc)
      BY <1>4 DEF SearchFound
    <2>3. UNCHANGED <<allowed, opinion, searchLog>>
      BY <1>4 DEF SearchFound
    <2> QED BY <1>0, <1>4, <2>1, <2>2, <2>3, FoundHolds
  <1>5. CASE CallKind[c] = "grep" /\ GrepFound(c)
    <2>1. PICK hits \in Candidates(c) : found' = [found EXCEPT ![c] = WithinScope(c, hits)]
      BY <1>5 DEF GrepFound
    <2>2. OvGo(c, "answered") /\ UNCHANGED <<allowed, opinion, searchLog>>
      BY <1>5 DEF GrepFound
    <2> QED BY <1>0, <1>5, <2>1, <2>2, FoundHolds
  <1>6. CASE OvGo(c, "answered") /\ UNCHANGED <<allowed, found, opinion, searchLog>>
    BY <1>0, <1>6, GoIs, ReplyHolds DEF SearchInv
  <1> QED BY <1>2, <1>3, <1>4, <1>5, <1>6 DEF RequestJson

LEMMA RequestFormDataHolds ==
    ASSUME SearchInv, NEW c \in OvCalls, NEW reply \in Replies, RequestFormData(c, reply) PROVE SearchInv'
  <1> PICK result : result = ResultOf(reply, ParsedJson(reply))
    OBVIOUS
  <1>0. OvAt(c, "request") /\ Effect(c, reply) /\ CallKind[c] = "upload"
    BY DEF RequestFormData
  <1>1. result.status \in {"200"} \cup Statuses
    BY StatusesKnown, BodiesKnown
  <1>2. ~OvAgain(c, result)
    BY <1>0 DEF OvAgain, RetryCount, SearchInv, CallsTyped, CallRecord
  <1>3. CASE OvFailed(c, result)
    <2>1. UNCHANGED <<allowed, found, opinion, searchLog>>
      BY <1>3 DEF OvFailed
    <2> QED BY <1>0, <1>1, <1>3, <2>1, FailedIs, ReplyHolds DEF SearchInv
  <1>4. CASE OvGo(c, "answered") /\ UNCHANGED <<allowed, found, opinion, searchLog>>
    BY <1>0, <1>4, GoIs, ReplyHolds DEF SearchInv
  <1> QED BY <1>2, <1>3, <1>4 DEF RequestFormData

LEMMA RequestStreamHolds ==
    ASSUME SearchInv, NEW c \in OvCalls, NEW reply \in Replies, RequestReadableStream(c, reply) PROVE SearchInv'
  <1> PICK result : result = ResultOf(reply, IF reply = "empty" THEN HttpError("502") ELSE OvValue)
    OBVIOUS
  <1>0. OvAt(c, "request") /\ Effect(c, reply) /\ CallKind[c] = "asset"
    BY DEF RequestReadableStream
  <1>1. result.status \in {"200"} \cup Statuses
    BY StatusesKnown, BodiesKnown
  <1>2. CASE OvTryAgain(c)
    <2>1. UNCHANGED <<allowed, found, opinion, searchLog>>
      BY <1>2 DEF OvTryAgain
    <2>2. ovCall' \in [OvCalls -> CallRecord] /\ ovCall'[c].pc = "request" /\ \A d \in OvCalls : d # c => ovCall'[d] = ovCall[d]
      BY <1>0, <1>2, TriesAgain DEF SearchInv, OvAt
    <2> QED BY <1>0, <2>1, <2>2, ReplyHolds
  <1>3. CASE OvFailed(c, result)
    <2>1. UNCHANGED <<allowed, found, opinion, searchLog>>
      BY <1>3 DEF OvFailed
    <2> QED BY <1>0, <1>1, <1>3, <2>1, FailedIs, ReplyHolds DEF SearchInv
  <1>4. CASE /\ ovCall' = [ovCall EXCEPT ![c] = OvPlace("request", @.path + 1)]
             /\ UNCHANGED <<allowed, found, opinion, searchLog>>
    <2> PICK n : n = ovCall[c].path + 1
      OBVIOUS
    <2>1. n \in Nat
      BY DEF SearchInv, CallsTyped, CallRecord
    <2>2. ovCall' = [ovCall EXCEPT ![c] = OvPlace("request", n)]
      BY <1>4
    <2>3. OvPlace("request", n) \in CallRecord /\ OvPlace("request", n).pc = "request"
      BY <2>1, PlaceIs
    <2>4. ovCall' \in [OvCalls -> CallRecord] /\ ovCall'[c].pc = "request" /\ \A d \in OvCalls : d # c => ovCall'[d] = ovCall[d]
      BY <2>2, <2>3 DEF SearchInv, CallsTyped
    <2> QED BY <1>0, <1>4, <2>4, ReplyHolds
  <1>5. CASE OvGo(c, "answered") /\ UNCHANGED <<allowed, found, opinion, searchLog>>
    BY <1>0, <1>5, GoIs, ReplyHolds DEF SearchInv
  <1> QED BY <1>2, <1>3, <1>4, <1>5 DEF RequestReadableStream

LEMMA StartHolds ==
    ASSUME SearchInv, NEW c \in OvCalls, StartFind(c) \/ StartGrep(c) \/ UploadTempFile(c) \/ StartOther(c)
    PROVE  SearchInv'
  <1>1. ovCall[c].pc = "none" /\ UNCHANGED <<found, opinion, executed, searchLog>>
    BY DEF StartFind, StartGrep, UploadTempFile, StartOther, OvAt
  <1>2. allowed' \in [OvCalls -> SUBSET Hits]
    <2>1. \A uris \in Readable : uris \in SUBSET Hits
      BY SearchAssumption
    <2> QED BY <2>1 DEF StartFind, StartGrep, UploadTempFile, StartOther, SearchInv, CallsTyped
  <1>3. PICK pc \in {"request", "refused"} : OvGo(c, pc)
    BY DEF StartFind, StartGrep, UploadTempFile, StartOther
  <1>4. /\ ovCall' \in [OvCalls -> CallRecord] /\ ovCall'[c].pc = pc
        /\ \A d \in OvCalls : d # c => ovCall'[d] = ovCall[d]
    BY <1>3, GoIs DEF SearchInv
  <1>5. CallsTyped'
    BY <1>1, <1>2, <1>4 DEF SearchInv, CallsTyped
  <1>6. CallHolds(c)'
    BY <1>1, <1>4 DEF SearchInv, CallHolds, Begun
  <1> QED BY <1>1, <1>4, <1>5, <1>6, OneCallSteps

LEMMA RescoredIs ==
    ASSUME CallsTyped, NEW c \in OvCalls, NEW scores \in [DOMAIN found[c] -> Scores \cup {NoScore}]
    PROVE  Rescored(c, scores) \in Seq(HitRec)
  <1>1. found[c] \in Seq(HitRec) /\ NoScore \in Nat /\ Scores \subseteq Nat
    BY SearchAssumption DEF CallsTyped, NoScore
  <1>2. \A i \in DOMAIN found[c] : RerankScore(c, scores, i) \in Nat
    <2> TAKE i \in DOMAIN found[c]
    <2>1. scores[i] \in Nat
      BY <1>1
    <2>2. found[c][i] \in HitRec
      BY <1>1
    <2>3. found[c][i].score \in Nat
      BY <2>2 DEF HitRec
    <2> QED BY <2>1, <2>3 DEF RerankScore
  <1>3. \A i \in DOMAIN found[c] : Rescored(c, scores)[i] \in HitRec
    <2> TAKE i \in DOMAIN found[c]
    <2> PICK n \in Nat : n = RerankScore(c, scores, i)
      BY <1>2
    <2>1. found[c][i] \in HitRec
      BY <1>1
    <2>2. [found[c][i] EXCEPT !.score = n] \in HitRec
      BY <2>1 DEF HitRec
    <2> QED BY <2>2 DEF Rescored
  <1> PICK n : n = Len(found[c])
    OBVIOUS
  <1>4. n \in Nat /\ DOMAIN found[c] = 1 .. n
    BY <1>1
  <1>5. Rescored(c, scores) \in [1 .. n -> HitRec]
    BY <1>3, <1>4 DEF Rescored
  <1> QED BY <1>4, <1>5, ListOfMore

LEMMA RerankHolds ==
    ASSUME SearchInv, NEW c \in OvCalls, NEW reply \in Replies, Rerank(c, reply) PROVE SearchInv'
  <1>0. OvAt(c, "rerank") /\ UNCHANGED <<allowed, executed, searchLog>>
    BY DEF Rerank
  <1>1. \A pc \in {"log", "rerank"} :
           /\ ovCall' \in [OvCalls -> CallRecord] /\ ovCall'[c].pc = pc
           /\ \A d \in OvCalls : d # c => ovCall'[d] = ovCall[d]
           /\ UNCHANGED <<found, opinion>>
           => SearchInv'
    <2> TAKE pc \in {"log", "rerank"}
    <2> HAVE /\ ovCall' \in [OvCalls -> CallRecord] /\ ovCall'[c].pc = pc
             /\ \A d \in OvCalls : d # c => ovCall'[d] = ovCall[d]
             /\ UNCHANGED <<found, opinion>>
    <2>1. CallsTyped'
      BY <1>0 DEF SearchInv, CallsTyped
    <2>2. CallHolds(c)'
      BY <1>0 DEF SearchInv, CallHolds, Begun, OvAt
    <2> QED BY <1>0, <2>1, <2>2, OneCallSteps
  <1>2. CASE /\ \E scores \in [DOMAIN found[c] -> Scores \cup {NoScore}] :
                  /\ found' = [found EXCEPT ![c] = Reranked(c, scores)]
                  /\ opinion' = [opinion EXCEPT ![c] = Rescored(c, scores)]
             /\ OvGo(c, "log")
    <2>1. PICK scores \in [DOMAIN found[c] -> Scores \cup {NoScore}] :
                  /\ found' = [found EXCEPT ![c] = Reranked(c, scores)]
                  /\ opinion' = [opinion EXCEPT ![c] = Rescored(c, scores)]
      BY <1>2
    <2> PICK all : all = Rescored(c, scores)
      OBVIOUS
    <2> PICK first : first = FirstOf(Descending(all), TopK)
      OBVIOUS
    <2>2. all \in Seq(HitRec)
      BY RescoredIs DEF SearchInv
    <2>3. first \in Seq(HitRec) /\ Best(first, all)
      BY <2>2, BestAreFirst, SearchAssumption
    <2>4. found' = [found EXCEPT ![c] = first] /\ opinion' = [opinion EXCEPT ![c] = all]
      BY <2>1 DEF Reranked
    <2>5. /\ found' \in [OvCalls -> Seq(HitRec)] /\ found'[c] = first /\ \A d \in OvCalls : d # c => found'[d] = found[d]
          /\ opinion' \in [OvCalls -> Seq(HitRec)] /\ opinion'[c] = all /\ \A d \in OvCalls : d # c => opinion'[d] = opinion[d]
      BY <2>2, <2>3, <2>4 DEF SearchInv, CallsTyped
    <2>6. /\ ovCall' \in [OvCalls -> CallRecord] /\ ovCall'[c].pc = "log"
          /\ \A d \in OvCalls : d # c => ovCall'[d] = ovCall[d]
      BY <1>2, GoIs DEF SearchInv
    <2>7. CallsTyped'
      BY <1>0, <2>5, <2>6 DEF SearchInv, CallsTyped
    <2>8. CallHolds(c)'
      BY <1>0, <2>3, <2>5, <2>6 DEF SearchInv, CallHolds, Begun, OvAt
    <2> QED BY <1>0, <2>5, <2>6, <2>7, <2>8, OneCallSteps
  <1>3. CASE ovCall' = [ovCall EXCEPT ![c] = OvPlace("rerank", @.path + 1)] /\ UNCHANGED <<found, opinion>>
    <2> PICK n : n = ovCall[c].path + 1
      OBVIOUS
    <2>1. n \in Nat
      BY DEF SearchInv, CallsTyped, CallRecord
    <2>2. ovCall' = [ovCall EXCEPT ![c] = OvPlace("rerank", n)]
      BY <1>3
    <2>3. OvPlace("rerank", n) \in CallRecord /\ OvPlace("rerank", n).pc = "rerank"
      BY <2>1, PlaceIs
    <2>4. ovCall' \in [OvCalls -> CallRecord] /\ ovCall'[c].pc = "rerank" /\ \A d \in OvCalls : d # c => ovCall'[d] = ovCall[d]
      BY <2>2, <2>3 DEF SearchInv, CallsTyped
    <2> QED BY <1>1, <1>3, <2>4
  <1>4. CASE OvGo(c, "log") /\ UNCHANGED <<found, opinion>>
    <2>1. /\ ovCall' \in [OvCalls -> CallRecord] /\ ovCall'[c].pc = "log"
          /\ \A d \in OvCalls : d # c => ovCall'[d] = ovCall[d]
      BY <1>4, GoIs DEF SearchInv
    <2> QED BY <1>1, <1>4, <2>1
  <1> QED BY <1>2, <1>3, <1>4 DEF Rerank

LEMMA LogHolds ==
    ASSUME SearchInv, NEW c \in OvCalls, LogSearch(c) PROVE SearchInv'
  <1>0. OvAt(c, "log") /\ UNCHANGED <<allowed, found, opinion, executed>>
    BY DEF LogSearch
  <1>1. PICK pc \in {"answered", "failed"} :
           OvGo(c, pc) /\ IF pc = "failed" THEN UNCHANGED searchLog
                          ELSE searchLog' = [searchLog EXCEPT ![c] = Append(@, Len(found[c]))]
    <2>1. CASE OvGo(c, "answered") /\ searchLog' = [searchLog EXCEPT ![c] = Append(@, Len(found[c]))]
      BY <2>1
    <2>2. CASE OvGo(c, "failed") /\ UNCHANGED searchLog
      BY <2>2
    <2> QED BY <2>1, <2>2 DEF LogSearch
  <1>2. /\ ovCall' \in [OvCalls -> CallRecord] /\ ovCall'[c].pc = pc
        /\ \A d \in OvCalls : d # c => ovCall'[d] = ovCall[d]
    BY <1>1, GoIs DEF SearchInv
  <1>3. searchLog[c] = <<>> /\ Len(found[c]) \in Nat
    BY <1>0 DEF SearchInv, CallsTyped, CallHolds, OvAt
  <1>4. /\ searchLog' \in [OvCalls -> Seq(Nat)] /\ \A d \in OvCalls : d # c => searchLog'[d] = searchLog[d]
        /\ pc = "answered" => searchLog'[c] = <<Len(found[c])>>
    <2> PICK row : row = <<Len(found[c])>>
      OBVIOUS
    <2>1. row \in Seq(Nat) /\ Append(<<>>, Len(found[c])) = row
      BY <1>3
    <2>2. pc = "answered" => searchLog' = [searchLog EXCEPT ![c] = row]
      BY <1>1, <1>3, <2>1
    <2>3. pc = "failed" => UNCHANGED searchLog
      BY <1>1
    <2> QED BY <2>1, <2>2, <2>3 DEF SearchInv, CallsTyped
  <1>5. CallsTyped'
    BY <1>0, <1>2, <1>4 DEF SearchInv, CallsTyped
  <1>6. CallHolds(c)'
    BY <1>0, <1>2, <1>4 DEF SearchInv, CallHolds, Begun, OvAt
  <1> QED BY <1>0, <1>2, <1>4, <1>5, <1>6, OneCallSteps

\* For any number of calls, hits and scores and whatever OpenViking and the
\* reranker reply: a reranked search answers with the best of its candidates,
\* best first, and what changes OpenViking is done once (search.service.ts,
\* ov-client.service.ts).
THEOREM SearchesAreRight == SearchSpec => []SearchesHold
  <1>1. SearchInit => SearchInv
    BY SearchInitHolds
  <1>2. SearchInv /\ [SearchNext]_ovVars => SearchInv'
    <2> SUFFICES ASSUME SearchInv, [SearchNext]_ovVars PROVE SearchInv'
      OBVIOUS
    <2>1. CASE UNCHANGED ovVars
      BY <2>1 DEF ovVars, SearchInv, CallsTyped, CallHolds, Begun
    <2>2. CASE SearchNext
      BY <2>2, StartHolds, LogHolds, RequestJsonHolds, RequestFormDataHolds, RequestStreamHolds, RerankHolds
         DEF SearchNext
    <2> QED BY <2>1, <2>2
  <1>3. SearchInv => SearchesHold
    <2> SUFFICES ASSUME SearchInv PROVE SearchesHold
      OBVIOUS
    <2>1. DoneOnce
      BY DEF SearchInv, CallHolds, DoneOnce
    <2>2. BestFirst
      BY DEF SearchInv, CallHolds, Best, BestFirst, OvAt
    <2> QED BY <2>1, <2>2 DEF SearchesHold
  <1> QED BY <1>1, <1>2, <1>3, PTL DEF SearchSpec

(***************************************************************************)
(* The files of editors and repositories.  What others have put into a     *)
(* file stays where a command looks past it: outside of our tables, before *)
(* and behind our section; and what a command has read still says so when  *)
(* it writes.                                                              *)
(***************************************************************************)
Tables == {"own", "legacy", "sub", "user", "near"}
LineRec == [is : {"head", "line"}, of : Tables, id : Nat]
OthersLine(line) == line.of \in {"user", "near"}
\* Every line of ours stands under a header of ours.
OursSkipped(lines) == \A i \in DOMAIN lines : ~OthersLine(lines[i]) => Skipped(lines, i)
Keeps(lines, n) == \E i \in DOMAIN lines : lines[i].id = n /\ OthersLine(lines[i]) /\ ~Skipped(lines, i)
TableWhole(lines, i) == i < Len(lines) /\ lines[i + 1] = [lines[i] EXCEPT !.is = "line"]
HeadOf(lines, i, ids) == lines[i].is = "head" /\ lines[i].id \in ids /\ OthersLine(lines[i])
TomlGood(lines, ids) ==
    /\ OursSkipped(lines)
    /\ \A n \in ids : Keeps(lines, n)
    /\ \A i \in DOMAIN lines : HeadOf(lines, i, ids) => TableWhole(lines, i)
NumberedTo(lines, last) == \A i \in DOMAIN lines : OthersLine(lines[i]) => lines[i].id <= last
\* One table of ours, with one key, and none from older clients.
OwnAt(lines, at, key) ==
    /\ \A i \in DOMAIN lines : lines[i].of \notin {"legacy", "sub"}
    /\ \A i \in DOMAIN lines : lines[i].of = "own" <=> i \in {at, at + 1}
    /\ \A i \in DOMAIN lines : lines[i].of = "own" => lines[i].id = key
    /\ at \in 1 .. (Len(lines) - 1)
OwnTable(lines, key) == \E at \in Nat : OwnAt(lines, at, key)

\* What is filtered keeps its order, and nothing else is there.
PlaceIn(list, places, i) == Rank(places, Earlier(list), i) + 1
LEMMA FilteredKeeps ==
    ASSUME NEW S, NEW list \in Seq(S), NEW places \in SUBSET DOMAIN list, NEW F, F = Filtered(list, places)
    PROVE  /\ \A i \in places : PlaceIn(list, places, i) \in DOMAIN F /\ F[PlaceIn(list, places, i)] = list[i]
           /\ \A i, j \in places : i < j => PlaceIn(list, places, i) < PlaceIn(list, places, j)
           /\ \A k \in DOMAIN F : \E i \in places : PlaceIn(list, places, i) = k
  <1>1. StrictOrder(places, Earlier(list)) /\ IsFiniteSet(places)
    BY EarlierIsStrict
  <1>2. /\ Cardinality(places) \in Nat /\ DOMAIN F = 1 .. Cardinality(places)
        /\ \A k \in 1 .. Cardinality(places) : \E i \in places : Rank(places, Earlier(list), i) = k - 1
        /\ \A i \in places : /\ Rank(places, Earlier(list), i) + 1 \in 1 .. Cardinality(places)
                             /\ F[Rank(places, Earlier(list), i) + 1] = list[i]
    BY <1>1, ArrangedIs DEF Filtered
  <1>3. ASSUME NEW i \in places, NEW j \in places, i < j
        PROVE  PlaceIn(list, places, i) < PlaceIn(list, places, j)
    <2>1. <<i, j>> \in Earlier(list)
      BY <1>3 DEF Earlier
    <2>2. Rank(places, Earlier(list), i) < Rank(places, Earlier(list), j)
      BY <1>1, <2>1, RankGrows
    <2>3. Rank(places, Earlier(list), i) \in Int /\ Rank(places, Earlier(list), j) \in Int
      BY <1>1, RankRange
    <2> QED BY <2>2, <2>3 DEF PlaceIn
  <1>4. ASSUME NEW k \in DOMAIN F PROVE \E i \in places : PlaceIn(list, places, i) = k
    <2>1. PICK i \in places : Rank(places, Earlier(list), i) = k - 1
      BY <1>2
    <2> QED BY <1>2, <2>1 DEF PlaceIn
  <1>5. \A i \in places : PlaceIn(list, places, i) \in DOMAIN F /\ F[PlaceIn(list, places, i)] = list[i]
    BY <1>2 DEF PlaceIn
  <1> QED BY <1>3, <1>4, <1>5

LEMMA SectionsRemoved ==
    ASSUME NEW lines \in Seq(LineRec), NEW ids, TomlGood(lines, ids), NEW last \in Nat, NumberedTo(lines, last)
    PROVE  /\ RemoveSections(lines) \in Seq(LineRec)
           /\ NumberedTo(RemoveSections(lines), last)
           /\ \A k \in DOMAIN RemoveSections(lines) : OthersLine(RemoveSections(lines)[k])
           /\ \A n \in ids : \E k \in DOMAIN RemoveSections(lines) : RemoveSections(lines)[k].id = n
           /\ \A k \in DOMAIN RemoveSections(lines) :
                 HeadOf(RemoveSections(lines), k, ids) => TableWhole(RemoveSections(lines), k)
  <1> PICK places : places = {i \in DOMAIN lines : ~Skipped(lines, i)}
    OBVIOUS
  <1> PICK rest : rest = RemoveSections(lines)
    OBVIOUS
  <1>1. rest = Filtered(lines, places) /\ places \in SUBSET DOMAIN lines
    BY DEF RemoveSections
  <1>2. rest \in Seq(LineRec)
    BY <1>1, FilteredIsSeq
  <1>3. /\ \A i \in places : PlaceIn(lines, places, i) \in DOMAIN rest /\ rest[PlaceIn(lines, places, i)] = lines[i]
        /\ \A i, j \in places : i < j => PlaceIn(lines, places, i) < PlaceIn(lines, places, j)
        /\ \A k \in DOMAIN rest : \E i \in places : PlaceIn(lines, places, i) = k
    BY <1>1, FilteredKeeps
  <1>4. ASSUME NEW k \in DOMAIN rest PROVE OthersLine(rest[k]) /\ rest[k].id <= last
    <2>1. PICK i \in places : PlaceIn(lines, places, i) = k
      BY <1>3
    <2>2. rest[k] = lines[i] /\ i \in DOMAIN lines /\ ~Skipped(lines, i)
      BY <1>3, <2>1
    <2> QED BY <2>2 DEF TomlGood, OursSkipped, NumberedTo
  <1>5. ASSUME NEW n \in ids PROVE \E k \in DOMAIN rest : rest[k].id = n
    <2>1. PICK i \in DOMAIN lines : lines[i].id = n /\ ~Skipped(lines, i)
      BY DEF TomlGood, Keeps
    <2> QED BY <1>3, <2>1
  <1>6. ASSUME NEW k \in DOMAIN rest, HeadOf(rest, k, ids) PROVE TableWhole(rest, k)
    <2>1. PICK i \in places : PlaceIn(lines, places, i) = k
      BY <1>3
    <2>2. rest[k] = lines[i] /\ i \in DOMAIN lines /\ ~Skipped(lines, i) /\ i \in Nat
      BY <1>3, <2>1
    <2>3. i < Len(lines) /\ lines[i + 1] = [lines[i] EXCEPT !.is = "line"]
      BY <1>6, <2>2 DEF TomlGood, HeadOf, TableWhole
    <2>4. lines[i].is = "head" /\ lines[i + 1].is = "line" /\ i + 1 \in DOMAIN lines
      <3>1. lines[i] \in LineRec /\ i + 1 \in DOMAIN lines
        BY <2>2, <2>3
      <3> QED BY <1>6, <2>2, <2>3, <3>1 DEF HeadOf, LineRec
    <2>5. ~IsOpenVikingSection(lines[i])
      BY <1>6, <2>2 DEF HeadOf, OthersLine, IsOpenVikingSection
    <2>6. ~Skipped(lines, i + 1)
      <3> SUFFICES ASSUME NEW h \in 1 .. (i + 1), lines[h].is = "head", IsOpenVikingSection(lines[h]),
                          \A between \in h + 1 .. i + 1 : lines[between].is # "head"
                   PROVE  FALSE
        BY DEF Skipped
      <3>1. h # i + 1 /\ h # i
        BY <2>4, <2>5
      <3>2. i \in h + 1 .. i + 1
        BY <2>2, <3>1
      <3> QED BY <2>4, <3>2
    <2>7. i + 1 \in places
      BY <2>4, <2>6
    <2>8. PlaceIn(lines, places, i) < PlaceIn(lines, places, i + 1) /\ PlaceIn(lines, places, i + 1) \in DOMAIN rest
      BY <1>3, <2>2, <2>7
    <2>9. PlaceIn(lines, places, i + 1) = k + 1
      <3> SUFFICES ASSUME PlaceIn(lines, places, i + 1) # k + 1 PROVE FALSE
        OBVIOUS
      <3>1. k + 1 \in DOMAIN rest /\ k + 1 < PlaceIn(lines, places, i + 1) /\ k \in Nat
        BY <1>2, <2>1, <2>8
      <3>2. PICK j \in places : PlaceIn(lines, places, j) = k + 1
        BY <1>3, <3>1
      <3>3. j \in Nat /\ PlaceIn(lines, places, j) \in Nat /\ PlaceIn(lines, places, i) \in Nat /\ PlaceIn(lines, places, i + 1) \in Nat /\ j # i /\ j # i + 1
        BY <1>2, <1>3, <2>1, <2>7, <3>1, <3>2
      <3>4. CASE j < i
        BY <1>3, <2>1, <3>1, <3>2, <3>3, <3>4
      <3>5. CASE j > i + 1
        BY <1>3, <2>2, <2>7, <3>1, <3>2, <3>3, <3>5
      <3> QED BY <2>2, <3>3, <3>4, <3>5
    <2>10. rest[k + 1] = lines[i + 1]
      BY <1>3, <2>7, <2>9
    <2>11. k < Len(rest)
      BY <1>2, <2>8, <2>9
    <2> QED BY <2>2, <2>3, <2>10, <2>11 DEF TableWhole
  <1> QED BY <1>2, <1>4, <1>5, <1>6 DEF NumberedTo
LEMMA TomlUpserted ==
    ASSUME NEW lines \in Seq(LineRec), NEW ids, TomlGood(lines, ids), NEW last \in Nat, NumberedTo(lines, last),
           NEW key \in Nat
    PROVE  /\ UpsertToml(lines, key) \in Seq(LineRec) /\ TomlGood(UpsertToml(lines, key), ids)
           /\ NumberedTo(UpsertToml(lines, key), last) /\ OwnTable(UpsertToml(lines, key), key)
  <1> PICK rest : rest = RemoveSections(lines)
    OBVIOUS
  <1> PICK head, line : head = Line("head", "own", key) /\ line = Line("line", "own", key)
    OBVIOUS
  <1> PICK new : new = UpsertToml(lines, key)
    OBVIOUS
  <1>1. /\ rest \in Seq(LineRec) /\ NumberedTo(rest, last) /\ \A k \in DOMAIN rest : OthersLine(rest[k])
        /\ \A n \in ids : \E k \in DOMAIN rest : rest[k].id = n
        /\ \A k \in DOMAIN rest : HeadOf(rest, k, ids) => TableWhole(rest, k)
    BY SectionsRemoved
  <1>2. /\ head \in LineRec /\ head.is = "head" /\ head.of = "own" /\ head.id = key
        /\ line \in LineRec /\ line.is = "line" /\ line.of = "own" /\ line.id = key
    BY DEF Line, LineRec, Tables
  <1>3. PICK n \in Nat : n = Len(rest)
    BY <1>1
  <1>4. /\ new \in Seq(LineRec) /\ Len(new) = n + 2 /\ new[n + 1] = head /\ new[n + 2] = line
        /\ \A k \in 1 .. n : new[k] = rest[k]
        /\ DOMAIN rest = 1 .. n /\ DOMAIN new = 1 .. (n + 2)
    BY <1>1, <1>2, <1>3 DEF UpsertToml
  <1>5. ASSUME NEW k \in 1 .. n PROVE OthersLine(new[k]) /\ ~Skipped(new, k)
    <2>1. \A h \in 1 .. n : OthersLine(new[h])
      BY <1>1, <1>4
    <2>2. \A h \in 1 .. n : ~IsOpenVikingSection(new[h])
      BY <2>1 DEF OthersLine, IsOpenVikingSection
    <2> QED BY <2>1, <2>2 DEF Skipped
  <1>6. Skipped(new, n + 1) /\ Skipped(new, n + 2)
    <2>1. IsOpenVikingSection(new[n + 1]) /\ new[n + 1].is = "head" /\ new[n + 2].is # "head"
      BY <1>2, <1>4 DEF IsOpenVikingSection
    <2>2. n + 1 \in 1 .. (n + 1) /\ n + 1 \in 1 .. (n + 2)
      OBVIOUS
    <2>3. (\A b \in (n + 1) + 1 .. n + 1 : FALSE) /\ \A b \in (n + 1) + 1 .. n + 2 : b = n + 2
      OBVIOUS
    <2> QED BY <2>1, <2>2, <2>3 DEF Skipped
  <1>7. OursSkipped(new)
    <2>1. ASSUME NEW k \in DOMAIN new, ~OthersLine(new[k]) PROVE k = n + 1 \/ k = n + 2
      BY <1>4, <1>5, <2>1
    <2> QED BY <1>6, <2>1 DEF OursSkipped
  <1>8. ASSUME NEW i \in ids PROVE Keeps(new, i)
    <2>1. PICK k \in 1 .. n : rest[k].id = i
      BY <1>1, <1>4
    <2> QED BY <1>4, <1>5, <2>1 DEF Keeps
  <1>9. ASSUME NEW k \in DOMAIN new, HeadOf(new, k, ids) PROVE TableWhole(new, k)
    <2>1. k \in 1 .. n
      BY <1>2, <1>4, <1>9 DEF HeadOf, OthersLine
    <2>2. TableWhole(rest, k)
      BY <1>1, <1>4, <1>9, <2>1 DEF HeadOf
    <2>3. k < n /\ rest[k + 1] = [rest[k] EXCEPT !.is = "line"]
      BY <1>3, <2>2 DEF TableWhole
    <2>4. k + 1 \in 1 .. n
      BY <2>1, <2>3
    <2>5. new[k] = rest[k] /\ new[k + 1] = rest[k + 1] /\ k < Len(new)
      BY <1>4, <2>1, <2>3, <2>4
    <2> QED BY <2>3, <2>5 DEF TableWhole
  <1>10. NumberedTo(new, last)
    BY <1>1, <1>2, <1>4 DEF NumberedTo, OthersLine
  <1>11. OwnAt(new, n + 1, key)
    <2>1. ASSUME NEW k \in 1 .. n PROVE new[k].of \notin {"own", "legacy", "sub"}
      BY <1>5 DEF OthersLine
    <2>2. ASSUME NEW k \in DOMAIN new
          PROVE  /\ new[k].of \notin {"legacy", "sub"} /\ (new[k].of = "own" => new[k].id = key)
                 /\ new[k].of = "own" <=> k \in {n + 1, n + 2}
      <3>1. k \in 1 .. n \/ k = n + 1 \/ k = n + 2
        BY <1>4
      <3> QED BY <1>2, <1>4, <2>1, <3>1
    <2>3. n + 1 \in 1 .. (Len(new) - 1) /\ n + 2 = (n + 1) + 1
      BY <1>4
    <2> QED BY <2>2, <2>3 DEF OwnAt
  <1> QED BY <1>4, <1>7, <1>8, <1>9, <1>10, <1>11 DEF TomlGood, OwnTable

\* A kill while it was written: a beginning of it, which nobody claims.
LEMMA TomlCut ==
    ASSUME NEW lines \in Seq(LineRec), NEW ids, TomlGood(lines, ids), NEW last \in Nat, NumberedTo(lines, last),
           NEW n \in 0 .. Len(lines)
    PROVE  /\ SubSeq(lines, 1, n) \in Seq(LineRec) /\ TomlGood(SubSeq(lines, 1, n), {})
           /\ NumberedTo(SubSeq(lines, 1, n), last)
  <1> PICK cut : cut = SubSeq(lines, 1, n)
    OBVIOUS
  <1>1. cut \in Seq(LineRec) /\ Len(cut) = n /\ \A i \in 1 .. n : cut[i] = lines[i]
    OBVIOUS
  <1>2. ASSUME NEW i \in 1 .. n, Skipped(lines, i) PROVE Skipped(cut, i)
    <2>1. PICK h \in 1 .. i : /\ lines[h].is = "head" /\ IsOpenVikingSection(lines[h])
                              /\ \A between \in h + 1 .. i : lines[between].is # "head"
      BY <1>2 DEF Skipped
    <2>2. cut[h] = lines[h] /\ \A between \in h + 1 .. i : cut[between] = lines[between]
      BY <1>1
    <2> QED BY <2>1, <2>2 DEF Skipped
  <1>3. OursSkipped(cut) /\ NumberedTo(cut, last)
    BY <1>1, <1>2 DEF TomlGood, OursSkipped, NumberedTo
  <1>4. \A i \in DOMAIN cut : ~HeadOf(cut, i, {})
    BY DEF HeadOf
  <1> QED BY <1>1, <1>3, <1>4 DEF TomlGood

LEMMA SkippedBefore ==
    ASSUME NEW lines, NEW new, NEW n \in Nat, \A i \in 1 .. n : new[i] = lines[i], NEW i \in 1 .. n
    PROVE  Skipped(new, i) <=> Skipped(lines, i)
  <1>1. \A h \in 1 .. i : new[h] = lines[h]
    OBVIOUS
  <1>2. \A h \in 1 .. i : \A between \in h + 1 .. i : new[between] = lines[between]
    OBVIOUS
  <1> QED BY <1>1, <1>2 DEF Skipped
LEMMA SkippedBehind ==
    ASSUME NEW lines, NEW new, NEW n \in Nat, \A i \in 1 .. n : new[i + 1] = lines[i], new[1].is # "head",
           NEW i \in 1 .. n
    PROVE  Skipped(new, i + 1) <=> Skipped(lines, i)
  <1>1. ASSUME Skipped(lines, i) PROVE Skipped(new, i + 1)
    <2>1. PICK h \in 1 .. i : /\ lines[h].is = "head" /\ IsOpenVikingSection(lines[h])
                              /\ \A between \in h + 1 .. i : lines[between].is # "head"
      BY <1>1 DEF Skipped
    <2>2. h + 1 \in 1 .. (i + 1) /\ new[h + 1] = lines[h]
      OBVIOUS
    <2>3. ASSUME NEW between \in (h + 1) + 1 .. i + 1 PROVE new[between].is # "head"
      <3>1. between - 1 \in h + 1 .. i /\ between - 1 \in 1 .. n /\ (between - 1) + 1 = between
        OBVIOUS
      <3> QED BY <2>1, <3>1
    <2> QED BY <2>1, <2>2, <2>3 DEF Skipped
  <1>2. ASSUME Skipped(new, i + 1) PROVE Skipped(lines, i)
    <2>1. PICK h \in 1 .. (i + 1) : /\ new[h].is = "head" /\ IsOpenVikingSection(new[h])
                                    /\ \A between \in h + 1 .. i + 1 : new[between].is # "head"
      BY <1>2 DEF Skipped
    <2>2. h # 1
      BY <2>1
    <2>3. h - 1 \in 1 .. i /\ h - 1 \in 1 .. n /\ (h - 1) + 1 = h
      BY <2>2
    <2>4. ASSUME NEW between \in (h - 1) + 1 .. i PROVE lines[between].is # "head"
      <3>1. between + 1 \in h + 1 .. i + 1 /\ between \in 1 .. n
        OBVIOUS
      <3> QED BY <2>1, <3>1
    <2>5. new[h] = lines[h - 1]
      BY <2>3
    <2> QED BY <2>1, <2>3, <2>4, <2>5 DEF Skipped
  <1> QED BY <1>1, <1>2

LEMMA OwnTableStays ==
    ASSUME NEW lines \in Seq(LineRec), NEW new \in Seq(LineRec), Len(new) >= Len(lines),
           \A i \in 1 .. Len(lines) : new[i] = lines[i],
           \A i \in Len(lines) + 1 .. Len(new) : OthersLine(new[i]),
           NEW key, OwnTable(lines, key)
    PROVE  OwnTable(new, key)
  <1>1. PICK at \in Nat : OwnAt(lines, at, key)
    BY DEF OwnTable
  <1>2. PICK n \in Nat : n = Len(lines)
    OBVIOUS
  <1>3. ASSUME NEW i \in DOMAIN new
        PROVE  /\ new[i].of \notin {"legacy", "sub"} /\ (new[i].of = "own" => new[i].id = key)
               /\ new[i].of = "own" <=> i \in {at, at + 1}
    <2>1. i \in 1 .. n \/ i \in n + 1 .. Len(new)
      BY <1>2
    <2>2. CASE i \in 1 .. n
      BY <1>1, <1>2, <2>2 DEF OwnAt
    <2>3. CASE i \in n + 1 .. Len(new)
      <3>1. new[i].of \in {"user", "near"} /\ i # at /\ i # at + 1
        BY <1>1, <1>2, <2>3 DEF OwnAt, OthersLine
      <3> QED BY <3>1
    <2> QED BY <2>1, <2>2, <2>3
  <1>4. at \in 1 .. (Len(new) - 1)
    BY <1>1, <1>2 DEF OwnAt
  <1> QED BY <1>1, <1>3, <1>4 DEF OwnAt, OwnTable

\* What is put behind a sequence leaves the sequence in front as it was.
LEMMA JoinedLines ==
    ASSUME NEW s \in Seq(LineRec), NEW t \in Seq(LineRec)
    PROVE  /\ s \o t \in Seq(LineRec) /\ Len(s \o t) = Len(s) + Len(t)
           /\ \A i \in 1 .. Len(s) : (s \o t)[i] = s[i]
           /\ \A i \in 1 .. Len(t) : (s \o t)[Len(s) + i] = t[i]
  <1>1. s \o t \in Seq(LineRec) /\ Len(s \o t) = Len(s) + Len(t)
    OBVIOUS
  <1>2. \A i \in 1 .. Len(s) : (s \o t)[i] = s[i]
    OBVIOUS
  <1>3. \A i \in 1 .. Len(t) : (s \o t)[Len(s) + i] = t[i]
    OBVIOUS
  <1> QED BY <1>1, <1>2, <1>3


OwnStays(lines, new) == \A key : OwnTable(lines, key) => OwnTable(new, key)
TheirTables == {"user", "near"}
WithTable(lines, of, n) == lines \o <<Line("head", of, n), Line("line", of, n)>>
LEMMA TableAdded ==
    ASSUME NEW lines \in Seq(LineRec), NEW ids, TomlGood(lines, ids), NEW last \in Nat, NumberedTo(lines, last),
           NEW of \in TheirTables, NEW new,
           new = WithTable(lines, of, last + 1)
    PROVE  /\ new \in Seq(LineRec) /\ TomlGood(new, ids \cup {last + 1}) /\ NumberedTo(new, last + 1)
           /\ OwnStays(lines, new)
  <1>a. of \in {"user", "near"}
    BY DEF TheirTables
  <1>b. PICK head, line : head = Line("head", of, last + 1) /\ line = Line("line", of, last + 1)
    OBVIOUS
  <1>2. /\ head \in LineRec /\ head.is = "head" /\ head.of = of /\ head.id = last + 1
        /\ line \in LineRec /\ line.is = "line" /\ line = [head EXCEPT !.is = "line"]
        /\ line.of = of /\ line.id = last + 1
    BY <1>a, <1>b DEF Line, LineRec, Tables
  <1>3. PICK n \in Nat : n = Len(lines)
    OBVIOUS
  <1>4. /\ new \in Seq(LineRec) /\ Len(new) = n + 2 /\ new[n + 1] = head /\ new[n + 2] = line
        /\ \A k \in 1 .. n : new[k] = lines[k]
        /\ DOMAIN lines = 1 .. n /\ DOMAIN new = 1 .. (n + 2)
    <2>1. head \in LineRec /\ line \in LineRec
      BY <1>2
    <2>2. PICK two : two = <<head, line>>
      OBVIOUS
    <2>3. two \in Seq(LineRec) /\ Len(two) = 2 /\ two[1] = head /\ two[2] = line
      BY <2>1, <2>2
    <2>4. new = lines \o two
      BY <1>b, <2>2 DEF WithTable
    <2>5. /\ lines \o two \in Seq(LineRec) /\ Len(lines \o two) = Len(lines) + Len(two)
          /\ \A i \in 1 .. Len(lines) : (lines \o two)[i] = lines[i]
          /\ \A i \in 1 .. Len(two) : (lines \o two)[Len(lines) + i] = two[i]
      BY <2>3, JoinedLines, Zenon
    <2>6. /\ new \in Seq(LineRec) /\ Len(new) = n + 2
          /\ \A i \in 1 .. n : new[i] = lines[i]
          /\ \A i \in 1 .. 2 : new[n + i] = two[i]
      BY <1>3, <2>3, <2>4, <2>5, Zenon
    <2>7. new[n + 1] = head /\ new[n + 2] = line
      <3>1. 1 \in 1 .. 2 /\ 2 \in 1 .. 2
        OBVIOUS
      <3> QED BY <2>3, <2>6, <3>1, Zenon
    <2>8. DOMAIN lines = 1 .. n /\ DOMAIN new = 1 .. (n + 2)
      BY <1>3, <2>6
    <2> QED BY <2>6, <2>7, <2>8
  <1>13. \A k \in 1 .. n : lines[k] \in LineRec /\ lines[k].id \in Nat
    <2>1. \A k \in 1 .. n : lines[k] \in LineRec
      BY <1>3
    <2> QED BY <2>1 DEF LineRec
  <1>5. ASSUME NEW k \in DOMAIN new PROVE k \in 1 .. n \/ k = n + 1 \/ k = n + 2
    BY <1>4
  <1>6. \A k \in 1 .. n : Skipped(new, k) <=> Skipped(lines, k)
    BY <1>4, SkippedBefore
  <1>7. OthersLine(new[n + 1]) /\ OthersLine(new[n + 2]) /\ ~Skipped(new, n + 1)
    <2>1. OthersLine(new[n + 1]) /\ OthersLine(new[n + 2]) /\ ~IsOpenVikingSection(new[n + 1])
      BY <1>a, <1>2, <1>4 DEF OthersLine, IsOpenVikingSection
    <2>2. ASSUME NEW h \in 1 .. (n + 1), h # n + 1 PROVE n + 1 \in h + 1 .. n + 1
      BY <2>2
    <2>3. new[n + 1].is = "head"
      BY <1>2, <1>4
    <2> QED BY <2>1, <2>2, <2>3 DEF Skipped
  <1>8. OursSkipped(new)
    BY <1>4, <1>5, <1>6, <1>7 DEF TomlGood, OursSkipped
  <1>9. ASSUME NEW i \in ids \cup {last + 1} PROVE Keeps(new, i)
    <2>1. CASE i \in ids
      <3>1. PICK k \in 1 .. n : lines[k].id = i /\ OthersLine(lines[k]) /\ ~Skipped(lines, k)
        BY <1>4, <2>1 DEF TomlGood, Keeps
      <3>2. new[k] = lines[k] /\ k \in DOMAIN new
        BY <1>4
      <3>3. ~Skipped(new, k)
        BY <1>6, <3>1, Zenon
      <3> QED BY <3>1, <3>2, <3>3 DEF Keeps
    <2>2. CASE i = last + 1
      <3>1. n + 1 \in DOMAIN new /\ new[n + 1].id = i
        BY <1>2, <1>4, <2>2
      <3> QED BY <1>7, <3>1 DEF Keeps
    <2> QED BY <2>1, <2>2
  <1>10. ASSUME NEW k \in DOMAIN new, HeadOf(new, k, ids \cup {last + 1}) PROVE TableWhole(new, k)
    <2>1. CASE k \in 1 .. n
      <3>1. lines[k].id <= last /\ lines[k].id \in Nat
        BY <1>4, <1>10, <1>13, <2>1 DEF HeadOf, NumberedTo
      <3>2. HeadOf(lines, k, ids)
        BY <1>4, <1>10, <2>1, <3>1 DEF HeadOf
      <3>3. k < n /\ lines[k + 1] = [lines[k] EXCEPT !.is = "line"]
        BY <1>3, <1>4, <2>1, <3>2 DEF TomlGood, TableWhole
      <3>4. new[k] = lines[k] /\ new[k + 1] = lines[k + 1] /\ k < Len(new)
        BY <1>4, <2>1, <3>3
      <3> QED BY <3>3, <3>4 DEF TableWhole
    <2>2. CASE k = n + 1
      <3>1. k < Len(new) /\ new[k + 1] = line /\ new[k] = head
        BY <1>4, <2>2
      <3> QED BY <1>2, <3>1 DEF TableWhole
    <2>3. CASE k = n + 2
      BY <1>2, <1>4, <1>10, <2>3 DEF HeadOf
    <2> QED BY <1>5, <2>1, <2>2, <2>3
  <1>11. NumberedTo(new, last + 1)
    <2>1. ASSUME NEW k \in 1 .. n, OthersLine(new[k]) PROVE new[k].id <= last + 1
      <3>1. lines[k].id <= last /\ lines[k].id \in Nat
        BY <1>4, <1>13, <2>1 DEF NumberedTo
      <3> QED BY <1>4, <3>1
    <2>2. new[n + 1].id <= last + 1 /\ new[n + 2].id <= last + 1
      <3>1. new[n + 1].id = last + 1 /\ new[n + 2].id = last + 1
        BY <1>2, <1>4
      <3> QED BY <3>1
    <2> QED BY <1>5, <2>1, <2>2 DEF NumberedTo
  <1>12. \A key : OwnTable(lines, key) => OwnTable(new, key)
    <2>1. \A i \in n + 1 .. n + 2 : i = n + 1 \/ i = n + 2
      OBVIOUS
    <2>2. \A i \in n + 1 .. n + 2 : OthersLine(new[i])
      BY <1>7, <2>1
    <2>3. Len(new) >= Len(lines) /\ Len(lines) = n /\ Len(new) = n + 2 /\ new \in Seq(LineRec)
      BY <1>3, <1>4
    <2> QED BY <1>4, <2>2, <2>3, OwnTableStays
  <1> QED BY <1>4, <1>8, <1>9, <1>10, <1>11, <1>12 DEF TomlGood, OwnStays

LEMMA LineAtEnd ==
    ASSUME NEW lines \in Seq(LineRec), NEW ids, TomlGood(lines, ids), NEW last \in Nat, NumberedTo(lines, last),
           NEW new, new = Append(lines, Line("line", "user", last + 1))
    PROVE  /\ new \in Seq(LineRec) /\ TomlGood(new, ids) /\ NumberedTo(new, last + 1)
           /\ \A key : OwnTable(lines, key) => OwnTable(new, key)
  <1> PICK line : line = Line("line", "user", last + 1)
    OBVIOUS
  <1>2. line \in LineRec /\ line.is = "line" /\ line.of = "user" /\ line.id = last + 1
    BY DEF Line, LineRec, Tables
  <1>3. PICK n \in Nat : n = Len(lines)
    OBVIOUS
  <1>4. /\ new \in Seq(LineRec) /\ Len(new) = n + 1 /\ new[n + 1] = line
        /\ \A k \in 1 .. n : new[k] = lines[k]
        /\ DOMAIN lines = 1 .. n /\ DOMAIN new = 1 .. (n + 1)
    BY <1>2, <1>3
  <1>5. ASSUME NEW k \in DOMAIN new PROVE k \in 1 .. n \/ k = n + 1
    BY <1>4
  <1>6. \A k \in 1 .. n : Skipped(new, k) <=> Skipped(lines, k)
    BY <1>4, SkippedBefore
  <1>7. OthersLine(new[n + 1])
    BY <1>2, <1>4 DEF OthersLine
  <1>8. OursSkipped(new)
    BY <1>4, <1>5, <1>6, <1>7 DEF TomlGood, OursSkipped
  <1>9. ASSUME NEW i \in ids PROVE Keeps(new, i)
    <2>1. PICK k \in 1 .. n : lines[k].id = i /\ OthersLine(lines[k]) /\ ~Skipped(lines, k)
      BY <1>4 DEF TomlGood, Keeps
    <2>2. new[k] = lines[k] /\ k \in DOMAIN new
      BY <1>4
    <2>3. ~Skipped(new, k)
      BY <1>6, <2>1, Zenon
    <2> QED BY <2>1, <2>2, <2>3 DEF Keeps
  <1>10. ASSUME NEW k \in DOMAIN new, HeadOf(new, k, ids) PROVE TableWhole(new, k)
    <2>1. k \in 1 .. n
      BY <1>2, <1>4, <1>5, <1>10 DEF HeadOf
    <2>2. HeadOf(lines, k, ids)
      BY <1>4, <1>10, <2>1 DEF HeadOf
    <2>3. k < n /\ lines[k + 1] = [lines[k] EXCEPT !.is = "line"]
      BY <1>3, <1>4, <2>1, <2>2 DEF TomlGood, TableWhole
    <2>4. new[k] = lines[k] /\ new[k + 1] = lines[k + 1] /\ k < Len(new)
      BY <1>4, <2>1, <2>3
    <2> QED BY <2>3, <2>4 DEF TableWhole
  <1>11. NumberedTo(new, last + 1)
    <2>1. \A k \in 1 .. n : lines[k] \in LineRec
      BY <1>3
    <2>2. ASSUME NEW k \in 1 .. n, OthersLine(new[k]) PROVE new[k].id <= last + 1
      <3>1. lines[k].id <= last /\ lines[k].id \in Nat
        BY <1>4, <2>1, <2>2 DEF NumberedTo, LineRec
      <3> QED BY <1>4, <3>1
    <2>3. new[n + 1].id <= last + 1
      BY <1>2, <1>4
    <2> QED BY <1>5, <2>2, <2>3 DEF NumberedTo
  <1>12. ASSUME NEW key, OwnTable(lines, key) PROVE OwnTable(new, key)
    <2>1. Len(new) >= Len(lines) /\ \A i \in 1 .. Len(lines) : new[i] = lines[i]
      BY <1>3, <1>4
    <2>2. ASSUME NEW i \in Len(lines) + 1 .. Len(new) PROVE OthersLine(new[i])
      <3>1. i = n + 1
        BY <1>3, <1>4
      <3> QED BY <1>7, <3>1
    <2> QED BY <1>4, <1>12, <2>1, <2>2, OwnTableStays
  <1> QED BY <1>4, <1>8, <1>9, <1>10, <1>11, <1>12 DEF TomlGood

LEMMA LineOnTop ==
    ASSUME NEW lines \in Seq(LineRec), NEW ids, TomlGood(lines, ids), NEW last \in Nat, NumberedTo(lines, last),
           NEW new, new = <<Line("line", "user", last + 1)>> \o lines
    PROVE  /\ new \in Seq(LineRec) /\ TomlGood(new, ids \cup {last + 1}) /\ NumberedTo(new, last + 1)
           /\ \A key : OwnTable(lines, key) => OwnTable(new, key)
  <1> PICK line : line = Line("line", "user", last + 1)
    OBVIOUS
  <1>2. line \in LineRec /\ line.is = "line" /\ line.of = "user" /\ line.id = last + 1
    BY DEF Line, LineRec, Tables
  <1>3. PICK n \in Nat : n = Len(lines)
    OBVIOUS
  <1>4. /\ new \in Seq(LineRec) /\ Len(new) = n + 1 /\ new[1] = line
        /\ \A k \in 1 .. n : new[k + 1] = lines[k]
        /\ DOMAIN lines = 1 .. n /\ DOMAIN new = 1 .. (n + 1)
    BY <1>2, <1>3
  <1>5. ASSUME NEW k \in DOMAIN new PROVE k = 1 \/ \E j \in 1 .. n : k = j + 1
    <2>1. CASE k # 1
      <3>1. k - 1 \in 1 .. n /\ k = (k - 1) + 1
        BY <1>4, <2>1
      <3> QED BY <3>1
    <2> QED BY <2>1
  <1>6. \A k \in 1 .. n : Skipped(new, k + 1) <=> Skipped(lines, k)
    <2>1. new[1].is # "head"
      BY <1>2, <1>4
    <2> QED BY <1>4, <2>1, SkippedBehind
  <1>7. OthersLine(new[1]) /\ ~Skipped(new, 1)
    <2>1. \A h \in 1 .. 1 : new[h].is # "head"
      BY <1>2, <1>4
    <2> QED BY <1>2, <1>4, <2>1 DEF OthersLine, Skipped
  <1>13. \A k \in 1 .. n : lines[k] \in LineRec /\ lines[k].id \in Nat
    <2>1. \A k \in 1 .. n : lines[k] \in LineRec
      BY <1>3
    <2> QED BY <2>1 DEF LineRec
  <1>8. OursSkipped(new)
    <2>1. ASSUME NEW k \in DOMAIN new, ~OthersLine(new[k]) PROVE Skipped(new, k)
      <3>1. PICK j \in 1 .. n : k = j + 1
        BY <1>5, <1>7, <2>1
      <3>2. Skipped(lines, j)
        BY <1>4, <2>1, <3>1 DEF TomlGood, OursSkipped
      <3> QED BY <1>6, <3>1, <3>2
    <2> QED BY <2>1 DEF OursSkipped
  <1>9. ASSUME NEW i \in ids \cup {last + 1} PROVE Keeps(new, i)
    <2>1. CASE i \in ids
      <3>1. PICK k \in 1 .. n : lines[k].id = i /\ OthersLine(lines[k]) /\ ~Skipped(lines, k)
        BY <1>4, <2>1 DEF TomlGood, Keeps
      <3>2. new[k + 1] = lines[k] /\ k + 1 \in DOMAIN new
        BY <1>4
      <3>3. ~Skipped(new, k + 1)
        BY <1>6, <3>1, Zenon
      <3> QED BY <3>1, <3>2, <3>3 DEF Keeps
    <2>2. CASE i = last + 1
      <3>1. 1 \in DOMAIN new /\ new[1].id = i
        BY <1>2, <1>4, <2>2
      <3> QED BY <1>7, <3>1 DEF Keeps
    <2> QED BY <2>1, <2>2
  <1>10. ASSUME NEW k \in DOMAIN new, HeadOf(new, k, ids \cup {last + 1}) PROVE TableWhole(new, k)
    <2>1. PICK j \in 1 .. n : k = j + 1
      BY <1>2, <1>4, <1>5, <1>10 DEF HeadOf
    <2>2. lines[j].id <= last /\ lines[j].id \in Nat /\ new[k] = lines[j]
      BY <1>4, <1>10, <1>13, <2>1 DEF HeadOf, NumberedTo
    <2>3. HeadOf(lines, j, ids)
      BY <1>10, <2>2 DEF HeadOf
    <2>4. j < n /\ lines[j + 1] = [lines[j] EXCEPT !.is = "line"]
      BY <1>3, <1>4, <2>1, <2>3 DEF TomlGood, TableWhole
    <2>5. new[k + 1] = lines[j + 1] /\ k < Len(new)
      <3>1. j + 1 \in 1 .. n
        BY <2>4
      <3> QED BY <1>4, <2>1, <2>4, <3>1
    <2> QED BY <2>2, <2>4, <2>5 DEF TableWhole
  <1>11. NumberedTo(new, last + 1)
    <2>1. ASSUME NEW k \in 1 .. n, OthersLine(lines[k]) PROVE lines[k].id <= last + 1
      <3>1. lines[k].id <= last /\ lines[k].id \in Nat
        BY <1>4, <1>13, <2>1 DEF NumberedTo
      <3> QED BY <3>1
    <2>2. new[1].id <= last + 1
      BY <1>2, <1>4
    <2> QED BY <1>4, <1>5, <2>1, <2>2 DEF NumberedTo
  <1>12. ASSUME NEW key, OwnTable(lines, key) PROVE OwnTable(new, key)
    <2>1. PICK at \in Nat : OwnAt(lines, at, key)
      BY <1>12 DEF OwnTable
    <2>2. ASSUME NEW k \in DOMAIN new
          PROVE  /\ new[k].of \notin {"legacy", "sub"} /\ (new[k].of = "own" => new[k].id = key)
                 /\ new[k].of = "own" <=> k \in {at + 1, (at + 1) + 1}
      <3>1. CASE k = 1
        <4>1. at # 0
          BY <2>1 DEF OwnAt
        <4> QED BY <1>2, <1>4, <3>1, <4>1
      <3>2. CASE \E j \in 1 .. n : k = j + 1
        <4>1. PICK j \in 1 .. n : k = j + 1
          BY <3>2
        <4>2. /\ lines[j].of \notin {"legacy", "sub"} /\ (lines[j].of = "own" => lines[j].id = key)
              /\ lines[j].of = "own" <=> j \in {at, at + 1}
          BY <1>4, <2>1 DEF OwnAt
        <4>3. new[k] = lines[j]
          BY <1>4, <4>1
        <4> QED BY <4>1, <4>2, <4>3
      <3> QED BY <1>5, <3>1, <3>2
    <2>3. at + 1 \in 1 .. (Len(new) - 1)
      BY <1>3, <1>4, <2>1 DEF OwnAt
    <2>4. OwnAt(new, at + 1, key)
      BY <2>2, <2>3 DEF OwnAt
    <2> QED BY <2>4 DEF OwnTable
  <1> QED BY <1>4, <1>8, <1>9, <1>10, <1>11, <1>12 DEF TomlGood

\* AGENTS.md and CLAUDE.md.  A file whose markers nobody has touched is text around
\* one section, or has none; in another, what is still claimed stands before any mark.
PieceRec == [is : {"start", "end", "hint", "list", "text"}, id : Nat]
Marks == {"start", "end"}
SectionAt(pieces, s, rules) ==
    /\ s + 2 \in DOMAIN pieces
    /\ pieces[s] = Piece("start", 0) /\ pieces[s + 1] = Piece(rules, 0) /\ pieces[s + 2] = Piece("end", 0)
    /\ \A i \in DOMAIN pieces : i \in s .. s + 2 \/ pieces[i].is = "text"
RulesIn(pieces, rules) == \E s \in Nat \ {0} : SectionAt(pieces, s, rules)
AllText(pieces) == \A i \in DOMAIN pieces : pieces[i].is = "text"
Shaped(pieces) == AllText(pieces) \/ \E rules \in {"hint", "list"} : RulesIn(pieces, rules)
TextAt(pieces, i, n) == pieces[i].is = "text" /\ pieces[i].id = n
BeforeMarks(pieces, i) == \A j \in DOMAIN pieces : pieces[j].is \in Marks => i < j
AheadOf(pieces, n) == \E i \in DOMAIN pieces : TextAt(pieces, i, n) /\ BeforeMarks(pieces, i)

LEMMA InTexts ==
    ASSUME NEW pieces \in Seq(PieceRec), NEW n
    PROVE  n \in TextIds(pieces) <=> \E i \in DOMAIN pieces : TextAt(pieces, i, n)
  <1>1. ASSUME n \in TextIds(pieces) PROVE \E i \in DOMAIN pieces : TextAt(pieces, i, n)
    <2>1. PICK q \in Range(pieces) : q.is = "text" /\ q.id = n
      BY <1>1 DEF TextIds
    <2>2. PICK i \in DOMAIN pieces : pieces[i] = q
      BY <2>1 DEF Range
    <2> QED BY <2>1, <2>2 DEF TextAt
  <1>2. ASSUME NEW i \in DOMAIN pieces, TextAt(pieces, i, n) PROVE n \in TextIds(pieces)
    <2>1. pieces[i] \in Range(pieces)
      BY DEF Range
    <2> QED BY <1>2, <2>1 DEF TextIds, TextAt
  <1> QED BY <1>1, <1>2

LEMMA AheadIsThere ==
    ASSUME NEW pieces \in Seq(PieceRec), NEW n, AheadOf(pieces, n)
    PROVE  n \in TextIds(pieces)
  BY InTexts DEF AheadOf

LEMMA FirstPlace ==
    ASSUME NEW S, NEW list \in Seq(S), NEW at \in SUBSET DOMAIN list, at # {}
    PROVE  Min(at) \in at /\ \A i \in at : Min(at) <= i
  <1>1. StrictOrder(at, Earlier(list)) /\ IsFiniteSet(at)
    BY EarlierIsStrict
  <1>2. Cardinality(at) \in Nat /\ Cardinality(at) # 0
    BY <1>1, FS_CardinalityType, FS_EmptySet
  <1>3. PICK k : k = 1
    OBVIOUS
  <1>4. k \in 1 .. Cardinality(at) /\ k - 1 = 0
    BY <1>2, <1>3
  <1>5. PICK m \in at : Rank(at, Earlier(list), m) = k - 1
    BY <1>1, <1>4, EachRankTaken
  <1>6. ASSUME NEW i \in at PROVE m <= i
    <2> SUFFICES ASSUME ~(m <= i) PROVE FALSE
      OBVIOUS
    <2>1. m \in DOMAIN list /\ i \in DOMAIN list /\ m \in Nat /\ i \in Nat /\ i < m
      OBVIOUS
    <2>2. <<i, m>> \in Earlier(list)
      BY <2>1 DEF Earlier
    <2>3. Rank(at, Earlier(list), i) < Rank(at, Earlier(list), m)
      BY <1>1, <2>2, RankGrows
    <2>4. Rank(at, Earlier(list), i) \in 0 .. (Cardinality(at) - 1)
      BY <1>1, RankRange
    <2> QED BY <1>2, <1>4, <1>5, <2>3, <2>4
  <1> QED BY <1>6 DEF Min

\* The first marker of a kind, where there is one.
LEMMA PlaceIsFirst ==
    ASSUME NEW pieces \in Seq(PieceRec), NEW is
    PROVE  /\ PlaceOf(pieces, is) \in Nat
           /\ PlaceOf(pieces, is) = 0 => \A i \in DOMAIN pieces : pieces[i].is # is
           /\ PlaceOf(pieces, is) # 0 =>
                 /\ PlaceOf(pieces, is) \in DOMAIN pieces /\ pieces[PlaceOf(pieces, is)].is = is
                 /\ \A i \in DOMAIN pieces : pieces[i].is = is => PlaceOf(pieces, is) <= i
  <1>0. PICK at : at = {i \in DOMAIN pieces : pieces[i].is = is}
    OBVIOUS
  <1>1. at \in SUBSET DOMAIN pieces
    BY <1>0
  <1>2. CASE at = {}
    <2>1. PlaceOf(pieces, is) = 0
      BY <1>0, <1>2 DEF PlaceOf
    <2> QED BY <1>0, <1>2, <2>1
  <1>3. CASE at # {}
    <2>1. Min(at) \in at /\ \A i \in at : Min(at) <= i
      BY <1>1, <1>3, FirstPlace
    <2>2. PlaceOf(pieces, is) = Min(at)
      BY <1>0, <1>3 DEF PlaceOf
    <2>3. Min(at) \in DOMAIN pieces /\ Min(at) # 0 /\ Min(at) \in Nat
      BY <1>1, <2>1
    <2> QED BY <1>0, <2>1, <2>2, <2>3
  <1> QED BY <1>2, <1>3

LEMMA PieceParts ==
    ASSUME NEW is, NEW id
    PROVE  Piece(is, id).is = is /\ Piece(is, id).id = id
  BY DEF Piece

\* Where the section is, in a file that is shaped so.
LEMMA PlacesOfSection ==
    ASSUME NEW pieces \in Seq(PieceRec), NEW s \in Nat \ {0}, NEW rules \in {"hint", "list"}, SectionAt(pieces, s, rules)
    PROVE  /\ s \in DOMAIN pieces /\ PlaceOf(pieces, "start") = s /\ PlaceOf(pieces, "end") = s + 2
           /\ \A i \in DOMAIN pieces : pieces[i].is = "start" <=> i = s
           /\ \A i \in DOMAIN pieces : pieces[i].is = "end" <=> i = s + 2
           /\ pieces[s + 1].is = rules
  <1>1. s \in DOMAIN pieces /\ s + 1 \in DOMAIN pieces /\ s + 2 \in DOMAIN pieces
    BY DEF SectionAt
  <1>2. pieces[s].is = "start" /\ pieces[s + 1].is = rules /\ pieces[s + 2].is = "end"
    BY PieceParts DEF SectionAt
  <1>3. ASSUME NEW i \in DOMAIN pieces
        PROVE  (pieces[i].is = "start" <=> i = s) /\ (pieces[i].is = "end" <=> i = s + 2)
    <2>1. i \in s .. s + 2 \/ pieces[i].is = "text"
      BY DEF SectionAt
    <2>2. i = s \/ i = s + 1 \/ i = s + 2 \/ pieces[i].is = "text"
      BY <1>1, <2>1
    <2> QED BY <1>2, <2>2
  <1>4. PlaceOf(pieces, "start") = s
    BY <1>1, <1>2, <1>3, PlaceIsFirst
  <1>5. PlaceOf(pieces, "end") = s + 2
    BY <1>1, <1>2, <1>3, PlaceIsFirst
  <1> QED BY <1>1, <1>2, <1>3, <1>4, <1>5

\* upsertRulesSection: what was before the section, or all of it; the section; what
\* was behind it.
Spliced(pieces, a, b, rules, new) ==
    /\ new \in Seq(PieceRec) /\ Len(new) = a + 3 + (Len(pieces) - b)
    /\ \A i \in 1 .. a : new[i] = pieces[i]
    /\ new[a + 1] = Piece("start", 0) /\ new[a + 2] = Piece(rules, 0) /\ new[a + 3] = Piece("end", 0)
    /\ \A i \in b + 1 .. Len(pieces) : new[i - b + a + 3] = pieces[i]

LEMMA Joined ==
    ASSUME NEW s \in Seq(PieceRec), NEW t \in Seq(PieceRec)
    PROVE  /\ s \o t \in Seq(PieceRec) /\ Len(s \o t) = Len(s) + Len(t)
           /\ \A i \in 1 .. Len(s) : (s \o t)[i] = s[i]
           /\ \A i \in 1 .. Len(t) : (s \o t)[Len(s) + i] = t[i]
  <1>1. s \o t \in Seq(PieceRec) /\ Len(s \o t) = Len(s) + Len(t)
    OBVIOUS
  <1>2. \A i \in 1 .. Len(s) : (s \o t)[i] = s[i]
    OBVIOUS
  <1>3. \A i \in 1 .. Len(t) : (s \o t)[Len(s) + i] = t[i]
    OBVIOUS
  <1> QED BY <1>1, <1>2, <1>3

LEMMA SectionIs ==
    ASSUME NEW rules \in {"hint", "list"}
    PROVE  /\ Section(rules) \in Seq(PieceRec) /\ Len(Section(rules)) = 3
           /\ Section(rules)[1] = Piece("start", 0) /\ Section(rules)[2] = Piece(rules, 0)
           /\ Section(rules)[3] = Piece("end", 0)
  BY DEF Section, Piece, PieceRec

LEMMA SplicedIs ==
    ASSUME NEW pieces \in Seq(PieceRec), NEW rules \in {"hint", "list"}, NEW a \in Nat, NEW b \in Nat,
           a <= b, b <= Len(pieces), NEW new,
           new = SubSeq(pieces, 1, a) \o Section(rules) \o SubSeq(pieces, b + 1, Len(pieces))
    PROVE  Spliced(pieces, a, b, rules, new)
  <1> PICK n \in Nat : n = Len(pieces)
    OBVIOUS
  <1>0. PICK front, section, back :
         front = SubSeq(pieces, 1, a) /\ section = Section(rules) /\ back = SubSeq(pieces, b + 1, n)
    OBVIOUS
  <1>1. front \in Seq(PieceRec) /\ Len(front) = a /\ \A i \in 1 .. a : front[i] = pieces[i]
    BY <1>0
  <1>2. back \in Seq(PieceRec) /\ Len(back) = n - b /\ \A i \in 1 .. n - b : back[i] = pieces[i + b]
    BY <1>0
  <1>3. /\ section \in Seq(PieceRec) /\ Len(section) = 3
        /\ section[1] = Piece("start", 0) /\ section[2] = Piece(rules, 0) /\ section[3] = Piece("end", 0)
    BY <1>0, SectionIs
  <1>d. n - b \in Nat /\ a + 3 \in Nat /\ 3 \in Nat
    OBVIOUS
  <1>h. PICK head : head = front \o section
    OBVIOUS
  <1>4. /\ head \in Seq(PieceRec) /\ Len(head) = a + 3 /\ \A i \in 1 .. a : head[i] = front[i]
        /\ \A i \in 1 .. 3 : head[a + i] = section[i]
    <2>1. front \in Seq(PieceRec) /\ section \in Seq(PieceRec) /\ a = Len(front) /\ 3 = Len(section)
      BY <1>1, <1>3
    <2>2. /\ front \o section \in Seq(PieceRec) /\ Len(front \o section) = Len(front) + Len(section)
          /\ \A i \in 1 .. Len(front) : (front \o section)[i] = front[i]
          /\ \A i \in 1 .. Len(section) : (front \o section)[Len(front) + i] = section[i]
      BY <2>1, Joined, Zenon
    <2> QED BY <1>h, <2>1, <2>2
  <1>9. head[a + 1] = section[1] /\ head[a + 2] = section[2] /\ head[a + 3] = section[3]
    BY <1>4
  <1>5. new = head \o back
    BY <1>0, <1>h
  <1>6. /\ new \in Seq(PieceRec) /\ Len(new) = a + 3 + (n - b) /\ \A i \in 1 .. a + 3 : new[i] = head[i]
        /\ \A i \in 1 .. n - b : new[a + 3 + i] = back[i]
    <2>1. head \in Seq(PieceRec) /\ back \in Seq(PieceRec) /\ a + 3 = Len(head) /\ n - b = Len(back)
      BY <1>2, <1>4
    <2>2. /\ head \o back \in Seq(PieceRec) /\ Len(head \o back) = Len(head) + Len(back)
          /\ \A i \in 1 .. Len(head) : (head \o back)[i] = head[i]
          /\ \A i \in 1 .. Len(back) : (head \o back)[Len(head) + i] = back[i]
      BY <2>1, Joined, Zenon
    <2> QED BY <1>5, <2>1, <2>2
  <1>7. ASSUME NEW i \in b + 1 .. n PROVE new[i - b + a + 3] = pieces[i]
    <2>1. i - b \in 1 .. n - b /\ (i - b) + b = i /\ i - b + a + 3 = a + 3 + (i - b)
      BY <1>d
    <2>2. new[a + 3 + (i - b)] = back[i - b] /\ back[i - b] = pieces[(i - b) + b]
      BY <1>2, <1>6, <2>1
    <2> QED BY <2>1, <2>2
  <1>8. \A i \in 1 .. a : new[i] = pieces[i]
    <2>1. \A i \in 1 .. a : i \in 1 .. a + 3
      OBVIOUS
    <2> QED BY <1>1, <1>4, <1>6, <2>1
  <1>10. new[a + 1] = Piece("start", 0) /\ new[a + 2] = Piece(rules, 0) /\ new[a + 3] = Piece("end", 0)
    <2>1. a + 1 \in 1 .. a + 3 /\ a + 2 \in 1 .. a + 3 /\ a + 3 \in 1 .. a + 3
      OBVIOUS
    <2> QED BY <1>3, <1>6, <1>9, <2>1
  <1> QED BY <1>6, <1>7, <1>8, <1>10 DEF Spliced

LEMMA UpsertSplices ==
    ASSUME NEW pieces \in Seq(PieceRec), NEW rules \in {"hint", "list"}
    PROVE  \E a, b \in Nat :
              /\ a <= b /\ b <= Len(pieces) /\ Spliced(pieces, a, b, rules, UpsertSection(pieces, rules))
              /\ \/ a = Len(pieces)
                 \/ /\ PlaceOf(pieces, "start") # 0 /\ PlaceOf(pieces, "end") > PlaceOf(pieces, "start")
                    /\ a = PlaceOf(pieces, "start") - 1 /\ b = PlaceOf(pieces, "end")
              /\ a = Len(pieces) => PlaceOf(pieces, "start") = 0 \/ ~(PlaceOf(pieces, "end") > PlaceOf(pieces, "start"))
  <1> PICK n \in Nat : n = Len(pieces)
    OBVIOUS
  <1> PICK start \in Nat, end \in Nat : start = PlaceOf(pieces, "start") /\ end = PlaceOf(pieces, "end")
    BY PlaceIsFirst
  <1>1. (start # 0 => start \in 1 .. n) /\ (end # 0 => end \in 1 .. n)
    BY PlaceIsFirst
  <1>2. CASE start # 0 /\ end > start
    <2>1. UpsertSection(pieces, rules) = SubSeq(pieces, 1, start - 1) \o Section(rules) \o SubSeq(pieces, end + 1, n)
      BY <1>2 DEF UpsertSection
    <2>2. start - 1 \in Nat /\ start - 1 <= end /\ end <= n /\ start - 1 # n
      BY <1>1, <1>2
    <2>3. Spliced(pieces, start - 1, end, rules, UpsertSection(pieces, rules))
      BY <2>1, <2>2, SplicedIs
    <2> QED BY <1>2, <2>2, <2>3
  <1>3. CASE ~(start # 0 /\ end > start)
    <2>1. UpsertSection(pieces, rules) = pieces \o Section(rules)
      BY <1>3 DEF UpsertSection
    <2>2. Section(rules) \in Seq(PieceRec)
      BY SectionIs
    <2>3. SubSeq(pieces, 1, n) = pieces /\ SubSeq(pieces, n + 1, n) = <<>>
      OBVIOUS
    <2>4. (pieces \o Section(rules)) \o <<>> = pieces \o Section(rules)
      BY <2>2
    <2>5. UpsertSection(pieces, rules) = SubSeq(pieces, 1, n) \o Section(rules) \o SubSeq(pieces, n + 1, n)
      BY <2>1, <2>3, <2>4
    <2>7. n <= n /\ n <= Len(pieces)
      OBVIOUS
    <2>6. Spliced(pieces, n, n, rules, UpsertSection(pieces, rules))
      BY <2>5, <2>7, SplicedIs
    <2> QED BY <1>3, <2>6
  <1> QED BY <1>2, <1>3

PartOf(pieces, a, b, new, k) ==
    \/ k \in 1 .. a /\ new[k] = pieces[k] /\ k \in DOMAIN pieces
    \/ k \in {a + 1, a + 2, a + 3} /\ new[k].is # "text"
    \/ \E i \in b + 1 .. Len(pieces) : k = i - b + a + 3 /\ new[k] = pieces[i]
LEMMA SplicedParts ==
    ASSUME NEW pieces \in Seq(PieceRec), NEW a \in Nat, NEW b \in Nat, a <= b, b <= Len(pieces), NEW rules \in {"hint", "list"},
           NEW new, Spliced(pieces, a, b, rules, new), NEW k \in DOMAIN new
    PROVE  PartOf(pieces, a, b, new, k)
  <1>1. new \in Seq(PieceRec) /\ Len(new) = a + 3 + (Len(pieces) - b)
    BY DEF Spliced
  <1>2. PICK n \in Nat : n = Len(pieces)
    OBVIOUS
  <1>3. k \in 1 .. a \/ k = a + 1 \/ k = a + 2 \/ k = a + 3 \/ k \in a + 4 .. a + 3 + (n - b)
    BY <1>1, <1>2
  <1>4. ASSUME k \in 1 .. a PROVE k \in 1 .. a /\ new[k] = pieces[k] /\ k \in DOMAIN pieces
    BY <1>2, <1>4 DEF Spliced
  <1>5. ASSUME k \in a + 4 .. a + 3 + (n - b)
        PROVE  \E i \in b + 1 .. Len(pieces) : k = i - b + a + 3 /\ new[k] = pieces[i]
    <2>1. PICK i : i = k - a - 3 + b
      OBVIOUS
    <2>2. i \in b + 1 .. n /\ k = i - b + a + 3
      BY <1>2, <1>5, <2>1
    <2> QED BY <1>2, <2>2 DEF Spliced
  <1>6. ASSUME k = a + 1 \/ k = a + 2 \/ k = a + 3 PROVE new[k].is # "text"
    BY <1>6, PieceParts DEF Spliced
  <1> QED BY <1>3, <1>4, <1>5, <1>6 DEF PartOf

LEMMA SectionUpserted ==
    ASSUME NEW pieces \in Seq(PieceRec), NEW rules \in {"hint", "list"}, NEW new, new = UpsertSection(pieces, rules)
    PROVE  /\ new \in Seq(PieceRec) /\ TextIds(new) \subseteq TextIds(pieces)
           /\ \A n : AheadOf(pieces, n) => AheadOf(new, n)
           /\ Shaped(pieces) => RulesIn(new, rules) /\ TextIds(pieces) \subseteq TextIds(new)
  <1>1. PICK a \in Nat, b \in Nat :
           /\ a <= b /\ b <= Len(pieces) /\ Spliced(pieces, a, b, rules, new)
           /\ \/ a = Len(pieces)
              \/ /\ PlaceOf(pieces, "start") # 0 /\ PlaceOf(pieces, "end") > PlaceOf(pieces, "start")
                 /\ a = PlaceOf(pieces, "start") - 1 /\ b = PlaceOf(pieces, "end")
           /\ a = Len(pieces) => PlaceOf(pieces, "start") = 0 \/ ~(PlaceOf(pieces, "end") > PlaceOf(pieces, "start"))
    BY UpsertSplices
  <1>2. new \in Seq(PieceRec) /\ Len(new) = a + 3 + (Len(pieces) - b)
    BY <1>1 DEF Spliced
  <1>3. ASSUME NEW k \in DOMAIN new
        PROVE  \/ k \in 1 .. a /\ new[k] = pieces[k] /\ k \in DOMAIN pieces
               \/ k \in {a + 1, a + 2, a + 3} /\ new[k].is # "text"
               \/ \E i \in b + 1 .. Len(pieces) : k = i - b + a + 3 /\ new[k] = pieces[i]
    <2>1. PartOf(pieces, a, b, new, k)
      BY <1>1, SplicedParts
    <2> QED BY <2>1 DEF PartOf
  <1>4. ASSUME NEW n \in TextIds(new) PROVE n \in TextIds(pieces)
    <2>1. PICK k \in DOMAIN new : TextAt(new, k, n)
      BY <1>2, InTexts
    <2>2. \E i \in DOMAIN pieces : new[k] = pieces[i]
      BY <1>1, <1>3, <2>1 DEF TextAt
    <2>3. \E i \in DOMAIN pieces : TextAt(pieces, i, n)
      BY <2>1, <2>2 DEF TextAt
    <2> QED BY <2>3, InTexts
  <1>5. ASSUME NEW n, AheadOf(pieces, n) PROVE AheadOf(new, n)
    <2>1. PICK i \in DOMAIN pieces : TextAt(pieces, i, n) /\ BeforeMarks(pieces, i)
      BY <1>5 DEF AheadOf
    <2>2. i \in 1 .. a
      <3>1. CASE a = Len(pieces)
        BY <3>1
      <3>2. CASE PlaceOf(pieces, "start") # 0 /\ a = PlaceOf(pieces, "start") - 1
        <4>1. PlaceOf(pieces, "start") \in DOMAIN pieces /\ pieces[PlaceOf(pieces, "start")].is \in Marks
          BY <3>2, PlaceIsFirst DEF Marks
        <4>2. i < PlaceOf(pieces, "start")
          BY <2>1, <4>1 DEF BeforeMarks
        <4> QED BY <3>2, <4>2, PlaceIsFirst
      <3> QED BY <1>1, <3>1, <3>2
    <2>3. new[i] = pieces[i] /\ i \in DOMAIN new
      BY <1>1, <1>2, <2>2 DEF Spliced
    <2>4. ASSUME NEW j \in DOMAIN new, new[j].is \in Marks PROVE i < j
      <3>1. CASE j \in 1 .. a
        <4>1. new[j] = pieces[j] /\ j \in DOMAIN pieces
          BY <1>1, <3>1 DEF Spliced
        <4> QED BY <2>1, <2>4, <4>1 DEF BeforeMarks
      <3>2. CASE j > a
        BY <1>2, <2>2, <3>2
      <3> QED BY <1>2, <3>1, <3>2
    <2> QED BY <2>1, <2>3, <2>4 DEF AheadOf, TextAt, BeforeMarks
  <1>6. ASSUME Shaped(pieces), NEW i \in DOMAIN pieces, pieces[i].is = "text"
        PROVE  i \in 1 .. a \/ i \in b + 1 .. Len(pieces)
    <2>1. CASE a = Len(pieces)
      BY <2>1
    <2>2. CASE a # Len(pieces)
      <3>1. /\ PlaceOf(pieces, "start") # 0 /\ a = PlaceOf(pieces, "start") - 1 /\ b = PlaceOf(pieces, "end")
            /\ PlaceOf(pieces, "start") \in DOMAIN pieces /\ pieces[PlaceOf(pieces, "start")].is = "start"
        BY <1>1, <2>2, PlaceIsFirst
      <3>2. PICK r \in {"hint", "list"}, s \in Nat \ {0} : SectionAt(pieces, s, r)
        BY <1>6, <3>1 DEF Shaped, AllText, RulesIn
      <3>3. a = s - 1 /\ b = s + 2 /\ pieces[s].is = "start" /\ pieces[s + 1].is = r /\ pieces[s + 2].is = "end"
        BY <3>1, <3>2, PlacesOfSection DEF SectionAt
      <3>4. i # s /\ i # s + 1 /\ i # s + 2
        BY <1>6, <3>3
      <3> QED BY <3>3, <3>4
    <2> QED BY <2>1, <2>2
  <1>7. ASSUME Shaped(pieces), NEW n \in TextIds(pieces) PROVE n \in TextIds(new)
    <2>1. PICK i \in DOMAIN pieces : TextAt(pieces, i, n)
      BY InTexts
    <2>2. i \in 1 .. a \/ i \in b + 1 .. Len(pieces)
      BY <1>6, <1>7, <2>1 DEF TextAt
    <2>3. CASE i \in 1 .. a
      <3>1. new[i] = pieces[i] /\ i \in DOMAIN new
        BY <1>1, <1>2, <2>3 DEF Spliced
      <3> QED BY <1>2, <2>1, <3>1, InTexts DEF TextAt
    <2>4. CASE i \in b + 1 .. Len(pieces)
      <3>1. new[i - b + a + 3] = pieces[i] /\ i - b + a + 3 \in DOMAIN new
        BY <1>1, <1>2, <2>4 DEF Spliced
      <3>2. TextAt(new, i - b + a + 3, n)
        BY <2>1, <3>1 DEF TextAt
      <3> QED BY <1>2, <3>1, <3>2, InTexts
    <2> QED BY <2>2, <2>3, <2>4
  <1>8. ASSUME Shaped(pieces) PROVE SectionAt(new, a + 1, rules)
    <2>1. ASSUME NEW i \in DOMAIN pieces, i \in 1 .. a \/ i \in b + 1 .. Len(pieces) PROVE pieces[i].is = "text"
      <3>1. CASE AllText(pieces)
        BY <3>1 DEF AllText
      <3>2. CASE ~AllText(pieces)
        <4>1. PICK r \in {"hint", "list"}, s \in Nat \ {0} : SectionAt(pieces, s, r)
          BY <1>8, <3>2 DEF Shaped, RulesIn
        <4>2. PlaceOf(pieces, "start") = s /\ PlaceOf(pieces, "end") = s + 2
          BY <4>1, PlacesOfSection
        <4>3. a = s - 1 /\ b = s + 2
          BY <1>1, <4>2
        <4>4. i \notin s .. s + 2
          BY <2>1, <4>3
        <4> QED BY <4>1, <4>4 DEF SectionAt
      <3> QED BY <3>1, <3>2
    <2>2. ASSUME NEW k \in DOMAIN new PROVE k \in a + 1 .. a + 3 \/ new[k].is = "text"
      <3>1. CASE k \in 1 .. a /\ new[k] = pieces[k] /\ k \in DOMAIN pieces
        BY <2>1, <3>1
      <3>2. CASE k \in {a + 1, a + 2, a + 3}
        BY <3>2
      <3>3. CASE \E i \in b + 1 .. Len(pieces) : new[k] = pieces[i]
        <4>1. PICK i \in b + 1 .. Len(pieces) : new[k] = pieces[i]
          BY <3>3
        <4>2. i \in DOMAIN pieces
          OBVIOUS
        <4> QED BY <2>1, <4>1, <4>2
      <3> QED BY <1>3, <3>1, <3>2, <3>3
    <2>3. a + 3 \in DOMAIN new /\ (a + 1) + 1 = a + 2 /\ (a + 1) + 2 = a + 3
      BY <1>1, <1>2
    <2>4. new[a + 1] = Piece("start", 0) /\ new[a + 2] = Piece(rules, 0) /\ new[a + 3] = Piece("end", 0)
      BY <1>1 DEF Spliced
    <2> QED BY <2>2, <2>3, <2>4 DEF SectionAt
  <1>9. ASSUME Shaped(pieces) PROVE RulesIn(new, rules)
    <2>1. a + 1 \in Nat \ {0}
      OBVIOUS
    <2> QED BY <1>8, <1>9, <2>1 DEF RulesIn
  <1> QED BY <1>2, <1>4, <1>5, <1>7, <1>9

\* Somebody writes a text on top or at the end, or takes a marker away.
WithTextOnTop(pieces, n) == <<Piece("text", n)>> \o pieces
WithTextAtEnd(pieces, n) == Append(pieces, Piece("text", n))
LEMMA TextOnTop ==
    ASSUME NEW pieces \in Seq(PieceRec), NEW n \in Nat, NEW new, new = WithTextOnTop(pieces, n)
    PROVE  /\ new \in Seq(PieceRec) /\ TextIds(new) = TextIds(pieces) \cup {n}
           /\ AheadOf(new, n)
           /\ \A m : AheadOf(pieces, m) => AheadOf(new, m)
           /\ \A m : m # n /\ AheadOf(new, m) => AheadOf(pieces, m)
           /\ \A rules : RulesIn(pieces, rules) => RulesIn(new, rules)
           /\ Shaped(pieces) => Shaped(new)
  <1>1. PICK text : text = Piece("text", n)
    OBVIOUS
  <1>2. text \in PieceRec /\ text.is = "text" /\ text.id = n
    BY <1>1 DEF Piece, PieceRec
  <1>3. PICK l \in Nat : l = Len(pieces)
    OBVIOUS
  <1>4. /\ new \in Seq(PieceRec) /\ Len(new) = l + 1 /\ new[1] = text
        /\ \A k \in 1 .. l : new[k + 1] = pieces[k]
        /\ DOMAIN pieces = 1 .. l /\ DOMAIN new = 1 .. (l + 1)
    <2>1. new = <<text>> \o pieces
      BY <1>1 DEF WithTextOnTop
    <2> QED BY <1>2, <1>3, <2>1
  <1>5. ASSUME NEW k \in DOMAIN new PROVE k = 1 \/ \E j \in 1 .. l : k = j + 1
    <2>1. k = 1 \/ (k - 1 \in 1 .. l /\ k = (k - 1) + 1)
      BY <1>4
    <2> QED BY <2>1
  <1>6. TextIds(new) = TextIds(pieces) \cup {n}
    <2>1. ASSUME NEW m \in TextIds(new), m # n PROVE m \in TextIds(pieces)
      <3>1. PICK k \in DOMAIN new : TextAt(new, k, m)
        BY <1>4, InTexts
      <3>2. k # 1
        BY <1>2, <1>4, <2>1, <3>1 DEF TextAt
      <3>3. PICK j \in 1 .. l : k = j + 1
        BY <1>5, <3>2
      <3>4. TextAt(pieces, j, m)
        BY <1>4, <3>1, <3>3 DEF TextAt
      <3> QED BY <1>4, <3>4, InTexts
    <2>2. ASSUME NEW m \in TextIds(pieces) PROVE m \in TextIds(new)
      <3>1. PICK k \in 1 .. l : TextAt(pieces, k, m)
        BY <1>4, InTexts
      <3>2. TextAt(new, k + 1, m) /\ k + 1 \in DOMAIN new
        BY <1>4, <3>1 DEF TextAt
      <3> QED BY <1>4, <3>2, InTexts
    <2>3. n \in TextIds(new)
      <3>1. TextAt(new, 1, n) /\ 1 \in DOMAIN new
        BY <1>2, <1>4 DEF TextAt
      <3> QED BY <1>4, <3>1, InTexts
    <2> QED BY <2>1, <2>2, <2>3
  <1>7. AheadOf(new, n)
    <2>1. TextAt(new, 1, n) /\ 1 \in DOMAIN new
      BY <1>2, <1>4 DEF TextAt
    <2>2. ASSUME NEW j \in DOMAIN new, new[j].is \in Marks PROVE 1 < j
      <3>1. j # 1
        BY <1>2, <1>4, <2>2 DEF Marks
      <3> QED BY <1>4, <3>1
    <2> QED BY <2>1, <2>2 DEF AheadOf, BeforeMarks
  <1>8. ASSUME NEW m, AheadOf(pieces, m) PROVE AheadOf(new, m)
    <2>1. PICK i \in 1 .. l : TextAt(pieces, i, m) /\ BeforeMarks(pieces, i)
      BY <1>4, <1>8 DEF AheadOf
    <2>2. TextAt(new, i + 1, m) /\ i + 1 \in DOMAIN new
      BY <1>4, <2>1 DEF TextAt
    <2>3. ASSUME NEW j \in DOMAIN new, new[j].is \in Marks PROVE i + 1 < j
      <3>1. j # 1
        BY <1>2, <1>4, <2>3 DEF Marks
      <3>2. PICK k \in 1 .. l : j = k + 1
        BY <1>5, <3>1
      <3>3. i < k
        BY <1>4, <2>1, <2>3, <3>2 DEF BeforeMarks
      <3> QED BY <3>2, <3>3
    <2> QED BY <2>2, <2>3 DEF AheadOf, BeforeMarks
  <1>9. ASSUME NEW m, m # n, AheadOf(new, m) PROVE AheadOf(pieces, m)
    <2>1. PICK i \in DOMAIN new : TextAt(new, i, m) /\ BeforeMarks(new, i)
      BY <1>9 DEF AheadOf
    <2>2. i # 1
      BY <1>2, <1>4, <1>9, <2>1 DEF TextAt
    <2>3. PICK k \in 1 .. l : i = k + 1
      BY <1>5, <2>2
    <2>4. TextAt(pieces, k, m)
      BY <1>4, <2>1, <2>3 DEF TextAt
    <2>5. ASSUME NEW j \in 1 .. l, pieces[j].is \in Marks PROVE k < j
      <3>1. j + 1 \in DOMAIN new /\ new[j + 1].is \in Marks
        BY <1>4, <2>5
      <3>2. i < j + 1
        BY <2>1, <3>1 DEF BeforeMarks
      <3> QED BY <2>3, <3>2
    <2> QED BY <1>4, <2>4, <2>5 DEF AheadOf, BeforeMarks
  <1>10. ASSUME NEW rules, RulesIn(pieces, rules) PROVE RulesIn(new, rules)
    <2>1. PICK s \in Nat \ {0} : SectionAt(pieces, s, rules)
      BY <1>10 DEF RulesIn
    <2>2. s \in 1 .. l /\ s + 1 \in 1 .. l /\ s + 2 \in 1 .. l
      BY <1>4, <2>1 DEF SectionAt
    <2>3. new[s + 1] = pieces[s] /\ new[(s + 1) + 1] = pieces[s + 1] /\ new[(s + 2) + 1] = pieces[s + 2]
      BY <1>4, <2>2
    <2>4. (s + 1) + 2 = (s + 2) + 1 /\ (s + 1) + 2 \in DOMAIN new /\ s + 1 \in Nat \ {0}
      BY <1>4, <2>2
    <2>5. ASSUME NEW i \in DOMAIN new PROVE i \in s + 1 .. (s + 1) + 2 \/ new[i].is = "text"
      <3>1. CASE i = 1
        BY <1>2, <1>4, <3>1
      <3>2. CASE i # 1
        <4>1. PICK k \in 1 .. l : i = k + 1
          BY <1>5, <3>2
        <4>2. k \in s .. s + 2 \/ pieces[k].is = "text"
          BY <1>4, <2>1 DEF SectionAt
        <4> QED BY <1>4, <4>1, <4>2
      <3> QED BY <3>1, <3>2
    <2>6. SectionAt(new, s + 1, rules)
      BY <2>1, <2>3, <2>4, <2>5 DEF SectionAt
    <2> QED BY <2>4, <2>6 DEF RulesIn
  <1>11. ASSUME AllText(pieces) PROVE AllText(new)
    <2>1. ASSUME NEW k \in DOMAIN new PROVE new[k].is = "text"
      <3>1. CASE k = 1
        BY <1>2, <1>4, <3>1
      <3>2. CASE k # 1
        <4>1. PICK j \in 1 .. l : k = j + 1
          BY <1>5, <3>2
        <4>2. pieces[j].is = "text"
          BY <1>4, <1>11, <4>1 DEF AllText
        <4> QED BY <1>4, <4>1, <4>2
      <3> QED BY <3>1, <3>2
    <2> QED BY <2>1 DEF AllText
  <1> QED BY <1>4, <1>6, <1>7, <1>8, <1>9, <1>10, <1>11 DEF Shaped

LEMMA TextAtEnd ==
    ASSUME NEW pieces \in Seq(PieceRec), NEW n \in Nat, NEW new, new = WithTextAtEnd(pieces, n)
    PROVE  /\ new \in Seq(PieceRec) /\ TextIds(new) = TextIds(pieces) \cup {n}
           /\ \A m : AheadOf(pieces, m) => AheadOf(new, m)
           /\ \A m : m # n /\ AheadOf(new, m) => AheadOf(pieces, m)
           /\ \A rules : RulesIn(pieces, rules) => RulesIn(new, rules)
           /\ Shaped(pieces) => Shaped(new)
  <1>1. PICK text : text = Piece("text", n)
    OBVIOUS
  <1>2. text \in PieceRec /\ text.is = "text" /\ text.id = n
    BY <1>1 DEF Piece, PieceRec
  <1>3. PICK l \in Nat : l = Len(pieces)
    OBVIOUS
  <1>4. /\ new \in Seq(PieceRec) /\ Len(new) = l + 1 /\ new[l + 1] = text
        /\ \A k \in 1 .. l : new[k] = pieces[k]
        /\ DOMAIN pieces = 1 .. l /\ DOMAIN new = 1 .. (l + 1)
    <2>1. new = Append(pieces, text)
      BY <1>1 DEF WithTextAtEnd
    <2> QED BY <1>2, <1>3, <2>1
  <1>5. ASSUME NEW k \in DOMAIN new PROVE k = l + 1 \/ k \in 1 .. l
    BY <1>4
  <1>6. TextIds(new) = TextIds(pieces) \cup {n}
    <2>1. ASSUME NEW m \in TextIds(new), m # n PROVE m \in TextIds(pieces)
      <3>1. PICK k \in DOMAIN new : TextAt(new, k, m)
        BY <1>4, InTexts
      <3>2. k \in 1 .. l
        BY <1>2, <1>4, <1>5, <2>1, <3>1 DEF TextAt
      <3>3. TextAt(pieces, k, m)
        BY <1>4, <3>1, <3>2 DEF TextAt
      <3> QED BY <1>4, <3>2, <3>3, InTexts
    <2>2. ASSUME NEW m \in TextIds(pieces) PROVE m \in TextIds(new)
      <3>1. PICK k \in 1 .. l : TextAt(pieces, k, m)
        BY <1>4, InTexts
      <3>2. TextAt(new, k, m) /\ k \in DOMAIN new
        BY <1>4, <3>1 DEF TextAt
      <3> QED BY <1>4, <3>2, InTexts
    <2>3. n \in TextIds(new)
      <3>1. TextAt(new, l + 1, n) /\ l + 1 \in DOMAIN new
        BY <1>2, <1>4 DEF TextAt
      <3> QED BY <1>4, <3>1, InTexts
    <2> QED BY <2>1, <2>2, <2>3
  <1>8. ASSUME NEW m, AheadOf(pieces, m) PROVE AheadOf(new, m)
    <2>1. PICK i \in 1 .. l : TextAt(pieces, i, m) /\ BeforeMarks(pieces, i)
      BY <1>4, <1>8 DEF AheadOf
    <2>2. TextAt(new, i, m) /\ i \in DOMAIN new
      BY <1>4, <2>1 DEF TextAt
    <2>3. ASSUME NEW j \in DOMAIN new, new[j].is \in Marks PROVE i < j
      <3>1. j \in 1 .. l
        BY <1>2, <1>4, <1>5, <2>3 DEF Marks
      <3> QED BY <1>4, <2>1, <2>3, <3>1 DEF BeforeMarks
    <2> QED BY <2>2, <2>3 DEF AheadOf, BeforeMarks
  <1>9. ASSUME NEW m, m # n, AheadOf(new, m) PROVE AheadOf(pieces, m)
    <2>1. PICK i \in DOMAIN new : TextAt(new, i, m) /\ BeforeMarks(new, i)
      BY <1>9 DEF AheadOf
    <2>2. i \in 1 .. l
      BY <1>2, <1>4, <1>5, <1>9, <2>1 DEF TextAt
    <2>4. TextAt(pieces, i, m)
      BY <1>4, <2>1, <2>2 DEF TextAt
    <2>5. ASSUME NEW j \in 1 .. l, pieces[j].is \in Marks PROVE i < j
      <3>1. j \in DOMAIN new /\ new[j].is \in Marks
        BY <1>4, <2>5
      <3> QED BY <2>1, <3>1 DEF BeforeMarks
    <2> QED BY <1>4, <2>2, <2>4, <2>5 DEF AheadOf, BeforeMarks
  <1>10. ASSUME NEW rules, RulesIn(pieces, rules) PROVE RulesIn(new, rules)
    <2>1. PICK s \in Nat \ {0} : SectionAt(pieces, s, rules)
      BY <1>10 DEF RulesIn
    <2>2. s \in 1 .. l /\ s + 1 \in 1 .. l /\ s + 2 \in 1 .. l
      BY <1>4, <2>1 DEF SectionAt
    <2>3. new[s] = pieces[s] /\ new[s + 1] = pieces[s + 1] /\ new[s + 2] = pieces[s + 2] /\ s + 2 \in DOMAIN new
      BY <1>4, <2>2
    <2>4. ASSUME NEW i \in DOMAIN new PROVE i \in s .. s + 2 \/ new[i].is = "text"
      <3>1. CASE i = l + 1
        BY <1>2, <1>4, <3>1
      <3>2. CASE i \in 1 .. l
        BY <1>4, <2>1, <3>2 DEF SectionAt
      <3> QED BY <1>5, <3>1, <3>2
    <2>5. SectionAt(new, s, rules)
      BY <2>1, <2>3, <2>4 DEF SectionAt
    <2> QED BY <2>5 DEF RulesIn
  <1>11. ASSUME AllText(pieces) PROVE AllText(new)
    <2>1. ASSUME NEW k \in DOMAIN new PROVE new[k].is = "text"
      <3>1. CASE k = l + 1
        BY <1>2, <1>4, <3>1
      <3>2. CASE k \in 1 .. l
        <4>1. pieces[k].is = "text"
          BY <1>4, <1>11, <3>2 DEF AllText
        <4> QED BY <1>4, <3>2, <4>1
      <3> QED BY <1>5, <3>1, <3>2
    <2> QED BY <2>1 DEF AllText
  <1> QED BY <1>4, <1>6, <1>8, <1>9, <1>10, <1>11 DEF Shaped

LEMMA MarkRemoved ==
    ASSUME NEW pieces \in Seq(PieceRec), NEW p \in DOMAIN pieces, pieces[p].is \in Marks,
           NEW new, new = RemoveAt(pieces, p)
    PROVE  /\ new \in Seq(PieceRec) /\ TextIds(new) \subseteq TextIds(pieces)
           /\ \A n : AheadOf(pieces, n) => AheadOf(new, n)
  <1>1. PICK l \in Nat : l = Len(pieces)
    OBVIOUS
  <1>2. p \in 1 .. l
    BY <1>1
  <1>3. new = SubSeq(pieces, 1, p - 1) \o SubSeq(pieces, p + 1, l)
    BY <1>1 DEF RemoveAt
  <1>4. PICK front, back : front = SubSeq(pieces, 1, p - 1) /\ back = SubSeq(pieces, p + 1, l)
    OBVIOUS
  <1>5. front \in Seq(PieceRec) /\ Len(front) = p - 1 /\ \A i \in 1 .. p - 1 : front[i] = pieces[i]
    BY <1>1, <1>2, <1>4
  <1>6. back \in Seq(PieceRec) /\ Len(back) = l - p /\ \A i \in 1 .. l - p : back[i] = pieces[i + p]
    BY <1>1, <1>2, <1>4
  <1>7. /\ front \o back \in Seq(PieceRec) /\ Len(front \o back) = Len(front) + Len(back)
        /\ \A i \in 1 .. Len(front) : (front \o back)[i] = front[i]
        /\ \A i \in 1 .. Len(back) : (front \o back)[Len(front) + i] = back[i]
    BY <1>5, <1>6, Joined, Zenon
  <1>8. /\ new \in Seq(PieceRec) /\ Len(new) = l - 1 /\ \A i \in 1 .. p - 1 : new[i] = pieces[i]
        /\ \A i \in 1 .. l - p : new[p - 1 + i] = pieces[i + p]
    <2>1. new = front \o back
      BY <1>3, <1>4
    <2>2. Len(front) = p - 1 /\ Len(back) = l - p /\ p - 1 \in Nat /\ l - p \in Nat /\ p \in Nat /\ l \in Nat
      BY <1>2, <1>5, <1>6
    <2>3. new \in Seq(PieceRec) /\ Len(new) = l - 1
      <3>1. new \in Seq(PieceRec) /\ Len(new) = Len(front) + Len(back)
        BY <1>7, <2>1, Zenon
      <3>2. Len(front) + Len(back) = l - 1
        BY <2>2
      <3> QED BY <3>1, <3>2
    <2>4. ASSUME NEW i \in 1 .. p - 1 PROVE new[i] = pieces[i]
      <3>1. i \in 1 .. Len(front)
        BY <2>2
      <3> QED BY <1>5, <1>7, <2>1, <3>1
    <2>5. ASSUME NEW i \in 1 .. l - p PROVE new[p - 1 + i] = pieces[i + p]
      <3>1. i \in 1 .. Len(back) /\ Len(front) + i = p - 1 + i
        BY <2>2
      <3>2. new[Len(front) + i] = back[i] /\ back[i] = pieces[i + p]
        BY <1>6, <1>7, <2>1, <3>1
      <3> QED BY <3>1, <3>2
    <2> QED BY <2>3, <2>4, <2>5
  <1>9. ASSUME NEW k \in DOMAIN new
        PROVE  \/ k \in 1 .. p - 1 /\ new[k] = pieces[k]
               \/ k >= p /\ k + 1 \in 1 .. l /\ new[k] = pieces[k + 1]
    <2>1. k \in 1 .. p - 1 \/ k \in p .. l - 1
      BY <1>2, <1>8
    <2>2. CASE k \in p .. l - 1
      <3>1. k - (p - 1) \in 1 .. l - p /\ (p - 1) + (k - (p - 1)) = k /\ (k - (p - 1)) + p = k + 1
        BY <1>2, <2>2
      <3>2. new[(p - 1) + (k - (p - 1))] = pieces[(k - (p - 1)) + p]
        BY <1>8, <3>1
      <3>3. new[k] = pieces[k + 1]
        BY <3>1, <3>2
      <3> QED BY <1>2, <2>2, <3>3
    <2> QED BY <1>8, <2>1, <2>2
  <1>10. ASSUME NEW n \in TextIds(new) PROVE n \in TextIds(pieces)
    <2>1. PICK k \in DOMAIN new : TextAt(new, k, n)
      BY <1>8, InTexts
    <2>2. \E i \in 1 .. l : new[k] = pieces[i]
      BY <1>2, <1>9
    <2>3. PICK i \in DOMAIN pieces : TextAt(pieces, i, n)
      BY <1>1, <2>1, <2>2 DEF TextAt
    <2> QED BY <2>3, InTexts
  <1>11. ASSUME NEW n, AheadOf(pieces, n) PROVE AheadOf(new, n)
    <2>1. PICK i \in DOMAIN pieces : TextAt(pieces, i, n) /\ BeforeMarks(pieces, i)
      BY <1>11 DEF AheadOf
    <2>2. i < p
      BY <2>1 DEF BeforeMarks
    <2>5. i \in 1 .. p - 1 /\ i \in 1 .. l - 1
      BY <1>1, <1>2, <2>2
    <2>3. new[i] = pieces[i] /\ i \in DOMAIN new
      BY <1>2, <1>8, <2>5
    <2>4. ASSUME NEW j \in DOMAIN new, new[j].is \in Marks PROVE i < j
      <3>1. CASE j \in 1 .. p - 1 /\ new[j] = pieces[j]
        BY <1>1, <1>2, <2>1, <2>4, <3>1 DEF BeforeMarks
      <3>2. CASE j >= p
        BY <1>2, <1>8, <2>2, <3>2
      <3> QED BY <1>9, <3>1, <3>2
    <2> QED BY <2>1, <2>3, <2>4 DEF AheadOf, BeforeMarks, TextAt
  <1> QED BY <1>8, <1>10, <1>11

\* What stands before a marker of a file that is shaped so stands before both.
LEMMA BeforeFirstMark ==
    ASSUME NEW pieces \in Seq(PieceRec), Shaped(pieces), NEW p \in DOMAIN pieces, pieces[p].is \in Marks,
           NEW n \in TextIds(SubSeq(pieces, 1, p))
    PROVE  AheadOf(pieces, n)
  <1>1. PICK l \in Nat : l = Len(pieces)
    OBVIOUS
  <1>2. PICK cut : cut = SubSeq(pieces, 1, p)
    OBVIOUS
  <1>3. cut \in Seq(PieceRec) /\ Len(cut) = p /\ \A i \in 1 .. p : cut[i] = pieces[i]
    BY <1>1, <1>2
  <1>4. PICK i \in DOMAIN cut : TextAt(cut, i, n)
    BY <1>2, <1>3, InTexts
  <1>5. i \in 1 .. p /\ TextAt(pieces, i, n)
    BY <1>3, <1>4 DEF TextAt
  <1>6. PICK r \in {"hint", "list"}, s \in Nat \ {0} : SectionAt(pieces, s, r)
    BY DEF Shaped, AllText, RulesIn, Marks
  <1>7. /\ \A k \in DOMAIN pieces : pieces[k].is = "start" <=> k = s
        /\ \A k \in DOMAIN pieces : pieces[k].is = "end" <=> k = s + 2
        /\ s \in DOMAIN pieces /\ pieces[s + 1].is = r
    BY <1>6, PlacesOfSection
  <1>8. p = s \/ p = s + 2
    BY <1>7 DEF Marks
  <1>9. s + 2 \in DOMAIN pieces
    BY <1>6 DEF SectionAt
  <1>10. i # s /\ i # s + 1 /\ i # s + 2
    BY <1>1, <1>5, <1>7, <1>9 DEF TextAt
  <1>11. i < s /\ i \in DOMAIN pieces
    BY <1>1, <1>5, <1>8, <1>10
  <1>12. ASSUME NEW j \in DOMAIN pieces, pieces[j].is \in Marks PROVE i < j
    <2>1. j = s \/ j = s + 2
      BY <1>7, <1>12 DEF Marks
    <2> QED BY <1>11, <2>1
  <1> QED BY <1>5, <1>11, <1>12 DEF AheadOf, BeforeMarks

LEMMA PromptCut ==
    ASSUME NEW pieces \in Seq(PieceRec), NEW n \in 0 .. Len(pieces)
    PROVE  SubSeq(pieces, 1, n) \in Seq(PieceRec) /\ TextIds(SubSeq(pieces, 1, n)) \subseteq TextIds(pieces)
  <1>1. PICK cut : cut = SubSeq(pieces, 1, n)
    OBVIOUS
  <1>2. cut \in Seq(PieceRec) /\ Len(cut) = n /\ \A i \in 1 .. n : cut[i] = pieces[i]
    BY <1>1
  <1>3. ASSUME NEW m \in TextIds(cut) PROVE m \in TextIds(pieces)
    <2>1. PICK k \in DOMAIN cut : TextAt(cut, k, m)
      BY <1>2, InTexts
    <2>2. k \in DOMAIN pieces /\ TextAt(pieces, k, m)
      BY <1>2, <2>1 DEF TextAt
    <2> QED BY <2>2, InTexts
  <1> QED BY <1>1, <1>2, <1>3

(***************************************************************************)
(* The inductive invariant: what a file has, what the command that runs    *)
(* has read of it, and how far it has come.                                *)
(***************************************************************************)
EditorNames == JsonEditors \cup {"codex"}
JsonRec == [form : {"object", "refused"}, servers : SUBSET Nat, settings : SUBSET Nat, own : Nat]
SetupRec == [pc : {"off", "configure", "resolve", "issue", "browser", "read", "write", "skills", "fetch", "readPrompt",
                   "writePrompt", "done", "failed", "killed"},
             does : SUBSET {"setup", "init"}, skillsToo : BOOLEAN, prefers : KeyKinds, given : {"none"} \cup KeyKinds,
             browser : BOOLEAN, editors : Seq(EditorNames), at : Nat, key : Nat, rules : {"hint", "list"},
             object : JsonRec, copy : Seq(LineRec) \cup Seq(PieceRec), read : SUBSET Nat, wrote : SUBSET EditorNames]
ProfileRec == [api : Nat, session : Nat, live : BOOLEAN, jwt : BOOLEAN, url : BOOLEAN]
SetupTyped ==
    /\ profileKeys \in ProfileRec
    /\ json \in [JsonEditors -> JsonRec] /\ toml \in Seq(LineRec) /\ prompt \in [Prompts -> Seq(PieceRec)]
    /\ mine \in [FilesWritten -> SUBSET Nat] /\ setup \in SetupRec
    /\ tornFiles \in SUBSET Prompts /\ keysMade \in Nat /\ touches \in Nat

Others(object) == (object.servers \cup object.settings) \ {Legacy}
JsonKept == \A e \in JsonEditors : mine[e] \subseteq Others(json[e])
TomlKept == TomlGood(toml, mine["codex"]) /\ NumberedTo(toml, touches)
PromptKept(file) ==
    /\ TextIds(prompt[file]) \subseteq 0 .. touches
    /\ file \in tornFiles => \A n \in mine[file] : AheadOf(prompt[file], n)
    /\ file \notin tornFiles => Shaped(prompt[file]) /\ mine[file] \subseteq TextIds(prompt[file])
WriteReady ==
    SetupAt("write") =>
        /\ Editor \in JsonEditors => setup.read = Others(setup.object)
        /\ Editor = "codex" =>
              /\ setup.copy \in Seq(LineRec) /\ setup.read \subseteq 0 .. touches
              /\ TomlGood(setup.copy, mine["codex"] \cap setup.read) /\ NumberedTo(setup.copy, touches)
PromptReady ==
    SetupAt("writePrompt") =>
        /\ setup.copy \in Seq(PieceRec) /\ setup.read = TextIds(setup.copy) /\ setup.read \subseteq 0 .. touches
        /\ PromptAt \notin tornFiles =>
              /\ Shaped(setup.copy)
              /\ \A n \in setup.read : AheadOf(prompt[PromptAt], n) => AheadOf(setup.copy, n)
        /\ PromptAt \in tornFiles => \A n \in mine[PromptAt] \cap setup.read : AheadOf(setup.copy, n)
Course ==
    /\ setup.pc \in {"resolve", "issue", "browser", "read", "write"} => "setup" \in setup.does
    /\ setup.pc \in {"configure", "resolve", "issue", "browser", "read", "write"} /\ "setup" \in setup.does =>
          setup.at \in 1 .. Len(setup.editors)
    /\ setup.pc \in {"configure", "resolve", "issue", "browser"} => setup.wrote = {}
    /\ setup.pc \in {"readPrompt", "writePrompt"} => setup.at \in {1, 2}
Keyed ==
    setup.pc \in {"read", "write"} \/ setup.wrote # {} =>
        setup.key # 0 /\ setup.key \in {profileKeys.api, profileKeys.session}
Agreed ==
    \A e \in setup.wrote :
        /\ e \in JsonEditors => json[e].own = setup.key /\ Legacy \notin json[e].servers
        /\ e = "codex" => OwnTable(toml, setup.key)
Ruled ==
    /\ setup.pc \in {"readPrompt", "writePrompt"} /\ setup.at = 2 /\ "AGENTS.md" \notin tornFiles =>
          RulesIn(prompt["AGENTS.md"], setup.rules)
    /\ SetupAt("done") /\ "init" \in setup.does => \A file \in Prompts \ tornFiles : RulesIn(prompt[file], setup.rules)
SetupInv ==
    /\ SetupTyped /\ JsonKept /\ TomlKept /\ (\A file \in Prompts : PromptKept(file))
    /\ WriteReady /\ PromptReady /\ Course /\ Keyed /\ Agreed /\ Ruled

LEMMA FilesStay ==
    ASSUME SetupInv, UNCHANGED <<json, toml, prompt, mine, tornFiles>>, touches' = touches
    PROVE  JsonKept' /\ TomlKept' /\ \A file \in Prompts : PromptKept(file)'
  <1>1. JsonKept /\ TomlKept /\ \A file \in Prompts : PromptKept(file)
    BY DEF SetupInv
  <1>2. JsonKept' /\ TomlKept'
    BY <1>1 DEF JsonKept, TomlKept
  <1>3. ASSUME NEW file \in Prompts PROVE PromptKept(file)'
    BY <1>1 DEF PromptKept
  <1> QED BY <1>2, <1>3

LEMMA NotWriting ==
    ASSUME setup'.pc \notin {"write", "writePrompt"}
    PROVE  WriteReady' /\ PromptReady'
  BY DEF WriteReady, PromptReady, SetupAt

LEMMA NoSetupTyped ==
    /\ NoSetup \in SetupRec /\ NoSetup.pc = "off" /\ NoSetup.wrote = {} /\ NoSetup.at = 1 /\ NoSetup.editors = <<>>
    /\ EmptyJson \in JsonRec
  <1>1. EmptyJson \in JsonRec
    BY DEF EmptyJson, JsonRec
  <1>2. <<>> \in Seq(LineRec) /\ <<>> \in Seq(EditorNames)
    OBVIOUS
  <1> QED BY <1>1, <1>2 DEF NoSetup, SetupRec, KeyKinds

LEMMA EditorsListed ==
    ASSUME NEW list \in EditorLists
    PROVE  list \in Seq(EditorNames) /\ 1 \in 1 .. Len(list)
  <1>1. {"claude", "cursor", "codex"} = EditorNames
    BY DEF EditorNames, JsonEditors
  <1>2. list \in Seq(EditorNames) /\ list # <<>>
    BY <1>1, AgentSetupAssumption DEF AgentSetupAssumption
  <1>3. Len(list) \in Nat /\ Len(list) # 0
    BY <1>2, EmptySeq
  <1> QED BY <1>2, <1>3

LEMMA SetupBegins ==
    ASSUME SetupInv, NEW does \in SUBSET {"setup", "init"}, NEW bootstrap \in BOOLEAN, BeginSetup(does, bootstrap)
    PROVE  SetupInv'
  <1>1. PICK pc : pc = IF bootstrap /\ profileKeys.api = 0 /\ profileKeys.session = 0 /\ ~profileKeys.jwt THEN "configure"
                       ELSE AfterConfigure(does)
    OBVIOUS
  <1>2. /\ pc \in {"configure", "resolve", "skills", "done"}
        /\ (pc = "resolve" => "setup" \in does) /\ (pc = "done" => "init" \notin does)
    BY <1>1 DEF AfterConfigure
  <1>3. PICK begun : begun = [NoSetup EXCEPT !.pc = pc, !.does = does, !.skillsToo = bootstrap]
    OBVIOUS
  <1>4. begun \in SetupRec /\ begun.pc = pc /\ begun.does = does /\ begun.wrote = {} /\ begun.at = 1
    <2>1. NoSetup \in SetupRec /\ NoSetup.wrote = {} /\ NoSetup.at = 1
      BY NoSetupTyped
    <2> QED BY <1>2, <1>3, <2>1 DEF SetupRec
  <1>5. /\ setup' \in SetupRec /\ setup'.pc = pc /\ setup'.does = does /\ setup'.wrote = {} /\ setup'.at = 1
        /\ "setup" \in does => 1 \in 1 .. Len(setup'.editors)
    <2>1. CASE "setup" \in does
      <3>1. PICK given \in {"none"} \cup KeyKinds, prefers \in KeyKinds, browser \in BOOLEAN, list \in EditorLists :
               setup' = [begun EXCEPT !.prefers = prefers, !.given = given, !.browser = browser, !.editors = list]
        <4>1. begun = [NoSetup EXCEPT
                 !.pc = IF bootstrap /\ profileKeys.api = 0 /\ profileKeys.session = 0 /\ ~profileKeys.jwt THEN "configure"
                        ELSE AfterConfigure(does),
                 !.does = does, !.skillsToo = bootstrap]
          BY <1>1, <1>3, Zenon
        <4>2. PICK given \in {"none"} \cup KeyKinds, prefers \in KeyKinds, browser \in BOOLEAN, list \in EditorLists :
                 setup' = [[NoSetup EXCEPT
                 !.pc = IF bootstrap /\ profileKeys.api = 0 /\ profileKeys.session = 0 /\ ~profileKeys.jwt THEN "configure"
                        ELSE AfterConfigure(does),
                 !.does = does, !.skillsToo = bootstrap]
                 EXCEPT !.prefers = prefers, !.given = given, !.browser = browser, !.editors = list]
          BY <2>1, Zenon DEF BeginSetup
        <4>3. setup' = [begun EXCEPT !.prefers = prefers, !.given = given, !.browser = browser, !.editors = list]
          BY <4>1, <4>2, Zenon
        <4> QED BY <4>3
      <3>2. list \in Seq(EditorNames) /\ 1 \in 1 .. Len(list)
        BY EditorsListed
      <3> QED BY <1>4, <3>1, <3>2 DEF SetupRec
    <2>2. CASE "setup" \notin does
      <3>1. setup' = begun
        BY <1>1, <1>3, <2>2 DEF BeginSetup
      <3> QED BY <1>4, <2>2, <3>1
    <2> QED BY <2>1, <2>2
  <1>6. /\ UNCHANGED <<json, toml, prompt, mine, tornFiles, profileKeys, keysMade>> /\ touches' = touches
    BY DEF BeginSetup, KeepsKeys, KeepsFiles
  <1>7. JsonKept' /\ TomlKept' /\ \A file \in Prompts : PromptKept(file)'
    BY <1>6, FilesStay
  <1>8. WriteReady' /\ PromptReady'
    BY <1>2, <1>5, NotWriting
  <1>9. SetupTyped'
    BY <1>5, <1>6 DEF SetupInv, SetupTyped
  <1>10. Course'
    BY <1>2, <1>5 DEF Course
  <1>11. Keyed' /\ Agreed' /\ Ruled'
    BY <1>2, <1>5 DEF Keyed, Agreed, Ruled, SetupAt
  <1> QED BY <1>7, <1>8, <1>9, <1>10, <1>11 DEF SetupInv

\* While a credential is looked for nothing has been written.
LEMMA CommandFails ==
    ASSUME SetupInv, SetupFails
    PROVE  /\ setup' \in SetupRec /\ setup'.pc = "failed" /\ setup'.wrote = setup.wrote /\ setup'.key = setup.key
           /\ WriteReady' /\ PromptReady' /\ Course'
  <1>1. setup \in SetupRec
    BY DEF SetupInv, SetupTyped
  <1>2. setup' \in SetupRec /\ setup'.pc = "failed" /\ setup'.wrote = setup.wrote /\ setup'.key = setup.key
    BY <1>1 DEF SetupFails, SetupRec
  <1> QED BY <1>2, NotWriting DEF Course
LEMMA FailureKeeps ==
    ASSUME SetupInv, SetupFails, KeepsFiles, InProgress, profileKeys' \in ProfileRec,
           keysMade' \in Nat, setup.wrote # {} => profileKeys' = profileKeys
    PROVE  SetupInv'
  <1>1. UNCHANGED <<json, toml, prompt, mine, tornFiles>> /\ touches' = touches
    BY DEF KeepsFiles, InProgress
  <1>2. JsonKept' /\ TomlKept' /\ \A file \in Prompts : PromptKept(file)'
    BY <1>1, FilesStay
  <1>3. /\ setup' \in SetupRec /\ setup'.pc = "failed" /\ setup'.wrote = setup.wrote /\ setup'.key = setup.key
        /\ WriteReady' /\ PromptReady' /\ Course'
    BY CommandFails
  <1>4. SetupTyped'
    BY <1>1, <1>3 DEF SetupInv, SetupTyped
  <1>5. Keyed' /\ Agreed' /\ Ruled'
    BY <1>1, <1>3 DEF SetupInv, Keyed, Agreed, Ruled, SetupAt
  <1> QED BY <1>2, <1>3, <1>4, <1>5 DEF SetupInv

\* A step before the first file is read.
LEMMA LooksForKey ==
    ASSUME SetupInv, KeepsFiles, InProgress, profileKeys' \in ProfileRec, keysMade' \in Nat,
           setup' \in SetupRec, setup'.pc \in {"resolve", "issue", "browser", "read", "skills", "done"},
           setup'.does = setup.does, setup'.wrote = {}, setup'.at = setup.at, setup'.editors = setup.editors,
           setup'.pc \in {"resolve", "issue", "browser", "read"} => "setup" \in setup.does,
           setup'.pc = "done" => "init" \notin setup.does,
           setup.pc \in {"configure", "resolve", "issue", "browser"},
           setup'.pc = "read" => setup'.key # 0 /\ setup'.key \in {profileKeys'.api, profileKeys'.session}
    PROVE  SetupInv'
  <1>1. UNCHANGED <<json, toml, prompt, mine, tornFiles>> /\ touches' = touches
    BY DEF KeepsFiles, InProgress
  <1>2. JsonKept' /\ TomlKept' /\ \A file \in Prompts : PromptKept(file)'
    BY <1>1, FilesStay
  <1>3. WriteReady' /\ PromptReady'
    BY NotWriting
  <1>4. SetupTyped'
    BY <1>1 DEF SetupInv, SetupTyped, ProfileRec
  <1>5. Course'
    BY DEF SetupInv, Course
  <1>6. Keyed' /\ Agreed' /\ Ruled'
    BY DEF Keyed, Agreed, Ruled, SetupAt
  <1> QED BY <1>2, <1>3, <1>4, <1>5, <1>6 DEF SetupInv

LEMMA SetupParts ==
    ASSUME SetupInv
    PROVE  /\ SetupTyped /\ profileKeys \in ProfileRec /\ setup \in SetupRec /\ keysMade \in Nat /\ touches \in Nat
           /\ toml \in Seq(LineRec) /\ json \in [JsonEditors -> JsonRec] /\ prompt \in [Prompts -> Seq(PieceRec)]
           /\ mine \in [FilesWritten -> SUBSET Nat] /\ tornFiles \in SUBSET Prompts
           /\ JsonKept /\ TomlKept /\ (\A file \in Prompts : PromptKept(file))
           /\ WriteReady /\ PromptReady /\ Course /\ Keyed /\ Agreed /\ Ruled
  BY DEF SetupInv, SetupTyped

LEMMA KeyFound ==
    ASSUME SetupInv, KeepsFiles, InProgress, profileKeys' \in ProfileRec, keysMade' \in Nat,
           NEW key \in Nat \ {0}, key \in {profileKeys'.api, profileKeys'.session},
           setup' = WithKey(key), setup.pc \in {"resolve", "issue"}
    PROVE  SetupInv'
  <1>1. setup \in SetupRec /\ Course
    BY SetupParts
  <1>2. /\ setup' \in SetupRec /\ setup'.pc = "read" /\ setup'.key = key /\ setup'.does = setup.does
        /\ setup'.wrote = setup.wrote /\ setup'.at = setup.at /\ setup'.editors = setup.editors
    BY <1>1 DEF WithKey, SetupRec, KeyKinds
  <1>3. "setup" \in setup.does /\ setup'.wrote = {}
    BY <1>1, <1>2 DEF Course
  <1> QED BY <1>2, <1>3, LooksForKey

LEMMA SetupConfigures ==
    ASSUME SetupInv, Configure
    PROVE  SetupInv'
  <1>1. setup \in SetupRec /\ Course /\ profileKeys \in ProfileRec /\ keysMade \in Nat /\ setup.pc = "configure"
    BY SetupParts DEF Configure, SetupAt
  <1>2. KeepsFiles /\ InProgress
    BY DEF Configure
  <1>3. CASE SetupFails /\ KeepsKeys
    BY <1>1, <1>2, <1>3, FailureKeeps DEF KeepsKeys
  <1>4. CASE /\ profileKeys' \in {profileKeys, [profileKeys EXCEPT !.api = keysMade + 1], [profileKeys EXCEPT !.jwt = TRUE]}
             /\ keysMade' = keysMade + 1
             /\ setup' = [setup EXCEPT !.pc = AfterConfigure(setup.does)]
    <2>1. PICK pc : pc = AfterConfigure(setup.does)
      OBVIOUS
    <2>2. /\ pc \in {"resolve", "skills", "done"} /\ (pc = "resolve" => "setup" \in setup.does)
          /\ (pc = "done" => "init" \notin setup.does)
      BY <2>1 DEF AfterConfigure
    <2>3. setup' = [setup EXCEPT !.pc = pc]
      BY <1>4, <2>1
    <2>4. /\ setup' \in SetupRec /\ setup'.pc = pc /\ setup'.does = setup.does /\ setup'.wrote = setup.wrote
          /\ setup'.at = setup.at /\ setup'.editors = setup.editors
      BY <1>1, <2>2, <2>3 DEF SetupRec
    <2>5. profileKeys' \in ProfileRec /\ keysMade' \in Nat
      <3>1. [profileKeys EXCEPT !.api = keysMade + 1] \in ProfileRec
        BY <1>1 DEF ProfileRec
      <3>2. [profileKeys EXCEPT !.jwt = TRUE] \in ProfileRec
        BY <1>1 DEF ProfileRec
      <3>3. \/ profileKeys' = profileKeys \/ profileKeys' = [profileKeys EXCEPT !.api = keysMade + 1]
            \/ profileKeys' = [profileKeys EXCEPT !.jwt = TRUE]
        BY <1>4, Zenon
      <3>4. profileKeys' \in ProfileRec
        BY <1>1, <3>1, <3>2, <3>3, Zenon
      <3> QED BY <1>1, <1>4, <3>4
    <2>6. setup'.wrote = {}
      BY <1>1, <2>4 DEF Course
    <2> QED BY <1>1, <1>2, <2>2, <2>4, <2>5, <2>6, LooksForKey
  <1> QED BY <1>3, <1>4 DEF Configure

LEMMA SetupResolves ==
    ASSUME SetupInv, Resolve
    PROVE  SetupInv'
  <1>1. setup \in SetupRec /\ Course /\ profileKeys \in ProfileRec /\ keysMade \in Nat /\ setup.pc = "resolve"
    BY SetupParts DEF Resolve, SetupAt
  <1>2. KeepsFiles /\ InProgress /\ profileKeys' = Persisted
        /\ keysMade' = IF setup.given = "none" THEN keysMade ELSE keysMade + 1
    BY DEF Resolve
  <1>3. keysMade' \in Nat /\ setup.given \in {"none", "api", "session"} /\ setup.prefers \in {"api", "session"}
    BY <1>1, <1>2 DEF SetupRec, KeyKinds
  <1>4. /\ profileKeys' \in ProfileRec
        /\ setup.given # "none" => keysMade + 1 \in {profileKeys'.api, profileKeys'.session}
    <2>1. CASE setup.given = "none"
      BY <1>1, <1>2, <2>1 DEF Persisted
    <2>2. CASE setup.given = "api"
      <3>1. profileKeys' = [profileKeys EXCEPT !.api = keysMade + 1]
        BY <1>2, <2>2 DEF Persisted
      <3> QED BY <1>1, <3>1 DEF ProfileRec
    <2>3. CASE setup.given = "session"
      <3>1. profileKeys' = [profileKeys EXCEPT !.session = keysMade + 1]
        BY <1>2, <2>3 DEF Persisted
      <3> QED BY <1>1, <3>1 DEF ProfileRec
    <2> QED BY <1>3, <2>1, <2>2, <2>3
  <1>5. ASSUME NEW kind \in {"api", "session"}, UsableKey(Persisted, kind) # 0
        PROVE  /\ UsableKey(Persisted, kind) \in Nat \ {0}
               /\ UsableKey(Persisted, kind) \in {profileKeys'.api, profileKeys'.session}
    <2>1. UsableKey(Persisted, kind) \in {profileKeys'.api, profileKeys'.session}
      BY <1>2, <1>5 DEF UsableKey
    <2>2. profileKeys'.api \in Nat /\ profileKeys'.session \in Nat
      BY <1>4 DEF ProfileRec
    <2> QED BY <1>5, <2>1, <2>2
  <1>6. "setup" \in setup.does /\ setup.wrote = {}
    BY <1>1 DEF Course
  <1>7. CASE setup.given # "none" /\ setup' = WithKey(keysMade + 1)
    <2>1. keysMade + 1 \in Nat \ {0}
      BY <1>1
    <2> QED BY <1>1, <1>2, <1>3, <1>4, <1>7, <2>1, KeyFound
  <1>8. CASE \E kind \in {"api", "session"} : UsableKey(Persisted, kind) # 0 /\ setup' = WithKey(UsableKey(Persisted, kind))
    <2>1. PICK kind \in {"api", "session"} : UsableKey(Persisted, kind) # 0 /\ setup' = WithKey(UsableKey(Persisted, kind))
      BY <1>8
    <2>2. PICK key : key = UsableKey(Persisted, kind)
      OBVIOUS
    <2>3. key \in Nat \ {0} /\ key \in {profileKeys'.api, profileKeys'.session} /\ setup' = WithKey(key)
      BY <1>5, <2>1, <2>2
    <2> QED BY <1>1, <1>2, <1>3, <1>4, <2>3, KeyFound
  <1>9. CASE \E pc \in {"issue", "browser"} : setup' = [setup EXCEPT !.pc = pc]
    <2>1. PICK pc \in {"issue", "browser"} : setup' = [setup EXCEPT !.pc = pc]
      BY <1>9
    <2>2. /\ setup' \in SetupRec /\ setup'.pc = pc /\ setup'.does = setup.does /\ setup'.wrote = setup.wrote
          /\ setup'.at = setup.at /\ setup'.editors = setup.editors
      BY <1>1, <2>1 DEF SetupRec
    <2> QED BY <1>1, <1>2, <1>3, <1>4, <1>6, <2>2, LooksForKey
  <1>10. CASE SetupFails
    BY <1>2, <1>3, <1>4, <1>6, <1>10, FailureKeeps
  <1>11. OtherKind[setup.prefers] \in {"api", "session"}
    BY <1>3 DEF OtherKind
  <1>12. \/ setup.given # "none" /\ setup' = WithKey(keysMade + 1)
         \/ /\ UsableKey(Persisted, setup.prefers) # 0 /\ setup' = WithKey(UsableKey(Persisted, setup.prefers))
         \/ setup' = [setup EXCEPT !.pc = "issue"]
         \/ /\ UsableKey(Persisted, OtherKind[setup.prefers]) # 0
            /\ setup' = WithKey(UsableKey(Persisted, OtherKind[setup.prefers]))
         \/ setup' = [setup EXCEPT !.pc = "browser"]
         \/ SetupFails
    BY DEF Resolve
  <1> QED BY <1>3, <1>7, <1>8, <1>9, <1>10, <1>11, <1>12

LEMMA SetupIssuesKey ==
    ASSUME SetupInv, IssueKey
    PROVE  SetupInv'
  <1>1. setup \in SetupRec /\ Course /\ profileKeys \in ProfileRec /\ keysMade \in Nat /\ setup.pc = "issue"
    BY SetupParts DEF IssueKey, SetupAt
  <1>2. KeepsFiles /\ InProgress
    BY DEF IssueKey
  <1>3. CASE SetupFails /\ KeepsKeys
    BY <1>1, <1>2, <1>3, FailureKeeps DEF KeepsKeys
  <1>4. CASE /\ keysMade' = keysMade + 1
             /\ profileKeys' = [profileKeys EXCEPT ![setup.prefers] = keysMade + 1,
                                  !.live = @ \/ setup.prefers = "session"]
             /\ setup' = WithKey(keysMade + 1)
    <2>1. setup.prefers \in {"api", "session"}
      BY <1>1 DEF SetupRec, KeyKinds
    <2>2. PICK live \in BOOLEAN : live = (profileKeys.live \/ setup.prefers = "session")
      OBVIOUS
    <2>3. PICK key : key = keysMade + 1
      OBVIOUS
    <2>6. key \in Nat
      BY <1>1, <2>3
    <2>4. profileKeys' \in ProfileRec /\ key \in {profileKeys'.api, profileKeys'.session}
      <3>1. CASE setup.prefers = "api"
        <4>1. profileKeys' = [profileKeys EXCEPT !.api = key, !.live = live]
          BY <1>4, <2>2, <2>3, <3>1
        <4> QED BY <1>1, <2>6, <4>1 DEF ProfileRec
      <3>2. CASE setup.prefers = "session"
        <4>1. profileKeys' = [profileKeys EXCEPT !.session = key, !.live = live]
          BY <1>4, <2>2, <2>3, <3>2
        <4> QED BY <1>1, <2>6, <4>1 DEF ProfileRec
      <3> QED BY <2>1, <3>1, <3>2
    <2>5. key \in Nat \ {0} /\ keysMade' \in Nat /\ setup' = WithKey(key)
      <3>1. setup' = WithKey(key)
        BY <1>4, <2>3, Zenon
      <3>2. key \in Nat \ {0} /\ keysMade + 1 \in Nat
        BY <1>1, <2>3
      <3>3. keysMade' = keysMade + 1
        BY <1>4
      <3> QED BY <3>1, <3>2, <3>3
    <2> QED BY <1>1, <1>2, <2>4, <2>5, KeyFound
  <1> QED BY <1>3, <1>4 DEF IssueKey

LEMMA SetupAsksBrowser ==
    ASSUME SetupInv, BrowserLogin
    PROVE  SetupInv'
  <1>1. setup \in SetupRec /\ Course /\ profileKeys \in ProfileRec /\ keysMade \in Nat /\ setup.pc = "browser"
    BY SetupParts DEF BrowserLogin, SetupAt
  <1>2. KeepsFiles /\ InProgress /\ keysMade' = keysMade
    BY DEF BrowserLogin
  <1>3. CASE SetupFails /\ profileKeys' = profileKeys
    BY <1>1, <1>2, <1>3, FailureKeeps
  <1>4. CASE profileKeys' = [profileKeys EXCEPT !.jwt = TRUE] /\ setup' = [setup EXCEPT !.pc = "resolve"]
    <2>1. profileKeys' \in ProfileRec
      BY <1>1, <1>4 DEF ProfileRec
    <2>2. /\ setup' \in SetupRec /\ setup'.pc = "resolve" /\ setup'.does = setup.does /\ setup'.wrote = setup.wrote
          /\ setup'.at = setup.at /\ setup'.editors = setup.editors
      BY <1>1, <1>4 DEF SetupRec
    <2>3. "setup" \in setup.does /\ setup.wrote = {}
      BY <1>1 DEF Course
    <2> QED BY <1>1, <1>2, <2>1, <2>2, <2>3, LooksForKey
  <1> QED BY <1>3, <1>4 DEF BrowserLogin

\* What was read of a file has the numbers of what others have put there.
LEMMA OthersNumbered ==
    ASSUME NEW lines \in Seq(LineRec), NEW last \in Nat, NumberedTo(lines, last)
    PROVE  OthersIds(lines) \in SUBSET Nat /\ OthersIds(lines) \subseteq 0 .. last
  <1>1. ASSUME NEW n \in OthersIds(lines) PROVE n \in 0 .. last
    <2>1. PICK line \in Range(lines) : line.of \in {"user", "near"} /\ line.id = n
      BY DEF OthersIds
    <2>2. PICK i \in DOMAIN lines : lines[i] = line
      BY DEF Range
    <2>3. lines[i] \in LineRec
      OBVIOUS
    <2>4. lines[i].id \in Nat
      BY <2>3 DEF LineRec
    <2>5. lines[i].id <= last
      BY <2>1, <2>2 DEF NumberedTo, OthersLine
    <2> QED BY <2>1, <2>2, <2>4, <2>5
  <1> QED BY <1>1
LEMMA FewerClaimed ==
    ASSUME NEW lines, NEW ids, TomlGood(lines, ids), NEW fewer \in SUBSET ids
    PROVE  TomlGood(lines, fewer)
  BY DEF TomlGood, HeadOf
LEMMA NumberedMore ==
    ASSUME NEW lines \in Seq(LineRec), NEW last \in Nat, NumberedTo(lines, last)
    PROVE  NumberedTo(lines, last + 1)
  <1>1. ASSUME NEW i \in DOMAIN lines, OthersLine(lines[i]) PROVE lines[i].id <= last + 1
    <2>1. lines[i] \in LineRec
      OBVIOUS
    <2>2. lines[i].id \in Nat
      BY <2>1 DEF LineRec
    <2>3. lines[i].id <= last
      BY <1>1 DEF NumberedTo
    <2> QED BY <2>2, <2>3
  <1> QED BY <1>1 DEF NumberedTo

LEMMA ListsOfFiles ==
    /\ FilesWritten = JsonEditors \cup {"codex"} \cup Prompts /\ EditorNames \subseteq FilesWritten
    /\ "codex" \notin JsonEditors /\ "codex" \notin Prompts /\ JsonEditors \cap Prompts = {}
    /\ Prompts = {"AGENTS.md", "CLAUDE.md"} /\ Prompts \subseteq FilesWritten
  BY DEF FilesWritten, EditorNames, JsonEditors, Prompts

LEMMA SetupReadsEditor ==
    ASSUME SetupInv, ReadEditor
    PROVE  SetupInv'
  <1>1. /\ setup \in SetupRec /\ profileKeys \in ProfileRec /\ keysMade \in Nat /\ touches \in Nat /\ setup.pc = "read"
        /\ toml \in Seq(LineRec) /\ json \in [JsonEditors -> JsonRec] /\ TomlKept /\ Course /\ Keyed /\ SetupTyped /\ Agreed
    BY SetupParts DEF ReadEditor, SetupAt
  <1>2. KeepsKeys /\ KeepsFiles /\ InProgress /\ profileKeys' = profileKeys /\ keysMade' = keysMade
    BY DEF ReadEditor, KeepsKeys
  <1>3. CASE SetupFails
    BY <1>1, <1>2, <1>3, FailureKeeps
  <1>4. CASE ~SetupFails
    <2>1. PICK editor : editor = Editor
      OBVIOUS
    <2>2. editor \in EditorNames /\ "setup" \in setup.does /\ setup.at \in 1 .. Len(setup.editors)
      <3>1. "setup" \in setup.does /\ setup.at \in 1 .. Len(setup.editors)
        BY <1>1 DEF Course
      <3>2. setup.editors \in Seq(EditorNames)
        BY <1>1 DEF SetupRec
      <3> QED BY <2>1, <3>1, <3>2 DEF Editor
    <2>3. PICK read, object, copy : /\ read = IdsOf(editor) /\ object = (IF editor \in JsonEditors THEN json[editor] ELSE EmptyJson)
                                    /\ copy = (IF editor = "codex" THEN toml ELSE <<>>)
      OBVIOUS
    <2>4. /\ read \in SUBSET Nat /\ object \in JsonRec /\ copy \in Seq(LineRec)
          /\ editor \in JsonEditors => read = Others(object)
          /\ editor = "codex" => copy = toml /\ read \subseteq 0 .. touches
      <3>1. CASE editor \in JsonEditors
        <4>1. object = json[editor] /\ object \in JsonRec
          BY <1>1, <2>3, <3>1
        <4>2. read = Others(object) /\ editor # "codex"
          BY <2>3, <3>1, <4>1, ListsOfFiles DEF IdsOf, Others
        <4>3. Others(object) \in SUBSET Nat
          BY <4>1 DEF JsonRec, Others
        <4>4. copy \in Seq(LineRec)
          BY <2>3, <4>2
        <4> QED BY <4>1, <4>2, <4>3, <4>4
      <3>2. CASE editor = "codex"
        <4>1. editor \notin JsonEditors
          BY <3>2, ListsOfFiles
        <4>2. read = OthersIds(toml) /\ object = EmptyJson /\ copy = toml
          BY <2>3, <3>2, <4>1 DEF IdsOf
        <4>3. read \in SUBSET Nat /\ read \subseteq 0 .. touches
          BY <1>1, <4>2, OthersNumbered DEF TomlKept
        <4> QED BY <1>1, <4>1, <4>2, <4>3, NoSetupTyped
      <3> QED BY <2>2, <3>1, <3>2 DEF EditorNames
    <2>5. setup' = [setup EXCEPT !.pc = "write", !.read = read, !.object = object, !.copy = copy]
      BY <1>4, <2>1, <2>3 DEF ReadEditor
    <2>6. /\ setup' \in SetupRec /\ setup'.pc = "write" /\ setup'.read = read /\ setup'.object = object /\ setup'.copy = copy
          /\ setup'.does = setup.does /\ setup'.wrote = setup.wrote /\ setup'.at = setup.at
          /\ setup'.editors = setup.editors /\ setup'.key = setup.key
      BY <1>1, <2>4, <2>5 DEF SetupRec
    <2>7. UNCHANGED <<json, toml, prompt, mine, tornFiles>> /\ touches' = touches
      BY <1>2 DEF KeepsFiles, InProgress
    <2>8. JsonKept' /\ TomlKept' /\ \A file \in Prompts : PromptKept(file)'
      BY <2>7, FilesStay
    <2>9. Editor' = editor
      BY <2>1, <2>6 DEF Editor
    <2>10. WriteReady'
      <3>1. ASSUME editor = "codex"
            PROVE  TomlGood(copy, mine["codex"] \cap read) /\ NumberedTo(copy, touches)
        <4>1. TomlGood(toml, mine["codex"]) /\ NumberedTo(toml, touches)
          BY <1>1 DEF TomlKept
        <4> QED BY <2>4, <3>1, <4>1, FewerClaimed
      <3> QED BY <2>4, <2>6, <2>7, <2>9, <3>1 DEF WriteReady
    <2>11. PromptReady' /\ Ruled'
      BY <2>6 DEF PromptReady, Ruled, SetupAt
    <2>12. Course' /\ Keyed'
      BY <1>1, <1>2, <2>2, <2>6 DEF Course, Keyed
    <2>13. Agreed'
      BY <1>1, <2>6, <2>7 DEF Agreed
    <2>14. SetupTyped'
      BY <1>1, <1>2, <2>6, <2>7 DEF SetupTyped
    <2> QED BY <2>8, <2>10, <2>11, <2>12, <2>13, <2>14 DEF SetupInv
  <1> QED BY <1>3, <1>4

\* Skills and the catalogue, which are nobody else's.
LEMMA SetupWritesSkills ==
    ASSUME SetupInv, WriteSkills \/ FetchCatalogue
    PROVE  SetupInv'
  <1>1. setup \in SetupRec /\ Keyed /\ Agreed /\ SetupTyped /\ setup.pc \in {"skills", "fetch"}
    BY SetupParts DEF WriteSkills, FetchCatalogue, SetupAt
  <1>2. /\ UNCHANGED <<json, toml, prompt, mine, tornFiles>> /\ touches' = touches
        /\ profileKeys' = profileKeys /\ keysMade' = keysMade
    BY DEF WriteSkills, FetchCatalogue, KeepsKeys, InProgress
  <1>3. /\ setup' \in SetupRec /\ setup'.wrote = setup.wrote /\ setup'.key = setup.key
        /\ setup'.pc = "fetch" \/ (setup'.pc = "readPrompt" /\ setup'.at = 1)
    <2>1. CASE WriteSkills
      <3>1. setup' = [setup EXCEPT !.pc = "fetch"]
        BY <2>1 DEF WriteSkills
      <3> QED BY <1>1, <3>1 DEF SetupRec
    <2>2. CASE FetchCatalogue
      <3>1. PICK rules \in {"hint", "list"} : setup' = [setup EXCEPT !.pc = "readPrompt", !.rules = rules, !.at = 1]
        BY <2>2 DEF FetchCatalogue
      <3> QED BY <1>1, <3>1 DEF SetupRec
    <2> QED BY <2>1, <2>2
  <1>4. JsonKept' /\ TomlKept' /\ \A file \in Prompts : PromptKept(file)'
    BY <1>2, FilesStay
  <1>5. WriteReady' /\ PromptReady'
    BY <1>3, NotWriting
  <1>6. Course' /\ Keyed' /\ Agreed' /\ Ruled'
    BY <1>1, <1>2, <1>3 DEF Course, Keyed, Agreed, Ruled, SetupAt
  <1>7. SetupTyped'
    BY <1>1, <1>2, <1>3 DEF SetupTyped
  <1> QED BY <1>4, <1>5, <1>6, <1>7 DEF SetupInv

LEMMA SetupReadsPrompt ==
    ASSUME SetupInv, ReadPrompt
    PROVE  SetupInv'
  <1>1. /\ setup \in SetupRec /\ Keyed /\ Agreed /\ Ruled /\ Course /\ SetupTyped /\ setup.pc = "readPrompt"
        /\ touches \in Nat /\ prompt \in [Prompts -> Seq(PieceRec)] /\ \A file \in Prompts : PromptKept(file)
    BY SetupParts DEF ReadPrompt, SetupAt
  <1>2. /\ UNCHANGED <<json, toml, prompt, mine, tornFiles>> /\ touches' = touches
        /\ profileKeys' = profileKeys /\ keysMade' = keysMade
    BY DEF ReadPrompt, KeepsKeys, KeepsFiles, InProgress
  <1>3. PICK file : file = PromptAt
    OBVIOUS
  <1>4. file \in Prompts /\ setup.at \in {1, 2}
    BY <1>1, <1>3 DEF Course, PromptAt, Prompts
  <1>5. PICK copy, read : copy = prompt[file] /\ read = TextIds(copy)
    OBVIOUS
  <1>6. copy \in Seq(PieceRec) /\ read \subseteq 0 .. touches /\ read \in SUBSET Nat
    BY <1>1, <1>4, <1>5 DEF PromptKept
  <1>7. setup' = [setup EXCEPT !.pc = "writePrompt", !.copy = copy, !.read = read]
    <2>1. IdsOf(file) = TextIds(prompt[file])
      BY <1>4, ListsOfFiles DEF IdsOf
    <2> QED BY <1>3, <1>5, <2>1 DEF ReadPrompt
  <1>8. /\ setup' \in SetupRec /\ setup'.pc = "writePrompt" /\ setup'.copy = copy /\ setup'.read = read
        /\ setup'.wrote = setup.wrote /\ setup'.key = setup.key /\ setup'.at = setup.at /\ setup'.rules = setup.rules
    BY <1>1, <1>6, <1>7 DEF SetupRec
  <1>9. PromptAt' = file
    BY <1>3, <1>8 DEF PromptAt
  <1>10. JsonKept' /\ TomlKept' /\ \A f \in Prompts : PromptKept(f)'
    BY <1>2, FilesStay
  <1>11. PromptReady'
    BY <1>1, <1>2, <1>4, <1>5, <1>6, <1>8, <1>9 DEF PromptReady, PromptKept
  <1>12. WriteReady' /\ Course' /\ Keyed' /\ Agreed' /\ Ruled'
    BY <1>1, <1>2, <1>4, <1>8 DEF WriteReady, Course, Keyed, Agreed, Ruled, SetupAt
  <1>13. SetupTyped'
    BY <1>1, <1>2, <1>8 DEF SetupTyped
  <1> QED BY <1>10, <1>11, <1>12, <1>13 DEF SetupInv

LEMMA SetupForgets ==
    ASSUME mine \in [FilesWritten -> SUBSET Nat], NEW file \in FilesWritten, Forgets(file)
    PROVE  /\ mine' \in [FilesWritten -> SUBSET Nat] /\ mine'[file] = mine[file] \cap setup.read
           /\ \A other \in FilesWritten : other # file => mine'[other] = mine[other]
  BY DEF Forgets

LEMMA SetupWritesEditor ==
    ASSUME SetupInv, WriteEditor
    PROVE  SetupInv'
  <1>1. /\ setup \in SetupRec /\ touches \in Nat /\ SetupTyped /\ setup.pc = "write"
        /\ toml \in Seq(LineRec) /\ json \in [JsonEditors -> JsonRec] /\ mine \in [FilesWritten -> SUBSET Nat]
        /\ JsonKept /\ TomlKept /\ Course /\ Keyed /\ Agreed /\ WriteReady /\ \A file \in Prompts : PromptKept(file)
    BY SetupParts DEF WriteEditor, SetupAt
  <1>2. PICK editor : editor = Editor
    OBVIOUS
  <1>3. editor \in EditorNames /\ editor \in FilesWritten /\ editor \notin Prompts
    <2>1. setup.at \in 1 .. Len(setup.editors)
      BY <1>1 DEF Course
    <2>2. setup.editors \in Seq(EditorNames)
      BY <1>1 DEF SetupRec
    <2>3. editor \in EditorNames
      BY <1>2, <2>1, <2>2 DEF Editor
    <2> QED BY <2>3, ListsOfFiles DEF EditorNames
  <1>4. PICK last \in BOOLEAN : last = ~(setup.at < Len(setup.editors))
    OBVIOUS
  <1>5. PICK at, pc, wrote :
           /\ at = (IF setup.at < Len(setup.editors) THEN setup.at + 1 ELSE 1)
           /\ pc = (IF setup.at < Len(setup.editors) THEN "read" ELSE IF "init" \in setup.does THEN "skills" ELSE "done")
           /\ wrote = setup.wrote \cup {editor}
    OBVIOUS
  <1>6. /\ at \in Nat /\ pc \in {"read", "skills", "done"} /\ wrote \in SUBSET EditorNames
        /\ pc = "read" => "setup" \in setup.does /\ at \in 1 .. Len(setup.editors)
        /\ pc = "done" => "init" \notin setup.does
    <2>1. "setup" \in setup.does /\ setup.at \in 1 .. Len(setup.editors)
      BY <1>1 DEF Course
    <2>2. setup.wrote \in SUBSET EditorNames
      BY <1>1 DEF SetupRec
    <2>3. Len(setup.editors) \in Nat
      BY <1>1 DEF SetupRec
    <2> QED BY <1>3, <1>5, <2>1, <2>2, <2>3
  <1>7. setup' = [setup EXCEPT !.wrote = wrote, !.read = {}, !.object = EmptyJson, !.copy = <<>>, !.at = at, !.pc = pc]
    BY <1>2, <1>5 DEF WriteEditor
  <1>8. /\ setup' \in SetupRec /\ setup'.pc = pc /\ setup'.at = at /\ setup'.wrote = wrote
        /\ setup'.does = setup.does /\ setup'.editors = setup.editors /\ setup'.key = setup.key
    <2>1. EmptyJson \in JsonRec /\ <<>> \in Seq(LineRec)
      BY NoSetupTyped
    <2> QED BY <1>1, <1>6, <1>7, <2>1 DEF SetupRec
  <1>9. /\ prompt' = prompt /\ tornFiles' = tornFiles /\ touches' = touches
        /\ profileKeys' = profileKeys /\ keysMade' = keysMade
        /\ json' = (IF editor \in JsonEditors THEN [json EXCEPT ![editor] = NewJson] ELSE json)
        /\ toml' = (IF editor = "codex" THEN NewToml ELSE toml)
        /\ Forgets(editor)
    BY <1>2 DEF WriteEditor, KeepsKeys, InProgress
  <1>10. /\ mine' \in [FilesWritten -> SUBSET Nat] /\ mine'[editor] = mine[editor] \cap setup.read
         /\ \A other \in FilesWritten : other # editor => mine'[other] = mine[other]
    BY <1>1, <1>3, <1>9, SetupForgets
  <1>11. setup.key \in Nat /\ setup.object \in JsonRec /\ setup.copy \in Seq(LineRec) \cup Seq(PieceRec)
    BY <1>1 DEF SetupRec
  <1>12. PICK object : object = NewJson
    OBVIOUS
  <1>13. /\ object \in JsonRec /\ object.own = setup.key /\ Legacy \notin object.servers
         /\ Others(object) = Others(setup.object)
    BY <1>11, <1>12 DEF NewJson, UpsertJson, JsonRec, Others, Legacy
  <1>14. ASSUME editor \in JsonEditors
         PROVE  JsonKept' /\ TomlKept' /\ Agreed' /\ json' \in [JsonEditors -> JsonRec] /\ toml' \in Seq(LineRec)
    <2>1. editor # "codex" /\ "codex" \in FilesWritten
      BY <1>14, ListsOfFiles
    <2>2. json' = [json EXCEPT ![editor] = object] /\ toml' = toml
      BY <1>9, <1>12, <1>14, <2>1
    <2>3. json' \in [JsonEditors -> JsonRec] /\ json'[editor] = object
          /\ \A e \in JsonEditors : e # editor => json'[e] = json[e]
      BY <1>1, <1>13, <1>14, <2>2
    <2>4. mine'["codex"] = mine["codex"]
      BY <1>10, <2>1
    <2>5. JsonKept'
      <3>1. ASSUME NEW e \in JsonEditors PROVE mine'[e] \subseteq Others(json'[e])
        <4>1. CASE e = editor
          <5>1. setup.read = Others(setup.object)
            BY <1>1, <1>2, <1>14 DEF WriteReady, SetupAt
          <5> QED BY <1>10, <1>13, <2>3, <4>1, <5>1
        <4>2. CASE e # editor
          <5>1. e \in FilesWritten
            BY ListsOfFiles
          <5> QED BY <1>1, <1>10, <2>3, <4>2, <5>1 DEF JsonKept
        <4> QED BY <4>1, <4>2
      <3> QED BY <3>1 DEF JsonKept
    <2>6. TomlKept'
      BY <1>1, <1>9, <2>2, <2>4 DEF TomlKept
    <2>7. Agreed'
      <3>1. ASSUME NEW e \in wrote
            PROVE  /\ e \in JsonEditors => json'[e].own = setup.key /\ Legacy \notin json'[e].servers
                   /\ e = "codex" => OwnTable(toml, setup.key)
        <4>1. CASE e = editor
          BY <1>13, <2>1, <2>3, <4>1
        <4>2. CASE e # editor
          <5>1. e \in setup.wrote
            BY <1>5, <4>2
          <5> QED BY <1>1, <2>3, <4>2, <5>1 DEF Agreed
        <4> QED BY <4>1, <4>2
      <3> QED BY <1>8, <2>2, <3>1 DEF Agreed
    <2>8. json' \in [JsonEditors -> JsonRec] /\ toml' \in Seq(LineRec)
      BY <1>1, <2>2, <2>3
    <2> QED BY <2>5, <2>6, <2>7, <2>8
  <1>15. ASSUME editor = "codex"
         PROVE  JsonKept' /\ TomlKept' /\ Agreed' /\ json' \in [JsonEditors -> JsonRec] /\ toml' \in Seq(LineRec)
    <2>1. editor \notin JsonEditors /\ "codex" \in FilesWritten
      BY <1>15, ListsOfFiles
    <2>2. json' = json /\ toml' = UpsertToml(setup.copy, setup.key)
      BY <1>9, <1>15, <2>1 DEF NewToml
    <2>3. /\ setup.copy \in Seq(LineRec) /\ TomlGood(setup.copy, mine["codex"] \cap setup.read)
          /\ NumberedTo(setup.copy, touches)
      BY <1>1, <1>2, <1>15 DEF WriteReady, SetupAt
    <2>4. /\ UpsertToml(setup.copy, setup.key) \in Seq(LineRec)
          /\ TomlGood(UpsertToml(setup.copy, setup.key), mine["codex"] \cap setup.read)
          /\ NumberedTo(UpsertToml(setup.copy, setup.key), touches)
          /\ OwnTable(UpsertToml(setup.copy, setup.key), setup.key)
      BY <1>1, <1>11, <2>3, TomlUpserted
    <2>5. JsonKept'
      <3>1. ASSUME NEW e \in JsonEditors PROVE mine'[e] \subseteq Others(json'[e])
        <4>1. e \in FilesWritten /\ e # editor
          BY <1>15, ListsOfFiles
        <4> QED BY <1>1, <1>10, <2>2, <4>1 DEF JsonKept
      <3> QED BY <3>1 DEF JsonKept
    <2>6. TomlKept'
      BY <1>9, <1>10, <1>15, <2>2, <2>4 DEF TomlKept
    <2>7. Agreed'
      <3>1. ASSUME NEW e \in wrote, e \in JsonEditors PROVE json'[e].own = setup.key /\ Legacy \notin json'[e].servers
        <4>1. e \in setup.wrote
          BY <1>5, <2>1, <3>1
        <4> QED BY <1>1, <2>2, <3>1, <4>1 DEF Agreed
      <3> QED BY <1>8, <2>2, <2>4, <3>1 DEF Agreed
    <2>8. json' \in [JsonEditors -> JsonRec] /\ toml' \in Seq(LineRec)
      BY <1>1, <2>2, <2>4
    <2> QED BY <2>5, <2>6, <2>7, <2>8
  <1>16. JsonKept' /\ TomlKept' /\ Agreed' /\ json' \in [JsonEditors -> JsonRec] /\ toml' \in Seq(LineRec)
    BY <1>3, <1>14, <1>15 DEF EditorNames
  <1>17. ASSUME NEW file \in Prompts PROVE PromptKept(file)'
    <2>1. mine'[file] = mine[file] /\ file \in Prompts
      BY <1>3, <1>10, ListsOfFiles
    <2> QED BY <1>1, <1>9, <2>1 DEF PromptKept
  <1>18. WriteReady' /\ PromptReady'
    BY <1>6, <1>8, NotWriting
  <1>19. Course' /\ Ruled'
    BY <1>6, <1>8 DEF Course, Ruled, SetupAt
  <1>20. Keyed'
    BY <1>1, <1>8, <1>9 DEF Keyed
  <1>21. SetupTyped'
    BY <1>1, <1>8, <1>9, <1>10, <1>16 DEF SetupTyped
  <1> QED BY <1>16, <1>17, <1>18, <1>19, <1>20, <1>21 DEF SetupInv

LEMMA SetupWritesPrompt ==
    ASSUME SetupInv, WritePrompt
    PROVE  SetupInv'
  <1>1. /\ setup \in SetupRec /\ touches \in Nat /\ SetupTyped /\ setup.pc = "writePrompt"
        /\ prompt \in [Prompts -> Seq(PieceRec)] /\ mine \in [FilesWritten -> SUBSET Nat]
        /\ JsonKept /\ TomlKept /\ Course /\ Keyed /\ Agreed /\ Ruled /\ PromptReady /\ \A f \in Prompts : PromptKept(f)
    BY SetupParts DEF WritePrompt, SetupAt
  <1>2. PICK file : file = PromptAt
    OBVIOUS
  <1>3. /\ setup.at \in {1, 2} /\ file \in Prompts /\ file \in FilesWritten
        /\ (setup.at = 1 => file = "AGENTS.md") /\ (setup.at = 2 => file = "CLAUDE.md")
    BY <1>1, <1>2, ListsOfFiles DEF Course, PromptAt
  <1>4. PICK pc : pc = (IF setup.at = 1 THEN "readPrompt" ELSE "done")
    OBVIOUS
  <1>5. setup' = [setup EXCEPT !.copy = <<>>, !.read = {}, !.at = 2, !.pc = pc]
    BY <1>4 DEF WritePrompt
  <1>6. /\ setup' \in SetupRec /\ setup'.pc = pc /\ setup'.at = 2 /\ setup'.wrote = setup.wrote /\ setup'.key = setup.key
        /\ setup'.does = setup.does /\ setup'.rules = setup.rules /\ pc \in {"readPrompt", "done"}
    <2>1. <<>> \in Seq(LineRec) /\ pc \in {"readPrompt", "done"}
      BY <1>4
    <2> QED BY <1>1, <1>5, <2>1 DEF SetupRec
  <1>7. /\ json' = json /\ toml' = toml /\ tornFiles' = tornFiles /\ touches' = touches
        /\ profileKeys' = profileKeys /\ keysMade' = keysMade /\ Forgets(file)
    BY <1>2 DEF WritePrompt, KeepsKeys, InProgress
  <1>8. /\ mine' \in [FilesWritten -> SUBSET Nat] /\ mine'[file] = mine[file] \cap setup.read
        /\ \A other \in FilesWritten : other # file => mine'[other] = mine[other]
    BY <1>1, <1>3, <1>7, SetupForgets
  <1>9. PICK new : new = UpsertSection(setup.copy, setup.rules)
    OBVIOUS
  <1>10. setup.copy \in Seq(PieceRec) /\ setup.read = TextIds(setup.copy) /\ setup.read \subseteq 0 .. touches
         /\ (file \notin tornFiles => Shaped(setup.copy))
         /\ (file \in tornFiles => \A n \in mine[file] \cap setup.read : AheadOf(setup.copy, n))
    BY <1>1, <1>2 DEF PromptReady, SetupAt
  <1>11. setup.rules \in {"hint", "list"}
    BY <1>1 DEF SetupRec
  <1>12. /\ new \in Seq(PieceRec) /\ TextIds(new) \subseteq TextIds(setup.copy)
         /\ \A n : AheadOf(setup.copy, n) => AheadOf(new, n)
         /\ Shaped(setup.copy) => RulesIn(new, setup.rules) /\ TextIds(setup.copy) \subseteq TextIds(new)
    BY <1>9, <1>10, <1>11, SectionUpserted
  <1>13. prompt' = [prompt EXCEPT ![file] = new]
    BY <1>2, <1>9 DEF WritePrompt, NewPrompt
  <1>14. /\ prompt' \in [Prompts -> Seq(PieceRec)] /\ prompt'[file] = new
         /\ \A f \in Prompts : f # file => prompt'[f] = prompt[f]
    BY <1>1, <1>3, <1>12, <1>13
  <1>15. ASSUME NEW f \in Prompts PROVE PromptKept(f)'
    <2>1. CASE f = file
      <3>1. TextIds(new) \subseteq 0 .. touches
        BY <1>10, <1>12
      <3>2. ASSUME file \in tornFiles, NEW n \in mine'[file] PROVE AheadOf(new, n)
        BY <1>8, <1>10, <1>12, <3>2
      <3>3. ASSUME file \notin tornFiles PROVE Shaped(new) /\ mine'[file] \subseteq TextIds(new)
        BY <1>8, <1>10, <1>11, <1>12, <3>3 DEF Shaped
      <3> QED BY <1>7, <1>14, <2>1, <3>1, <3>2, <3>3 DEF PromptKept
    <2>2. CASE f # file
      <3>1. prompt'[f] = prompt[f] /\ mine'[f] = mine[f]
        BY <1>8, <1>14, <2>2, ListsOfFiles
      <3> QED BY <1>1, <1>7, <3>1 DEF PromptKept
    <2> QED BY <2>1, <2>2
  <1>16. JsonKept' /\ TomlKept'
    <2>1. ASSUME NEW e \in JsonEditors \cup {"codex"} PROVE mine'[e] = mine[e]
      BY <1>3, <1>8, ListsOfFiles
    <2> QED BY <1>1, <1>7, <2>1 DEF JsonKept, TomlKept
  <1>17. WriteReady' /\ PromptReady'
    BY <1>6, NotWriting
  <1>18. Course' /\ Keyed' /\ Agreed'
    BY <1>1, <1>6, <1>7 DEF Course, Keyed, Agreed
  <1>19. Ruled'
    <2>1. file \notin tornFiles => RulesIn(new, setup.rules)
      BY <1>10, <1>12
    <2>2. CASE setup.at = 1
      BY <1>3, <1>4, <1>6, <1>7, <1>14, <2>1, <2>2 DEF Ruled, SetupAt
    <2>3. CASE setup.at = 2
      <3>1. pc = "done" /\ file = "CLAUDE.md"
        BY <1>3, <1>4, <2>3
      <3>2. "AGENTS.md" \notin tornFiles => RulesIn(prompt["AGENTS.md"], setup.rules)
        BY <1>1, <2>3 DEF Ruled
      <3>3. ASSUME NEW f \in Prompts \ tornFiles PROVE RulesIn(prompt'[f], setup.rules)
        <4>1. CASE f = file
          BY <1>14, <2>1, <3>3, <4>1
        <4>2. CASE f # file
          BY <1>14, <3>1, <3>2, <3>3, <4>2, ListsOfFiles
        <4> QED BY <4>1, <4>2
      <3> QED BY <1>6, <1>7, <3>1, <3>3 DEF Ruled, SetupAt
    <2> QED BY <1>3, <2>2, <2>3
  <1>20. SetupTyped'
    BY <1>1, <1>6, <1>7, <1>8, <1>14 DEF SetupTyped
  <1> QED BY <1>15, <1>16, <1>17, <1>18, <1>19, <1>20 DEF SetupInv

LEMMA SetupIsKilled ==
    ASSUME SetupInv, SetupKilled
    PROVE  SetupInv'
  <1>1. /\ setup \in SetupRec /\ touches \in Nat /\ SetupTyped /\ tornFiles \in SUBSET Prompts
        /\ toml \in Seq(LineRec) /\ json \in [JsonEditors -> JsonRec] /\ prompt \in [Prompts -> Seq(PieceRec)]
        /\ mine \in [FilesWritten -> SUBSET Nat]
        /\ JsonKept /\ TomlKept /\ Course /\ WriteReady /\ PromptReady /\ \A f \in Prompts : PromptKept(f)
    BY SetupParts
  <1>2. setup' = [NoSetup EXCEPT !.pc = "killed"] /\ touches' = touches /\ profileKeys' = profileKeys /\ keysMade' = keysMade
    BY DEF SetupKilled, KeepsKeys
  <1>3. setup' \in SetupRec /\ setup'.pc = "killed" /\ setup'.wrote = {}
    <2>1. NoSetup \in SetupRec /\ NoSetup.wrote = {}
      BY NoSetupTyped
    <2> QED BY <1>2, <2>1 DEF SetupRec
  <1>4. WriteReady' /\ PromptReady' /\ Course' /\ Keyed' /\ Agreed' /\ Ruled'
    <2>1. WriteReady' /\ PromptReady'
      BY <1>3, NotWriting
    <2> QED BY <1>3, <2>1 DEF Course, Keyed, Agreed, Ruled, SetupAt
  <1>5. PICK editor : editor = Editor
    OBVIOUS
  <1>6. PICK file : file = PromptAt
    OBVIOUS
  <1>7. ASSUME setup.pc = "writePrompt" PROVE file \in Prompts /\ file \in FilesWritten
    BY <1>1, <1>6, <1>7, ListsOfFiles DEF Course, PromptAt
  <1> DEFINE Kept == /\ json' \in [JsonEditors -> JsonRec] /\ toml' \in Seq(LineRec)
                     /\ prompt' \in [Prompts -> Seq(PieceRec)] /\ mine' \in [FilesWritten -> SUBSET Nat]
                     /\ tornFiles' \in SUBSET Prompts
                     /\ JsonKept' /\ TomlKept' /\ \A f \in Prompts : PromptKept(f)'
  <1>8. ASSUME UNCHANGED <<json, toml, prompt, mine, tornFiles>> PROVE Kept
    <2>1. JsonKept' /\ TomlKept' /\ \A f \in Prompts : PromptKept(f)'
      BY <1>2, <1>8, FilesStay
    <2> QED BY <1>1, <1>8, <2>1
  <1>9. ASSUME editor \in JsonEditors,
               \E form \in {"object", "refused"} : json' = [json EXCEPT ![editor] = [EmptyJson EXCEPT !.form = form]],
               mine' = [mine EXCEPT ![editor] = {}], UNCHANGED <<toml, prompt, tornFiles>>
        PROVE  Kept
    <2>1. PICK form \in {"object", "refused"} : json' = [json EXCEPT ![editor] = [EmptyJson EXCEPT !.form = form]]
      BY <1>9
    <2>2. PICK object : object = [EmptyJson EXCEPT !.form = form]
      OBVIOUS
    <2>3. object \in JsonRec
      BY <2>2, NoSetupTyped DEF JsonRec
    <2>4. json' \in [JsonEditors -> JsonRec] /\ \A e \in JsonEditors : e # editor => json'[e] = json[e]
      BY <1>1, <1>9, <2>1, <2>2, <2>3
    <2>5. editor \in FilesWritten /\ editor # "codex" /\ editor \notin Prompts /\ "codex" \in FilesWritten
      BY <1>9, ListsOfFiles
    <2>6. /\ mine' \in [FilesWritten -> SUBSET Nat] /\ mine'[editor] = {}
          /\ \A other \in FilesWritten : other # editor => mine'[other] = mine[other]
      BY <1>1, <1>9, <2>5
    <2>7. ASSUME NEW e \in JsonEditors PROVE mine'[e] \subseteq Others(json'[e])
      <3>1. e \in FilesWritten
        BY ListsOfFiles
      <3> QED BY <1>1, <2>4, <2>6, <3>1 DEF JsonKept
    <2>8. TomlKept'
      BY <1>1, <1>2, <1>9, <2>5, <2>6 DEF TomlKept
    <2>9. ASSUME NEW f \in Prompts PROVE PromptKept(f)'
      <3>1. mine'[f] = mine[f]
        BY <2>5, <2>6, ListsOfFiles
      <3> QED BY <1>1, <1>2, <1>9, <3>1 DEF PromptKept
    <2> QED BY <1>1, <1>9, <2>4, <2>6, <2>7, <2>8, <2>9 DEF JsonKept
  <1>10. ASSUME setup.pc = "write", editor = "codex", \E n \in 0 .. Len(NewToml) : toml' = SubSeq(NewToml, 1, n),
                mine' = [mine EXCEPT ![editor] = {}], UNCHANGED <<json, prompt, tornFiles>>
         PROVE  Kept
    <2>1. PICK new : new = NewToml
      OBVIOUS
    <2>2. /\ setup.copy \in Seq(LineRec) /\ TomlGood(setup.copy, mine["codex"] \cap setup.read)
          /\ NumberedTo(setup.copy, touches) /\ setup.key \in Nat
      BY <1>1, <1>5, <1>10 DEF WriteReady, SetupAt, SetupRec
    <2>3. new \in Seq(LineRec) /\ TomlGood(new, mine["codex"] \cap setup.read) /\ NumberedTo(new, touches)
      BY <1>1, <2>1, <2>2, TomlUpserted DEF NewToml
    <2>4. PICK n \in 0 .. Len(new) : toml' = SubSeq(new, 1, n)
      BY <1>10, <2>1
    <2>5. toml' \in Seq(LineRec) /\ TomlGood(toml', {}) /\ NumberedTo(toml', touches)
      BY <1>1, <2>3, <2>4, TomlCut
    <2>6. /\ mine' \in [FilesWritten -> SUBSET Nat] /\ mine'["codex"] = {}
          /\ \A other \in FilesWritten : other # "codex" => mine'[other] = mine[other]
      BY <1>1, <1>10, ListsOfFiles
    <2>7. TomlKept'
      BY <1>2, <2>5, <2>6 DEF TomlKept
    <2>8. ASSUME NEW e \in JsonEditors PROVE mine'[e] \subseteq Others(json'[e])
      <3>1. mine'[e] = mine[e]
        BY <2>6, ListsOfFiles
      <3> QED BY <1>1, <1>10, <3>1 DEF JsonKept
    <2>9. ASSUME NEW f \in Prompts PROVE PromptKept(f)'
      <3>1. mine'[f] = mine[f]
        BY <2>6, ListsOfFiles
      <3> QED BY <1>1, <1>2, <1>10, <3>1 DEF PromptKept
    <2> QED BY <1>1, <1>10, <2>5, <2>6, <2>7, <2>8, <2>9 DEF JsonKept
  <1>11. ASSUME setup.pc = "writePrompt",
                \E n \in 0 .. Len(NewPrompt) : prompt' = [prompt EXCEPT ![file] = SubSeq(NewPrompt, 1, n)],
                mine' = [mine EXCEPT ![file] = {}], tornFiles' = tornFiles \cup {file}, UNCHANGED <<json, toml>>
         PROVE  Kept
    <2>1. PICK new : new = NewPrompt
      OBVIOUS
    <2>2. setup.copy \in Seq(PieceRec) /\ TextIds(setup.copy) \subseteq 0 .. touches /\ setup.rules \in {"hint", "list"}
      BY <1>1, <1>11 DEF PromptReady, SetupAt, SetupRec
    <2>3. new = UpsertSection(setup.copy, setup.rules)
      BY <2>1 DEF NewPrompt
    <2>4. new \in Seq(PieceRec) /\ TextIds(new) \subseteq 0 .. touches
      BY <2>2, <2>3, SectionUpserted
    <2>5. PICK n \in 0 .. Len(new) : prompt' = [prompt EXCEPT ![file] = SubSeq(new, 1, n)]
      BY <1>11, <2>1
    <2>6. PICK cut : cut = SubSeq(new, 1, n)
      OBVIOUS
    <2>7. cut \in Seq(PieceRec) /\ TextIds(cut) \subseteq 0 .. touches
      BY <2>4, <2>6, PromptCut
    <2>8. /\ prompt' \in [Prompts -> Seq(PieceRec)] /\ prompt'[file] = cut
          /\ \A f \in Prompts : f # file => prompt'[f] = prompt[f]
      BY <1>1, <1>7, <1>11, <2>5, <2>6, <2>7
    <2>9. /\ mine' \in [FilesWritten -> SUBSET Nat] /\ mine'[file] = {}
          /\ \A other \in FilesWritten : other # file => mine'[other] = mine[other]
      BY <1>1, <1>7, <1>11
    <2>10. tornFiles' \in SUBSET Prompts /\ file \in tornFiles' /\ \A f \in Prompts : f # file => (f \in tornFiles' <=> f \in tornFiles)
      BY <1>1, <1>7, <1>11
    <2>11. ASSUME NEW e \in JsonEditors \cup {"codex"} PROVE mine'[e] = mine[e]
      BY <1>7, <1>11, <2>9, ListsOfFiles
    <2>12. JsonKept' /\ TomlKept'
      BY <1>1, <1>2, <1>11, <2>11 DEF JsonKept, TomlKept
    <2>13. ASSUME NEW f \in Prompts PROVE PromptKept(f)'
      <3>1. CASE f = file
        BY <1>2, <2>7, <2>8, <2>9, <2>10, <3>1 DEF PromptKept
      <3>2. CASE f # file
        <4>1. mine'[f] = mine[f] /\ prompt'[f] = prompt[f] /\ (f \in tornFiles' <=> f \in tornFiles)
          BY <2>8, <2>9, <2>10, <3>2, ListsOfFiles
        <4> QED BY <1>1, <1>2, <4>1 DEF PromptKept
      <3> QED BY <3>1, <3>2
    <2> QED BY <1>1, <1>11, <2>8, <2>9, <2>10, <2>12, <2>13
  <1> HIDE DEF Kept
  <1>12. Kept
    BY <1>5, <1>6, <1>8, <1>9, <1>10, <1>11 DEF SetupKilled, SetupAt
  <1>13. SetupTyped'
    BY <1>1, <1>2, <1>3, <1>12 DEF SetupTyped, Kept
  <1> QED BY <1>4, <1>12, <1>13 DEF SetupInv, Kept

\* Others write while a command is where it was.
LEMMA CommandStays ==
    ASSUME SetupInv, OthersOnly
    PROVE  /\ setup' = setup /\ profileKeys' = profileKeys /\ keysMade' = keysMade
           /\ setup' \in SetupRec /\ profileKeys' \in ProfileRec /\ keysMade' \in Nat /\ Course' /\ Keyed'
  <1>1. /\ setup' = setup /\ profileKeys' = profileKeys /\ keysMade' = keysMade
    BY DEF OthersOnly, KeepsKeys
  <1>2. setup \in SetupRec /\ profileKeys \in ProfileRec /\ keysMade \in Nat /\ Course /\ Keyed
    BY SetupParts
  <1> QED BY <1>1, <1>2 DEF Course, Keyed

LEMMA PutIn ==
    ASSUME mine \in [FilesWritten -> SUBSET Nat], NEW file \in FilesWritten, touches \in Nat, PutsIn(file)
    PROVE  /\ mine' \in [FilesWritten -> SUBSET Nat] /\ mine'[file] = mine[file] \cup {touches + 1}
           /\ \A other \in FilesWritten : other # file => mine'[other] = mine[other]
  <1>1. touches + 1 \in Nat
    OBVIOUS
  <1>2. mine' = [mine EXCEPT ![file] = mine[file] \cup {touches + 1}]
    BY DEF PutsIn, Number
  <1> QED BY <1>1, <1>2

\* The texts of a file that nobody writes now are numbered as before.
LEMMA PromptsStay ==
    ASSUME SetupInv, NEW file \in Prompts, prompt'[file] = prompt[file], mine'[file] = mine[file],
           file \in tornFiles' <=> file \in tornFiles, touches' = touches + 1
    PROVE  PromptKept(file)'
  <1>1. PromptKept(file) /\ touches \in Nat
    BY SetupParts
  <1>2. 0 .. touches \subseteq 0 .. touches'
    BY <1>1
  <1> QED BY <1>1, <1>2 DEF PromptKept
LEMMA CopyStays ==
    ASSUME SetupInv, setup' = setup, touches' = touches + 1, mine'["codex"] \cap (0 .. touches) \subseteq mine["codex"]
    PROVE  WriteReady'
  <1>1. SetupAt("write") => WriteReady /\ touches \in Nat
    BY SetupParts
  <1>2. CASE SetupAt("write") /\ Editor = "codex"
    <2>1. /\ setup.copy \in Seq(LineRec) /\ setup.read \subseteq 0 .. touches
          /\ TomlGood(setup.copy, mine["codex"] \cap setup.read) /\ NumberedTo(setup.copy, touches)
      BY <1>1, <1>2 DEF WriteReady
    <2>2. NumberedTo(setup.copy, touches + 1) /\ setup.read \subseteq 0 .. touches + 1
      BY <1>1, <1>2, <2>1, NumberedMore
    <2>3. mine'["codex"] \cap setup.read \in SUBSET (mine["codex"] \cap setup.read)
      BY <2>1
    <2>4. TomlGood(setup.copy, mine'["codex"] \cap setup.read)
      BY <2>1, <2>3, FewerClaimed
    <2> QED BY <1>1, <1>2, <2>1, <2>2, <2>4 DEF WriteReady, SetupAt, Editor
  <1> QED BY <1>1, <1>2 DEF WriteReady, SetupAt, Editor
LEMMA PromptCopyStays ==
    ASSUME SetupInv, setup' = setup, touches' = touches + 1, prompt' = prompt, tornFiles' = tornFiles,
           \A file \in Prompts : mine'[file] = mine[file]
    PROVE  PromptReady' /\ \A file \in Prompts : PromptKept(file)'
  <1>1. PromptReady /\ touches \in Nat /\ Course
    BY SetupParts
  <1>2. \A file \in Prompts : PromptKept(file)'
    BY PromptsStay
  <1>3. PromptReady'
    <2>1. SetupAt("writePrompt") => PromptAt \in Prompts
      BY <1>1 DEF Course, PromptAt, Prompts, SetupAt
    <2>2. 0 .. touches \subseteq 0 .. touches'
      BY <1>1
    <2>3. PromptAt' = PromptAt /\ (SetupAt("writePrompt"))' = SetupAt("writePrompt")
      BY DEF PromptAt, SetupAt
    <2> QED BY <1>1, <2>1, <2>2, <2>3 DEF PromptReady
  <1> QED BY <1>2, <1>3

LEMMA OthersTouchJson ==
    ASSUME SetupInv, NEW e \in JsonEditors, TouchJson(e)
    PROVE  SetupInv'
  <1>1. /\ touches \in Nat /\ json \in [JsonEditors -> JsonRec] /\ mine \in [FilesWritten -> SUBSET Nat]
        /\ toml \in Seq(LineRec) /\ SetupTyped /\ JsonKept /\ TomlKept /\ Agreed /\ Ruled
    BY SetupParts
  <1>2. /\ toml' = toml /\ prompt' = prompt /\ tornFiles' = tornFiles /\ touches' = touches + 1 /\ OthersOnly
    BY DEF TouchJson, Touched
  <1>3. /\ setup' = setup /\ profileKeys' = profileKeys /\ keysMade' = keysMade
        /\ setup' \in SetupRec /\ profileKeys' \in ProfileRec /\ keysMade' \in Nat /\ Course' /\ Keyed'
    BY <1>2, CommandStays
  <1>4. e \in FilesWritten /\ "codex" \in FilesWritten /\ e # "codex" /\ JsonEditors \subseteq FilesWritten
    BY ListsOfFiles
  <1>5. PICK object : object = json[e]
    OBVIOUS
  <1>6. object \in JsonRec
    BY <1>1, <1>5
  <1>7. \E new \in JsonRec : /\ json' = [json EXCEPT ![e] = new] /\ new.own = object.own
                             /\ (Legacy \notin object.servers => Legacy \notin new.servers)
                             /\ Others(object) \subseteq Others(new)
                             /\ \/ mine' = mine
                                \/ PutsIn(e) /\ touches + 1 \in Others(new)
    <2>1. CASE PutsIn(e) /\ json' = [json EXCEPT ![e].servers = @ \cup {Number}]
      <3>1. PICK new : new = [object EXCEPT !.servers = object.servers \cup {touches + 1}]
        OBVIOUS
      <3>2. json' = [json EXCEPT ![e] = new]
        BY <1>5, <2>1, <3>1 DEF Number
      <3>3. object.servers \cup {touches + 1} \in SUBSET Nat /\ touches + 1 # Legacy
        BY <1>1, <1>6 DEF JsonRec, Legacy
      <3>4. /\ new \in JsonRec /\ new.own = object.own /\ new.servers = object.servers \cup {touches + 1}
            /\ new.settings = object.settings
        BY <1>6, <3>1, <3>3 DEF JsonRec
      <3> QED BY <2>1, <3>2, <3>3, <3>4 DEF Others
    <2>2. CASE PutsIn(e) /\ json' = [json EXCEPT ![e].settings = @ \cup {Number}]
      <3>1. PICK new : new = [object EXCEPT !.settings = object.settings \cup {touches + 1}]
        OBVIOUS
      <3>2. json' = [json EXCEPT ![e] = new]
        BY <1>5, <2>2, <3>1 DEF Number
      <3>3. object.settings \cup {touches + 1} \in SUBSET Nat /\ touches + 1 # Legacy
        BY <1>1, <1>6 DEF JsonRec, Legacy
      <3>4. /\ new \in JsonRec /\ new.own = object.own /\ new.servers = object.servers
            /\ new.settings = object.settings \cup {touches + 1}
        BY <1>6, <3>1, <3>3 DEF JsonRec
      <3> QED BY <2>2, <3>2, <3>3, <3>4 DEF Others
    <2>3. CASE mine' = mine /\ json' = [json EXCEPT ![e].form = IF @ = "object" THEN "refused" ELSE "object"]
      <3>1. PICK form \in {"object", "refused"} : form = IF object.form = "object" THEN "refused" ELSE "object"
        OBVIOUS
      <3>2. PICK new : new = [object EXCEPT !.form = form]
        OBVIOUS
      <3>3. json' = [json EXCEPT ![e] = new]
        BY <1>5, <2>3, <3>1, <3>2
      <3>4. /\ new \in JsonRec /\ new.own = object.own /\ new.servers = object.servers /\ new.settings = object.settings
        BY <1>6, <3>2 DEF JsonRec
      <3> QED BY <2>3, <3>3, <3>4 DEF Others
    <2> QED BY <2>1, <2>2, <2>3 DEF TouchJson
  <1>8. PICK new \in JsonRec : /\ json' = [json EXCEPT ![e] = new] /\ new.own = object.own
                               /\ (Legacy \notin object.servers => Legacy \notin new.servers)
                               /\ Others(object) \subseteq Others(new)
                               /\ \/ mine' = mine
                                  \/ PutsIn(e) /\ touches + 1 \in Others(new)
    BY <1>7
  <1>9. /\ json' \in [JsonEditors -> JsonRec] /\ json'[e] = new
        /\ \A other \in JsonEditors : other # e => json'[other] = json[other]
    BY <1>1, <1>8
  <1>10. /\ mine' \in [FilesWritten -> SUBSET Nat]
         /\ mine'[e] = mine[e] \/ (mine'[e] = mine[e] \cup {touches + 1} /\ touches + 1 \in Others(new))
         /\ \A other \in FilesWritten : other # e => mine'[other] = mine[other]
    <2>1. CASE mine' = mine
      BY <1>1, <2>1
    <2>2. CASE PutsIn(e) /\ touches + 1 \in Others(new)
      BY <1>1, <1>4, <2>2, PutIn
    <2> QED BY <1>8, <2>1, <2>2
  <1>11. ASSUME NEW o \in JsonEditors PROVE mine'[o] \subseteq Others(json'[o])
    <2>1. mine[o] \subseteq Others(json[o]) /\ o \in FilesWritten
      BY <1>1, <1>4 DEF JsonKept
    <2> QED BY <1>5, <1>8, <1>9, <1>10, <2>1
  <1>12. mine'["codex"] = mine["codex"] /\ \A file \in Prompts : mine'[file] = mine[file]
    BY <1>4, <1>10, ListsOfFiles
  <1>13. TomlKept'
    <2>1. NumberedTo(toml, touches + 1)
      BY <1>1, NumberedMore DEF TomlKept
    <2> QED BY <1>1, <1>2, <1>12, <2>1 DEF TomlKept
  <1>14. WriteReady' /\ PromptReady' /\ \A file \in Prompts : PromptKept(file)'
    BY <1>2, <1>3, <1>12, CopyStays, PromptCopyStays
  <1>15. Agreed'
    <2>1. ASSUME NEW o \in JsonEditors, json[o].own = setup.key, Legacy \notin json[o].servers
          PROVE  json'[o].own = setup.key /\ Legacy \notin json'[o].servers
      BY <1>5, <1>8, <1>9, <2>1
    <2> QED BY <1>1, <1>2, <1>3, <2>1 DEF Agreed
  <1>16. Ruled'
    BY <1>1, <1>2, <1>3 DEF Ruled, SetupAt
  <1>17. SetupTyped'
    BY <1>1, <1>2, <1>3, <1>9, <1>10 DEF SetupTyped
  <1> QED BY <1>3, <1>11, <1>13, <1>14, <1>15, <1>16, <1>17 DEF SetupInv, JsonKept

LEMMA OthersTouchToml ==
    ASSUME SetupInv, TouchToml
    PROVE  SetupInv'
  <1>1. /\ touches \in Nat /\ mine \in [FilesWritten -> SUBSET Nat]
        /\ toml \in Seq(LineRec) /\ SetupTyped /\ JsonKept /\ TomlKept /\ Agreed /\ Ruled
    BY SetupParts
  <1>2. /\ json' = json /\ prompt' = prompt /\ tornFiles' = tornFiles /\ touches' = touches + 1 /\ OthersOnly
    BY DEF TouchToml, Touched
  <1>3. /\ setup' = setup /\ profileKeys' = profileKeys /\ keysMade' = keysMade
        /\ setup' \in SetupRec /\ profileKeys' \in ProfileRec /\ keysMade' \in Nat /\ Course' /\ Keyed'
    BY <1>2, CommandStays
  <1>4. PICK ids : ids = mine["codex"]
    OBVIOUS
  <1>5. TomlGood(toml, ids) /\ NumberedTo(toml, touches) /\ "codex" \in FilesWritten /\ ids \in SUBSET Nat
    BY <1>1, <1>4, ListsOfFiles DEF TomlKept
  <1>6. /\ toml' \in Seq(LineRec) /\ NumberedTo(toml', touches + 1)
        /\ \A key : OwnTable(toml, key) => OwnTable(toml', key)
        /\ \/ PutsIn("codex") /\ TomlGood(toml', ids \cup {touches + 1})
           \/ mine' = mine /\ TomlGood(toml', ids)
    <2>1. CASE PutsIn("codex") /\ \E of \in {"user", "near"} :
                  toml' = toml \o <<Line("head", of, Number), Line("line", of, Number)>>
      <3>1. PICK of \in {"user", "near"} : toml' = toml \o <<Line("head", of, touches + 1), Line("line", of, touches + 1)>>
        BY <2>1 DEF Number
      <3>2. PICK new : new = toml'
        OBVIOUS
      <3>3. new = WithTable(toml, of, touches + 1)
        BY <3>1, <3>2 DEF WithTable
      <3>4. /\ new \in Seq(LineRec) /\ TomlGood(new, ids \cup {touches + 1}) /\ NumberedTo(new, touches + 1)
            /\ OwnStays(toml, new)
        <4>1. toml \in Seq(LineRec) /\ TomlGood(toml, ids) /\ touches \in Nat /\ NumberedTo(toml, touches)
          BY <1>1, <1>5
        <4>2. of \in TheirTables
          BY DEF TheirTables
        <4> QED BY <3>3, <4>1, <4>2, TableAdded, Zenon
      <3> QED BY <2>1, <3>2, <3>4 DEF OwnStays
    <2>2. CASE PutsIn("codex") /\ toml' = <<Line("line", "user", Number)>> \o toml
      <3>1. toml' = <<Line("line", "user", touches + 1)>> \o toml
        BY <2>2 DEF Number
      <3> QED BY <1>1, <1>5, <2>2, <3>1, LineOnTop
    <2>3. CASE mine' = mine /\ toml' = Append(toml, Line("line", "user", Number))
      <3>1. toml' = Append(toml, Line("line", "user", touches + 1))
        BY <2>3 DEF Number
      <3> QED BY <1>1, <1>5, <2>3, <3>1, LineAtEnd
    <2> QED BY <2>1, <2>2, <2>3 DEF TouchToml
  <1>7. /\ mine' \in [FilesWritten -> SUBSET Nat] /\ TomlGood(toml', mine'["codex"])
        /\ mine'["codex"] \subseteq ids \cup {touches + 1}
        /\ \A other \in FilesWritten : other # "codex" => mine'[other] = mine[other]
    <2>1. CASE PutsIn("codex") /\ TomlGood(toml', ids \cup {touches + 1})
      <3>1. /\ mine' \in [FilesWritten -> SUBSET Nat] /\ mine'["codex"] = ids \cup {touches + 1}
            /\ \A other \in FilesWritten : other # "codex" => mine'[other] = mine[other]
        BY <1>1, <1>4, <1>5, <2>1, PutIn
      <3> QED BY <2>1, <3>1
    <2>2. CASE mine' = mine /\ TomlGood(toml', ids)
      BY <1>1, <1>4, <2>2
    <2> QED BY <1>6, <2>1, <2>2
  <1>8. TomlKept'
    BY <1>2, <1>6, <1>7 DEF TomlKept
  <1>9. JsonKept' /\ \A file \in Prompts : mine'[file] = mine[file]
    <2>1. ASSUME NEW other \in JsonEditors \cup Prompts PROVE mine'[other] = mine[other]
      BY <1>7, ListsOfFiles
    <2> QED BY <1>1, <1>2, <2>1 DEF JsonKept
  <1>10. WriteReady'
    <2>1. mine'["codex"] \cap (0 .. touches) \subseteq mine["codex"]
      <3>1. touches + 1 \notin 0 .. touches
        BY <1>1
      <3> QED BY <1>4, <1>7, <3>1
    <2> QED BY <1>2, <1>3, <2>1, CopyStays
  <1>11. PromptReady' /\ \A file \in Prompts : PromptKept(file)'
    BY <1>2, <1>3, <1>9, PromptCopyStays
  <1>12. Agreed' /\ Ruled'
    BY <1>1, <1>2, <1>3, <1>6 DEF Agreed, Ruled, SetupAt
  <1>13. SetupTyped'
    BY <1>1, <1>2, <1>3, <1>6, <1>7 DEF SetupTyped
  <1> QED BY <1>3, <1>8, <1>9, <1>10, <1>11, <1>12, <1>13 DEF SetupInv

\* One file of a repository gets a text, or loses a marker.
LEMMA OthersTouchPrompt ==
    ASSUME SetupInv, NEW file \in Prompts, TouchPrompt(file)
    PROVE  SetupInv'
  <1>1. /\ touches \in Nat /\ mine \in [FilesWritten -> SUBSET Nat] /\ prompt \in [Prompts -> Seq(PieceRec)]
        /\ toml \in Seq(LineRec) /\ tornFiles \in SUBSET Prompts
        /\ SetupTyped /\ JsonKept /\ TomlKept /\ Course /\ Agreed /\ Ruled /\ PromptReady /\ PromptKept(file)
    BY SetupParts
  <1>2. /\ json' = json /\ toml' = toml /\ touches' = touches + 1 /\ OthersOnly
    BY DEF TouchPrompt, Touched
  <1>3. /\ setup' = setup /\ profileKeys' = profileKeys /\ keysMade' = keysMade
        /\ setup' \in SetupRec /\ profileKeys' \in ProfileRec /\ keysMade' \in Nat /\ Course' /\ Keyed'
    BY <1>2, CommandStays
  <1>4. file \in FilesWritten /\ file # "codex" /\ "codex" \in FilesWritten
    BY ListsOfFiles
  <1>5. PICK pieces, ids, n : pieces = prompt[file] /\ ids = mine[file] /\ n = touches + 1
    OBVIOUS
  <1>6. /\ pieces \in Seq(PieceRec) /\ ids \in SUBSET Nat /\ n \in Nat /\ n \notin 0 .. touches
        /\ TextIds(pieces) \subseteq 0 .. touches
        /\ (file \in tornFiles => \A m \in ids : AheadOf(pieces, m))
        /\ (file \notin tornFiles => Shaped(pieces) /\ ids \subseteq TextIds(pieces))
    BY <1>1, <1>4, <1>5 DEF PromptKept
  <1>7. 0 .. touches \subseteq 0 .. n /\ n \in 0 .. n
    BY <1>1, <1>5
  \* What the file is then, and what of it is claimed.
  <1> DEFINE Whole(new, mined) == /\ file \notin tornFiles /\ tornFiles' = tornFiles
                                  /\ Shaped(new) /\ mined \subseteq TextIds(new)
                                  /\ \A m : m # n /\ AheadOf(new, m) => AheadOf(pieces, m)
                                  /\ \A rules \in {"hint", "list"} : RulesIn(pieces, rules) => RulesIn(new, rules)
             Torn(new, mined) == /\ tornFiles' = tornFiles \cup {file}
                                 /\ \A m \in mined : AheadOf(new, m) /\ (m # n => AheadOf(pieces, m))
  <1>8. \E new \in Seq(PieceRec), mined \in SUBSET Nat :
           /\ prompt' = [prompt EXCEPT ![file] = new] /\ mine' = [mine EXCEPT ![file] = mined]
           /\ TextIds(new) \subseteq TextIds(pieces) \cup {n} /\ mined \subseteq ids \cup {n}
           /\ Whole(new, mined) \/ Torn(new, mined)
    <2>1. CASE /\ prompt' = [prompt EXCEPT ![file] = <<Piece("text", Number)>> \o @] /\ PutsIn(file)
               /\ tornFiles' = tornFiles
      <3>1. PICK new : new = WithTextOnTop(pieces, n)
        OBVIOUS
      <3>2. prompt' = [prompt EXCEPT ![file] = new] /\ mine' = [mine EXCEPT ![file] = ids \cup {n}]
        BY <1>5, <2>1, <3>1 DEF Number, PutsIn, WithTextOnTop
      <3>3. /\ new \in Seq(PieceRec) /\ TextIds(new) = TextIds(pieces) \cup {n}
            /\ AheadOf(new, n)
            /\ \A m : AheadOf(pieces, m) => AheadOf(new, m)
            /\ \A m : m # n /\ AheadOf(new, m) => AheadOf(pieces, m)
            /\ \A rules : RulesIn(pieces, rules) => RulesIn(new, rules)
            /\ Shaped(pieces) => Shaped(new)
        <4>1. pieces \in Seq(PieceRec) /\ n \in Nat
          BY <1>6
        <4> QED BY <3>1, <4>1, TextOnTop, Zenon
      <3>4. ids \cup {n} \in SUBSET Nat
        BY <1>6
      <3>5. CASE file \in tornFiles
        <4>1. Torn(new, ids \cup {n})
          BY <1>6, <2>1, <3>3, <3>5
        <4> QED BY <3>2, <3>3, <3>4, <4>1
      <3>6. CASE file \notin tornFiles
        <4>1. Whole(new, ids \cup {n})
          BY <1>6, <2>1, <3>3, <3>6
        <4> QED BY <3>2, <3>3, <3>4, <4>1
      <3> QED BY <3>5, <3>6
    <2>2. CASE /\ prompt' = [prompt EXCEPT ![file] = Append(@, Piece("text", Number))]
               /\ IF file \in tornFiles THEN mine' = mine ELSE PutsIn(file)
               /\ tornFiles' = tornFiles
      <3>1. PICK new : new = WithTextAtEnd(pieces, n)
        OBVIOUS
      <3>2. prompt' = [prompt EXCEPT ![file] = new]
        BY <1>5, <2>2, <3>1 DEF Number, WithTextAtEnd
      <3>3. /\ new \in Seq(PieceRec) /\ TextIds(new) = TextIds(pieces) \cup {n}
            /\ \A m : AheadOf(pieces, m) => AheadOf(new, m)
            /\ \A m : m # n /\ AheadOf(new, m) => AheadOf(pieces, m)
            /\ \A rules : RulesIn(pieces, rules) => RulesIn(new, rules)
            /\ Shaped(pieces) => Shaped(new)
        <4>1. pieces \in Seq(PieceRec) /\ n \in Nat
          BY <1>6
        <4> QED BY <3>1, <4>1, TextAtEnd, Zenon
      <3>5. CASE file \in tornFiles
        <4>1. Torn(new, ids)
          BY <1>6, <2>2, <3>3, <3>5
        <4>2. mine' = [mine EXCEPT ![file] = ids]
          BY <1>1, <1>4, <1>5, <2>2, <3>5
        <4> QED BY <1>6, <3>2, <3>3, <4>1, <4>2
      <3>6. CASE file \notin tornFiles
        <4>1. Whole(new, ids \cup {n})
          BY <1>6, <2>2, <3>3, <3>6
        <4>2. mine' = [mine EXCEPT ![file] = ids \cup {n}]
          BY <1>5, <2>2, <3>6 DEF Number, PutsIn
        <4>3. ids \cup {n} \in SUBSET Nat
          BY <1>6
        <4> QED BY <3>2, <3>3, <4>1, <4>2, <4>3
      <3> QED BY <3>5, <3>6
    <2>3. CASE \E is \in {"start", "end"} :
                  /\ PlaceOf(prompt[file], is) # 0
                  /\ prompt' = [prompt EXCEPT ![file] = RemoveAt(@, PlaceOf(@, is))]
                  /\ tornFiles' = tornFiles \cup {file}
                  /\ mine' = [mine EXCEPT ![file] = @ \cap TextIds(SubSeq(prompt[file], 1, PlaceOf(prompt[file], is)))]
      <3>1. PICK is \in {"start", "end"} :
                  /\ PlaceOf(prompt[file], is) # 0
                  /\ prompt' = [prompt EXCEPT ![file] = RemoveAt(@, PlaceOf(@, is))]
                  /\ tornFiles' = tornFiles \cup {file}
                  /\ mine' = [mine EXCEPT ![file] = @ \cap TextIds(SubSeq(prompt[file], 1, PlaceOf(prompt[file], is)))]
        BY <2>3
      <3>2. PICK p : p = PlaceOf(pieces, is)
        OBVIOUS
      <3>3. p \in DOMAIN pieces /\ pieces[p].is = is
        BY <1>5, <1>6, <3>1, <3>2, PlaceIsFirst
      <3>4. PICK new, mined : new = RemoveAt(pieces, p) /\ mined = ids \cap TextIds(SubSeq(pieces, 1, p))
        OBVIOUS
      <3>5. pieces[p].is \in Marks
        BY <3>3 DEF Marks
      <3>6. /\ new \in Seq(PieceRec) /\ TextIds(new) \subseteq TextIds(pieces)
            /\ \A m : AheadOf(pieces, m) => AheadOf(new, m)
        BY <1>6, <3>3, <3>4, <3>5, MarkRemoved
      <3>7. prompt' = [prompt EXCEPT ![file] = new] /\ mine' = [mine EXCEPT ![file] = mined]
        BY <1>5, <3>1, <3>2, <3>4
      <3>8. ASSUME NEW m \in mined PROVE AheadOf(pieces, m)
        <4>1. m \in ids /\ m \in TextIds(SubSeq(pieces, 1, p))
          BY <3>4
        <4>2. CASE file \in tornFiles
          BY <1>6, <4>1, <4>2
        <4>3. CASE file \notin tornFiles
          BY <1>6, <3>3, <3>5, <4>1, <4>3, BeforeFirstMark
        <4> QED BY <4>2, <4>3
      <3>9. Torn(new, mined) /\ mined \in SUBSET Nat /\ mined \subseteq ids
        BY <1>6, <3>1, <3>4, <3>6, <3>8
      <3> QED BY <3>6, <3>7, <3>9
    <2> QED BY <2>1, <2>2, <2>3 DEF TouchPrompt
  <1> HIDE DEF Whole, Torn
  <1>9. PICK new \in Seq(PieceRec), mined \in SUBSET Nat :
           /\ prompt' = [prompt EXCEPT ![file] = new] /\ mine' = [mine EXCEPT ![file] = mined]
           /\ TextIds(new) \subseteq TextIds(pieces) \cup {n} /\ mined \subseteq ids \cup {n}
           /\ Whole(new, mined) \/ Torn(new, mined)
    BY <1>8
  <1>10. /\ prompt' \in [Prompts -> Seq(PieceRec)] /\ prompt'[file] = new
         /\ \A other \in Prompts : other # file => prompt'[other] = prompt[other]
    BY <1>1, <1>9
  <1>11. /\ mine' \in [FilesWritten -> SUBSET Nat] /\ mine'[file] = mined
         /\ \A other \in FilesWritten : other # file => mine'[other] = mine[other]
    BY <1>1, <1>4, <1>9
  <1>12. /\ tornFiles' \in SUBSET Prompts
         /\ \A other \in Prompts : other # file => (other \in tornFiles' <=> other \in tornFiles)
         /\ tornFiles \subseteq tornFiles'
    BY <1>1, <1>9 DEF Whole, Torn
  <1>13. ASSUME NEW other \in Prompts PROVE PromptKept(other)'
    <2>1. CASE other = file
      <3>1. TextIds(new) \subseteq 0 .. n
        BY <1>6, <1>7, <1>9
      <3> QED BY <1>2, <1>5, <1>9, <1>10, <1>11, <2>1, <3>1 DEF PromptKept, Whole, Torn
    <2>2. CASE other # file
      <3>1. prompt'[other] = prompt[other] /\ mine'[other] = mine[other] /\ (other \in tornFiles' <=> other \in tornFiles)
        BY <1>10, <1>11, <1>12, <2>2, ListsOfFiles
      <3> QED BY <1>2, <3>1, PromptsStay
    <2> QED BY <2>1, <2>2
  <1>14. JsonKept' /\ TomlKept'
    <2>1. ASSUME NEW other \in JsonEditors \cup {"codex"} PROVE mine'[other] = mine[other]
      BY <1>11, ListsOfFiles
    <2>2. NumberedTo(toml, touches + 1)
      BY <1>1, NumberedMore DEF TomlKept
    <2> QED BY <1>1, <1>2, <2>1, <2>2 DEF JsonKept, TomlKept
  <1>15. WriteReady'
    <2>1. mine'["codex"] = mine["codex"]
      BY <1>4, <1>11
    <2> QED BY <1>2, <1>3, <2>1, CopyStays
  <1>16. PromptReady'
    <2> SUFFICES ASSUME setup.pc = "writePrompt" PROVE PromptReady'
      BY <1>3 DEF PromptReady, SetupAt
    <2>1. PICK at : at = PromptAt
      OBVIOUS
    <2>2. at \in Prompts /\ PromptAt' = at
      BY <1>1, <1>3, <2>1 DEF Course, PromptAt, Prompts
    <2>3. /\ setup.copy \in Seq(PieceRec) /\ setup.read = TextIds(setup.copy) /\ setup.read \subseteq 0 .. touches
          /\ at \notin tornFiles =>
                Shaped(setup.copy) /\ \A m \in setup.read : AheadOf(prompt[at], m) => AheadOf(setup.copy, m)
          /\ at \in tornFiles => \A m \in mine[at] \cap setup.read : AheadOf(setup.copy, m)
      BY <1>1, <2>1 DEF PromptReady, SetupAt
    <2>4. setup.read \subseteq 0 .. touches' /\ n \notin setup.read
      BY <1>2, <1>5, <1>6, <1>7, <2>3
    <2>5. ASSUME at \notin tornFiles'
          PROVE  Shaped(setup.copy) /\ \A m \in setup.read : AheadOf(prompt'[at], m) => AheadOf(setup.copy, m)
      <3>1. at \notin tornFiles
        BY <1>12, <2>5
      <3>2. ASSUME NEW m \in setup.read, AheadOf(prompt'[at], m) PROVE AheadOf(prompt[at], m)
        <4>1. m # n
          BY <2>4
        <4>2. CASE at = file
          <5>1. Whole(new, mined)
            BY <1>9, <2>5, <4>2 DEF Torn
          <5> QED BY <1>5, <1>10, <3>2, <4>1, <4>2, <5>1 DEF Whole
        <4>3. CASE at # file
          BY <1>10, <2>2, <3>2, <4>3
        <4> QED BY <4>2, <4>3
      <3> QED BY <2>3, <3>1, <3>2
    <2>6. ASSUME at \in tornFiles', NEW m \in mine'[at] \cap setup.read PROVE AheadOf(setup.copy, m)
      <3>1. m # n
        BY <2>4
      <3>2. CASE at # file
        <4>1. at \in tornFiles /\ mine'[at] = mine[at]
          BY <1>11, <1>12, <2>2, <2>6, <3>2, ListsOfFiles
        <4> QED BY <2>3, <2>6, <4>1
      <3>3. CASE at = file /\ at \in tornFiles
        <4>1. m \in mine[at]
          BY <1>5, <1>9, <1>11, <2>6, <3>1, <3>3
        <4> QED BY <2>3, <2>6, <3>3, <4>1
      <3>4. CASE at = file /\ at \notin tornFiles
        <4>1. Torn(new, mined)
          BY <1>9, <2>6, <3>4 DEF Whole
        <4>2. AheadOf(prompt[at], m)
          BY <1>5, <1>11, <2>6, <3>1, <3>4, <4>1 DEF Torn
        <4> QED BY <2>3, <2>6, <3>4, <4>2
      <3> QED BY <3>2, <3>3, <3>4
    <2> QED BY <1>3, <2>2, <2>3, <2>4, <2>5, <2>6 DEF PromptReady, SetupAt
  <1>17. Agreed'
    BY <1>1, <1>2, <1>3 DEF Agreed
  <1>18. Ruled'
    <2>1. ASSUME NEW other \in Prompts, other \notin tornFiles', NEW rules \in {"hint", "list"}, RulesIn(prompt[other], rules)
          PROVE  other \notin tornFiles /\ RulesIn(prompt'[other], rules)
      <3>1. CASE other = file
        <4>1. Whole(new, mined)
          BY <1>9, <2>1, <3>1 DEF Torn
        <4> QED BY <1>5, <1>10, <1>12, <2>1, <3>1, <4>1 DEF Whole
      <3>2. CASE other # file
        BY <1>10, <1>12, <2>1, <3>2
      <3> QED BY <3>1, <3>2
    <2>2. setup.rules \in {"hint", "list"} /\ "AGENTS.md" \in Prompts
      BY <1>3 DEF SetupRec, Prompts
    <2>3. \A other \in Prompts : other \notin tornFiles' => other \notin tornFiles
      BY <1>12
    <2>4. ASSUME setup.pc \in {"readPrompt", "writePrompt"}, setup.at = 2, "AGENTS.md" \notin tornFiles'
          PROVE  RulesIn(prompt'["AGENTS.md"], setup.rules)
      BY <1>1, <2>1, <2>2, <2>3, <2>4 DEF Ruled
    <2>5. ASSUME setup.pc = "done", "init" \in setup.does, NEW other \in Prompts \ tornFiles'
          PROVE  RulesIn(prompt'[other], setup.rules)
      BY <1>1, <2>1, <2>2, <2>3, <2>5 DEF Ruled, SetupAt
    <2> QED BY <1>3, <2>4, <2>5 DEF Ruled, SetupAt
  <1>19. SetupTyped'
    BY <1>1, <1>2, <1>3, <1>10, <1>11, <1>12 DEF SetupTyped
  <1> QED BY <1>3, <1>13, <1>14, <1>15, <1>16, <1>17, <1>18, <1>19 DEF SetupInv

LEMMA SetupKeyEnds ==
    ASSUME SetupInv, SessionKeyEnds
    PROVE  SetupInv'
  <1>1. /\ profileKeys' = [profileKeys EXCEPT !.live = FALSE] /\ keysMade' = keysMade /\ setup' = setup
        /\ UNCHANGED <<json, toml, prompt, mine, tornFiles>> /\ touches' = touches
    BY DEF SessionKeyEnds, KeepsFiles, InProgress
  <1>2. /\ profileKeys \in ProfileRec /\ SetupTyped /\ WriteReady /\ PromptReady /\ Course /\ Keyed /\ Agreed /\ Ruled
    BY SetupParts
  <1>3. profileKeys' \in ProfileRec /\ profileKeys'.api = profileKeys.api /\ profileKeys'.session = profileKeys.session
    BY <1>1, <1>2 DEF ProfileRec
  <1>4. JsonKept' /\ TomlKept' /\ \A file \in Prompts : PromptKept(file)'
    BY <1>1, FilesStay
  <1>5. Keyed'
    BY <1>1, <1>2, <1>3 DEF Keyed
  <1>6. SetupTyped'
    BY <1>1, <1>2, <1>3 DEF SetupTyped
  <1>7. WriteReady' /\ PromptReady'
    BY <1>1, <1>2 DEF WriteReady, PromptReady, SetupAt, Editor, PromptAt
  <1>8. Course' /\ Agreed' /\ Ruled'
    BY <1>1, <1>2 DEF Course, Agreed, Ruled, SetupAt
  <1> QED BY <1>4, <1>5, <1>6, <1>7, <1>8 DEF SetupInv

LEMMA SetupBeginsSo ==
    ASSUME SetupInit
    PROVE  SetupInv
  <1>1. profileKeys \in ProfileRec
    BY AgentSetupAssumption DEF SetupInit, AgentSetupAssumption, ProfileRec
  <1>2. setup = NoSetup /\ setup \in SetupRec /\ setup.pc = "off" /\ setup.wrote = {}
    BY NoSetupTyped DEF SetupInit
  <1>3. OldJson \in JsonRec
    BY NoSetupTyped DEF OldJson, JsonRec, Legacy
  <1>4. json \in [JsonEditors -> JsonRec]
    BY <1>3, NoSetupTyped DEF SetupInit
  <1>5. toml \in Seq(LineRec) /\ TomlGood(toml, {}) /\ NumberedTo(toml, 0)
    <2>1. CASE toml = <<>>
      BY <2>1 DEF TomlGood, NumberedTo, OursSkipped, HeadOf
    <2>2. CASE toml = OldToml
      <3>1. /\ Line("head", "legacy", 0) \in LineRec /\ Line("line", "legacy", 0) \in LineRec
            /\ Line("head", "sub", 0) \in LineRec /\ Line("line", "sub", 0) \in LineRec
        BY DEF Line, LineRec, Tables
      <3>2. toml \in Seq(LineRec) /\ Len(toml) = 4
        BY <2>2, <3>1 DEF OldToml
      <3>3. /\ toml[1] = Line("head", "legacy", 0) /\ toml[2] = Line("line", "legacy", 0)
            /\ toml[3] = Line("head", "sub", 0) /\ toml[4] = Line("line", "sub", 0)
        BY <2>2 DEF OldToml
      <3>4. /\ toml[1].is = "head" /\ toml[2].is = "line" /\ toml[3].is = "head" /\ toml[4].is = "line"
            /\ toml[1].of = "legacy" /\ toml[2].of = "legacy" /\ toml[3].of = "sub" /\ toml[4].of = "sub"
        BY <3>3 DEF Line
      <3>5. Skipped(toml, 1) /\ Skipped(toml, 2) /\ Skipped(toml, 3) /\ Skipped(toml, 4)
        <4>1. IsOpenVikingSection(toml[1]) /\ IsOpenVikingSection(toml[3])
          BY <3>4 DEF IsOpenVikingSection
        <4>2. 1 \in 1 .. 1 /\ 1 \in 1 .. 2 /\ 3 \in 1 .. 3 /\ 3 \in 1 .. 4
          OBVIOUS
        <4>3. /\ \A b \in 1 + 1 .. 1 : toml[b].is # "head"
              /\ \A b \in 1 + 1 .. 2 : toml[b].is # "head"
              /\ \A b \in 3 + 1 .. 3 : toml[b].is # "head"
              /\ \A b \in 3 + 1 .. 4 : toml[b].is # "head"
          <5>1. (\A b \in 1 + 1 .. 1 : FALSE) /\ (\A b \in 1 + 1 .. 2 : b = 2)
                /\ (\A b \in 3 + 1 .. 3 : FALSE) /\ \A b \in 3 + 1 .. 4 : b = 4
            OBVIOUS
          <5> QED BY <3>4, <5>1
        <4> QED BY <3>4, <4>1, <4>2, <4>3 DEF Skipped
      <3>6. \A i \in DOMAIN toml : i = 1 \/ i = 2 \/ i = 3 \/ i = 4
        BY <3>2
      <3>7. OursSkipped(toml)
        BY <3>5, <3>6 DEF OursSkipped
      <3>8. NumberedTo(toml, 0)
        BY <3>4, <3>6 DEF NumberedTo, OthersLine
      <3> QED BY <3>2, <3>7, <3>8 DEF TomlGood, HeadOf
    <2> QED BY <2>1, <2>2 DEF SetupInit
  <1>6. /\ touches = 0 /\ keysMade = 0 /\ tornFiles = {} /\ \A file \in Prompts : prompt[file] = <<>>
        /\ prompt \in [Prompts -> Seq(PieceRec)]
    BY DEF SetupInit
  <1>7. mine \in [FilesWritten -> SUBSET Nat] /\ \A file \in FilesWritten : mine[file] = {}
    BY DEF SetupInit
  <1>8. ASSUME NEW file \in Prompts PROVE PromptKept(file)
    <2>1. TextIds(prompt[file]) = {}
      BY <1>6, InTexts
    <2>2. AllText(prompt[file])
      BY <1>6 DEF AllText
    <2>3. mine[file] = {}
      BY <1>7, ListsOfFiles
    <2> QED BY <1>6, <2>1, <2>2, <2>3 DEF PromptKept, Shaped
  <1>9. JsonKept /\ TomlKept
    BY <1>5, <1>6, <1>7, ListsOfFiles DEF JsonKept, TomlKept
  <1>10. WriteReady /\ PromptReady /\ Course /\ Keyed /\ Agreed /\ Ruled
    BY <1>2 DEF WriteReady, PromptReady, Course, Keyed, Agreed, Ruled, SetupAt
  <1>11. SetupTyped
    BY <1>1, <1>2, <1>4, <1>5, <1>6, <1>7 DEF SetupTyped
  <1> QED BY <1>8, <1>9, <1>10, <1>11 DEF SetupInv

LEMMA SetupMoves ==
    ASSUME SetupInv, [SetupNext]_setupVars
    PROVE  SetupInv'
  <1>1. CASE UNCHANGED setupVars
    <2>1. /\ profileKeys' = profileKeys /\ json' = json /\ toml' = toml /\ prompt' = prompt /\ setup' = setup /\ mine' = mine
          /\ tornFiles' = tornFiles /\ keysMade' = keysMade /\ touches' = touches
      BY <1>1 DEF setupVars
    <2>2. JsonKept' /\ TomlKept' /\ \A file \in Prompts : PromptKept(file)'
      BY <2>1, FilesStay
    <2>3. WriteReady' /\ PromptReady'
      BY <2>1, SetupParts DEF WriteReady, PromptReady, SetupAt, Editor, PromptAt
    <2>4. Course' /\ Keyed' /\ Agreed' /\ Ruled'
      BY <2>1, SetupParts DEF Course, Keyed, Agreed, Ruled, SetupAt
    <2>5. SetupTyped'
      BY <2>1, SetupParts DEF SetupTyped
    <2> QED BY <2>2, <2>3, <2>4, <2>5 DEF SetupInv
  <1>2. CASE SetupNext
    BY <1>2, SetupBegins, SetupConfigures, SetupResolves, SetupIssuesKey, SetupAsksBrowser, SetupReadsEditor,
       SetupWritesEditor, SetupWritesSkills, SetupReadsPrompt, SetupWritesPrompt, SetupIsKilled, SetupKeyEnds,
       OthersTouchJson, OthersTouchToml, OthersTouchPrompt DEF SetupNext
  <1> QED BY <1>1, <1>2

\* What the invariant says of files is what the property asks of them.
LEMMA OthersHaveTheirs ==
    ASSUME SetupInv
    PROVE  OthersKeepTheirs
  <1>1. /\ toml \in Seq(LineRec) /\ prompt \in [Prompts -> Seq(PieceRec)] /\ mine \in [FilesWritten -> SUBSET Nat]
        /\ JsonKept /\ TomlKept /\ \A file \in Prompts : PromptKept(file)
    BY SetupParts
  <1>2. ASSUME NEW e \in JsonEditors PROVE mine[e] \subseteq IdsOf(e)
    <2>1. IdsOf(e) = Others(json[e])
      BY ListsOfFiles DEF IdsOf, Others
    <2>2. mine[e] \subseteq Others(json[e])
      BY <1>1 DEF JsonKept
    <2> QED BY <2>1, <2>2
  <1>3. mine["codex"] \subseteq IdsOf("codex")
    <2>1. IdsOf("codex") = OthersIds(toml)
      BY ListsOfFiles DEF IdsOf
    <2>2. ASSUME NEW n \in mine["codex"] PROVE n \in OthersIds(toml)
      <3>1. PICK i \in DOMAIN toml : toml[i].id = n /\ OthersLine(toml[i])
        BY <1>1 DEF TomlKept, TomlGood, Keeps
      <3>2. toml[i] \in Range(toml)
        BY DEF Range
      <3> QED BY <3>1, <3>2 DEF OthersIds, OthersLine
    <2> QED BY <2>1, <2>2
  <1>4. ASSUME NEW file \in Prompts PROVE mine[file] \subseteq IdsOf(file)
    <2>1. IdsOf(file) = TextIds(prompt[file])
      BY ListsOfFiles DEF IdsOf
    <2>2. prompt[file] \in Seq(PieceRec) /\ PromptKept(file)
      BY <1>1
    <2> QED BY <2>1, <2>2, AheadIsThere DEF PromptKept
  <1>5. ASSUME NEW i \in DOMAIN toml, toml[i].is = "head", toml[i].id \in mine["codex"], toml[i].of \in {"user", "near"}
        PROVE  i < Len(toml) /\ toml[i + 1] = [toml[i] EXCEPT !.is = "line"]
    BY <1>1, <1>5 DEF TomlKept, TomlGood, HeadOf, OthersLine, TableWhole
  <1> QED BY <1>2, <1>3, <1>4, <1>5 DEF OthersKeepTheirs, FilesWritten

LEMMA EditorsHaveOneEntry ==
    ASSUME SetupInv
    PROVE  EditorsAgree
  <1>1. toml \in Seq(LineRec) /\ setup \in SetupRec /\ Keyed /\ Agreed
    BY SetupParts
  <1>2. SUFFICES ASSUME NEW e \in setup.wrote
                 PROVE  /\ setup.key # 0 /\ setup.key \in {profileKeys.api, profileKeys.session}
                        /\ IF e \in JsonEditors THEN json[e].own = setup.key /\ Legacy \notin json[e].servers
                           ELSE /\ \A line \in Range(toml) : line.of \notin {"legacy", "sub"}
                                /\ {i \in DOMAIN toml : toml[i].of = "own"} # {}
                                /\ \A i \in DOMAIN toml : toml[i].of = "own" => toml[i].id = setup.key
                                /\ Cardinality({i \in DOMAIN toml : toml[i].of = "own"}) = 2
    BY DEF EditorsAgree
  <1>3. setup.key # 0 /\ setup.key \in {profileKeys.api, profileKeys.session}
    BY <1>1 DEF Keyed
  <1>4. CASE e \in JsonEditors
    BY <1>1, <1>3, <1>4 DEF Agreed
  <1>5. CASE e \notin JsonEditors
    <2>1. e = "codex"
      BY <1>1, <1>5 DEF SetupRec, EditorNames
    <2>2. PICK at \in Nat : OwnAt(toml, at, setup.key)
      BY <1>1, <2>1 DEF Agreed, OwnTable
    <2>3. at \in DOMAIN toml /\ at + 1 \in DOMAIN toml
      BY <1>1, <2>2 DEF OwnAt
    <2>4. {i \in DOMAIN toml : toml[i].of = "own"} = {at, at + 1}
      BY <2>2, <2>3 DEF OwnAt
    <2>5. Cardinality({at, at + 1}) = 2
      <3>1. IsFiniteSet({at}) /\ Cardinality({at}) = 1
        BY FS_Singleton
      <3>2. at + 1 \notin {at} /\ {at, at + 1} = {at} \cup {at + 1}
        OBVIOUS
      <3>3. Cardinality({at} \cup {at + 1}) = Cardinality({at}) + 1
        BY <3>1, <3>2, FS_AddElement
      <3>4. Cardinality({at} \cup {at + 1}) = 2
        BY <3>1, <3>3
      <3> QED BY <3>2, <3>4, Zenon
    <2>6. \A line \in Range(toml) : line.of \notin {"legacy", "sub"}
      BY <2>2 DEF OwnAt, Range
    <2>7. \A i \in DOMAIN toml : toml[i].of = "own" => toml[i].id = setup.key
      BY <2>2 DEF OwnAt
    <2> QED BY <1>3, <1>5, <2>4, <2>5, <2>6, <2>7
  <1> QED BY <1>4, <1>5

LEMMA RulesAreThere ==
    ASSUME NEW pieces \in Seq(PieceRec), NEW rules \in {"hint", "list"}, RulesIn(pieces, rules)
    PROVE  /\ Cardinality({i \in DOMAIN pieces : pieces[i].is = "start"}) = 1
           /\ Cardinality({i \in DOMAIN pieces : pieces[i].is = "end"}) = 1
           /\ \E i \in DOMAIN pieces : i + 2 <= Len(pieces) /\ SubSeq(pieces, i, i + 2) = Section(rules)
  <1>1. PICK s \in Nat \ {0} : SectionAt(pieces, s, rules)
    BY DEF RulesIn
  <1>2. /\ s \in DOMAIN pieces
        /\ \A i \in DOMAIN pieces : pieces[i].is = "start" <=> i = s
        /\ \A i \in DOMAIN pieces : pieces[i].is = "end" <=> i = s + 2
    BY <1>1, PlacesOfSection
  <1>3. s + 2 \in DOMAIN pieces /\ s + 2 <= Len(pieces)
    BY <1>1 DEF SectionAt
  <1>4. {i \in DOMAIN pieces : pieces[i].is = "start"} = {s} /\ {i \in DOMAIN pieces : pieces[i].is = "end"} = {s + 2}
    BY <1>2, <1>3
  <1>5. SubSeq(pieces, s, s + 2) = Section(rules)
    <2>1. PICK cut : cut = SubSeq(pieces, s, s + 2)
      OBVIOUS
    <2>2. cut \in Seq(PieceRec) /\ Len(cut) = 3
      BY <1>2, <1>3, <2>1
    <2>3. cut[1] = pieces[s] /\ cut[2] = pieces[s + 1] /\ cut[3] = pieces[s + 2]
      BY <1>2, <1>3, <2>1
    <2>4. /\ Section(rules) \in Seq(PieceRec) /\ Len(Section(rules)) = 3
          /\ Section(rules)[1] = cut[1] /\ Section(rules)[2] = cut[2] /\ Section(rules)[3] = cut[3]
      BY <1>1, <2>3, SectionIs DEF SectionAt
    <2>5. \A k \in 1 .. 3 : k = 1 \/ k = 2 \/ k = 3
      OBVIOUS
    <2>6. \A k \in 1 .. 3 : cut[k] = Section(rules)[k]
      BY <2>4, <2>5
    <2>7. cut = Section(rules)
      BY <2>2, <2>4, <2>6, SeqEqual
    <2> QED BY <2>1, <2>7
  <1> QED BY <1>2, <1>3, <1>4, <1>5, FS_Singleton

LEMMA RulesStandOnce ==
    ASSUME SetupInv
    PROVE  OneSection
  <1>1. /\ prompt \in [Prompts -> Seq(PieceRec)] /\ setup \in SetupRec /\ Ruled /\ \A file \in Prompts : PromptKept(file)
    BY SetupParts
  <1>2. SUFFICES ASSUME NEW file \in Prompts \ tornFiles
                 PROVE  LET places(is) == {i \in DOMAIN prompt[file] : prompt[file][i].is = is} IN
                        /\ Cardinality(places("start")) <= 1 /\ Cardinality(places("start")) = Cardinality(places("end"))
                        /\ SetupAt("done") /\ "init" \in setup.does =>
                              \E i \in DOMAIN prompt[file] :
                                 i + 2 <= Len(prompt[file]) /\ SubSeq(prompt[file], i, i + 2) = Section(setup.rules)
    BY DEF OneSection
  <1>3. PICK pieces : pieces = prompt[file]
    OBVIOUS
  <1>4. pieces \in Seq(PieceRec) /\ Shaped(pieces) /\ setup.rules \in {"hint", "list"}
    BY <1>1, <1>3 DEF PromptKept, SetupRec
  <1>5. /\ Cardinality({i \in DOMAIN pieces : pieces[i].is = "start"}) <= 1
        /\ Cardinality({i \in DOMAIN pieces : pieces[i].is = "start"}) = Cardinality({i \in DOMAIN pieces : pieces[i].is = "end"})
    <2>1. CASE AllText(pieces)
      <3>1. {i \in DOMAIN pieces : pieces[i].is = "start"} = {} /\ {i \in DOMAIN pieces : pieces[i].is = "end"} = {}
        BY <2>1 DEF AllText
      <3> QED BY <3>1, FS_EmptySet
    <2>2. CASE \E rules \in {"hint", "list"} : RulesIn(pieces, rules)
      BY <1>4, <2>2, RulesAreThere
    <2> QED BY <1>4, <2>1, <2>2 DEF Shaped
  <1>6. ASSUME SetupAt("done"), "init" \in setup.does
        PROVE  \E i \in DOMAIN pieces : i + 2 <= Len(pieces) /\ SubSeq(pieces, i, i + 2) = Section(setup.rules)
    <2>1. RulesIn(pieces, setup.rules)
      BY <1>1, <1>3, <1>6 DEF Ruled
    <2> QED BY <1>4, <2>1, RulesAreThere
  <1> QED BY <1>3, <1>5, <1>6

\* Whatever commands run, whoever writes into their files between a reading and a
\* writing, and wherever a command is killed: a server, a setting, a table or a text
\* that somebody else has put into a file stays there, as far as its markers stand;
\* every editor a command has written has one entry of ours, with the key of that
\* command, which the profile holds; and a repository has the rules once.
THEOREM EditorsKeepTheirs == SetupSpec => []SetupHolds
  <1>1. SetupInit => SetupInv
    BY SetupBeginsSo
  <1>2. SetupInv /\ [SetupNext]_setupVars => SetupInv'
    BY SetupMoves
  <1>3. SetupInv => SetupHolds
    BY OthersHaveTheirs, EditorsHaveOneEntry, RulesStandOnce DEF SetupHolds
  <1> QED BY <1>1, <1>2, <1>3, PTL DEF SetupSpec

=================================================================================
