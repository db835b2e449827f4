------------------------------ MODULE McpStreams ------------------------------
(***************************************************************************)
(* The MCP endpoint: a GET makes a session and a stream of events, a POST  *)
(* with the session runs a request and queues its answer in                *)
(* mcp_session_events, and the stream polls the queue every second.        *)
(*                                                                         *)
(* Sessions and queue are rows, the streams live in the process.  Time is  *)
(* known by what it does: the poll interval, the idle limit of a stream    *)
(* (minutes, so that it never passes while there is something to poll) and *)
(* the TTL of a session whose stream no longer touches it.                 *)
(***************************************************************************)
EXTENDS Naturals, Sequences, SequencesExt, Arrangements

CONSTANTS
    McpSessions,  \* connections, each with the session made for it
    Messages,     \* requests posted by the clients
    SessionFor,   \* the session each of them is posted with
    Polls,        \* polls of one stream in flight
    Batch,        \* rows one poll takes
    MaxExits      \* bound on the ends of the process

VARIABLES
    session,      \* rows of mcp_sessions
    client,       \* the client has asked for the stream and has not gone
    stream,       \* the observable of createEventStream
    poll,         \* its polls in flight
    message,      \* the posted requests
    queue,        \* rows of mcp_session_events in the order of createdAt
    sent,         \* what was written to the client
    exits

mcpVars == <<session, client, stream, poll, message, queue, sent, exits>>

ASSUME McpAssumption ==
    /\ SessionFor \in [Messages -> McpSessions]
    /\ Polls \subseteq Nat /\ Batch \in Nat \ {0} /\ MaxExits \in Nat

NoPoll == [pc |-> "none", rows |-> <<>>]
EventRow(m) == [message |-> m, delivered |-> FALSE, deleted |-> FALSE]
Undelivered(s) == {i \in DOMAIN queue[s] : ~queue[s][i].delivered /\ ~queue[s][i].deleted}
RowsOf(rows) == [i \in DOMAIN rows |-> rows[i].message]
Pulled(s) == RowsOf(FirstOf(Filtered(queue[s], Undelivered(s)), Batch))

(***************************************************************************)
(* GET: createSessionConnection, then the stream.                          *)
(***************************************************************************)
\* cleanupExpiredRecords comes first: rows that were delivered, or that no
\* stream has asked for, are deleted after their TTL.  Sessions whose row it
\* deletes were closed or expired before.
Expired(t) == {i \in DOMAIN queue[t] : queue[t][i].delivered \/ stream[t] = "down"}
OpenSession(s) ==
    /\ session[s] = "none"
    /\ \/ UNCHANGED queue
       \/ queue' = [t \in McpSessions |-> [i \in DOMAIN queue[t] |->
                      [queue[t][i] EXCEPT !.deleted = @ \/ i \in Expired(t)]]]
    /\ session' = [session EXCEPT ![s] = "open"]
    /\ client' = [client EXCEPT ![s] = TRUE]
    /\ stream' = [stream EXCEPT ![s] = "resolving"]
    /\ UNCHANGED <<poll, message, sent, exits>>

\* The idle timer and the interval start.  A client that went while its session
\* was made is not heard of any more: its close event is over.
OpenStream(s) ==
    /\ stream[s] = "resolving"
    /\ stream' = [stream EXCEPT ![s] = "up"]
    /\ UNCHANGED <<session, client, poll, message, queue, sent, exits>>

\* cleanup: the timers go, closeSession is called, polls in flight go on.
CleanUp(s) == stream' = [stream EXCEPT ![s] = "closing"]

ClientGoes(s) ==
    /\ client[s]
    /\ client' = [client EXCEPT ![s] = FALSE]
    /\ IF stream[s] = "up" THEN CleanUp(s) ELSE UNCHANGED stream
    /\ UNCHANGED <<session, poll, message, queue, sent, exits>>

\* Minutes without an event.
IdleAfterEvents(s) ==  \* a timer that only an event starts
    /\ stream[s] = "up" /\ sent[s] # <<>>
    /\ Undelivered(s) = {} /\ \A p \in Polls : poll[s][p] = NoPoll
    /\ CleanUp(s)
    /\ UNCHANGED <<session, client, poll, message, queue, sent, exits>>
IdleTimer(s) ==
    /\ stream[s] = "up"
    /\ Undelivered(s) = {} /\ \A p \in Polls : poll[s][p] = NoPoll
    /\ CleanUp(s)
    /\ UNCHANGED <<session, client, poll, message, queue, sent, exits>>

CloseSession(s) ==
    /\ stream[s] = "closing"
    /\ session' = [session EXCEPT ![s] = "closed"]
    /\ stream' = [stream EXCEPT ![s] = "down"]
    /\ UNCHANGED <<client, poll, message, queue, sent, exits>>

\* The TTL of a session passes when no stream touches it.
ExpireSession(s) ==
    /\ session[s] = "open" /\ stream[s] = "down"
    /\ session' = [session EXCEPT ![s] = "closed"]
    /\ UNCHANGED <<client, stream, poll, message, queue, sent, exits>>

(***************************************************************************)
(* POST: handleMessage.                                                    *)
(***************************************************************************)
\* validateSession.  The client has the address from its stream.
Post(m) ==
    /\ message[m] = "none"
    /\ session[SessionFor[m]] = "open" /\ stream[SessionFor[m]] # "resolving"
    /\ message' = [message EXCEPT ![m] = "running"]
    /\ UNCHANGED <<session, client, stream, poll, queue, sent, exits>>

\* The result or the error is queued, whatever became of the session meanwhile;
\* a notification has no answer.
Answer(m) ==
    /\ message[m] = "running"
    /\ message' = [message EXCEPT ![m] = "done"]
    /\ \/ queue' = [queue EXCEPT ![SessionFor[m]] = Append(@, EventRow(m))]
       \/ UNCHANGED queue
    /\ UNCHANGED <<session, client, stream, poll, sent, exits>>

(***************************************************************************)
(* flushEvents: one poll at a time finds rows, marks them and hands them   *)
(* to the stream; pulling, marking and the touch of the session are awaits.*)
(***************************************************************************)
FirstFree(s, p) == poll[s][p] = NoPoll /\ \A q \in Polls : q < p => poll[s][q] # NoPoll

PollAnyway(s, p) ==  \* an interval that does not look whether one is going on
    /\ stream[s] = "up"
    /\ FirstFree(s, p)
    /\ poll' = [poll EXCEPT ![s][p] = [pc |-> "mark", rows |-> Pulled(s)]]
    /\ UNCHANGED <<session, client, stream, message, queue, sent, exits>>
Poll(s, p) ==
    /\ stream[s] = "up"
    /\ FirstFree(s, p) /\ \A q \in Polls : poll[s][q] = NoPoll
    /\ poll' = [poll EXCEPT ![s][p] = [pc |-> "mark", rows |-> Pulled(s)]]
    /\ UNCHANGED <<session, client, stream, message, queue, sent, exits>>

PollAt(s, p, pc) == poll' = [poll EXCEPT ![s][p].pc = pc]

\* The update of the rows that were found, unless there are none.
MarkSession(s, p) ==  \* an update by session instead of by row
    /\ poll[s][p].pc = "mark"
    /\ queue' = [queue EXCEPT ![s] = [i \in DOMAIN @ |-> [@[i] EXCEPT !.delivered = TRUE]]]
    /\ PollAt(s, p, "send")
    /\ UNCHANGED <<session, client, stream, message, sent, exits>>
Mark(s, p) ==
    /\ poll[s][p].pc = "mark"
    /\ queue' = [queue EXCEPT ![s] = [i \in DOMAIN @ |->
          IF Contains(poll[s][p].rows, @[i].message) THEN [@[i] EXCEPT !.delivered = TRUE] ELSE @[i]]]
    /\ PollAt(s, p, "send")
    /\ UNCHANGED <<session, client, stream, message, sent, exits>>

\* subscriber.next for each of them; a stream that has ended swallows them.
Send(s, p) ==
    /\ poll[s][p].pc = "send"
    /\ sent' = IF stream[s] = "up" /\ client[s]
               THEN [sent EXCEPT ![s] = @ \o poll[s][p].rows] ELSE sent
    /\ PollAt(s, p, "touch")
    /\ UNCHANGED <<session, client, stream, message, queue, exits>>

Touch(s, p) ==
    /\ poll[s][p].pc = "touch"
    /\ poll' = [poll EXCEPT ![s][p] = NoPoll]
    /\ UNCHANGED <<session, client, stream, message, queue, sent, exits>>

\* The process ends: killed, or by a poll whose query fails, since nobody waits
\* for the promise of flushEvents.  The rows stay.
Exit ==
    /\ exits < MaxExits
    /\ exits' = exits + 1
    /\ client' = [s \in McpSessions |-> FALSE]
    /\ stream' = [s \in McpSessions |-> IF stream[s] = "none" THEN "none" ELSE "down"]
    /\ poll' = [s \in McpSessions |-> [p \in Polls |-> NoPoll]]
    /\ message' = [m \in Messages |-> IF message[m] = "running" THEN "done" ELSE message[m]]
    /\ UNCHANGED <<session, queue, sent>>

(***************************************************************************)
(* The specification: timers run, queries and handlers end.  The idle      *)
(* limit passes between two polls, hence strong fairness.  Clients and the *)
(* end of the process are free.                                            *)
(***************************************************************************)
McpInit ==
    /\ session = [s \in McpSessions |-> "none"]
    /\ client = [s \in McpSessions |-> FALSE]
    /\ stream = [s \in McpSessions |-> "none"]
    /\ poll = [s \in McpSessions |-> [p \in Polls |-> NoPoll]]
    /\ message = [m \in Messages |-> "none"]
    /\ queue = [s \in McpSessions |-> <<>>] /\ sent = [s \in McpSessions |-> <<>>]
    /\ exits = 0

Flush(s) == \E p \in Polls : Poll(s, p) \/ Mark(s, p) \/ Send(s, p) \/ Touch(s, p)
Ending(s) == IdleTimer(s) \/ CloseSession(s) \/ ExpireSession(s)

McpNext ==
    \/ \E s \in McpSessions : OpenSession(s) \/ OpenStream(s) \/ ClientGoes(s) \/ Flush(s) \/ Ending(s)
    \/ \E m \in Messages : Post(m) \/ Answer(m)
    \/ Exit

McpFairness ==
    /\ \A s \in McpSessions : /\ WF_mcpVars(OpenStream(s)) /\ WF_mcpVars(Flush(s))
                           /\ SF_mcpVars(IdleTimer(s))
                           /\ WF_mcpVars(CloseSession(s)) /\ WF_mcpVars(ExpireSession(s))
    /\ \A m \in Messages : WF_mcpVars(Answer(m))

McpSpec == McpInit /\ [][McpNext]_mcpVars /\ McpFairness

(***************************************************************************)
(* Properties.                                                             *)
(***************************************************************************)
McpTypeOK ==
    /\ session \in [McpSessions -> {"none", "open", "closed"}]
    /\ client \in [McpSessions -> BOOLEAN]
    /\ stream \in [McpSessions -> {"none", "resolving", "up", "closing", "down"}]
    /\ \A s \in McpSessions, p \in Polls :
          poll[s][p].pc \in {"none", "mark", "send", "touch"} /\ Len(poll[s][p].rows) <= Batch
    /\ message \in [Messages -> {"none", "running", "done"}]
    /\ exits \in 0..MaxExits

\* However slow the polls are: an answer is written to the client at most once,
\* and after those that were queued before it.
AnsweredInOrder ==
    \A s \in McpSessions : \A i, j \in DOMAIN sent[s] : i < j =>
        \E k, l \in DOMAIN queue[s] :
            k < l /\ queue[s][k].message = sent[s][i] /\ queue[s][l].message = sent[s][j]

\* An answer queued for a client that stays connected is written to it, however
\* many are queued with it; and a session whose client has gone is closed, also
\* when the client went before there was a stream to hear of it, and when the
\* process went with it.
AnswersArrive ==
    \A m \in Messages :
        LET s == SessionFor[m] IN
        stream[s] = "up" /\ client[s] /\ Contains(RowsOf(queue[s]), m)
            ~> Contains(sent[s], m) \/ ~client[s]
SessionsEnd == \A s \in McpSessions : session[s] = "open" /\ ~client[s] ~> session[s] = "closed"
AnswersAndEnds == AnswersArrive /\ SessionsEnd
=============================================================================
