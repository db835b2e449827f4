------------------------------- MODULE MCPlatform -------------------------------
(***************************************************************************)
(* The tree, the tenants and the channels of the server, which share no    *)
(* state with each other, checked side by side: every behaviour is one of  *)
(* a single component, chosen by part, while the others rest in an initial *)
(* state.                                                                  *)
(***************************************************************************)
EXTENDS KnowledgeTree, TenantStorage, TenantSources, TenantConnections, McpStreams,
        CapabilityCalls, SchemaUpgrade

CONSTANTS
    Parts,        \* the components of a run
    n1, n2, n3, n4, x, y, e1, r1, r2, r3, own, other, s1, s2, c1, c2, c3,
    perTenant, perUser, mt, lt, w1, w2

\* A knowledge base with a folder n1, a document n2 in it and a folder n3, and
\* an id to give out.  Moves and removals run alone; of what makes nodes, only a
\* PUT meets nothing but an MKCOL.
FourIds == {n1, n2, n3, n4}
FirstRows == [n \in Ids |->
    CASE n = n1 -> [parent |-> Root, name |-> x, kind |-> "collection"]
      [] n = n2 -> [parent |-> n1, name |-> x, kind |-> "document"]
      [] n = n3 -> [parent |-> Root, name |-> y, kind |-> "collection"]
      [] OTHER -> Gone]
SomeOverlap == {{"create"}, {"mkcol"}, {"create", "mkcol"}, {"mkcol", "put"}}
AllHandlers == Handlers \ {"patch", "cleanup"}
Interchangeable == Permutations(Ops) \cup Permutations({c2, c3})
OneWriter == [v \in Conns |-> IF v = e1 THEN "write" ELSE "readonly"]

Schemas == [r \in Callers |-> CASE r = r1 -> own [] r = r2 -> Public [] OTHER -> other]
Posted == [m \in Messages |-> s1]
Rules == [c \in CapCalls |-> IF c = c1 THEN <<perTenant, perUser>> ELSE <<perTenant>>]
Limits == [b \in Buckets |-> 1]
LargeFirst == <<lt, mt>>

\* A row in each of two tables.
OneOfEach == [r \in Rows |-> IF r = w1 THEN 1 ELSE 2]

VARIABLE part

platformVars == <<treeVars, storageVars, sourceVars, connVars, mcpVars, capVars, schemaVars, part>>

PlatformInit ==
    /\ part \in Parts
    /\ part # "storage" => level = "small"
    /\ part # "schema" => recorded = {} /\ shape = [p \in SchemaPlaces |-> {}]
    /\ TreeInit /\ StorageInit /\ SourcesInit /\ ConnectionsInit /\ McpInit /\ CapInit
    /\ SchemaInit

\* The tree is checked with two handlers and one editor, and with two editors
\* and one handler.
OneEditor == conn' = [conn EXCEPT ![e1] = conn'[e1]]
OneHandler == calls' <= 1

PlatformNext ==
    /\ \/ part = "tree" /\ TreeNext /\ OneEditor
       \/ part = "sessions" /\ TreeNext /\ OneHandler
       \/ part = "storage" /\ StorageNext
       \/ part = "sources" /\ SourcesNext
       \/ part = "connections" /\ ConnectionsNext
       \/ part = "mcp" /\ McpNext
       \/ part = "capabilities" /\ CapNext
       \/ part = "schema" /\ SchemaNext
    /\ part \notin {"tree", "sessions"} => UNCHANGED treeVars
    /\ part # "storage" => UNCHANGED storageVars
    /\ part # "sources" => UNCHANGED sourceVars
    /\ part # "connections" => UNCHANGED connVars
    /\ part # "mcp" => UNCHANGED mcpVars
    /\ part # "capabilities" => UNCHANGED capVars
    /\ part # "schema" => UNCHANGED schemaVars
    /\ UNCHANGED part

\* The fairness of each component's specification, where that component runs.
PlatformFairness ==
    /\ WF_sourceVars(part = "sources" /\ Expire)
    /\ \A r \in Callers : WF_connVars(part = "connections" /\ Proceed(r))
    /\ \A s \in McpSessions :
          /\ WF_mcpVars(part = "mcp" /\ OpenStream(s)) /\ WF_mcpVars(part = "mcp" /\ Flush(s))
          /\ SF_mcpVars(part = "mcp" /\ IdleTimer(s))
          /\ WF_mcpVars(part = "mcp" /\ CloseSession(s))
          /\ WF_mcpVars(part = "mcp" /\ ExpireSession(s))
    /\ \A m \in Messages : WF_mcpVars(part = "mcp" /\ Answer(m))
    /\ WF_capVars(part = "capabilities" /\ Answered)
    /\ \A c \in CapCalls : /\ WF_capVars(part = "capabilities" /\ HandlerTimeout(c))
                           /\ WF_capVars(part = "capabilities" /\ Recorded(c))

PlatformSafe == PlatformInit /\ [][PlatformNext]_platformVars
PlatformSpec == PlatformSafe /\ PlatformFairness

\* Every variable of every component keeps its type, and the bookkeeping inside
\* it stays consistent (commands on the wire belong to calls that wait, rows
\* pulled fit the batch, files shown were stored).
PlatformTypeOK ==
    /\ TreeTypeOK /\ StorageTypeOK /\ SourcesTypeOK /\ ConnectionsTypeOK /\ McpTypeOK /\ CapTypeOK
    /\ SchemaTypeOK

\* Of the routing of tenants: a stale entry of the gateway's cache is replaced
\* while editors keep coming, and callers that hold a connection and wait for
\* another come to an end.
RoutingMoves == CacheCatchesUp /\ CallersEnd
=============================================================================
