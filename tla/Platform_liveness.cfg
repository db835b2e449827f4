\* The components whose schedulers promise progress, one in each behaviour.
CONSTANTS
    Parts = {"sources", "connections", "mcp", "capabilities"}
    \* KnowledgeTree: two handlers, two editors, a restart
    n1 = n1 n2 = n2 n3 = n3 n4 = n4 x = x y = y
    Root = Root
    Gone = Gone
    Ids <- FourIds
    Names = {x, y}
    Ops = {o1, o2}
    e1 = e1
    ModeOf <- OneWriter
    Conns = {e1, e2}
    First <- FirstRows
    Overlap <- SomeOverlap
    Served <- AllHandlers
    MaxCalls = 2
    MaxRestarts = 1
    \* TenantStorage
    Levels = {"small", "medium", "large"}
    Jobs = {j1, j2}
    RefitFails = {"large"}
    Rows = {w1, w2}
    TableOf <- OneOfEach
    Tables = 2
    w1 = w1 w2 = w2
    MaxWrites = 2
    MaxBoots = 1
    \* TenantSources: two requests, two data sources, an update
    Requests = {r1, r2}
    Editing = {r1}
    Sources = {d1, d2}
    NoSource = NoSource
    MaxUpdates = 1
    \* TenantConnections: a MEDIUM and a SMALL request, a worker, two connections
    r1 = r1 r2 = r2 r3 = r3 own = own other = other
    Callers = {r1, r2, r3}
    Connections = {k1, k2}
    Nobody = Nobody
    Lost = Lost
    NoConnection = NoConnection
    Public = Public
    SchemaOf <- Schemas
    Guarded = {r1, r2}
    Checked = {r1}
    Worker = {r3}
    SetMayFail = TRUE
    \* McpStreams: two requests of one session, two polls, one row a poll
    s1 = s1 s2 = s2
    McpSessions = {s1, s2}
    Messages = {m1, m2}
    SessionFor <- Posted
    Polls = {1, 2}
    Batch = 1
    MaxExits = 1
    \* CapabilityCalls: two calls, the first one in two buckets
    c1 = c1 c2 = c2 c3 = c3 perTenant = perTenant perUser = perUser
    CapCalls = {c1, c2}
    Buckets = {perTenant, perUser}
    BucketsFor <- Rules
    LimitOf <- Limits
    Window = 2
    MaxClock = 2
    Clustered = FALSE
    Hanging = {c1}
    \* SchemaUpgrade: a MEDIUM and a LARGE tenant, releases of four ages, a revert
    mt = mt lt = lt
    public = public
    MediumTenants = {mt}
    LargeTenants = {lt}
    TenantOrder <- LargeFirst
    Releases = {0, 5, 13}
    MaxTenants = 2
    MaxReverts = 1
CHECK_DEADLOCK FALSE
SPECIFICATION PlatformSpec
PROPERTIES
    RoutingMoves
    AnswersAndEnds
    CapCallsEnd
