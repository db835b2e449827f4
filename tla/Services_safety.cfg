\* What answers the web, the command line, WebDAV and agents, one in each behaviour.
CONSTANTS
    Services = {"assets", "page", "search", "cli", "signin", "dav", "codec", "access",
                "console", "inspector", "browser", "files", "keys", "json", "toml", "prompt",
                "images"}
    \* AssetUploads: two uploads of one image, up to two of another there before
    i1 = i1 i2 = i2
    Uploads = {u1, u2, b1, b2}
    Before = {b1, b2}
    Images = {i1, i2}
    ImageOf <- Contents
    Drivers = {"memory", "redis"}
    Renames = TRUE
    NoLeaf = NoLeaf
    \* EditorPage
    MaxEdits = 3
    MaxSaves = 2
    \* KnowledgeSearch: one call of each kind
    q1 = q1 q2 = q2 q3 = q3 q4 = q4 q5 = q5 q6 = q6 h1 = h1 h2 = h2 h3 = h3
    OvCalls = {q1, q2, q3, q4, q5, q6}
    CallKind <- Asking
    Hits = {h1, h2, h3}
    Readable <- ReadableSets
    Scores = {1, 2}
    TopK = 2
    Stage1TopK = 3
    RerankPaths = 2
    \* SignIn and CliProfiles: three sign-ins of one person, or two commands
    p1 = p1 p2 = p2 t1 = t1 t2 = t2 t3 = t3 t4 = t4
    login = login sso = sso configure = configure call = call sendFile = sendFile token = token
    clientKey = clientKey keySet = keySet logout = logout
    SignIns = {t1, t2, t3, t4}
    ByForm = {t3}
    ByDirectory = {t4}
    Identities = {i1, i2}
    IdentityOf <- TwoPersons
    FoundUnder <- AnyEntries
    TicketLife = 1
    AccessLife = 2
    RefreshLife = 3
    MaxNow = 3
    MaxReboots = 1
    Commands = {login, sso, configure, call, sendFile, token, keySet, logout}
    CommandKind <- CliKinds
    Profiles = {p1, p2}
    ProfileOf <- CliProfilesOf
    TicketOf <- FirstTicket
    FirstFile <- OneFile
    LocalSkew = 1
    \* DavRequests: a read, any request, a conditional write
    v1 = v1 v2 = v2 v3 = v3 d1 = d1 d2 = d2 d3 = d3 kb1 = kb1 kb2 = kb2
    owner = owner clerk = clerk guest = guest stranger = stranger
    DavCalls = {v1, v2, v3}
    DavAsks <- DavAsked
    DavRole <- DavRoles
    NoRole = NoRole
    BaseIds = {kb1, kb2}
    FirstBases <- DavBase
    DavIds = {d1, d2, d3}
    FirstDavRows <- DavTree
    ReadableBy <- DavReaders
    NoDavRow = NoDavRow
    AnyTag = AnyTag
    BadNames = {".."}
    ProbeNames = {".probe"}
    OddNames = {"b.exe"}
    MaxBases = 2
    Edits = {d1}
    \* MarkdownCodec: one or two blocks, up to three lines, opened twice
    Documents <- KnownDocuments
    Imports <- KnownImports
    MaxRounds = 2
    \* CapabilityAccess: two nodes in a base, one in another, four imports
    w1 = w1 g1 = g1 g2 = g2 g3 = g3 f1 = f1 f2 = f2 j1 = j1 j2 = j2 j3 = j3 j4 = j4
    Persons = {w1}
    Docs = {g1, g2, g3}
    BaseOf <- InBase
    FirstAccess <- Lists
    Imported = {j1, j2, j3, j4}
    AimOf <- Aims
    MadeBy = {j2, j4}
    FirstTasks <- States
    KeyLimit = 2
    MaxTurns = 1
    \* ConsolePages: two presses of a button on each page, three loads
    Clicks = {1, 2}
    LoadIds = {1, 2, 3}
    MaxChoices = 1
    MaxFillings = 1
    \* TreeInspector: two nodes, two calls
    TreeNodes = {n1, n2}
    NoTreeNode = NoTreeNode
    TreeCalls = {c1, c2}
    \* BrowserSession: a window, the one a tenant is opened in, two tokens
    Windows = {main, popup}
    Popup = popup
    MaxTokens = 2
    BrowserCalls = {c1, c2, c3, c4}
    MaxLoads = 1
    \* ImportFiles: one task of each kind of source, an upload of two files
    k1 = k1 kbDir = kbDir tenantDir = tenantDir o1 = o1 o2 = o2 o3 = o3 o4 = o4 o5 = o5
    Batches = {k1}
    BaseDirs = {kbDir}
    TenantDirs = {tenantDir}
    UploadRoot = UploadRoot
    InDir <- UploadPaths
    FilesIn <- TwoFiles
    Fetches = {o1, o2, o3, o4, o5}
    SourceOf <- TaskSource
    UploadOf <- FirstUpload
    AddressesOf <- TwoAddresses
    KeepsUploads = FALSE
    Retention = 1
    ArchiveDir = ArchiveDir
    MaxTries = 2
    MaxDiskTime = 3
    MaxDiskCrashes = 1
    \* AgentSetup: two commands, two writes of others, one kill
    FirstKeys <- SomeKeys
    EditorLists <- SomeEditors
    MaxSetups = 2
    MaxTouches = 2
    MaxKills = 1
    \* PageImages: an image, two calls for it and two uploads, three of them at most, two at a time
    AssetPaths = {i1}
    MaxViews = 2
    Sends = {u1, u2}
CHECK_DEADLOCK FALSE
SPECIFICATION ServicesSpec
INVARIANTS
    ServicesTypeOK
    UploadsHold
    LastTextIsSent
    SearchesHold
    OnceEach
    AccessHolds
    PagesHold
    DiskHolds
PROPERTIES
    AloneKeepsOthers
    ConditionalPutIsExact
    RoundTrip
