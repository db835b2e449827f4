------------------------------- MODULE MCServices -------------------------------
(***************************************************************************)
(* What answers the web, the command line, WebDAV and agents.  As in       *)
(* MCPlatform every behaviour is one of a single component, chosen by      *)
(* service, while the others rest in an initial state.                     *)
(***************************************************************************)
EXTENDS AssetUploads, EditorPage, KnowledgeSearch, MCCliProfiles, MCDavRequests, MCMarkdownCodec,
        MCCapabilityAccess, ConsolePages, TreeInspector, BrowserSession, MCLocalFiles, PageImages

CONSTANTS
    Services,     \* the components of a run
    q1, q2, q3, q4, q5, q6, h1, h2, h3

Contents == [u \in Uploads |-> IF u \in Before THEN i2 ELSE i1]
Asking == [c \in OvCalls |->
    CASE c = q1 -> "find" [] c = q2 -> "grep" [] c = q3 -> "browse" [] c = q4 -> "asset"
      [] c = q5 -> "upload" [] OTHER -> "command"]
ReadableSets == {{}, {h1, h2}, Hits}

VARIABLE service

\* Two uploads of one image differ in nothing but who comes first.
UploadsInOrder ==
    LET first == CHOOSE u \in Uploads \ Before : TRUE
    IN upload[first] = New => \A u \in Uploads : upload[u] = New

\* Three calls for images in a behaviour, of either kind, two of them at a time.
ThreeImageCalls ==
    LET first == CHOOSE s \in Sends : TRUE
    IN /\ Cardinality({v \in Views : viewing[v] # NotViewed}) + Cardinality({s \in Sends : sending[s] # NotSent}) <= 3
       /\ Cardinality({v \in Views : UnderFetch(viewing[v].pc)})
          + Cardinality({s \in Sends : sending[s].pc \in {"load", "encode", "post"}}) <= 2
       /\ sending[first] = NotSent => \A s \in Sends : sending[s] = NotSent

servicesVars == <<assetVars, pageVars, ovVars, cliVars, davVars, codecVars, accessVars,
                  consoleVars, inspectorVars, sessionVars, diskVars, setupVars, imageVars, service>>

\* What a resting component begins with is fixed before its Init is asked.
ServicesInit ==
    /\ service \in Services
    /\ service \notin {"cli", "signin"} => accounts = [i \in Identities |-> 0]
    /\ service # "cli" => stateFile = CHOOSE file \in FirstFile : TRUE
    /\ service # "codec" => blocks = <<>> /\ markdown = CHOOSE lines \in Imports : TRUE
    /\ service # "assets" => driver = "memory" /\ slow = FALSE /\ leaves = {}
    /\ service # "access" => /\ access = CHOOSE lists \in FirstAccess : TRUE
                            /\ taskState = CHOOSE states \in FirstTasks : TRUE
    /\ service # "console" => pageName = "tree"
    /\ service # "inspector" => pendingNode = NoTreeNode
    /\ service \notin SetupAims => toml = <<>> /\ profileKeys = CHOOSE first \in FirstKeys : TRUE
    /\ AssetsInit /\ PageInit /\ SearchInit /\ CliInit /\ DavInit /\ CodecInit /\ AccessInit
    /\ service # "signin" => \A l \in ByDirectory : accounts[IdentityOf[l]] = 0
    /\ ConsoleInit /\ InspectorInit /\ BrowserInit /\ DiskInit /\ SetupInit /\ ImagesInit

\* One call of OpenViking in a behaviour: they share nothing.
OneCall == Cardinality({c \in OvCalls : ovCall[c].pc # "none"}) <= 1

ServicesNext ==
    /\ \/ service = "assets" /\ AssetsNext /\ UploadsInOrder'
       \/ service = "page" /\ PageNext
       \/ service = "search" /\ SearchNext /\ OneCall'
       \/ service = "codec" /\ CodecNext
       \/ service = "access" /\ AccessNext
       \/ service = "console" /\ ConsoleNext
       \/ service = "inspector" /\ InspectorNext
       \/ service = "browser" /\ BrowserNext
       \/ service = "files" /\ DiskNext /\ OneFetch'
       \/ service \in SetupAims /\ SetupNext /\ Aimed(service)
       \/ service = "images" /\ ImagesNext /\ ThreeImageCalls'
       \/ service = "dav" /\ DavNext /\ InTurn'
       \/ service = "cli" /\ CliNext /\ TwoCommands'
       \/ service = "signin" /\ CliNext /\ UNCHANGED cmd
    /\ service # "assets" => UNCHANGED assetVars
    /\ service # "page" => UNCHANGED pageVars
    /\ service # "search" => UNCHANGED ovVars
    /\ service # "dav" => UNCHANGED davVars
    /\ service # "codec" => UNCHANGED codecVars
    /\ service # "access" => UNCHANGED accessVars
    /\ service # "console" => UNCHANGED consoleVars
    /\ service # "inspector" => UNCHANGED inspectorVars
    /\ service # "browser" => UNCHANGED sessionVars
    /\ service # "files" => UNCHANGED diskVars
    /\ service \notin SetupAims => UNCHANGED setupVars
    /\ service # "images" => UNCHANGED imageVars
    /\ service \notin {"cli", "signin"} => UNCHANGED cliVars
    /\ UNCHANGED service

ServicesSpec == ServicesInit /\ [][ServicesNext]_servicesVars

\* Every variable of a component keeps its type, and the bookkeeping inside it
\* stays consistent (files shown were stored, a call shows what exists, keys in
\* the making count against their limit).  What rests is in an initial state of
\* its own, which the behaviours of that component begin with.
ServicesTypeOK ==
    /\ service = "assets" => AssetsTypeOK
    /\ service = "page" => PageTypeOK
    /\ service = "search" => SearchTypeOK
    /\ service \in {"cli", "signin"} => CliTypeOK
    /\ service = "dav" => DavTypeOK
    /\ service = "access" => AccessTypeOK
    /\ service = "console" => ConsoleTypeOK
    /\ service = "inspector" => InspectorTypeOK
    /\ service = "browser" => SessionTypeOK
    /\ service = "files" => FilesTypeOK
    /\ service \in SetupAims => SetupTypeOK
    /\ service = "images" => ImagesTypeOK
\* The pages of the browser: what they show is what was last asked and changed,
\* permissions are not saved to another node, a session's user is its own, and an
\* image of the editor stays in sight and leaves no object URL behind.
PagesHold ==
    /\ service = "console" => ConsoleHolds
    /\ service = "inspector" => PermissionsStay
    /\ service = "browser" => SessionsHold
    /\ service = "images" => ImagesHold
\* Files on a disk: an archive belongs to the run that sends it, what a run has yet
\* to read is there, and a refused upload leaves nothing; and a command of the client
\* leaves every editor with its key, a repository with its rules once, and others
\* with what they had put into those files.
DiskHolds ==
    /\ service = "files" => FilesHold
    /\ service \in SetupAims => SetupHolds
=============================================================================
