------------------------------ MODULE DavRequests ------------------------------
(***************************************************************************)
(* WebDAV requests from the Authorization header to the status they are    *)
(* answered with: who may ask, what a path names, what is refused and in   *)
(* which order, the ETags that readers are given and writers name, and     *)
(* what a write does step by step.                                         *)
(*                                                                         *)
(* KnowledgeTree has the handlers' races over the tree; here a call of the *)
(* tree service is one step that does its work or throws, and a text is    *)
(* the request that wrote it.                                              *)
(***************************************************************************)
EXTENDS Naturals, FiniteSets, Sequences, SequencesExt

CONSTANTS
    DavCalls,     \* requests
    DavAsks,      \* what each of them may ask: method, path, destination, visitor, condition
    DavRole,      \* the role of a visitor's key, NoRole for a key of another tenant or of nobody
    NoRole,
    BaseIds, FirstBases,   \* knowledge bases, and those there are at the start
    DavIds, FirstDavRows,  \* nodes, and those there are at the start
    ReadableBy,   \* the visitors the access list of a node lets in
    NoDavRow,     \* an id without a row
    AnyTag,       \* the star of a condition
    BadNames,     \* names validateResourcePath refuses
    ProbeNames,   \* names that begin with .webdav_write_test_
    OddNames,     \* names with an extension that is not on the list
    MaxBases,     \* the tenant's quota of knowledge bases
    Edits         \* nodes an editor may open

VARIABLES
    davBases,     \* rows of knowledge_bases: name, stamp
    davRows,      \* rows of knowledge_nodes: base, parent, name, kind, stamp (updated_at)
    texts,        \* the text of a node's draft: the request that wrote it
    stamp,        \* the last time stamp
    edited,       \* nodes with an editing session
    dav,          \* the requests: place, condition, base, node, outcome
    tags,         \* ETags that were answered
    copies,       \* texts that were answered undisturbed, each with its ETag
    torn          \* nodes whose text was stored by a save that then broke off

davStore == <<davBases, davRows, texts, stamp>>
davSeen == <<tags, copies>>
davVars == <<davStore, edited, dav, davSeen, torn>>

Roles == {"TENANT_VIEWER", "TENANT_OPERATOR", "TENANT_ADMIN", "SUPER_ADMIN"}
Methods == {"OPTIONS", "PROPFIND", "GET", "HEAD", "MKCOL", "PUT", "DELETE", "MOVE", "LOCK", "save"}
Conditions == {"none", "match", "nonematch"}

DavAsk == [method : Methods, path : Seq(STRING), dest : Seq(STRING), by : DOMAIN DavRole,
           cond : Conditions]
FirstDavRow == [base : BaseIds, parent : BaseIds \cup DavIds, name : STRING,
                kind : {"document", "collection"}, stamp : {1}]

\* An ETag names a resource, the star does not; the console has no conditions.
ASSUME DavAssumption ==
    /\ NoDavRow \notin BaseIds \cup DavIds /\ BaseIds \cap DavIds = {}
    /\ AnyTag \notin DavIds \X Nat
    /\ MaxBases \in Nat
    /\ Edits \subseteq DavIds
    /\ FirstDavRows \in [DavIds -> FirstDavRow \cup {NoDavRow}]
    /\ \A r \in DavCalls : \A a \in DavAsks[r] :
          a \in DavAsk /\ (a.method = "save" => a.cond = "none")

(***************************************************************************)
(* Paths.                                                                  *)
(***************************************************************************)
DavBasesThere == {b \in BaseIds : davBases[b] # NoDavRow}
DavLive == {n \in DavIds : davRows[n] # NoDavRow}
DavChildren(n) == {m \in DavLive : davRows[m].parent = n}

\* resolveKnowledgeBaseByPathSegment: by its name; NoDavRow is none.
BaseNamed(name) ==
    LET found == {b \in DavBasesThere : davBases[b].name = name}
    IN IF found = {} THEN NoDavRow ELSE CHOOSE b \in found : TRUE

\* resolveNodePath, from the base down; the base itself for no segments.
ChildNamed(parent, name) ==
    LET found == {n \in DavLive : davRows[n].parent = parent /\ davRows[n].name = name}
    IN IF found = {} THEN NoDavRow ELSE CHOOSE n \in found : TRUE
NodeAt(base, names) ==
    IF names = <<>> THEN base ELSE ChildNamed(FoldLeft(ChildNamed, base, Front(names)), Last(names))

\* collectSubtreeNodeIds.
DavSubtree(n) ==
    LET DavUnder[k \in Nat] ==
            IF k = 0 THEN {n}
            ELSE DavUnder[k-1] \cup UNION {DavChildren(m) : m \in DavUnder[k-1]}
    IN DavUnder[Cardinality(DavIds)]

IsDocument(n) == davRows[n].kind = "document"
Reads(visitor, n) == visitor \in ReadableBy[n]
TagOf(n) == <<n, IF n \in BaseIds THEN davBases[n].stamp ELSE davRows[n].stamp>>

(***************************************************************************)
(* A request and its answer.  alone, which only serves the properties,     *)
(* says that nothing else was on its way meanwhile.                        *)
(***************************************************************************)
NotAsked == [pc |-> "none"]
DavAt(r, pc) == dav[r].pc = pc
OnTheWay == {r \in DavCalls : dav[r].pc \notin {"none", "answered"}}
Respond(r, status) == dav' = [dav EXCEPT ![r] = [pc |-> "answered", status |-> status]]
DavGoto(r, pc) == dav' = [dav EXCEPT ![r].pc = pc]
NameOf(path) == path[Len(path)]
FolderOf(r, path) == NodeAt(dav[r].base, SubSeq(path, 2, Len(path) - 1))

DavArrive(r) ==
    /\ dav[r] = NotAsked
    /\ \E a \in DavAsks[r], tag \in tags \cup {AnyTag} :
        /\ a.cond = "none" => tag = AnyTag
        /\ dav' = [c \in DavCalls |->
              IF c = r THEN [pc |-> "received", a |-> a, tag |-> tag, base |-> NoDavRow,
                             node |-> NoDavRow, parent |-> NoDavRow, made |-> FALSE, code |-> 0,
                             alone |-> OnTheWay = {}]
              ELSE IF c \in OnTheWay THEN [dav[c] EXCEPT !.alone = FALSE] ELSE dav[c]]
    /\ UNCHANGED <<davStore, edited, davSeen, torn>>

(***************************************************************************)
(* resolvePrincipal, attachTenantContext, and what is refused before any   *)
(* row is read.                                                            *)
(***************************************************************************)
Writes(method) == method \in {"MKCOL", "PUT", "DELETE", "MOVE"}
MayNotWrite(visitor) == DavRole[visitor] = "TENANT_VIEWER"
BadPath(path) == \E i \in DOMAIN path : path[i] \in BadNames
IsProbe(path) == path # <<>> /\ NameOf(path) \in ProbeNames

\* A probe is answered as if the file were not there (PUT) or were (DELETE).
ConditionFails(cond, tag, exists, current) ==
    LET matches == IF tag = AnyTag THEN exists ELSE tag \in current
    IN (cond = "match" /\ ~matches) \/ (cond = "nonematch" /\ matches)

\* The status a request is refused with, 0 for none.
EarlyRefusal(r) ==
    LET a == dav[r].a
        depth == Len(a.path)
    IN IF a.method = "LOCK" THEN 405
       ELSE IF Writes(a.method) /\ MayNotWrite(a.by) THEN 403
       ELSE IF BadPath(a.path) THEN 400
       ELSE IF a.method = "MOVE" /\ a.dest = <<>> THEN 400   \* no Destination header
       ELSE IF a.method = "MOVE" /\ BadPath(a.dest) THEN 400
       ELSE IF a.method = "MOVE" /\ (depth = 1) # (Len(a.dest) = 1) THEN 405
       ELSE IF a.method = "MOVE" /\ depth > 1 /\ a.path[1] # a.dest[1] THEN 409
       ELSE IF a.method \in {"GET", "HEAD"} /\ depth < 2 THEN 405
       ELSE IF a.method \in {"MKCOL", "DELETE", "MOVE"} /\ depth = 0 THEN 405
       ELSE 0

ProbeAnswer(r) ==
    LET a == dav[r].a
        exists == a.method = "DELETE"
    IN IF ConditionFails(a.cond, dav[r].tag, exists, {}) THEN 412
       ELSE IF exists THEN 204 ELSE 201

Unknown(r) ==
    /\ DavAt(r, "received") /\ DavRole[dav[r].a.by] = NoRole
    /\ Respond(r, 401)
    /\ UNCHANGED <<davStore, edited, davSeen, torn>>

LetIn(r) ==
    /\ DavAt(r, "received") /\ DavRole[dav[r].a.by] # NoRole /\ dav[r].a.method # "save"
    /\ LET a == dav[r].a IN
        \/ Respond(r, 500)                                  \* the tenant's context fails
        \/ a.method = "OPTIONS" /\ Respond(r, 200)
        \/ /\ a.method # "OPTIONS" /\ EarlyRefusal(r) # 0
           /\ Respond(r, EarlyRefusal(r))
        \/ /\ a.method # "OPTIONS" /\ EarlyRefusal(r) = 0
           /\ IF a.method \in {"PUT", "DELETE"} /\ IsProbe(a.path) THEN Respond(r, ProbeAnswer(r))
              ELSE DavGoto(r, IF a.method = "PUT" THEN "body" ELSE "bases")
    /\ UNCHANGED <<davStore, edited, davSeen, torn>>

\* readRequestBody, and then the depth of the path.
Body(r) ==
    /\ DavAt(r, "body")
    /\ \/ \E status \in {400, 413} : Respond(r, status)     \* empty or broken; too large
       \/ IF Len(dav[r].a.path) < 2 THEN Respond(r, 405) ELSE DavGoto(r, "bases")
    /\ UNCHANGED <<davStore, edited, davSeen, torn>>

(***************************************************************************)
(* The knowledge bases are read; what is asked of a base is decided.       *)
(***************************************************************************)
BaseEdited(b) == \E n \in edited : davRows[n].base = b

MakeBaseRefusal(r, b) ==
    IF ConditionFails(dav[r].a.cond, dav[r].tag, b # NoDavRow, IF b = NoDavRow THEN {} ELSE {TagOf(b)})
    THEN 412 ELSE IF b # NoDavRow THEN 409 ELSE 0

DropBaseRefusal(r, b) ==
    IF b = NoDavRow THEN 404
    ELSE IF ConditionFails(dav[r].a.cond, dav[r].tag, TRUE, {TagOf(b)}) THEN 412
    ELSE IF BaseEdited(b) THEN 423 ELSE 0

MoveBaseRefusal(r, b) ==
    LET target == BaseNamed(dav[r].a.dest[1])
    IN IF b = NoDavRow THEN 404
       ELSE IF ConditionFails(dav[r].a.cond, dav[r].tag, TRUE, {TagOf(b)}) THEN 412
       ELSE IF target = b THEN 204
       ELSE IF target # NoDavRow THEN 409
       ELSE IF BaseEdited(b) THEN 423 ELSE 0

BaseRefusal(r, b) ==
    CASE dav[r].a.method = "MKCOL" -> MakeBaseRefusal(r, b)
      [] dav[r].a.method = "DELETE" -> DropBaseRefusal(r, b)
      [] dav[r].a.method = "MOVE" -> MoveBaseRefusal(r, b)

NextForBase(method) ==
    CASE method = "MKCOL" -> "quota" [] method = "DELETE" -> "dropbase" [] method = "MOVE" -> "renamebase"

ReadBases(r) ==
    /\ DavAt(r, "bases")
    /\ LET a == dav[r].a
           base == IF a.path = <<>> THEN NoDavRow ELSE BaseNamed(a.path[1])
       IN IF a.path = <<>>
          THEN Respond(r, 207) /\ tags' = tags \cup {TagOf(b) : b \in DavBasesThere}
          ELSE /\ UNCHANGED tags
               /\ IF Len(a.path) = 1 /\ a.method # "PROPFIND"
                  THEN IF BaseRefusal(r, base) # 0 THEN Respond(r, BaseRefusal(r, base))
                       ELSE dav' = [dav EXCEPT ![r].pc = NextForBase(a.method), ![r].base = base]
                  ELSE IF base = NoDavRow
                       THEN Respond(r, IF a.method \in {"MKCOL", "PUT"} THEN 409 ELSE 404)
                       ELSE dav' = [dav EXCEPT ![r].pc = "tree", ![r].base = base,
                               ![r].tag = IF a.method = "PROPFIND" THEN TagOf(base) ELSE @]
    /\ UNCHANGED <<davStore, edited, copies, torn>>

(***************************************************************************)
(* The nodes of the base are read, in one query, and the request decided.  *)
(***************************************************************************)
\* resolveMkcolParent: the status that refuses the folder of a path.
FolderRefusal(r, path) ==
    LET p == FolderOf(r, path)
    IN IF Len(path) = 2 THEN 0
       ELSE IF p = NoDavRow THEN 409
       ELSE IF ~Reads(dav[r].a.by, p) THEN 404
       ELSE IF IsDocument(p) /\ DavChildren(p) = {} THEN 409 ELSE 0

NodeConditionFails(r, n) ==
    ConditionFails(dav[r].a.cond, dav[r].tag, n # NoDavRow, IF n = NoDavRow THEN {} ELSE {TagOf(n)})

\* What stands at the path already, if anything: MKCOL makes nothing there.
MkcolRefusal(r, n) ==
    LET folder == FolderRefusal(r, dav[r].a.path)
    IN IF folder # 0 THEN folder
       ELSE IF NodeConditionFails(r, n) THEN 412
       ELSE IF n # NoDavRow THEN 409 ELSE 0

PutRefusal(r, n) ==
    LET a == dav[r].a
        folder == FolderRefusal(r, a.path)
    IN IF n # NoDavRow
       THEN IF ~Reads(a.by, n) THEN 404
            ELSE IF ~IsDocument(n) \/ DavChildren(n) # {} THEN 409
            ELSE IF davRows[n].name \in OddNames THEN 415
            ELSE IF NodeConditionFails(r, n) THEN 412
            ELSE IF n \in edited THEN 423 ELSE 0
       ELSE IF NameOf(a.path) \in OddNames THEN 415
            ELSE IF folder # 0 THEN folder
            ELSE IF NodeConditionFails(r, NoDavRow) THEN 412 ELSE 0

DeleteRefusal(r, n) ==
    IF n = NoDavRow THEN 404
    ELSE IF ~Reads(dav[r].a.by, n) THEN 404
    ELSE IF DavSubtree(n) \cap edited # {} THEN 423
    ELSE IF DavChildren(n) # {} THEN 409
    ELSE IF NodeConditionFails(r, n) THEN 412 ELSE 0

MoveRefusal(r, n) ==
    LET a == dav[r].a
        folder == FolderRefusal(r, a.dest)
        target == NodeAt(dav[r].base, Tail(a.dest))
    IN IF n = NoDavRow THEN 404
       ELSE IF ~Reads(a.by, n) THEN 404
       ELSE IF folder # 0 THEN folder
       ELSE IF NodeConditionFails(r, n) THEN 412
       ELSE IF a.path = a.dest THEN 204
       ELSE IF FolderOf(r, a.dest) \in DavSubtree(n) THEN 409
       ELSE IF IsDocument(n) /\ NameOf(a.dest) \in OddNames THEN 415
       ELSE IF target \notin {NoDavRow, n} THEN 409
       ELSE IF DavSubtree(n) \cap edited # {} THEN 423 ELSE 0

NodeRefusal(r, n) ==
    CASE dav[r].a.method = "MKCOL" -> MkcolRefusal(r, n)
      [] dav[r].a.method = "PUT" -> PutRefusal(r, n)
      [] dav[r].a.method = "DELETE" -> DeleteRefusal(r, n)
      [] dav[r].a.method = "MOVE" -> MoveRefusal(r, n)

Place(a) == IF a.method = "MOVE" THEN a.dest ELSE a.path

NextForNode(r, n) ==
    CASE dav[r].a.method = "MKCOL" -> "make"
      [] dav[r].a.method = "PUT" -> IF n = NoDavRow THEN "make" ELSE "text"
      [] dav[r].a.method = "DELETE" -> "drop"
      [] dav[r].a.method = "MOVE" -> "place"

DecideWrite(r) ==
    /\ DavAt(r, "tree") /\ Writes(dav[r].a.method)
    /\ LET n == NodeAt(dav[r].base, Tail(dav[r].a.path))
       IN IF NodeRefusal(r, n) # 0 THEN Respond(r, NodeRefusal(r, n))
          ELSE dav' = [dav EXCEPT ![r].pc = NextForNode(r, n), ![r].node = n,
                  ![r].parent = FolderOf(r, Place(dav[r].a))]
    /\ UNCHANGED <<davStore, edited, davSeen, torn>>

\* PROPFIND lists what the visitor may read, GET and HEAD answer a document
\* under the ETag its row has now; the text is read next.
Propfind(r) ==
    /\ DavAt(r, "tree") /\ dav[r].a.method = "PROPFIND"
    /\ LET n == NodeAt(dav[r].base, Tail(dav[r].a.path))
           itself == IF n \in BaseIds THEN dav[r].tag ELSE TagOf(n)
           below == {m \in DavChildren(n) : Reads(dav[r].a.by, m)}
       IN IF n = NoDavRow THEN Respond(r, 404) /\ UNCHANGED tags
          ELSE IF n \in DavIds /\ ~Reads(dav[r].a.by, n) THEN Respond(r, 404) /\ UNCHANGED tags
          ELSE Respond(r, 207) /\ tags' = tags \cup {itself} \cup {TagOf(m) : m \in below}
    /\ UNCHANGED <<davStore, edited, copies, torn>>

Read(r) ==
    /\ DavAt(r, "tree") /\ dav[r].a.method \in {"GET", "HEAD"}
    /\ LET n == NodeAt(dav[r].base, Tail(dav[r].a.path))
       IN IF n = NoDavRow THEN Respond(r, 404) /\ UNCHANGED tags
          ELSE IF ~Reads(dav[r].a.by, n) THEN Respond(r, 404) /\ UNCHANGED tags
          ELSE IF ~IsDocument(n) THEN Respond(r, 405) /\ UNCHANGED tags
          ELSE IF dav[r].a.method = "HEAD" THEN Respond(r, 200) /\ tags' = tags \cup {TagOf(n)}
          ELSE /\ dav' = [dav EXCEPT ![r].pc = "content", ![r].node = n, ![r].tag = TagOf(n)]
               /\ UNCHANGED tags
    /\ UNCHANGED <<davStore, edited, copies, torn>>

Content(r) ==
    /\ DavAt(r, "content")
    /\ LET n == dav[r].node IN
        \/ Respond(r, 502) /\ UNCHANGED davSeen
        \/ /\ davRows[n] # NoDavRow
           /\ Respond(r, 200)
           /\ tags' = tags \cup {dav[r].tag}
           /\ copies' = IF dav[r].alone /\ n \notin torn
                        THEN copies \cup {[tag |-> dav[r].tag, text |-> texts[n]]} ELSE copies
    /\ UNCHANGED <<davStore, edited, torn>>

(***************************************************************************)
(* What is done, and what it is answered with.  A NotFoundException of the *)
(* services is not always a 404: the file that cannot be made has no       *)
(* folder.                                                                 *)
(***************************************************************************)
Stamped(n, row) ==
    /\ stamp' = stamp + 1
    /\ davRows' = [davRows EXCEPT ![n] = [row EXCEPT !.stamp = stamp + 1]]

\* A PUT that made its node removes it again before it answers.
BreaksOff(r, status) ==
    IF dav[r].made THEN dav' = [dav EXCEPT ![r].pc = "cleanup", ![r].code = status]
    ELSE Respond(r, status)

Quota(r) ==
    /\ DavAt(r, "quota")
    /\ IF Cardinality(DavBasesThere) >= MaxBases THEN Respond(r, 403) ELSE DavGoto(r, "makebase")
    /\ UNCHANGED <<davStore, edited, davSeen, torn>>

MakeBase(r) ==
    /\ DavAt(r, "makebase")
    /\ \E b \in BaseIds \ DavBasesThere :
          davBases' = [davBases EXCEPT ![b] = [name |-> dav[r].a.path[1], stamp |-> stamp + 1]]
    /\ stamp' = stamp + 1
    /\ DavGoto(r, "audit")
    /\ UNCHANGED <<davRows, texts, edited, davSeen, torn>>

RenameBase(r) ==
    /\ DavAt(r, "renamebase")
    /\ LET b == dav[r].base
       IN IF b \notin DavBasesThere THEN Respond(r, 404) /\ UNCHANGED <<davBases, stamp>>
          ELSE /\ davBases' = [davBases EXCEPT ![b] = [name |-> dav[r].a.dest[1], stamp |-> stamp + 1]]
               /\ stamp' = stamp + 1
               /\ DavGoto(r, "audit")
    /\ UNCHANGED <<davRows, texts, edited, davSeen, torn>>

DropBase(r) ==
    /\ DavAt(r, "dropbase")
    /\ LET b == dav[r].base
       IN IF b \notin DavBasesThere THEN Respond(r, 404) /\ UNCHANGED <<davBases, davRows>>
          ELSE IF BaseEdited(b) THEN Respond(r, 423) /\ UNCHANGED <<davBases, davRows>>
          ELSE /\ davBases' = [davBases EXCEPT ![b] = NoDavRow]
               /\ davRows' = [n \in DavIds |->
                     IF n \in DavLive /\ davRows[n].base = b THEN NoDavRow ELSE davRows[n]]
               /\ DavGoto(r, "audit")
    /\ UNCHANGED <<texts, stamp, edited, davSeen, torn>>

Make(r) ==
    /\ DavAt(r, "make")
    /\ \E n \in DavIds \ DavLive :
        /\ Stamped(n, [base |-> dav[r].base, parent |-> dav[r].parent, name |-> NameOf(dav[r].a.path),
                       kind |-> IF dav[r].a.method = "PUT" THEN "document" ELSE "collection", stamp |-> 0])
        /\ dav' = [dav EXCEPT ![r].pc = IF @ = "make" /\ dav[r].a.method = "PUT" THEN "text" ELSE "audit",
                              ![r].node = n, ![r].made = dav[r].a.method = "PUT"]
        /\ torn' = torn \ {n}
    /\ UNCHANGED <<davBases, texts, edited, davSeen>>

\* saveMarkdownContent of a PUT and of the console: the draft, then the row.
StoreText(r) ==
    /\ DavAt(r, "text")
    /\ LET n == dav[r].node
       IN IF davRows[n] = NoDavRow
          THEN UNCHANGED texts /\ BreaksOff(r, IF dav[r].made THEN 409 ELSE 404)
          ELSE texts' = [texts EXCEPT ![n] = r] /\ DavGoto(r, "touch")
    /\ UNCHANGED <<davBases, davRows, stamp, edited, davSeen, torn>>

TouchRowUnstamped(r) ==  \* a save of the row that leaves updated_at to the database's default
    /\ DavAt(r, "touch")
    /\ DavGoto(r, "audit")
    /\ UNCHANGED <<davStore, edited, davSeen, torn>>
TouchRow(r) ==
    /\ DavAt(r, "touch")
    /\ LET n == dav[r].node
       IN IF davRows[n] = NoDavRow
          THEN UNCHANGED <<davRows, stamp>> /\ BreaksOff(r, IF dav[r].made THEN 409 ELSE 404)
          ELSE Stamped(n, davRows[n]) /\ DavGoto(r, "audit")
    /\ UNCHANGED <<davBases, texts, edited, davSeen, torn>>

\* update of a MOVE.
PlaceNode(r) ==
    /\ DavAt(r, "place")
    /\ LET n == dav[r].node
       IN IF davRows[n] = NoDavRow THEN Respond(r, 404) /\ UNCHANGED <<davRows, stamp>>
          ELSE IF DavSubtree(n) \cap edited # {} THEN Respond(r, 423) /\ UNCHANGED <<davRows, stamp>>
          ELSE /\ Stamped(n, [davRows[n] EXCEPT !.parent = dav[r].parent, !.name = NameOf(dav[r].a.dest)])
               /\ DavGoto(r, "audit")
    /\ UNCHANGED <<davBases, texts, edited, davSeen, torn>>

\* remove, of a DELETE and of a PUT that cleans up.
TakeAway(r) ==
    /\ dav[r].pc \in {"drop", "cleanup"}
    /\ LET n == dav[r].node
       IN IF davRows[n] = NoDavRow THEN Respond(r, 404) /\ UNCHANGED davRows
          ELSE IF DavSubtree(n) \cap edited # {} THEN Respond(r, 423) /\ UNCHANGED davRows
          ELSE /\ davRows' = [m \in DavIds |-> IF m \in DavSubtree(n) THEN NoDavRow ELSE davRows[m]]
               /\ IF DavAt(r, "drop") THEN DavGoto(r, "audit") ELSE Respond(r, dav[r].code)
    /\ UNCHANGED <<davBases, texts, stamp, edited, davSeen, torn>>

Audit(r) ==
    /\ DavAt(r, "audit")
    /\ LET a == dav[r].a
           saved == a.method = "PUT" /\ ~dav[r].made
       IN Respond(r, IF a.method = "save" THEN 200 ELSE IF a.method = "DELETE" \/ saved THEN 204 ELSE 201)
    /\ UNCHANGED <<davStore, edited, davSeen, torn>>

\* Any await may throw before it has done anything; OpenViking's errors are
\* HttpExceptions, a bad gateway to a DELETE and a conflict to a PUT or a MOVE.
Broken(r) ==
    /\ dav[r].pc \in {"bases", "tree", "quota", "makebase", "renamebase", "dropbase", "make", "text",
                      "touch", "place", "drop", "cleanup", "audit"}
    /\ torn' = IF dav[r].pc = "touch" THEN torn \cup {dav[r].node} ELSE torn
    /\ CASE dav[r].pc \in {"text", "touch"} -> \E status \in {409, 500} : BreaksOff(r, status)
         [] dav[r].pc \in {"make", "place"} -> \E status \in {409, 500} : Respond(r, status)
         [] dav[r].pc \in {"drop", "dropbase"} -> \E status \in {500, 502} : Respond(r, status)
         [] OTHER -> Respond(r, 500)
    /\ UNCHANGED <<davStore, edited, davSeen>>

\* The console saves a document it shows, by its id and unless somebody edits it.
ConsoleSave(r) ==
    /\ DavAt(r, "received") /\ DavRole[dav[r].a.by] # NoRole /\ dav[r].a.method = "save"
    /\ LET n == NodeAt(BaseNamed(dav[r].a.path[1]), Tail(dav[r].a.path))
       IN IF MayNotWrite(dav[r].a.by) THEN Respond(r, 403)
          ELSE IF n = NoDavRow THEN Respond(r, 404)
          ELSE IF ~Reads(dav[r].a.by, n) THEN Respond(r, 403)
          ELSE IF n \in edited THEN Respond(r, 423)
          ELSE IF ~IsDocument(n) THEN Respond(r, 400)
          ELSE dav' = [dav EXCEPT ![r].pc = "text", ![r].node = n]
    /\ UNCHANGED <<davStore, edited, davSeen, torn>>

\* One editor comes, and stays.
EditorOpens ==
    /\ edited = {}
    /\ \E n \in Edits \cap DavLive : IsDocument(n) /\ edited' = {n}
    /\ UNCHANGED <<davStore, dav, davSeen, torn>>

(***************************************************************************)
(* The specification.                                                      *)
(***************************************************************************)
DavInit ==
    /\ davBases = FirstBases /\ davRows = FirstDavRows
    /\ texts = [n \in DavIds |-> "first"] /\ stamp = 1
    /\ edited = {}
    /\ dav = [r \in DavCalls |-> NotAsked]
    /\ tags = {} /\ copies = {} /\ torn = {}

DavServes(r) ==
    \/ Unknown(r) \/ LetIn(r) \/ Body(r) \/ ReadBases(r) \/ DecideWrite(r) \/ Propfind(r) \/ Read(r) \/ Content(r)
    \/ Quota(r) \/ MakeBase(r) \/ RenameBase(r) \/ DropBase(r)
    \/ Make(r) \/ StoreText(r) \/ TouchRow(r) \/ PlaceNode(r) \/ TakeAway(r) \/ Audit(r)
    \/ Broken(r) \/ ConsoleSave(r)

DavNext == (\E r \in DavCalls : DavArrive(r) \/ DavServes(r)) \/ EditorOpens

DavSpec == DavInit /\ [][DavNext]_davVars

(***************************************************************************)
(* Properties.                                                             *)
(***************************************************************************)
DavTypeOK ==
    /\ \A b \in DavBasesThere : davBases[b].stamp <= stamp
    /\ \A n \in DavLive : davRows[n].stamp <= stamp /\ davRows[n].base \in BaseIds
    /\ edited \subseteq Edits /\ torn \subseteq DavIds
    /\ \A tag \in tags : tag[2] <= stamp

\* What docs/API_REFERENCE.md promises of If-Match: a PUT with the ETag of a GET
\* replaces the very text that GET answered, whoever wrote in between, as long
\* as nothing overlapped either of the two and no save broke off between its
\* two writes.
ConditionalPutIsExact ==
    [][\A r \in DavCalls :
         DavAt(r, "text") /\ texts' # texts /\ dav'[r].pc = "touch"
         /\ dav[r].a.cond = "match" /\ dav[r].alone /\ dav[r].node \notin torn
           => \A copy \in copies : copy.tag = dav[r].tag => texts[dav[r].node] = copy.text]_davVars
=============================================================================
