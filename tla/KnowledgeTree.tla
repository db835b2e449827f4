---------------------------- MODULE KnowledgeTree ----------------------------
(***************************************************************************)
(* The tree of one knowledge base: its rows in knowledge_nodes, the drafts *)
(* and the OpenViking content that belong to them, and the registry of     *)
(* editing sessions the handlers ask before they move or remove anything.  *)
(* The handlers are those of the REST tree, of WebDAV and of the removal   *)
(* of a knowledge base.                                                    *)
(*                                                                         *)
(* An action is the code between two awaits; what a handler read at an     *)
(* earlier one is in its record.                                           *)
(***************************************************************************)
EXTENDS Naturals, FiniteSets, Sequences

CONSTANTS
    Ids,          \* node ids, given out once
    Names,        \* node names
    Ops,          \* handlers that may be in flight
    Conns,        \* editing connections
    ModeOf,       \* the mode the role of a connection's user gives it
    Root,         \* the parent of a top-level node
    Gone,         \* an id without a row
    First,        \* the rows there are at the start
    Overlap,      \* the pairs of kinds of handlers that may be in flight at once
    Served,       \* the kinds of handlers that are called
    MaxCalls,     \* bound on the calls of a behaviour
    MaxRestarts   \* bound on the restarts of a behaviour

VARIABLES
    nodes,        \* knowledge_nodes
    used,         \* ids given out so far
    drafts,       \* ids with a row in document_drafts
    content,      \* ids whose resource OpenViking holds
    kb,           \* the row of the knowledge base is there
    nodeSessions, \* registry: the sessions of a node, each with its mode
    kbNodes,      \* registry: the nodes of the knowledge base with a session
    conn,         \* the connections of editors
    op,           \* handlers in flight
    calls, restarts

rows == <<nodes, used, drafts, content, kb>>
registry == <<nodeSessions, kbNodes>>
bounds == <<calls, restarts>>
treeVars == <<rows, registry, conn, op, bounds>>

Makers == {"create", "mkcol", "put"}
Updates == {"move", "rename", "patch", "davmove"}
Removals == {"remove", "delete", "cleanup", "dropkb"}
Handlers == Makers \cup Updates \cup Removals
Kinds == {"collection", "document"}
Modes == {"readonly", "write"}

Row == [parent : Ids \cup {Root}, name : Names, kind : Kinds]

ASSUME TreeAssumption ==
    /\ IsFiniteSet(Ids) /\ Root \notin Ids
    /\ Gone \notin Row
    /\ First \in [Ids -> Row \cup {Gone}]
    /\ Served \subseteq Handlers /\ ModeOf \in [Conns -> Modes]
    /\ MaxCalls \in Nat /\ MaxRestarts \in Nat

Live == {n \in Ids : nodes[n] # Gone}
Children(n) == {m \in Live : nodes[m].parent = n}

\* The nodes under n, n included: the least set with n and the children of its members.
HoldsChildren(S) == \A m \in Live \ S : nodes[m].parent \notin S
Subtree(n) ==
    LET Around == {S \in SUBSET Ids : n \in S /\ HoldsChildren(S)}
    IN {m \in Ids : \A S \in Around : m \in S}

HasSession(n) == nodeSessions[n] # {}
HasWriteSession(n) == \E s \in nodeSessions[n] : s.mode = "write"
Edited == {n \in Ids : HasSession(n)}

Idle == [kind |-> "idle"]
InFlight == {o \in Ops : op[o].kind # "idle"}
At(o, pc) == op[o].kind # "idle" /\ op[o].pc = pc
Becomes(o, handler) == op' = [op EXCEPT ![o] = handler]
Done(o) == Becomes(o, Idle)
Goto(o, pc) == Becomes(o, [op[o] EXCEPT !.pc = pc])

\* A PUT that fails after it made its node removes the node again.
Fails(o) ==
    IF op[o].kind = "put" /\ op[o].made
    THEN Becomes(o, [op[o] EXCEPT !.kind = "cleanup", !.pc = "find"])
    ELSE Done(o)

(***************************************************************************)
(* A call.  A handler's record: the node and the place it is about, the    *)
(* row it read, the ids it has collected and those whose children it still *)
(* has to read, the recursion of removeNode and the roots removal goes     *)
(* through.  held are the nodes edited ever since the call, and alone says *)
(* that no other handler was in flight: both only serve the properties.    *)
(***************************************************************************)
Entry(k) == CASE k \in {"create", "move", "rename", "patch", "remove"} -> "check"
              [] k \in {"mkcol", "put", "davmove", "delete"} -> "snapshot"
              [] OTHER -> "kbfind"

Call(o, k, n, p, x) ==
    /\ op[o].kind = "idle"
    /\ k \in Served
    /\ calls < MaxCalls
    /\ \A q \in InFlight : {k, op[q].kind} \in Overlap
    /\ calls' = calls + 1
    /\ op' = [q \in Ops |->
        IF q = o
        THEN [kind |-> k, pc |-> Entry(k), id |-> n, parent |-> p, name |-> x, made |-> FALSE,
              copy |-> Gone, seen |-> {}, todo |-> {}, stack |-> <<>>, roots |-> {},
              held |-> Edited, alone |-> InFlight = {}]
        ELSE IF op[q].kind = "idle" THEN Idle ELSE [op[q] EXCEPT !.alone = FALSE]]
    /\ UNCHANGED <<rows, registry, conn, restarts>>

\* What clients ask for: nodes that are there, and any place for them that the
\* console does not refuse: it shows no base that is gone and takes no drop of a
\* node under itself, and the server looks at neither.  A patch gives a new
\* name and the old parent.
Offered(n, p) == p \notin Subtree(n)

Asks(o) ==
    /\ op[o].kind = "idle" /\ calls < MaxCalls
    /\ \E p \in Live \cup {Root}, x \in Names :
        \/ \E k \in Makers : (k = "create" => kb) /\ Call(o, k, Root, p, x)
        \/ \E n \in Live :
            \/ Call(o, "davmove", n, p, x)
            \/ x = nodes[n].name /\ Offered(n, p) /\ Call(o, "move", n, p, x)
            \/ p = nodes[n].parent /\ \E k \in {"rename", "patch"} : Call(o, k, n, p, x)
            \/ /\ p = nodes[n].parent /\ x = nodes[n].name
               /\ \E k \in {"remove", "delete"} : Call(o, k, n, p, x)
        \/ x = (CHOOSE any \in Names : TRUE) /\ Call(o, "dropkb", Root, Root, x)

(***************************************************************************)
(* What comes before the tree service.                                     *)
(***************************************************************************)
\* REST: the controller reads the node, and the parent if there is one.
There(n) == n = Root \/ nodes[n] # Gone

Check(o) ==
    /\ At(o, "check")
    /\ IF There(op[o].id) /\ There(op[o].parent)
       THEN Goto(o, IF op[o].kind = "create" THEN "insert" ELSE "find")
       ELSE Done(o)
    /\ UNCHANGED <<rows, registry, conn, bounds>>

\* WebDAV decides on one reading of the whole tree.
Folder(p) == p = Root \/ (p \in Live /\ (nodes[p].kind = "collection" \/ Children(p) # {}))
Sibling(p, x) == {n \in Live : nodes[n].parent = p /\ nodes[n].name = x}
Untouched(n) == \A m \in Subtree(n) : ~HasSession(m)

MkcolAllowed(p, x) == kb /\ Folder(p) /\ Sibling(p, x) = {}
DeleteAllowed(n) == kb /\ n \in Live /\ Untouched(n) /\ Children(n) = {}
MoveAllowedInto(n, p, x) ==  \* a move that forgets the subtree of its source
    /\ kb /\ n \in Live /\ Folder(p)
    /\ <<p, x>> # <<nodes[n].parent, nodes[n].name>>
    /\ p # n
    /\ Sibling(p, x) \subseteq {n}
    /\ Untouched(n)
MoveAllowedOnto(n, p, x) ==  \* a move that does not look for the name
    /\ kb /\ n \in Live /\ Folder(p)
    /\ p \notin Subtree(n)
    /\ Untouched(n)
MoveAllowed(n, p, x) ==
    /\ kb /\ n \in Live /\ Folder(p)
    /\ <<p, x>> # <<nodes[n].parent, nodes[n].name>>
    /\ p \notin Subtree(n)
    /\ Sibling(p, x) \subseteq {n}
    /\ Untouched(n)

Mkcol(o) ==
    /\ At(o, "snapshot") /\ op[o].kind = "mkcol"
    /\ IF MkcolAllowed(op[o].parent, op[o].name) THEN Goto(o, "insert") ELSE Done(o)
    /\ UNCHANGED <<rows, registry, conn, bounds>>

\* A PUT replaces the document at its path, or makes one.
Put(o) ==
    /\ At(o, "snapshot") /\ op[o].kind = "put"
    /\ \/ \E n \in Sibling(op[o].parent, op[o].name) :
            IF kb /\ nodes[n].kind = "document" /\ Children(n) = {} /\ ~HasWriteSession(n)
            THEN Becomes(o, [op[o] EXCEPT !.pc = "draft", !.id = n])
            ELSE Done(o)
       \/ /\ Sibling(op[o].parent, op[o].name) = {}
          /\ IF kb /\ Folder(op[o].parent) THEN Goto(o, "insert") ELSE Done(o)
    /\ UNCHANGED <<rows, registry, conn, bounds>>

Delete(o) ==
    /\ At(o, "snapshot") /\ op[o].kind = "delete"
    /\ IF DeleteAllowed(op[o].id) THEN Goto(o, "find") ELSE Done(o)
    /\ UNCHANGED <<rows, registry, conn, bounds>>

Move(o) ==
    /\ At(o, "snapshot") /\ op[o].kind = "davmove"
    /\ IF MoveAllowed(op[o].id, op[o].parent, op[o].name) THEN Goto(o, "find") ELSE Done(o)
    /\ UNCHANGED <<rows, registry, conn, bounds>>

(***************************************************************************)
(* create, createFile and the save of a PUT.                               *)
(***************************************************************************)
Insert(o) ==
    /\ At(o, "insert")
    /\ \E n \in Ids \ used, kind \in Kinds :
        /\ op[o].kind = "mkcol" => kind = "collection"
        /\ op[o].kind = "put" => kind = "document"
        /\ nodes' = [nodes EXCEPT ![n] =
              [parent |-> op[o].parent, name |-> op[o].name, kind |-> kind]]
        /\ used' = used \cup {n}
        /\ IF op[o].kind = "put"
           THEN Becomes(o, [op[o] EXCEPT !.pc = "draft", !.id = n, !.made = TRUE])
           ELSE Done(o)
    /\ UNCHANGED <<drafts, content, kb, registry, conn, bounds>>

\* requireDocumentNode, then saveMarkdown,
SaveDraft(o) ==
    /\ At(o, "draft")
    /\ IF nodes[op[o].id] = Gone THEN Fails(o) /\ UNCHANGED drafts
       ELSE drafts' = drafts \cup {op[o].id} /\ Goto(o, "stateread")
    /\ UNCHANGED <<nodes, used, content, kb, registry, conn, bounds>>

\* and syncIndexState, which reads the whole row
ReadRow(o) ==
    /\ At(o, "stateread")
    /\ IF nodes[op[o].id] = Gone THEN Fails(o)
       ELSE Becomes(o, [op[o] EXCEPT !.pc = "statewrite", !.copy = nodes[op[o].id]])
    /\ UNCHANGED <<rows, registry, conn, bounds>>

\* and writes it, whatever became of the row meanwhile.
WriteRow(o) ==
    /\ At(o, "statewrite")
    /\ nodes' = [nodes EXCEPT ![op[o].id] = op[o].copy]
    /\ Done(o)
    /\ UNCHANGED <<used, drafts, content, kb, registry, conn, bounds>>

(***************************************************************************)
(* update, of a move, a rename or any patch of a node.                     *)
(***************************************************************************)
\* A patch that names the parent is judged by the parent alone.
TouchesSubtree(o, row) ==
    IF op[o].kind = "rename" THEN op[o].name # row.name ELSE op[o].parent # row.parent

FindForUpdate(o) ==
    /\ At(o, "find") /\ op[o].kind \in Updates
    /\ LET n == op[o].id IN
        IF nodes[n] = Gone THEN Done(o)
        ELSE Becomes(o, [op[o] EXCEPT !.copy = nodes[n], !.todo = {n},
                !.pc = IF TouchesSubtree(o, nodes[n]) THEN "collect" ELSE "save"])
    /\ UNCHANGED <<rows, registry, conn, bounds>>

\* Writes the row as it was read, the change applied: one that was removed
\* meanwhile is inserted again.
Save(o) ==
    /\ At(o, "save")
    /\ nodes' = [nodes EXCEPT ![op[o].id] =
          [op[o].copy EXCEPT !.parent = op[o].parent, !.name = op[o].name]]
    /\ Done(o)
    /\ UNCHANGED <<used, drafts, content, kb, registry, conn, bounds>>

(***************************************************************************)
(* The ids of a subtree, read one node's children at a time, and the       *)
(* question to the registry in the step that reads the last of them.       *)
(***************************************************************************)
AfterCollect(o) == IF op[o].kind \in Updates THEN "save" ELSE "walk"
SessionAtTop(o) == HasSession(op[o].id)  \* a question about the node alone
SessionInside(o) == \E n \in op[o].seen \cup op[o].todo : HasSession(n)
Collect(o) ==
    /\ At(o, "collect")
    /\ \E n \in op[o].todo :
        LET seen == op[o].seen \cup {n}
            todo == (op[o].todo \ {n}) \cup Children(n)
        IN IF todo # {} THEN Becomes(o, [op[o] EXCEPT !.seen = seen, !.todo = todo])
           ELSE IF SessionInside(o) THEN Fails(o)
           ELSE Becomes(o, [op[o] EXCEPT !.pc = AfterCollect(o), !.seen = {}, !.todo = {}])
    /\ UNCHANGED <<rows, registry, conn, bounds>>

(***************************************************************************)
(* remove and the recursion of removeNode: a frame for each node on the    *)
(* way down, with the children it still has to remove.                     *)
(***************************************************************************)
FindForRemove(o) ==
    /\ At(o, "find") /\ op[o].kind \in Removals
    /\ IF nodes[op[o].id] = Gone THEN Done(o)
       ELSE Becomes(o, [op[o] EXCEPT !.pc = "collect", !.todo = {op[o].id}])
    /\ UNCHANGED <<rows, registry, conn, bounds>>

Top(o) == Head(op[o].stack)

\* removeNode(n), called from the frames in stack: n and its children are read.
Descend(o, n, stack) ==
    IF nodes[n] = Gone THEN Done(o)
    ELSE Becomes(o, [op[o] EXCEPT !.stack = <<[id |-> n, todo |-> Children(n)]>> \o stack])

Enter(o) ==
    /\ At(o, "walk")
    /\ \/ op[o].stack = <<>> /\ Descend(o, op[o].id, <<>>)
       \/ /\ op[o].stack # <<>>
          /\ \E n \in Top(o).todo :
                Descend(o, n, <<[Top(o) EXCEPT !.todo = @ \ {n}]>> \o Tail(op[o].stack))
    /\ UNCHANGED <<rows, registry, conn, bounds>>

\* All children are gone: the content goes, where the caller has not removed it,
RemoveContent(o) ==
    /\ At(o, "walk") /\ op[o].stack # <<>> /\ Top(o).todo = {}
    /\ content' = IF op[o].kind = "dropkb" THEN content ELSE content \ {Top(o).id}
    /\ Goto(o, "dropdraft")
    /\ UNCHANGED <<nodes, used, drafts, kb, registry, conn, bounds>>

\* then the draft,
RemoveDraft(o) ==
    /\ At(o, "dropdraft")
    /\ drafts' = drafts \ {Top(o).id}
    /\ Goto(o, "droprow")
    /\ UNCHANGED <<nodes, used, content, kb, registry, conn, bounds>>

\* then the row, and the call returns to the frame below.
Return(o) ==
    LET below == Tail(op[o].stack)
        next == IF below # <<>> THEN "walk" ELSE IF op[o].kind = "dropkb" THEN "kbroots" ELSE "stats"
    IN Becomes(o, [op[o] EXCEPT !.stack = below, !.pc = next])

RemoveRowFirst(o) ==  \* a removal that takes the row before what it owns
    /\ At(o, "walk") /\ op[o].stack # <<>>
    /\ nodes' = [nodes EXCEPT ![Top(o).id] = Gone]
    /\ Return(o)
    /\ UNCHANGED <<used, drafts, content, kb, registry, conn, bounds>>
RemoveRow(o) ==
    /\ At(o, "droprow")
    /\ nodes' = [nodes EXCEPT ![Top(o).id] = Gone]
    /\ Return(o)
    /\ UNCHANGED <<used, drafts, content, kb, registry, conn, bounds>>

\* refreshKnowledgeBaseStats reads the row of the base, counts its nodes
ReadBase(o) ==
    /\ At(o, "stats")
    /\ IF kb THEN Goto(o, "statswrite") ELSE Done(o)
    /\ UNCHANGED <<rows, registry, conn, bounds>>

\* and writes the row back: one that was deleted meanwhile is there again.
SaveBase(o) ==
    /\ At(o, "statswrite")
    /\ kb' = TRUE
    /\ Done(o)
    /\ UNCHANGED <<nodes, used, drafts, content, registry, conn, bounds>>

(***************************************************************************)
(* The removal of a knowledge base: its content at once, then each node    *)
(* that has no parent, its row last.                                       *)
(***************************************************************************)
FindBase(o) ==
    /\ At(o, "kbfind")
    /\ IF kb /\ kbNodes = {} THEN Goto(o, "kbnodes") ELSE Done(o)
    /\ UNCHANGED <<rows, registry, conn, bounds>>

ReadNodes(o) ==
    /\ At(o, "kbnodes")
    /\ Becomes(o, [op[o] EXCEPT !.pc = "kbcontent",
          !.roots = {n \in Live : nodes[n].parent \notin Live}])
    /\ UNCHANGED <<rows, registry, conn, bounds>>

RemoveBaseContent(o) ==
    /\ At(o, "kbcontent")
    /\ content' = {}
    /\ Goto(o, "kbroots")
    /\ UNCHANGED <<nodes, used, drafts, kb, registry, conn, bounds>>

NextRoot(o) ==
    /\ At(o, "kbroots")
    /\ \E n \in op[o].roots :
        Becomes(o, [op[o] EXCEPT !.pc = "find", !.id = n, !.roots = @ \ {n}])
    /\ UNCHANGED <<rows, registry, conn, bounds>>

RemoveBase(o) ==
    /\ At(o, "kbroots") /\ op[o].roots = {}
    /\ kb' = FALSE
    /\ Done(o)
    /\ UNCHANGED <<nodes, used, drafts, content, registry, conn, bounds>>

\* Any await of a handler may throw before it has done anything.
Throws(o) ==
    /\ op[o].kind # "idle"
    /\ Fails(o)
    /\ UNCHANGED <<rows, registry, conn, bounds>>
(***************************************************************************)
(* Editing sessions.  A connection is let in, its document loaded unless   *)
(* another one has it, and only then is it in the registry.                *)
(***************************************************************************)
Closed == [pc |-> "closed"]

Authenticate(c) ==
    /\ conn[c] = Closed
    /\ \E n \in {m \in Live : nodes[m].kind = "document"} :
        conn' = [conn EXCEPT ![c] = [pc |-> "loading", id |-> n]]
    /\ UNCHANGED <<rows, registry, op, bounds>>

Load(c) ==
    /\ conn[c].pc = "loading"
    /\ conn' = [conn EXCEPT ![c] =
          IF \/ nodes[conn[c].id] # Gone
             \/ \E d \in Conns \ {c} : conn[d].pc \in {"loaded", "open"} /\ conn[d].id = conn[c].id
          THEN [@ EXCEPT !.pc = "loaded"] ELSE Closed]
    /\ UNCHANGED <<rows, registry, op, bounds>>

RegisterSwapped(c) ==  \* a call with the two ids the other way round
    /\ conn[c].pc = "loaded"
    /\ kbNodes' = kbNodes \cup {c}
    /\ conn' = [conn EXCEPT ![c].pc = "open"]
    /\ UNCHANGED <<rows, nodeSessions, op, bounds>>
Register(c) ==
    /\ conn[c].pc = "loaded"
    /\ nodeSessions' = [nodeSessions EXCEPT ![conn[c].id] =
          {s \in @ : s.conn # c} \cup {[conn |-> c, mode |-> ModeOf[c]]}]
    /\ kbNodes' = kbNodes \cup {conn[c].id}
    /\ conn' = [conn EXCEPT ![c].pc = "open"]
    /\ UNCHANGED <<rows, op, bounds>>

\* What the handlers in flight hold no longer was edited all the time.
Released(n) == op' = [o \in Ops |-> IF op[o].kind = "idle" THEN Idle ELSE [op[o] EXCEPT !.held = @ \ {n}]]

DisconnectOne(c) ==  \* the first session to leave takes its node out of the list
    /\ conn[c].pc = "open"
    /\ conn' = [conn EXCEPT ![c] = Closed]
    /\ LET n == conn[c].id
       IN /\ nodeSessions' = [nodeSessions EXCEPT ![n] = {s \in @ : s.conn # c}]
          /\ kbNodes' = kbNodes \ {n}
          /\ Released(n)
    /\ UNCHANGED <<rows, bounds>>
Disconnect(c) ==
    /\ conn[c].pc # "closed"
    /\ conn' = [conn EXCEPT ![c] = Closed]
    /\ IF conn[c].pc # "open" THEN UNCHANGED <<registry, op>>
       ELSE LET n == conn[c].id
                left == {s \in nodeSessions[n] : s.conn # c}
            IN /\ nodeSessions' = [nodeSessions EXCEPT ![n] = left]
               /\ IF left # {} THEN UNCHANGED <<kbNodes, op>>
                  ELSE kbNodes' = kbNodes \ {n} /\ Released(n)
    /\ UNCHANGED <<rows, bounds>>
\* What is in memory is lost.
Restart ==
    /\ restarts < MaxRestarts
    /\ restarts' = restarts + 1
    /\ nodeSessions' = [n \in Ids |-> {}] /\ kbNodes' = {}
    /\ conn' = [c \in Conns |-> Closed]
    /\ op' = [o \in Ops |-> Idle]
    /\ UNCHANGED <<rows, calls>>

(***************************************************************************)
(* The specification.                                                      *)
(***************************************************************************)
TreeInit ==
    /\ nodes = First
    /\ used = Live
    /\ drafts = {} /\ content = {n \in Live : nodes[n].kind = "document"}
    /\ kb = TRUE
    /\ nodeSessions = [n \in Ids |-> {}] /\ kbNodes = {}
    /\ conn = [c \in Conns |-> Closed]
    /\ op = [o \in Ops |-> Idle]
    /\ calls = 0 /\ restarts = 0

Handle(o) ==
    \/ Check(o) \/ Mkcol(o) \/ Put(o) \/ Delete(o) \/ Move(o)
    \/ Insert(o) \/ SaveDraft(o) \/ ReadRow(o) \/ WriteRow(o)
    \/ FindForUpdate(o) \/ Save(o) \/ Collect(o)
    \/ FindForRemove(o) \/ Enter(o)
    \/ RemoveContent(o) \/ RemoveDraft(o) \/ RemoveRow(o)
    \/ ReadBase(o) \/ SaveBase(o)
    \/ FindBase(o) \/ ReadNodes(o) \/ RemoveBaseContent(o) \/ NextRoot(o) \/ RemoveBase(o)
    \/ Throws(o)

Session(c) == Authenticate(c) \/ Load(c) \/ Register(c) \/ Disconnect(c)

TreeNext ==
    \/ \E o \in Ops : Asks(o) \/ Handle(o)
    \/ \E c \in Conns : Session(c)
    \/ Restart

TreeSpec == TreeInit /\ [][TreeNext]_treeVars

(***************************************************************************)
(* Properties.                                                             *)
(***************************************************************************)
Sessions == [conn : Conns, mode : Modes]
Frames == [id : Ids, todo : SUBSET Ids]
Stages == {"check", "snapshot", "insert", "draft", "stateread", "statewrite", "find",
           "collect", "save", "walk", "dropdraft", "droprow", "stats", "statswrite",
           "kbfind", "kbnodes", "kbcontent", "kbroots"}
Calling == [kind : Handlers, pc : Stages, id : Ids \cup {Root}, parent : Ids \cup {Root},
            name : Names, made : BOOLEAN, copy : Row \cup {Gone}, seen : SUBSET Ids,
            todo : SUBSET Ids, stack : Seq(Frames), roots : SUBSET Ids,
            held : SUBSET Ids, alone : BOOLEAN]

TreeTypeOK ==
    /\ nodes \in [Ids -> Row \cup {Gone}]
    /\ used \in SUBSET Ids /\ drafts \in SUBSET Ids /\ content \in SUBSET Ids
    /\ kb \in BOOLEAN
    /\ nodeSessions \in [Ids -> SUBSET Sessions] /\ kbNodes \in SUBSET Ids
    /\ conn \in [Conns -> {Closed} \cup
          [pc : {"loading", "loaded", "open"}, id : Ids]]
    /\ op \in [Ops -> {Idle} \cup Calling]
    /\ calls \in 0..MaxCalls /\ restarts \in 0..MaxRestarts

\* Whatever was collected, checked and recursed over, and wherever it broke
\* off: the nodes are a forest.  Every parent is a live node or the root, no
\* set of nodes is closed under its parents, and no node outlives its base.
\* And a removal that breaks off half way leaves nothing that no row names:
\* the drafts and the OpenViking resources all belong to a live node, so
\* another removal can finish the work.
TreeRooted ==
    /\ \A n \in Live : nodes[n].parent \in Live \cup {Root}
    /\ \A S \in (SUBSET Live) \ {{}} : \E n \in S : nodes[n].parent \notin S
    /\ ~kb => Live = {}
NothingOrphaned == drafts \cup content \subseteq Live
TreeWhole == TreeRooted /\ NothingOrphaned

\* The two maps of the registry agree with each other and with the open
\* connections, however they open, break off and restart.
RegistryExact ==
    /\ \A n \in Ids : nodeSessions[n] =
          {[conn |-> c, mode |-> ModeOf[c]] :
              c \in {d \in Conns : conn[d].pc = "open" /\ conn[d].id = n}}
    /\ kbNodes = Edited

\* A handler never changes the name or the place of a node, nor removes it,
\* while one was edited under it all the time since the handler was called:
\* whichever way the handler came, somebody asked the registry.
Disturbed(n) == nodes[n] # Gone /\ nodes'[n] # nodes[n]
SessionsProtectTree ==
    [][\A n \in Ids, o \in InFlight :
         Disturbed(n) /\ op'[o] # op[o] => Subtree(n) \cap op[o].held = {}]_treeVars

\* And WebDAV names its resources by their paths: a WebDAV call that nothing
\* overlaps adds no second node of the same name to a folder.
Twins(rowsOf) == {p \in Ids \X Ids : /\ p[1] # p[2] /\ Gone \notin {rowsOf[p[1]], rowsOf[p[2]]}
                                     /\ rowsOf[p[1]].parent = rowsOf[p[2]].parent
                                     /\ rowsOf[p[1]].name = rowsOf[p[2]].name}
DavKeepsNamesApart ==
    [][\A o \in InFlight :
         op[o].kind \in {"mkcol", "put", "davmove"} /\ op[o].alone /\ op'[o] # op[o]
            => Twins(nodes') \subseteq Twins(nodes)]_treeVars
TreeStepsGuarded == SessionsProtectTree /\ DavKeepsNamesApart
=============================================================================
