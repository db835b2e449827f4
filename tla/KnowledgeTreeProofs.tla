-------------------------- MODULE KnowledgeTreeProofs --------------------------
(***************************************************************************)
(* Theorems about KnowledgeTree, for any number of nodes, connections,     *)
(* handlers, calls and restarts: the registry of editing sessions agrees   *)
(* with the connections, the nodes stay a forest that owns every draft and *)
(* every resource, and no handler disturbs a node that is edited.          *)
(***************************************************************************)
EXTENDS KnowledgeTree, TLAPS

ConnRec == {Closed} \cup [pc : {"loading", "loaded", "open"}, id : Ids]
OpenOn(n) == {c \in Conns : conn[c].pc = "open" /\ conn[c].id = n}
SessionOf(c) == [conn |-> c, mode |-> ModeOf[c]]

RegistryInv ==
    /\ conn \in [Conns -> ConnRec]
    /\ nodeSessions \in [Ids -> SUBSET {SessionOf(c) : c \in Conns}]
    /\ \A n \in Ids : nodeSessions[n] = {SessionOf(c) : c \in OpenOn(n)}
    /\ kbNodes = {n \in Ids : nodeSessions[n] # {}}

\* The handlers of the tree ask the registry and never change it.
LEMMA HandlersLeaveRegistry ==
    ASSUME NEW o \in Ops, Asks(o) \/ Handle(o)
    PROVE  UNCHANGED <<nodeSessions, kbNodes, conn>>
  <1>1. CASE Handle(o)
    BY <1>1 DEF Handle, Check, Mkcol, Put, Delete, Move, Insert, SaveDraft, ReadRow, WriteRow,
         FindForUpdate, Save, Collect, FindForRemove, Enter, RemoveContent, RemoveDraft, RemoveRow,
         ReadBase, SaveBase, FindBase, ReadNodes, RemoveBaseContent, NextRoot, RemoveBase, Throws,
         registry
  <1>2. CASE Asks(o)
    <2>1. \E k \in Handlers, n \in Ids \cup {Root}, p \in Ids \cup {Root}, x \in Names : Call(o, k, n, p, x)
      BY <1>2 DEF Asks, Live, Handlers, Makers, Updates, Removals
    <2> QED BY <2>1 DEF Call, registry
  <1> QED BY <1>1, <1>2

\* A connection that opens, loads or breaks off before it is registered.
LEMMA UnregisteredKeepsInv ==
    ASSUME RegistryInv, NEW c \in Conns, NEW r \in ConnRec, conn' = [conn EXCEPT ![c] = r],
           conn[c].pc # "open", r.pc # "open", UNCHANGED <<nodeSessions, kbNodes>>
    PROVE  RegistryInv'
  <1>1. conn' \in [Conns -> ConnRec] /\ \A d \in Conns : conn'[d] = IF d = c THEN r ELSE conn[d]
    BY DEF RegistryInv
  <1>2. \A n \in Ids : OpenOn(n)' = OpenOn(n)
    BY <1>1 DEF OpenOn
  <1> QED BY <1>1, <1>2 DEF RegistryInv, SessionOf

LEMMA RegisterKeepsInv ==
    ASSUME RegistryInv, NEW c \in Conns, Register(c)
    PROVE  RegistryInv'
  <1>0. PICK n : n = conn[c].id
    OBVIOUS
  <1>1. /\ conn[c].pc = "loaded" /\ conn[c] \in ConnRec
        /\ conn' = [conn EXCEPT ![c].pc = "open"]
        /\ nodeSessions' = [nodeSessions EXCEPT ![n] = {s \in @ : s.conn # c} \cup {SessionOf(c)}]
        /\ kbNodes' = kbNodes \cup {n}
    BY <1>0 DEF Register, RegistryInv, SessionOf
  <1>2. n \in Ids /\ conn[c] \in [pc : {"loading", "loaded", "open"}, id : Ids]
    BY <1>0, <1>1 DEF ConnRec, Closed
  <1>3. [conn[c] EXCEPT !.pc = "open"] \in ConnRec /\ [conn[c] EXCEPT !.pc = "open"].pc = "open"
        /\ [conn[c] EXCEPT !.pc = "open"].id = n
    BY <1>0, <1>2 DEF ConnRec
  <1>4. /\ conn' \in [Conns -> ConnRec] /\ conn'[c].pc = "open" /\ conn'[c].id = n
        /\ \A d \in Conns \ {c} : conn'[d] = conn[d]
    BY <1>1, <1>3 DEF RegistryInv
  <1>5. OpenOn(n)' = OpenOn(n) \cup {c} /\ c \notin OpenOn(n)
        /\ \A m \in Ids \ {n} : OpenOn(m)' = OpenOn(m)
    BY <1>0, <1>1, <1>4 DEF OpenOn
  <1>6. \A s \in nodeSessions[n] : s.conn # c
    <2> TAKE s \in nodeSessions[n]
    <2>1. PICK d \in OpenOn(n) : s = SessionOf(d)
      BY <1>2 DEF RegistryInv
    <2> QED BY <1>5, <2>1 DEF SessionOf
  <1>7. nodeSessions'[n] = nodeSessions[n] \cup {SessionOf(c)}
    BY <1>1, <1>2, <1>6 DEF RegistryInv
  <1>8. \A m \in Ids \ {n} : nodeSessions'[m] = nodeSessions[m]
    BY <1>1 DEF RegistryInv
  <1>9. \A m \in Ids : nodeSessions'[m] = {SessionOf(d) : d \in OpenOn(m)'}
    BY <1>2, <1>5, <1>7, <1>8 DEF RegistryInv
  <1>10. nodeSessions' \in [Ids -> SUBSET {SessionOf(d) : d \in Conns}]
    BY <1>1, <1>2 DEF RegistryInv
  <1>11. kbNodes' = {m \in Ids : nodeSessions'[m] # {}}
    BY <1>1, <1>2, <1>7, <1>8 DEF RegistryInv
  <1> QED BY <1>4, <1>9, <1>10, <1>11 DEF RegistryInv, SessionOf

\* The last session of a node takes it out of the list of its base, any other
\* leaves it there.
LEMMA LeaveKeepsInv ==
    ASSUME RegistryInv, NEW c \in Conns, Disconnect(c), conn[c].pc = "open"
    PROVE  RegistryInv'
  <1>0. PICK n : n = conn[c].id
    OBVIOUS
  <1>a. PICK left : left = {s \in nodeSessions[n] : s.conn # c}
    OBVIOUS
  <1>1. /\ conn' = [conn EXCEPT ![c] = Closed]
        /\ nodeSessions' = [nodeSessions EXCEPT ![n] = left]
        /\ kbNodes' = IF left # {} THEN kbNodes ELSE kbNodes \ {n}
    BY <1>0, <1>a DEF Disconnect
  <1>2. n \in Ids
    BY <1>0 DEF RegistryInv, ConnRec, Closed
  <1>3. conn' \in [Conns -> ConnRec] /\ conn'[c].pc = "closed" /\ \A d \in Conns \ {c} : conn'[d] = conn[d]
    BY <1>1 DEF RegistryInv, ConnRec, Closed
  <1>4. OpenOn(n)' = OpenOn(n) \ {c} /\ \A m \in Ids \ {n} : OpenOn(m)' = OpenOn(m)
    BY <1>0, <1>3 DEF OpenOn
  <1>5. left = {SessionOf(d) : d \in OpenOn(n) \ {c}}
    BY <1>a, <1>2 DEF RegistryInv, SessionOf
  <1>6. nodeSessions'[n] = left /\ \A m \in Ids \ {n} : nodeSessions'[m] = nodeSessions[m]
    BY <1>1, <1>2 DEF RegistryInv
  <1>7. \A m \in Ids : nodeSessions'[m] = {SessionOf(d) : d \in OpenOn(m)'}
    BY <1>2, <1>4, <1>5, <1>6 DEF RegistryInv
  <1>8. nodeSessions' \in [Ids -> SUBSET {SessionOf(d) : d \in Conns}]
    <2>1. left \in SUBSET {SessionOf(d) : d \in Conns}
      BY <1>5 DEF OpenOn
    <2> QED BY <1>1, <1>2, <2>1 DEF RegistryInv
  <1>9. n \in kbNodes
    <2>1. SessionOf(c) \in nodeSessions[n]
      BY <1>0, <1>2 DEF RegistryInv, OpenOn
    <2> QED BY <1>2, <2>1 DEF RegistryInv
  <1>10. kbNodes' = {m \in Ids : nodeSessions'[m] # {}}
    BY <1>1, <1>2, <1>6, <1>9 DEF RegistryInv
  <1> QED BY <1>3, <1>7, <1>8, <1>10 DEF RegistryInv, SessionOf

LEMMA RegistryStep ==
    ASSUME RegistryInv, [TreeNext]_treeVars
    PROVE  RegistryInv'
  <1>1. CASE \E o \in Ops : Asks(o) \/ Handle(o)
    BY <1>1, HandlersLeaveRegistry DEF RegistryInv, OpenOn, SessionOf
  <1>2. CASE \E c \in Conns : Session(c)
    <2>1. PICK c \in Conns : Session(c)
      BY <1>2
    <2>2. CASE Authenticate(c)
      <3>1. PICK n \in Ids : conn' = [conn EXCEPT ![c] = [pc |-> "loading", id |-> n]]
        BY <2>2 DEF Authenticate, Live
      <3>2. conn[c].pc # "open" /\ [pc |-> "loading", id |-> n] \in ConnRec /\ UNCHANGED <<nodeSessions, kbNodes>>
        BY <2>2 DEF Authenticate, Closed, ConnRec, registry
      <3> QED BY <3>1, <3>2, UnregisteredKeepsInv
    <2>3. CASE Load(c)
      <3>1. conn[c].pc = "loading" /\ conn[c] \in [pc : {"loading", "loaded", "open"}, id : Ids]
        BY <2>3 DEF Load, RegistryInv, ConnRec, Closed
      <3>2. PICK r \in {[conn[c] EXCEPT !.pc = "loaded"], Closed} : conn' = [conn EXCEPT ![c] = r]
        BY <2>3 DEF Load, RegistryInv
      <3>3. r \in ConnRec /\ r.pc # "open"
        BY <3>1, <3>2 DEF ConnRec, Closed
      <3> QED BY <2>3, <3>1, <3>2, <3>3, UnregisteredKeepsInv DEF Load, registry
    <2>4. CASE Register(c)
      BY <2>4, RegisterKeepsInv
    <2>5. CASE Disconnect(c) /\ conn[c].pc = "open"
      BY <2>5, LeaveKeepsInv
    <2>6. CASE Disconnect(c) /\ conn[c].pc # "open"
      <3>1. conn' = [conn EXCEPT ![c] = Closed] /\ UNCHANGED <<nodeSessions, kbNodes>>
        BY <2>6 DEF Disconnect, registry
      <3>2. Closed \in ConnRec /\ Closed.pc # "open"
        BY DEF ConnRec, Closed
      <3> QED BY <2>6, <3>1, <3>2, UnregisteredKeepsInv
    <2> QED BY <2>1, <2>2, <2>3, <2>4, <2>5, <2>6 DEF Session
  <1>3. CASE Restart
    <2>1. /\ nodeSessions' = [n \in Ids |-> {}] /\ kbNodes' = {} /\ conn' = [c \in Conns |-> Closed]
      BY <1>3 DEF Restart
    <2>2. \A n \in Ids : OpenOn(n)' = {}
      BY <2>1 DEF OpenOn, Closed
    <2> QED BY <2>1, <2>2 DEF RegistryInv, ConnRec
  <1>4. CASE UNCHANGED treeVars
    BY <1>4 DEF treeVars, registry, RegistryInv, OpenOn, SessionOf
  <1> QED BY <1>1, <1>2, <1>3, <1>4 DEF TreeNext

\* The two maps of EditingSessionRegistryService agree with the open connections
\* and with each other, however they open, load, break off and restart; the
\* guards of move and removal rest on it.
THEOREM RegistryAgrees == TreeSpec => []RegistryExact
  <1>1. TreeInit => RegistryInv
    <2> SUFFICES ASSUME TreeInit PROVE RegistryInv
      OBVIOUS
    <2>1. /\ nodeSessions = [n \in Ids |-> {}] /\ kbNodes = {} /\ conn = [c \in Conns |-> Closed]
      BY DEF TreeInit
    <2>2. \A n \in Ids : OpenOn(n) = {}
      BY <2>1 DEF OpenOn, Closed
    <2> QED BY <2>1, <2>2 DEF RegistryInv, ConnRec
  <1>2. RegistryInv /\ [TreeNext]_treeVars => RegistryInv'
    BY RegistryStep
  <1>3. RegistryInv => RegistryExact
    BY DEF RegistryInv, RegistryExact, Edited, HasSession, OpenOn, SessionOf
  <1> QED BY <1>1, <1>2, <1>3, PTL DEF TreeSpec

(***************************************************************************)
(* Subtrees.                                                               *)
(***************************************************************************)
LEMMA Roots == Root \notin Ids /\ Gone \notin Row
  BY TreeAssumption

LEMMA SubtreeHolds ==
    ASSUME NEW n \in Ids
    PROVE  n \in Subtree(n) /\ Subtree(n) \subseteq Ids /\ HoldsChildren(Subtree(n))
  <1>1. n \in Subtree(n) /\ Subtree(n) \subseteq Ids
    BY DEF Subtree
  <1>2. ASSUME NEW m \in Live \ Subtree(n), nodes[m].parent \in Subtree(n) PROVE FALSE
    <2>1. PICK S \in SUBSET Ids : n \in S /\ HoldsChildren(S) /\ m \notin S
      BY <1>2 DEF Subtree, Live
    <2>2. nodes[m].parent \in S
      BY <1>2, <2>1 DEF Subtree
    <2> QED
      BY <1>2, <2>1, <2>2 DEF HoldsChildren
  <1> QED
    BY <1>1, <1>2 DEF HoldsChildren

LEMMA SubtreeLeast ==
    ASSUME NEW n \in Ids, NEW S \in SUBSET Ids, n \in S, HoldsChildren(S)
    PROVE  Subtree(n) \subseteq S
  BY DEF Subtree

\* Whoever is under n is n or has its parent under n.
LEMMA SubtreeParent ==
    ASSUME NEW n \in Ids, NEW a \in Subtree(n), a # n
    PROVE  a \in Live /\ nodes[a].parent \in Subtree(n)
  <1>1. SUFFICES ASSUME ~ (a \in Live /\ nodes[a].parent \in Subtree(n)) PROVE FALSE
    OBVIOUS
  <1> DEFINE S == Subtree(n) \ {a}
  <1>2. S \in SUBSET Ids /\ n \in S
    BY SubtreeHolds
  <1>3. HoldsChildren(S)
    BY <1>1, SubtreeHolds DEF HoldsChildren
  <1>4. Subtree(n) \subseteq S
    BY <1>2, <1>3, SubtreeLeast
  <1> QED
    BY <1>4

\* In a forest, no parent is under its child.
LEMMA ParentOutside ==
    ASSUME TreeRooted, NEW n \in Live
    PROVE  nodes[n].parent \notin Subtree(n)
  <1>1. SUFFICES ASSUME nodes[n].parent \in Subtree(n) PROVE FALSE
    OBVIOUS
  <1>2. n \in Ids
    BY DEF Live
  <1> DEFINE S == Subtree(n) \cap Live
  <1>3. S \in (SUBSET Live) \ {{}}
    BY <1>2, SubtreeHolds
  <1>4. ASSUME NEW a \in S PROVE nodes[a].parent \in S
    <2>1. nodes[a].parent \in Subtree(n)
      BY <1>1, <1>2, SubtreeParent
    <2>2. nodes[a].parent \in Live \cup {Root}
      BY DEF TreeRooted
    <2> QED
      BY <1>2, <2>1, <2>2, SubtreeHolds, Roots
  <1>5. \A T \in (SUBSET Live) \ {{}} : \E b \in T : nodes[b].parent \notin T
    BY DEF TreeRooted
  <1> QED
    BY <1>3, <1>4, <1>5

LEMMA SubtreeOfChild ==
    ASSUME NEW n \in Ids, NEW m \in Children(n)
    PROVE  Subtree(m) \subseteq Subtree(n)
  BY SubtreeHolds, SubtreeLeast DEF Children, Live, HoldsChildren

LEMMA SubtreeOfLeaf ==
    ASSUME NEW n \in Ids, Children(n) = {}
    PROVE  Subtree(n) = {n}
  <1>1. HoldsChildren({n})
    BY DEF HoldsChildren, Children
  <1> QED
    BY <1>1, SubtreeHolds, SubtreeLeast

\* A removal takes nodes out of the subtrees and adds none.
LEMMA SubtreeShrinks ==
    ASSUME Live' \subseteq Live, \A m \in Live' : nodes'[m] = nodes[m], NEW n \in Ids
    PROVE  Subtree(n)' \subseteq Subtree(n)
  <1>1. \A S \in SUBSET Ids : HoldsChildren(S) => HoldsChildren(S)'
    BY DEF HoldsChildren
  <1> QED
    BY <1>1 DEF Subtree

(***************************************************************************)
(* What the handlers rely on between two awaits.                           *)
(***************************************************************************)
\* The calls that may be in flight together: of those that make nodes any, but a
\* PUT, and the removal it ends with when it fails, only with calls of MKCOL.
Together ==
    /\ Overlap \subseteq {{"create"}, {"mkcol"}, {"create", "mkcol"}, {"mkcol", "put"},
                          {"mkcol", "cleanup"}}
    /\ "cleanup" \notin Served
MayMeet(k, l) ==
    \/ k \in {"create", "mkcol"} /\ l \in {"create", "mkcol"}
    \/ k = "mkcol" /\ l \in {"put", "cleanup"}
    \/ l = "mkcol" /\ k \in {"put", "cleanup"}

WalkPc == {"walk", "dropdraft", "droprow"}
SavePc == {"draft", "stateread", "statewrite"}

\* A node that was made by a PUT has got no children meanwhile.
Leaf(n) == Children(n) = {} /\ (n \in Live => nodes[n].kind = "document")

Making(r) ==
    r.kind \in Makers =>
        /\ r.pc \in {"check", "snapshot", "insert"} \cup SavePc
        /\ r.pc \in SavePc => r.kind = "put" /\ r.id \in Live
        /\ r.pc = "statewrite" => r.copy = nodes[r.id]
        /\ r.pc = "insert" => kb /\ r.parent \in Live \cup {Root}
        /\ r.kind = "create" => kb
        /\ r.pc = "check" => r.kind = "create"
        /\ r.made = TRUE => r.pc \in SavePc /\ Leaf(r.id)
        /\ r.seen = {} /\ r.todo = {} /\ r.stack = <<>>

Changing(r) ==
    r.kind \in Updates =>
        /\ r.pc \in {"check", "snapshot", "find", "collect", "save"}
        /\ r.made = FALSE
        /\ r.id \in Live /\ r.parent \in Live \cup {Root}
        /\ r.kind \in {"rename", "patch"} => r.parent = nodes[r.id].parent
        /\ r.kind = "move" => r.name = nodes[r.id].name
        /\ (r.kind = "davmove" /\ r.pc = "snapshot") \/ r.parent \notin Subtree(r.id)
        /\ r.pc \in {"collect", "save"} => r.copy = nodes[r.id]

\* The children of a frame's node are those it still has to remove and the one
\* that the frame above it is about.
Framed(s) ==
    \A i \in 1..Len(s) :
        Children(s[i].id) \subseteq s[i].todo \cup (IF i = 1 THEN {} ELSE {s[i-1].id})

\* The removal of what a PUT has made.
Sweeping(r) ==
    /\ r.pc \in {"find", "collect", "stats", "statswrite"} \cup WalkPc
    /\ r.id \in used /\ Leaf(r.id)
    /\ r.seen \subseteq {r.id} /\ r.todo \subseteq {r.id}
    /\ \A i \in 1..Len(r.stack) : r.stack[i].id = r.id /\ r.stack[i].todo = {}

\* The removal of a base knows every top-level node that is left.
Tops == {n \in Live : nodes[n].parent = Root}
Dropping(r) ==
    /\ r.pc \notin {"check", "snapshot"}
    /\ r.pc \in {"kbroots", "find", "collect"} \cup WalkPc => content = {}
    /\ r.pc \in {"kbcontent", "kbroots"} => Tops \subseteq r.roots
    /\ r.pc \in {"find", "collect"} \cup WalkPc => Tops \subseteq r.roots \cup {r.id}

Removing(r) ==
    r.kind \in Removals =>
        /\ r.kind = "cleanup" \/ r.made = FALSE
        /\ r.pc \in {"check", "snapshot", "find", "collect"} \cup WalkPc => r.id \in Ids
        /\ r.pc \in {"kbfind", "kbnodes", "kbcontent", "kbroots"} => r.kind = "dropkb"
        /\ r.pc \in {"dropdraft", "droprow"} =>
              r.stack # <<>> /\ r.stack[1].todo = {} /\ r.stack[1].id \notin content
        /\ r.pc = "droprow" => r.stack[1].id \notin drafts
        /\ r.pc = "collect" \/ (r.seen = {} /\ r.todo = {})
        /\ r.pc \in WalkPc \/ r.stack = <<>>
        /\ Framed(r.stack)
        /\ r.stack # <<>> => r.stack[Len(r.stack)].id = r.id
        /\ r.pc \notin {"insert", "draft", "stateread", "statewrite", "save"}
        /\ r.kind = "cleanup" => Sweeping(r)
        /\ r.kind = "dropkb" => Dropping(r)

Sound(r) == Making(r) /\ Changing(r) /\ Removing(r)

\* Nothing is put under a node that a PUT has made and may still take away.
Sprouts(r) == r.kind = "cleanup" \/ r.made = TRUE
Apart ==
    \A o, q \in InFlight :
        o # q /\ Sprouts(op[o]) /\ op[q].pc = "insert" => op[q].parent # op[o].id
Company == \A o, q \in InFlight : o # q => MayMeet(op[o].kind, op[q].kind)

RowsOK ==
    /\ nodes \in [Ids -> Row \cup {Gone}]
    /\ used \in SUBSET Ids /\ drafts \in SUBSET Ids /\ content \in SUBSET Ids
    /\ kb \in BOOLEAN
OpOK == op \in [Ops -> {Idle} \cup Calling]

TreeInv ==
    /\ RowsOK /\ OpOK
    /\ TreeWhole /\ Live \subseteq used
    /\ Company /\ Apart
    /\ \A o \in InFlight : Sound(op[o])

LEMMA FrameAt ==
    ASSUME NEW s \in Seq(Frames), NEW i \in 1..Len(s)
    PROVE  s[i].id \in Ids /\ s[i].todo \in SUBSET Ids
  <1>1. s[i] \in Frames
    OBVIOUS
  <1> QED
    BY <1>1 DEF Frames

LEMMA HandlerRec ==
    ASSUME OpOK, NEW o \in Ops, op[o].kind # "idle"
    PROVE  op[o] \in Calling /\ o \in InFlight
  BY DEF OpOK, Idle, InFlight

LEMMA BecomesOne ==
    ASSUME OpOK, NEW o \in Ops, NEW r, r \in Calling \/ r = Idle, Becomes(o, r)
    PROVE  OpOK' /\ op'[o] = r /\ \A q \in Ops : q # o => op'[q] = op[q]
  BY DEF OpOK, Becomes

\* What a handler relies on stays true while others leave the rows alone.
LEMMA SoundStays ==
    ASSUME NEW r \in Calling, Sound(r), UNCHANGED <<nodes, used>>, kb => kb',
           content' \subseteq content, r.kind \in Removals => drafts' \subseteq drafts
    PROVE  Sound(r)'
  <1>1. /\ Live' = Live /\ Tops' = Tops
        /\ \A n \in Ids \cup {Root} : Children(n)' = Children(n)
        /\ \A n \in Ids : Subtree(n)' = Subtree(n) /\ Leaf(n)' = Leaf(n)
    BY DEF Live, Tops, Children, Leaf, Subtree, HoldsChildren
  <1>2. r.id \in Ids \cup {Root} /\ r.stack \in Seq(Frames)
    BY DEF Calling
  <1>3. Making(r)'
    BY <1>1, <1>2, Roots DEF Sound, Making, Live, Makers
  <1>4. Changing(r)'
    BY <1>1, <1>2 DEF Sound, Changing, Live
  <1>5. Framed(r.stack) => Framed(r.stack)'
    <2>1. \A i \in 1..Len(r.stack) : r.stack[i].id \in Ids
      BY <1>2, FrameAt
    <2> SUFFICES ASSUME Framed(r.stack), NEW i \in 1..Len(r.stack)
                 PROVE  Children(r.stack[i].id)' \subseteq
                          r.stack[i].todo \cup (IF i = 1 THEN {} ELSE {r.stack[i-1].id})
      BY DEF Framed
    <2> QED
      BY <1>1, <2>1 DEF Framed
  <1>6. Sweeping(r) => Sweeping(r)'
    BY <1>1, <1>2 DEF Sweeping, Leaf
  <1>7. Dropping(r) => Dropping(r)'
    BY <1>1 DEF Dropping
  <1>8. Removing(r)'
    BY <1>5, <1>6, <1>7 DEF Sound, Removing
  <1> QED
    BY <1>3, <1>4, <1>8 DEF Sound

LEMMA KindsApart ==
    /\ Makers \cap Updates = {} /\ Makers \cap Removals = {} /\ Updates \cap Removals = {}
    /\ "idle" \notin Handlers /\ Handlers = Makers \cup Updates \cup Removals
  BY DEF Makers, Updates, Removals, Handlers

\* A step of one handler that leaves the nodes alone: the others notice nothing,
\* and the handler itself has to fit where it goes on.
LEMMA QuietStep ==
    ASSUME TreeInv, NEW o \in Ops, op[o].kind # "idle", NEW r, Becomes(o, r),
           \/ r = Idle
           \/ /\ r \in Calling /\ Sound(r)'
              /\ r.kind = op[o].kind \/ (op[o].kind = "put" /\ r.kind = "cleanup")
              /\ Sprouts(r) => Sprouts(op[o]) /\ r.id = op[o].id
              /\ r.pc = "insert" =>
                    \A q \in InFlight : q # o /\ Sprouts(op[q]) => r.parent # op[q].id,
           UNCHANGED <<nodes, used>>, kb' \in BOOLEAN, kb => kb', content' \subseteq content,
           drafts' \subseteq drafts \cup Live, drafts' \subseteq drafts \/ op[o].kind = "put"
    PROVE  TreeInv'
  <1>1. /\ RowsOK /\ OpOK /\ TreeWhole /\ Company /\ Apart /\ Live \subseteq used
        /\ \A q \in InFlight : Sound(op[q])
    BY DEF TreeInv
  <1>2. OpOK' /\ op'[o] = r /\ \A q \in Ops : q # o => op'[q] = op[q]
    BY <1>1, BecomesOne
  <1>3. Live' = Live
    BY DEF Live
  <1>4. RowsOK' /\ (Live \subseteq used)'
    BY <1>1, <1>3 DEF RowsOK, Live
  <1>5. TreeWhole'
    BY <1>1, <1>3 DEF TreeWhole, TreeRooted, NothingOrphaned
  <1>6. o \in InFlight /\ \A q \in InFlight' : q \in InFlight /\ (q # o => op'[q] = op[q])
    BY <1>2 DEF InFlight, Idle
  <1>7. Company'
    BY <1>1, <1>2, <1>6 DEF Company, MayMeet, InFlight, Idle
  <1>8. Apart'
    BY <1>1, <1>2, <1>6 DEF Apart, Sprouts, InFlight, Idle
  <1>9. ASSUME NEW q \in InFlight' PROVE Sound(op[q])'
    <2>1. CASE q = o
      <3>1. r # Idle
        BY <1>2, <1>9, <2>1 DEF InFlight, Idle
      <3> QED
        BY <1>2, <2>1, <3>1
    <2>2. CASE q # o
      <3>1. q \in InFlight /\ op'[q] = op[q] /\ Sound(op[q]) /\ op[q] \in Calling
        BY <1>1, <1>6, <1>9, <2>2, HandlerRec DEF InFlight
      <3>2. op[q].kind \in Removals => drafts' \subseteq drafts
        BY <1>1, <1>6, <2>2, <3>1 DEF Company, MayMeet, Removals
      <3>3. PICK h \in Calling : h = op[q]
        BY <3>1
      <3>4. Sound(h)'
        BY <3>1, <3>2, <3>3, SoundStays
      <3> QED
        BY <3>1, <3>3, <3>4
    <2> QED
      BY <2>1, <2>2
  <1> QED
    BY <1>2, <1>4, <1>5, <1>7, <1>8, <1>9 DEF TreeInv

\* The call that fails, or ends, at any place.
LEMMA DoneStep ==
    ASSUME TreeInv, NEW o \in Ops, op[o].kind # "idle", Done(o), UNCHANGED <<rows>>
    PROVE  TreeInv'
  BY QuietStep DEF Done, rows, TreeInv, RowsOK

LEMMA FailsStep ==
    ASSUME TreeInv, NEW o \in Ops, op[o].kind # "idle", Fails(o), UNCHANGED <<rows>>
    PROVE  TreeInv'
  <1>1. CASE Done(o)
    BY <1>1, DoneStep
  <1>2. CASE op[o].kind = "put" /\ op[o].made = TRUE
    <2>0. PICK r : r = [op[o] EXCEPT !.kind = "cleanup", !.pc = "find"]
      OBVIOUS
    <2>1. op[o] \in Calling /\ Sound(op[o]) /\ RowsOK /\ (Live \subseteq used)
      BY HandlerRec DEF TreeInv
    <2>2. /\ r \in Calling /\ r.kind = "cleanup" /\ r.pc = "find" /\ r.id = op[o].id
          /\ r.made = TRUE /\ r.seen = op[o].seen /\ r.todo = op[o].todo
          /\ r.stack = op[o].stack
      <3>1. "cleanup" \in Handlers /\ "find" \in Stages
        BY DEF Handlers, Removals, Stages
      <3>2. r \in Calling
        BY <2>0, <2>1, <3>1 DEF Calling
      <3>3. r.kind = "cleanup" /\ r.pc = "find" /\ r.id = op[o].id /\ r.made = op[o].made
        BY <2>0, <2>1 DEF Calling
      <3>4. r.seen = op[o].seen /\ r.todo = op[o].todo /\ r.stack = op[o].stack
        BY <2>0, <2>1 DEF Calling
      <3> QED
        BY <1>2, <3>2, <3>3, <3>4
    <2>3. Becomes(o, r)
      BY <1>2, <2>0 DEF Fails
    <2>4. Making(op[o])
      BY <2>1 DEF Sound
    <2>5. /\ op[o].id \in Live /\ Leaf(op[o].id)
          /\ op[o].seen = {} /\ op[o].todo = {} /\ op[o].stack = <<>>
      BY <1>2, <2>4 DEF Making, Makers
    <2>6. r.id \in Live /\ r.id \in Ids /\ r.id \in used /\ Leaf(r.id)
      BY <2>1, <2>2, <2>5 DEF Live
    <2>7. Sweeping(r)
      BY <2>2, <2>5, <2>6 DEF Sweeping
    <2>8. Removing(r)
      BY <2>2, <2>5, <2>6, <2>7 DEF Removing, Framed, WalkPc
    <2>9. Making(r) /\ Changing(r)
      BY <2>2 DEF Making, Changing, Makers, Updates
    <2>10. Sound(r)'
      BY <2>2, <2>8, <2>9, SoundStays DEF Sound, rows
    <2> QED
      BY <1>2, <2>1, <2>2, <2>3, <2>10, QuietStep DEF rows, Sprouts, RowsOK
  <1> QED
    BY <1>1, <1>2 DEF Fails

\* What is known of a handler in flight.
LEMMA InHand ==
    ASSUME TreeInv, NEW o \in Ops, op[o].kind # "idle"
    PROVE  /\ op[o] \in Calling /\ Sound(op[o]) /\ o \in InFlight
           /\ RowsOK /\ TreeWhole /\ Live \subseteq used
  BY HandlerRec DEF TreeInv

\* Only calls that make nodes, and the removal a PUT ends with, have company.
LEMMA AloneKinds ==
    ASSUME TreeInv, NEW o \in InFlight,
           op[o].kind \in Updates \cup {"remove", "delete", "dropkb"}
    PROVE  InFlight = {o}
  <1>1. \A q \in InFlight : q # o => MayMeet(op[o].kind, op[q].kind)
    BY DEF TreeInv, Company
  <1> QED
    BY <1>1 DEF MayMeet, Updates

LEMMA SproutLeaf ==
    ASSUME TreeInv, NEW o \in InFlight, Sprouts(op[o])
    PROVE  Leaf(op[o].id)
  <1>1. op[o] \in Calling /\ Sound(op[o])
    BY HandlerRec DEF TreeInv, InFlight
  <1>2. op[o].kind \in Makers \cup Updates \cup Removals
    BY <1>1, KindsApart DEF Calling
  <1>3. CASE op[o].kind \in Makers
    BY <1>1, <1>3, KindsApart DEF Sound, Making, Sprouts, Removals
  <1>4. CASE op[o].kind \in Updates
    BY <1>1, <1>4, KindsApart DEF Sound, Changing, Sprouts, Removals
  <1>5. CASE op[o].kind \in Removals
    BY <1>1, <1>5 DEF Sound, Removing, Sweeping, Sprouts
  <1> QED
    BY <1>2, <1>3, <1>4, <1>5

LEMMA Moved ==
    ASSUME NEW h \in Calling, NEW pc \in Stages, NEW r, r = [h EXCEPT !.pc = pc]
    PROVE  /\ r \in Calling /\ r.pc = pc
           /\ r.kind = h.kind /\ r.id = h.id /\ r.parent = h.parent /\ r.name = h.name
           /\ r.made = h.made /\ r.copy = h.copy /\ r.seen = h.seen /\ r.todo = h.todo
           /\ r.stack = h.stack /\ r.roots = h.roots /\ r.held = h.held /\ r.alone = h.alone
  <1>1. r \in Calling /\ r.pc = pc
    BY DEF Calling
  <1>2. r.kind = h.kind /\ r.id = h.id /\ r.parent = h.parent /\ r.name = h.name
    BY DEF Calling
  <1>3. r.made = h.made /\ r.copy = h.copy /\ r.seen = h.seen /\ r.todo = h.todo
    BY DEF Calling
  <1>4. r.stack = h.stack /\ r.roots = h.roots /\ r.held = h.held /\ r.alone = h.alone
    BY DEF Calling
  <1> QED
    BY <1>1, <1>2, <1>3, <1>4

\* The handler h may go on at pc, with the same in hand.
FitsAt(h, pc) ==
    \A r \in Calling :
        /\ r.pc = pc
        /\ r.kind = h.kind /\ r.id = h.id /\ r.parent = h.parent /\ r.name = h.name
        /\ r.made = h.made /\ r.copy = h.copy /\ r.seen = h.seen /\ r.todo = h.todo
        /\ r.stack = h.stack /\ r.roots = h.roots
        => Sound(r)

LEMMA GotoStep ==
    ASSUME TreeInv, NEW o \in Ops, op[o].kind # "idle", NEW pc \in Stages, Goto(o, pc),
           UNCHANGED rows, FitsAt(op[o], pc),
           pc = "insert" =>
               \A q \in InFlight : q # o /\ Sprouts(op[q]) => op[o].parent # op[q].id
    PROVE  TreeInv'
  <1>1. PICK h \in Calling : h = op[o] /\ Sound(h)
    BY InHand
  <1>2. PICK r : r = [h EXCEPT !.pc = pc]
    OBVIOUS
  <1>3. /\ r \in Calling /\ r.pc = pc
        /\ r.kind = h.kind /\ r.id = h.id /\ r.parent = h.parent /\ r.name = h.name
        /\ r.made = h.made /\ r.copy = h.copy /\ r.seen = h.seen /\ r.todo = h.todo
        /\ r.stack = h.stack /\ r.roots = h.roots
    BY <1>2, Moved
  <1>4. Sound(r)
    BY <1>1, <1>3 DEF FitsAt
  <1>5. Sound(r)'
    BY <1>3, <1>4, SoundStays DEF rows
  <1>6. Becomes(o, r)
    BY <1>1, <1>2 DEF Goto
  <1>7. Sprouts(r) => Sprouts(op[o]) /\ r.id = op[o].id
    BY <1>1, <1>3 DEF Sprouts
  <1>8. RowsOK
    BY InHand
  <1> QED
    BY <1>1, <1>3, <1>5, <1>6, <1>7, <1>8, QuietStep DEF rows, RowsOK

(***************************************************************************)
(* The steps that leave the nodes alone.                                   *)
(***************************************************************************)
LEMMA CheckStep ==
    ASSUME TreeInv, NEW o \in Ops, Check(o)
    PROVE  TreeInv'
  <1> DEFINE pc == IF op[o].kind = "create" THEN "insert" ELSE "find"
  <1>1. op[o].kind # "idle" /\ op[o].pc = "check" /\ UNCHANGED rows
    BY DEF Check, At
  <1>2. CASE Done(o)
    BY <1>1, <1>2, DoneStep
  <1>3. CASE Goto(o, pc) /\ There(op[o].parent)
    <2>1. op[o] \in Calling /\ Sound(op[o]) /\ pc \in Stages /\ o \in InFlight
      BY <1>1, InHand DEF Stages
    <2>2. op[o].parent \in Live \cup {Root}
      BY <1>3, <2>1 DEF There, Live, Calling
    <2>3. FitsAt(op[o], pc)
      <3> SUFFICES ASSUME NEW h \in Calling, h = op[o], Sound(h), NEW r \in Calling, r.pc = pc,
                   r.kind = h.kind, r.id = h.id, r.parent = h.parent, r.name = h.name,
                   r.made = h.made, r.copy = h.copy, r.seen = h.seen, r.todo = h.todo,
                   r.stack = h.stack, r.roots = h.roots
                   PROVE  Sound(r)
        BY <2>1 DEF FitsAt
      <3>1. Making(r)
        BY <1>1, <2>2 DEF Sound, Making, SavePc
      <3>2. Changing(r)
        BY <1>1 DEF Sound, Changing, Updates
      <3>3. Removing(r)
        BY <1>1 DEF Sound, Removing, Sweeping, WalkPc, Removals, Dropping
      <3> QED
        BY <3>1, <3>2, <3>3 DEF Sound
    <2>4. pc = "insert" =>
             \A q \in InFlight : q # o /\ Sprouts(op[q]) => op[o].parent # op[q].id
      <3> SUFFICES ASSUME op[o].kind = "create", NEW q \in InFlight, q # o, Sprouts(op[q])
                   PROVE  FALSE
        OBVIOUS
      <3>1. op[q].kind \in {"create", "mkcol"} /\ op[q] \in Calling /\ Sound(op[q])
        BY <2>1, HandlerRec DEF TreeInv, Company, MayMeet, InFlight
      <3> QED
        BY <3>1 DEF Sprouts, Sound, Making, Makers, SavePc
    <2> HIDE DEF pc
    <2> QED
      BY <1>1, <1>3, <2>1, <2>3, <2>4, GotoStep
  <1> QED
    BY <1>2, <1>3 DEF Check

\* WebDAV's decisions on its snapshot.
LEMMA SnapshotStep ==
    ASSUME TreeInv, NEW o \in Ops, NEW pc \in {"insert", "find"},
           op[o].kind # "idle", op[o].pc = "snapshot", Goto(o, pc), UNCHANGED rows,
           pc = "insert" => /\ op[o].kind \in Makers /\ kb
                            /\ op[o].parent = Root \/ Folder(op[o].parent),
           pc = "find" => \/ op[o].kind = "delete"
                          \/ /\ op[o].kind = "davmove"
                             /\ op[o].parent \notin Subtree(op[o].id)
    PROVE  TreeInv'
  <1>1. op[o] \in Calling /\ Sound(op[o]) /\ pc \in Stages /\ o \in InFlight
    BY InHand DEF Stages
  <1>2. pc = "insert" => op[o].parent \in Live \cup {Root}
    BY DEF Folder
  <1>3. FitsAt(op[o], pc)
    <2> SUFFICES ASSUME NEW h \in Calling, h = op[o], Sound(h), NEW r \in Calling, r.pc = pc,
                 r.kind = h.kind, r.id = h.id, r.parent = h.parent, r.name = h.name,
                 r.made = h.made, r.copy = h.copy, r.seen = h.seen, r.todo = h.todo,
                 r.stack = h.stack, r.roots = h.roots
                 PROVE  Sound(r)
      BY <1>1 DEF FitsAt
    <2>1. Making(r)
      BY <1>2 DEF Sound, Making, SavePc, Makers
    <2>2. Changing(r)
      BY DEF Sound, Changing, Updates, Makers
    <2>3. Removing(r)
      BY DEF Sound, Removing, Sweeping, WalkPc, Removals, Makers
    <2> QED
      BY <2>1, <2>2, <2>3 DEF Sound
  <1>4. pc = "insert" =>
           \A q \in InFlight : q # o /\ Sprouts(op[q]) => op[o].parent # op[q].id
    <2> SUFFICES ASSUME pc = "insert", NEW q \in InFlight, Sprouts(op[q]),
                        op[o].parent = op[q].id
                 PROVE  FALSE
      OBVIOUS
    <2>1. Leaf(op[q].id) /\ op[q].id \in Live \cup {Root}
      BY <1>2, SproutLeaf
    <2>2. op[q].id # Root
      <3>1. op[q] \in Calling /\ Sound(op[q]) /\ used \subseteq Ids /\ Live \subseteq Ids
        BY HandlerRec DEF TreeInv, InFlight, RowsOK, Live
      <3>2. op[q].kind \in Makers \cup Updates \cup Removals
        BY <3>1, KindsApart DEF Calling
      <3>3. op[q].id \in used \cup Live
        BY <3>1, <3>2
           DEF Sprouts, Sound, Making, Changing, Removing, Sweeping, Removals, SavePc
      <3> QED
        BY <3>1, <3>3, Roots
    <2> QED
      BY <2>1, <2>2 DEF Folder, Leaf
  <1> QED
    BY <1>1, <1>3, <1>4, GotoStep

LEMMA DecideStep ==
    ASSUME TreeInv, NEW o \in Ops, Mkcol(o) \/ Delete(o) \/ Move(o)
    PROVE  TreeInv'
  <1>1. op[o].kind # "idle" /\ op[o].pc = "snapshot" /\ UNCHANGED rows
    BY DEF Mkcol, Delete, Move, At
  <1>2. CASE Done(o)
    BY <1>1, <1>2, DoneStep
  <1>3. CASE Mkcol(o) /\ ~ Done(o)
    BY <1>1, <1>3, SnapshotStep DEF Mkcol, MkcolAllowed, Makers
  <1>4. CASE Delete(o) /\ ~ Done(o)
    BY <1>1, <1>4, SnapshotStep DEF Delete
  <1>5. CASE Move(o) /\ ~ Done(o)
    BY <1>1, <1>5, SnapshotStep DEF Move, MoveAllowed
  <1> QED
    BY <1>2, <1>3, <1>4, <1>5

LEMMA PutStep ==
    ASSUME TreeInv, NEW o \in Ops, Put(o)
    PROVE  TreeInv'
  <1>1. op[o].kind = "put" /\ op[o].pc = "snapshot" /\ UNCHANGED rows
    <2>1. At(o, "snapshot") /\ op[o].kind = "put" /\ UNCHANGED <<rows, registry, conn, bounds>>
      BY Zenon DEF Put
    <2> QED
      BY <2>1 DEF At
  <1>2. CASE Done(o)
    BY <1>1, <1>2, DoneStep
  <1>3. CASE Goto(o, "insert") /\ kb /\ Folder(op[o].parent)
    BY <1>1, <1>3, SnapshotStep DEF Makers
  <1>4. ASSUME NEW n \in Live, Becomes(o, [op[o] EXCEPT !.pc = "draft", !.id = n])
        PROVE  TreeInv'
    <2>1. PICK h \in Calling : h = op[o] /\ Sound(h)
      BY <1>1, InHand
    <2>2. PICK r : r = [h EXCEPT !.pc = "draft", !.id = n]
      OBVIOUS
    <2>3. r \in Calling
      BY <2>1, <2>2 DEF Calling, Stages, Live
    <2>4. r.pc = "draft" /\ r.id = n /\ r.kind = "put" /\ r.made = h.made
      BY <1>1, <2>1, <2>2 DEF Calling
    <2>5. r.seen = h.seen /\ r.todo = h.todo /\ r.stack = h.stack
      BY <2>1, <2>2 DEF Calling
    <2>6. Sound(r) /\ r.made # TRUE
      BY <1>1, <2>1, <2>4, <2>5
         DEF Sound, Making, Changing, Removing, Makers, Updates, Removals, SavePc
    <2>7. Sound(r)' /\ Becomes(o, r) /\ ~ Sprouts(r) /\ kb \in BOOLEAN
      BY <1>1, <1>4, <2>1, <2>2, <2>3, <2>4, <2>6, SoundStays, InHand DEF rows, Sprouts, RowsOK
    <2> QED
      BY <1>1, <2>3, <2>4, <2>7, QuietStep DEF rows
  <1>5. CASE \E n \in Sibling(op[o].parent, op[o].name) :
                  \/ Becomes(o, [op[o] EXCEPT !.pc = "draft", !.id = n])
                  \/ Done(o)
    <2>1. Sibling(op[o].parent, op[o].name) \subseteq Live
      BY DEF Sibling
    <2> QED
      BY Zenon, <1>2, <1>4, <1>5, <2>1
  <1>6. CASE (kb /\ Folder(op[o].parent) /\ Goto(o, "insert")) \/ Done(o)
    BY <1>2, <1>3, <1>6
  <1> QED
    BY Zenon, <1>5, <1>6 DEF Put

\* The same handler goes on with something else in hand.
LEMMA GoesOnStep ==
    ASSUME TreeInv, NEW o \in Ops, op[o].kind # "idle", NEW r \in Calling, Becomes(o, r),
           Sound(r), r.kind = op[o].kind, r.made = op[o].made, r.id = op[o].id, r.pc # "insert",
           UNCHANGED rows
    PROVE  TreeInv'
  <1>1. Sound(r)' /\ RowsOK
    BY SoundStays, InHand DEF rows
  <1> QED
    BY <1>1, QuietStep DEF rows, Sprouts, RowsOK

LEMMA SaveDraftStep ==
    ASSUME TreeInv, NEW o \in Ops, SaveDraft(o)
    PROVE  TreeInv'
  <1>1. op[o].kind # "idle" /\ op[o].pc = "draft" /\ UNCHANGED <<nodes, used, content, kb>>
    BY DEF SaveDraft, At
  <1>2. PICK h \in Calling : h = op[o] /\ Sound(h)
    BY <1>1, InHand
  <1>3. h.kind = "put" /\ h.id \in Live
    BY <1>1, <1>2, KindsApart
       DEF Sound, Making, Changing, Removing, Calling, SavePc
  <1>4. drafts' = drafts \cup {h.id} /\ Goto(o, "stateread")
    BY <1>2, <1>3 DEF SaveDraft, Live
  <1>5. PICK r : r = [h EXCEPT !.pc = "stateread"]
    OBVIOUS
  <1>6. /\ r \in Calling /\ r.pc = "stateread" /\ r.kind = "put" /\ r.id = h.id
        /\ r.made = h.made /\ r.seen = h.seen /\ r.todo = h.todo /\ r.stack = h.stack
    BY <1>3, <1>5, Moved DEF Stages
  <1>7. Sound(r)
    BY <1>1, <1>2, <1>3, <1>6
       DEF Sound, Making, Changing, Removing, Makers, Updates, Removals, SavePc
  <1>8. Sound(r)' /\ Becomes(o, r) /\ RowsOK
    BY <1>1, <1>2, <1>3, <1>4, <1>5, <1>6, <1>7, SoundStays, InHand DEF Goto, Removals
  <1> QED
    BY <1>1, <1>2, <1>3, <1>4, <1>6, <1>8, QuietStep DEF RowsOK, Sprouts

LEMMA ReadRowStep ==
    ASSUME TreeInv, NEW o \in Ops, ReadRow(o)
    PROVE  TreeInv'
  <1>1. op[o].kind # "idle" /\ op[o].pc = "stateread" /\ UNCHANGED rows
    BY DEF ReadRow, At
  <1>2. PICK h \in Calling : h = op[o] /\ Sound(h)
    BY <1>1, InHand
  <1>3. h.kind = "put" /\ h.id \in Live
    BY <1>1, <1>2, KindsApart
       DEF Sound, Making, Changing, Removing, Calling, SavePc
  <1>4. PICK r : r = [h EXCEPT !.pc = "statewrite", !.copy = nodes[h.id]]
    OBVIOUS
  <1>5. Becomes(o, r)
    BY <1>2, <1>3, <1>4 DEF ReadRow, Live
  <1>6. nodes[h.id] \in Row
    BY <1>1, <1>3, InHand DEF RowsOK, Live
  <1>7. r \in Calling
    BY <1>4, <1>6 DEF Calling, Stages
  <1>8. /\ r.pc = "statewrite" /\ r.copy = nodes[h.id] /\ r.kind = "put" /\ r.id = h.id
        /\ r.made = h.made
    BY <1>3, <1>4 DEF Calling
  <1>9. r.seen = h.seen /\ r.todo = h.todo /\ r.stack = h.stack
    BY <1>4 DEF Calling
  <1>10. Sound(r)
    BY <1>1, <1>2, <1>3, <1>8, <1>9
       DEF Sound, Making, Changing, Removing, Makers, Updates, Removals, SavePc
  <1> QED
    BY <1>1, <1>2, <1>3, <1>5, <1>7, <1>8, <1>10, GoesOnStep

\* The row the handler writes is the one there is.
LEMMA WriteRowStep ==
    ASSUME TreeInv, NEW o \in Ops, WriteRow(o)
    PROVE  TreeInv'
  <1>1. op[o].kind # "idle" /\ op[o].pc = "statewrite" /\ Done(o)
    BY DEF WriteRow, At
  <1>2. PICK h \in Calling : h = op[o] /\ Sound(h)
    BY <1>1, InHand
  <1>3. h.copy = nodes[h.id] /\ h.id \in Ids
    BY <1>1, <1>2, KindsApart
       DEF Sound, Making, Changing, Removing, Calling, SavePc, Live
  <1>4. nodes' = [nodes EXCEPT ![h.id] = h.copy]
    BY <1>2 DEF WriteRow
  <1>5. nodes' = nodes
    BY <1>1, <1>3, <1>4, InHand DEF RowsOK
  <1> QED
    BY <1>1, <1>5, DoneStep DEF WriteRow, rows

LEMMA FindForUpdateStep ==
    ASSUME TreeInv, NEW o \in Ops, FindForUpdate(o)
    PROVE  TreeInv'
  <1>1. op[o].kind # "idle" /\ op[o].pc = "find" /\ op[o].kind \in Updates /\ UNCHANGED rows
    BY DEF FindForUpdate, At
  <1>2. CASE Done(o)
    BY <1>1, <1>2, DoneStep
  <1>3. ASSUME NEW pc \in {"collect", "save"},
               Becomes(o, [op[o] EXCEPT !.copy = nodes[op[o].id], !.todo = {op[o].id}, !.pc = pc])
        PROVE  TreeInv'
    <2>1. PICK h \in Calling : h = op[o] /\ Sound(h)
      BY <1>1, InHand
    <2>2. h.id \in Live /\ h.id \in Ids
      BY <1>1, <2>1 DEF Sound, Changing, Live
    <2>3. PICK r : r = [h EXCEPT !.copy = nodes[h.id], !.todo = {h.id}, !.pc = pc]
      OBVIOUS
    <2>4. nodes[h.id] \in Row
      BY <1>1, <2>2, InHand DEF RowsOK, Live
    <2>5. r \in Calling
      BY <2>2, <2>3, <2>4 DEF Calling, Stages
    <2>6. r.pc = pc /\ r.copy = nodes[h.id] /\ r.kind = h.kind /\ r.id = h.id
      BY <2>3 DEF Calling
    <2>7. r.made = h.made /\ r.parent = h.parent /\ r.name = h.name
      BY <2>3 DEF Calling
    <2>8. Changing(r)
      BY <1>1, <2>1, <2>2, <2>6, <2>7 DEF Sound, Changing
    <2>9. Making(r) /\ Removing(r)
      BY <1>1, <2>1, <2>6, KindsApart DEF Making, Removing
    <2>10. Sound(r) /\ Becomes(o, r)
      BY <1>3, <2>1, <2>3, <2>8, <2>9 DEF Sound
    <2> QED
      BY <1>1, <2>1, <2>5, <2>6, <2>7, <2>10, GoesOnStep
  <1> QED
    BY <1>2, <1>3 DEF FindForUpdate

LEMMA CollectStep ==
    ASSUME TreeInv, NEW o \in Ops, Collect(o)
    PROVE  TreeInv'
  <1>1. op[o].kind # "idle" /\ op[o].pc = "collect" /\ UNCHANGED rows
    BY DEF Collect, At
  <1>2. CASE Fails(o)
    BY <1>1, <1>2, FailsStep
  <1>3. PICK h \in Calling : h = op[o] /\ Sound(h)
    BY <1>1, InHand
  <1>4. h.kind \in Updates \cup Removals
    BY <1>1, <1>3, KindsApart DEF Sound, Making, Calling, SavePc
  <1>5. ASSUME NEW n \in h.todo, NEW seen, seen = h.seen \cup {n},
               NEW todo, todo = (h.todo \ {n}) \cup Children(n),
               Becomes(o, [op[o] EXCEPT !.seen = seen, !.todo = todo])
        PROVE  TreeInv'
    <2>1. PICK r : r = [h EXCEPT !.seen = seen, !.todo = todo]
      OBVIOUS
    <2>a. seen \in SUBSET Ids /\ todo \in SUBSET Ids
      BY <1>5 DEF Calling, Children, Live
    <2>2. r \in Calling
      BY <2>1, <2>a DEF Calling
    <2>3. r.seen = seen /\ r.todo = todo /\ r.pc = "collect" /\ r.kind = h.kind /\ r.id = h.id
      BY <1>1, <1>3, <2>1 DEF Calling
    <2>4. r.made = h.made /\ r.parent = h.parent /\ r.name = h.name /\ r.copy = h.copy
      BY <2>1 DEF Calling
    <2>5. r.stack = h.stack /\ r.roots = h.roots
      BY <2>1 DEF Calling
    <2>6. Changing(r) /\ Making(r)
      BY <1>1, <1>3, <1>4, <2>3, <2>4, KindsApart DEF Sound, Changing, Making
    <2>7. Sweeping(h) => Sweeping(r)
      BY <1>1, <1>3, <1>5, <2>3, <2>5 DEF Sweeping, Leaf
    <2>8. Dropping(h) => Dropping(r)
      BY <1>1, <1>3, <2>3, <2>5 DEF Dropping
    <2>9. Removing(r)
      BY <1>1, <1>3, <2>3, <2>4, <2>5, <2>7, <2>8 DEF Sound, Removing
    <2>10. Sound(r) /\ Becomes(o, r)
      BY <1>3, <1>5, <2>1, <2>6, <2>9 DEF Sound
    <2> QED
      BY <1>1, <1>3, <2>2, <2>3, <2>4, <2>10, GoesOnStep
  <1>6. ASSUME Becomes(o, [op[o] EXCEPT !.pc = AfterCollect(o), !.seen = {}, !.todo = {}])
        PROVE  TreeInv'
    <2>1. PICK r : r = [h EXCEPT !.pc = AfterCollect(o), !.seen = {}, !.todo = {}]
      OBVIOUS
    <2>2. AfterCollect(o) = (IF h.kind \in Updates THEN "save" ELSE "walk")
      BY <1>3 DEF AfterCollect
    <2>3. r \in Calling
      BY <2>1, <2>2 DEF Calling, Stages
    <2>4. r.seen = {} /\ r.todo = {} /\ r.pc = (IF h.kind \in Updates THEN "save" ELSE "walk")
      BY <2>1, <2>2 DEF Calling
    <2>5. r.kind = h.kind /\ r.id = h.id /\ r.made = h.made /\ r.parent = h.parent
      BY <2>1 DEF Calling
    <2>6. r.name = h.name /\ r.copy = h.copy /\ r.stack = h.stack /\ r.roots = h.roots
      BY <2>1 DEF Calling
    <2>7. Changing(r) /\ Making(r)
      BY <1>1, <1>3, <1>4, <2>4, <2>5, <2>6, KindsApart DEF Sound, Changing, Making
    <2>8. h.kind \in Removals => r.pc = "walk"
      BY <2>4, KindsApart
    <2>9. h.kind \in Removals /\ Sweeping(h) => Sweeping(r)
      BY <1>1, <1>3, <2>4, <2>5, <2>6, <2>8 DEF Sweeping, WalkPc
    <2>10. h.kind \in Removals /\ Dropping(h) => Dropping(r)
      BY <1>1, <1>3, <2>5, <2>6, <2>8 DEF Dropping, WalkPc
    <2>11. Removing(r)
      BY <1>1, <1>3, <2>4, <2>5, <2>6, <2>8, <2>9, <2>10 DEF Sound, Removing, WalkPc
    <2>12. Sound(r) /\ Becomes(o, r)
      BY <1>3, <1>6, <2>1, <2>7, <2>11 DEF Sound
    <2> QED
      BY <1>1, <1>3, <2>3, <2>4, <2>5, <2>12, GoesOnStep
  <1> QED
    BY Zenon, <1>2, <1>3, <1>5, <1>6 DEF Collect

LEMMA FindForRemoveStep ==
    ASSUME TreeInv, NEW o \in Ops, FindForRemove(o)
    PROVE  TreeInv'
  <1>1. op[o].kind # "idle" /\ op[o].pc = "find" /\ op[o].kind \in Removals /\ UNCHANGED rows
    BY DEF FindForRemove, At
  <1>2. CASE Done(o)
    BY <1>1, <1>2, DoneStep
  <1>3. CASE Becomes(o, [op[o] EXCEPT !.pc = "collect", !.todo = {op[o].id}])
    <2>1. PICK h \in Calling : h = op[o] /\ Sound(h)
      BY <1>1, InHand
    <2>2. PICK r : r = [h EXCEPT !.pc = "collect", !.todo = {h.id}]
      OBVIOUS
    <2>3. h.id \in Ids
      BY <1>1, <2>1 DEF Sound, Removing
    <2>4. r \in Calling
      BY <2>2, <2>3 DEF Calling, Stages
    <2>5. r.pc = "collect" /\ r.todo = {h.id} /\ r.seen = h.seen /\ r.kind = h.kind /\ r.id = h.id
      BY <2>2 DEF Calling
    <2>6. r.made = h.made /\ r.stack = h.stack /\ r.roots = h.roots
      BY <2>2 DEF Calling
    <2>7. Changing(r) /\ Making(r)
      BY <1>1, <2>1, <2>5, KindsApart DEF Changing, Making
    <2>8. Sweeping(h) => Sweeping(r)
      BY <2>5, <2>6 DEF Sweeping
    <2>9. Dropping(h) => Dropping(r)
      BY <1>1, <2>1, <2>5, <2>6 DEF Dropping
    <2>10. Removing(r)
      BY <1>1, <2>1, <2>3, <2>5, <2>6, <2>8, <2>9 DEF Sound, Removing, WalkPc
    <2>11. Sound(r) /\ Becomes(o, r)
      BY <1>3, <2>1, <2>2, <2>7, <2>10 DEF Sound
    <2> QED
      BY <1>1, <2>1, <2>4, <2>5, <2>6, <2>11, GoesOnStep
  <1> QED
    BY <1>2, <1>3 DEF FindForRemove

LEMMA Prepend ==
    ASSUME NEW u \in Seq(Frames), NEW f \in Frames, NEW t, t = <<f>> \o u
    PROVE  /\ t \in Seq(Frames) /\ t # <<>> /\ Len(t) = Len(u) + 1
           /\ t[1] = f /\ \A i \in 2..Len(t) : t[i] = u[i-1]
  OBVIOUS

\* The call of removeNode for one of the children of the frame on top.
LEMMA PushFrame ==
    ASSUME NEW s \in Seq(Frames), s # <<>>, NEW f \in Frames, NEW g \in Frames, NEW t,
           t = <<f>> \o (<<g>> \o Tail(s))
    PROVE  /\ t \in Seq(Frames) /\ t # <<>> /\ Len(t) = Len(s) + 1
           /\ t[1] = f /\ t[2] = g /\ \A i \in 3..Len(t) : t[i] = s[i-1]
  <1>1. PICK u : u = <<g>> \o Tail(s)
    OBVIOUS
  <1>2. Tail(s) \in Seq(Frames) /\ Len(Tail(s)) = Len(s) - 1 /\ Len(s) \in Nat /\ Len(s) > 0
        /\ \A i \in 1..Len(s)-1 : Tail(s)[i] = s[i+1]
    OBVIOUS
  <1>3. u \in Seq(Frames) /\ Len(u) = Len(s) /\ u[1] = g /\ \A i \in 2..Len(u) : u[i] = s[i]
    <2>1. /\ u \in Seq(Frames) /\ Len(u) = Len(Tail(s)) + 1
          /\ u[1] = g /\ \A i \in 2..Len(u) : u[i] = Tail(s)[i-1]
      BY <1>1, <1>2, Prepend
    <2> QED
      BY <1>2, <2>1
  <1>4. /\ t \in Seq(Frames) /\ t # <<>> /\ Len(t) = Len(u) + 1
        /\ t[1] = f /\ \A i \in 2..Len(t) : t[i] = u[i-1]
    BY <1>1, <1>3, Prepend
  <1> QED
    BY <1>2, <1>3, <1>4

LEMMA EnterStep ==
    ASSUME TreeInv, NEW o \in Ops, Enter(o)
    PROVE  TreeInv'
  <1>1. op[o].kind # "idle" /\ op[o].pc = "walk" /\ UNCHANGED rows
    BY DEF Enter, At
  <1>2. CASE Done(o)
    BY <1>1, <1>2, DoneStep
  <1>3. PICK h \in Calling : h = op[o] /\ Sound(h)
    BY <1>1, InHand
  <1>4. h.kind \in Removals
    BY <1>1, <1>3, KindsApart DEF Sound, Making, Changing, Calling, SavePc
  <1>5. h.id \in Ids /\ Framed(h.stack) /\ (h.stack # <<>> => h.stack[Len(h.stack)].id = h.id)
    BY <1>1, <1>3, <1>4 DEF Sound, Removing, WalkPc
  <1>6. ASSUME NEW t \in Seq(Frames), Framed(t), t # <<>>, t[Len(t)].id = h.id,
               h.kind = "cleanup" => \A i \in 1..Len(t) : t[i].id = h.id /\ t[i].todo = {},
               Becomes(o, [op[o] EXCEPT !.stack = t])
        PROVE  TreeInv'
    <2>1. PICK r : r = [h EXCEPT !.stack = t]
      OBVIOUS
    <2>2. r \in Calling /\ r.stack = t
      BY <1>6, <2>1 DEF Calling
    <2>3. r.pc = "walk" /\ r.kind = h.kind /\ r.id = h.id /\ r.made = h.made
      BY <1>1, <1>3, <2>1 DEF Calling
    <2>4. r.seen = h.seen /\ r.todo = h.todo /\ r.roots = h.roots
      BY <2>1 DEF Calling
    <2>5. Changing(r) /\ Making(r)
      BY <1>4, <2>3, KindsApart DEF Changing, Making
    <2>6. h.kind = "cleanup" /\ Sweeping(h) => Sweeping(r)
      BY <1>1, <1>3, <1>6, <2>2, <2>3, <2>4 DEF Sweeping
    <2>7. Dropping(h) => Dropping(r)
      BY <1>1, <1>3, <2>3, <2>4 DEF Dropping
    <2>8. Removing(r)
      BY <1>1, <1>3, <1>4, <1>6, <2>2, <2>3, <2>4, <2>6, <2>7 DEF Sound, Removing, WalkPc
    <2>9. Sound(r) /\ Becomes(o, r)
      BY <1>3, <1>6, <2>1, <2>5, <2>8 DEF Sound
    <2> QED
      BY <1>1, <1>3, <2>2, <2>3, <2>9, GoesOnStep
  <1>7. CASE h.stack = <<>> /\ Descend(o, h.id, <<>>) /\ ~ Done(o)
    <2>1. PICK t : t = <<[id |-> h.id, todo |-> Children(h.id)]>> \o <<>>
      OBVIOUS
    <2>2. Becomes(o, [op[o] EXCEPT !.stack = t])
      BY <1>7, <2>1 DEF Descend
    <2>3. PICK f : f = [id |-> h.id, todo |-> Children(h.id)]
      OBVIOUS
    <2>4. f \in Frames /\ f.id = h.id /\ f.todo = Children(h.id)
      BY <1>5, <2>3 DEF Frames, Children, Live
    <2>5. t \in Seq(Frames) /\ Len(t) = 1 /\ t[1] = f /\ t # <<>>
      BY <2>1, <2>3, <2>4
    <2>6. Framed(t)
      BY <2>4, <2>5 DEF Framed
    <2>7. h.kind = "cleanup" => Children(h.id) = {}
      BY <1>3, <1>4 DEF Sound, Removing, Sweeping, Leaf
    <2> QED
      BY <1>6, <2>2, <2>4, <2>5, <2>6, <2>7
  <1>8. ASSUME h.stack # <<>>, NEW n \in Head(h.stack).todo, ~ Done(o),
               Descend(o, n, <<[Head(h.stack) EXCEPT !.todo = @ \ {n}]>> \o Tail(h.stack))
        PROVE  TreeInv'
    <2>1. PICK s : s = h.stack
      OBVIOUS
    <2>2. s \in Seq(Frames) /\ s # <<>>
      BY <1>8, <2>1 DEF Calling
    <2>3. Head(s) = s[1] /\ 1 \in 1..Len(s) /\ Len(s) \in Nat
      BY <2>2
    <2>4. n \in s[1].todo /\ n \in Ids /\ Children(n) \in SUBSET Ids
      BY <1>8, <2>1, <2>2, <2>3, FrameAt DEF Children, Live
    <2>c. PICK f : f = [id |-> n, todo |-> Children(n)]
      OBVIOUS
    <2>d. PICK g : g = [Head(s) EXCEPT !.todo = @ \ {n}]
      OBVIOUS
    <2>e. f \in Frames /\ f.id = n /\ f.todo = Children(n)
      BY <2>4, <2>c DEF Frames
    <2>f. g \in Frames /\ g.id = s[1].id /\ g.todo = s[1].todo \ {n}
      <3>1. s[1] \in Frames
        BY <2>2, <2>3
      <3>2. g = [s[1] EXCEPT !.todo = @ \ {n}]
        BY <2>3, <2>d
      <3> QED
        BY <3>1, <3>2 DEF Frames
    <2>5. PICK t : t = <<f>> \o (<<g>> \o Tail(s))
      OBVIOUS
    <2>6. Becomes(o, [op[o] EXCEPT !.stack = t])
      BY <1>8, <2>1, <2>5, <2>c, <2>d DEF Descend
    <2>7. /\ t \in Seq(Frames) /\ t # <<>> /\ Len(t) = Len(s) + 1
          /\ t[1].id = n /\ t[1].todo = Children(n)
          /\ t[2].id = s[1].id /\ t[2].todo = s[1].todo \ {n}
          /\ \A i \in 3..Len(t) : t[i] = s[i-1]
      BY <2>2, <2>5, <2>e, <2>f, PushFrame
    <2>8. \A i \in 1..Len(s) :
              Children(s[i].id) \subseteq s[i].todo \cup (IF i = 1 THEN {} ELSE {s[i-1].id})
      BY <1>5, <2>1 DEF Framed
    <2>9. Framed(t)
      <3> SUFFICES ASSUME NEW i \in 1..Len(t)
                   PROVE  Children(t[i].id) \subseteq
                            t[i].todo \cup (IF i = 1 THEN {} ELSE {t[i-1].id})
        BY DEF Framed
      <3>1. CASE i = 1
        BY <2>7, <3>1
      <3>2. CASE i = 2
        <4>1. Children(s[1].id) \subseteq s[1].todo
          BY <2>3, <2>8
        <4> QED
          BY <2>7, <3>2, <4>1
      <3>3. CASE i = 3
        <4>1. t[3] = s[2] /\ t[2].id = s[1].id /\ 2 \in 1..Len(s)
          BY <2>3, <2>7, <3>3
        <4>2. Children(s[2].id) \subseteq s[2].todo \cup {s[1].id}
          BY <2>8, <4>1
        <4> QED
          BY <3>3, <4>1, <4>2
      <3>4. CASE i > 3
        <4>1. t[i] = s[i-1] /\ t[i-1] = s[i-2] /\ i-1 \in 1..Len(s) /\ i-1 # 1
          BY <2>3, <2>7, <3>4
        <4>2. Children(s[i-1].id) \subseteq s[i-1].todo \cup {s[i-2].id}
          BY <2>3, <2>8, <3>4, <4>1
        <4> QED
          BY <3>4, <4>1, <4>2
      <3> QED
        BY <2>3, <2>7, <3>1, <3>2, <3>3, <3>4
    <2>10. t[Len(t)].id = h.id
      <3>1. s[Len(s)].id = h.id
        BY <1>5, <1>8, <2>1
      <3> QED
        BY <2>3, <2>7, <3>1
    <2>11. h.kind # "cleanup"
      BY <1>3, <1>4, <2>1, <2>3, <2>4 DEF Sound, Removing, Sweeping
    <2> QED
      BY <1>6, <2>6, <2>7, <2>9, <2>10, <2>11
  <1>9. Top(o) = Head(h.stack)
    BY <1>3 DEF Top
  <1> QED
    BY Zenon, <1>2, <1>3, <1>7, <1>8, <1>9 DEF Enter

\* What removeNode does before it takes the row.
LEMMA RemoveContentStep ==
    ASSUME TreeInv, NEW o \in Ops, RemoveContent(o)
    PROVE  TreeInv'
  <1>1. /\ op[o].kind # "idle" /\ op[o].pc = "walk" /\ op[o].stack # <<>> /\ Top(o).todo = {}
        /\ Goto(o, "dropdraft") /\ UNCHANGED <<nodes, used, drafts, kb>>
        /\ content' = IF op[o].kind = "dropkb" THEN content ELSE content \ {Top(o).id}
    BY DEF RemoveContent, At
  <1>2. PICK h \in Calling : h = op[o] /\ Sound(h)
    BY <1>1, InHand
  <1>3. h.kind \in Removals
    BY <1>1, <1>2, KindsApart DEF Sound, Making, Changing, Calling, SavePc
  <1>4. PICK r : r = [h EXCEPT !.pc = "dropdraft"]
    OBVIOUS
  <1>5. /\ r \in Calling /\ r.pc = "dropdraft" /\ r.kind = h.kind /\ r.id = h.id
        /\ r.made = h.made /\ r.seen = h.seen /\ r.todo = h.todo /\ r.stack = h.stack
        /\ r.roots = h.roots
    BY <1>4, Moved DEF Stages
  <1>6. Top(o) = h.stack[1]
    BY <1>1, <1>2 DEF Top, Calling
  <1>7. h.kind = "dropkb" => content = {}
    BY <1>1, <1>2, <1>3 DEF Sound, Removing, Dropping, WalkPc
  <1>8. content' \subseteq content /\ h.stack[1].id \notin content'
    BY <1>1, <1>2, <1>6, <1>7
  <1>9. Sound(h)'
    BY <1>1, <1>2, <1>8, SoundStays
  <1>10. Making(r)' /\ Changing(r)'
    BY <1>3, <1>5, KindsApart DEF Making, Changing
  <1>11. Sweeping(h)' => Sweeping(r)'
    BY <1>1, <1>2, <1>5 DEF Sweeping, WalkPc
  <1>12. Dropping(h)' => Dropping(r)'
    BY <1>1, <1>2, <1>5 DEF Dropping, WalkPc
  <1>13. Removing(r)'
    BY <1>1, <1>2, <1>3, <1>5, <1>6, <1>8, <1>9, <1>11, <1>12 DEF Sound, Removing, WalkPc
  <1>14. Sound(r)' /\ Becomes(o, r) /\ kb \in BOOLEAN
    BY <1>1, <1>2, <1>4, <1>10, <1>13, InHand DEF Sound, Goto, RowsOK
  <1> QED
    BY <1>1, <1>2, <1>5, <1>8, <1>14, QuietStep DEF Sprouts

LEMMA RemoveDraftStep ==
    ASSUME TreeInv, NEW o \in Ops, RemoveDraft(o)
    PROVE  TreeInv'
  <1>1. /\ op[o].kind # "idle" /\ op[o].pc = "dropdraft"
        /\ Goto(o, "droprow") /\ UNCHANGED <<nodes, used, content, kb>>
        /\ drafts' = drafts \ {Top(o).id}
    BY DEF RemoveDraft, At
  <1>2. PICK h \in Calling : h = op[o] /\ Sound(h)
    BY <1>1, InHand
  <1>3. h.kind \in Removals
    BY <1>1, <1>2, KindsApart DEF Sound, Making, Changing, Calling, SavePc
  <1>4. PICK r : r = [h EXCEPT !.pc = "droprow"]
    OBVIOUS
  <1>5. /\ r \in Calling /\ r.pc = "droprow" /\ r.kind = h.kind /\ r.id = h.id
        /\ r.made = h.made /\ r.seen = h.seen /\ r.todo = h.todo /\ r.stack = h.stack
        /\ r.roots = h.roots
    BY <1>4, Moved DEF Stages
  <1>6. h.stack # <<>>
    BY <1>1, <1>2, <1>3 DEF Sound, Removing
  <1>7. Top(o) = h.stack[1]
    BY <1>2, <1>6 DEF Top, Calling
  <1>8. drafts' \subseteq drafts /\ h.stack[1].id \notin drafts'
    BY <1>1, <1>7
  <1>9. Sound(h)'
    BY <1>1, <1>2, <1>8, SoundStays
  <1>10. Making(r)' /\ Changing(r)'
    BY <1>3, <1>5, KindsApart DEF Making, Changing
  <1>11. Sweeping(h)' => Sweeping(r)'
    BY <1>1, <1>2, <1>5 DEF Sweeping, WalkPc
  <1>12. Dropping(h)' => Dropping(r)'
    BY <1>1, <1>2, <1>5 DEF Dropping, WalkPc
  <1>13. Removing(r)'
    BY <1>1, <1>2, <1>3, <1>5, <1>8, <1>9, <1>11, <1>12 DEF Sound, Removing, WalkPc
  <1>14. Sound(r)' /\ Becomes(o, r) /\ kb \in BOOLEAN
    BY <1>1, <1>2, <1>4, <1>10, <1>13, InHand DEF Sound, Goto, RowsOK
  <1> QED
    BY <1>1, <1>2, <1>5, <1>8, <1>14, QuietStep DEF Sprouts

\* The statistics of the base afterwards, and the removal of a base before it
\* comes to its nodes.
LEMMA StatsStep ==
    ASSUME TreeInv, NEW o \in Ops, ReadBase(o) \/ FindBase(o)
    PROVE  TreeInv'
  <1>1. /\ op[o].kind # "idle" /\ UNCHANGED rows
        /\ \/ op[o].pc = "stats" /\ (Goto(o, "statswrite") \/ Done(o))
           \/ op[o].pc = "kbfind" /\ (Goto(o, "kbnodes") \/ Done(o))
    BY DEF ReadBase, FindBase, At
  <1>2. CASE Done(o)
    BY <1>1, <1>2, DoneStep
  <1>3. ASSUME NEW pc \in {"statswrite", "kbnodes"}, Goto(o, pc),
               pc = "statswrite" => op[o].pc = "stats", pc = "kbnodes" => op[o].pc = "kbfind"
        PROVE  TreeInv'
    <2>1. op[o] \in Calling /\ Sound(op[o]) /\ pc \in Stages
      BY <1>1, InHand DEF Stages
    <2>2. FitsAt(op[o], pc)
      <3> SUFFICES ASSUME NEW h \in Calling, h = op[o], Sound(h), NEW r \in Calling, r.pc = pc,
                   r.kind = h.kind, r.id = h.id, r.parent = h.parent, r.name = h.name,
                   r.made = h.made, r.copy = h.copy, r.seen = h.seen, r.todo = h.todo,
                   r.stack = h.stack, r.roots = h.roots
                   PROVE  Sound(r)
        BY <2>1 DEF FitsAt
      <3>1. h.kind \in Removals
        BY <1>3, KindsApart DEF Sound, Making, Changing, Calling, SavePc
      <3>2. Making(r) /\ Changing(r)
        BY <3>1, KindsApart DEF Making, Changing
      <3>3. Removing(r)
        BY <1>3, <3>1 DEF Sound, Removing, Sweeping, WalkPc, Dropping
      <3> QED
        BY <3>2, <3>3 DEF Sound
    <2> QED
      BY <1>1, <1>3, <2>1, <2>2, GotoStep
  <1> QED
    BY <1>1, <1>2, <1>3

LEMMA SaveBaseStep ==
    ASSUME TreeInv, NEW o \in Ops, SaveBase(o)
    PROVE  TreeInv'
  <1>1. /\ op[o].kind # "idle" /\ Becomes(o, Idle)
        /\ UNCHANGED <<nodes, used, drafts, content>> /\ kb' = TRUE
    BY DEF SaveBase, At, Done
  <1> QED
    BY <1>1, QuietStep

LEMMA ReadNodesStep ==
    ASSUME TreeInv, NEW o \in Ops, ReadNodes(o)
    PROVE  TreeInv'
  <1>1. op[o].kind # "idle" /\ op[o].pc = "kbnodes" /\ UNCHANGED rows
    BY DEF ReadNodes, At
  <1>2. PICK h \in Calling : h = op[o] /\ Sound(h)
    BY <1>1, InHand
  <1>3. h.kind \in Removals
    BY <1>1, <1>2, KindsApart DEF Sound, Making, Changing, Calling, SavePc
  <1>4. PICK roots : roots = {n \in Live : nodes[n].parent \notin Live}
    OBVIOUS
  <1>5. PICK r : r = [h EXCEPT !.pc = "kbcontent", !.roots = roots]
    OBVIOUS
  <1>6. roots \in SUBSET Ids /\ Tops \subseteq roots
    BY <1>4, Roots DEF Live, Tops
  <1>7. r \in Calling
    BY <1>5, <1>6 DEF Calling, Stages
  <1>8. r.pc = "kbcontent" /\ r.roots = roots /\ r.kind = h.kind /\ r.id = h.id
    BY <1>5 DEF Calling
  <1>9. r.made = h.made /\ r.seen = h.seen /\ r.todo = h.todo /\ r.stack = h.stack
    BY <1>5 DEF Calling
  <1>10. Making(r) /\ Changing(r)
    BY <1>3, <1>8, KindsApart DEF Making, Changing
  <1>11. Removing(r)
    BY <1>1, <1>2, <1>3, <1>6, <1>8, <1>9 DEF Sound, Removing, Sweeping, Dropping, WalkPc
  <1>12. Sound(r) /\ Becomes(o, r)
    BY <1>2, <1>4, <1>5, <1>10, <1>11 DEF Sound, ReadNodes
  <1> QED
    BY <1>1, <1>2, <1>7, <1>8, <1>9, <1>12, GoesOnStep

LEMMA RemoveBaseContentStep ==
    ASSUME TreeInv, NEW o \in Ops, RemoveBaseContent(o)
    PROVE  TreeInv'
  <1>1. /\ op[o].kind # "idle" /\ op[o].pc = "kbcontent" /\ Goto(o, "kbroots")
        /\ UNCHANGED <<nodes, used, drafts, kb>> /\ content' = {}
    BY DEF RemoveBaseContent, At
  <1>2. PICK h \in Calling : h = op[o] /\ Sound(h)
    BY <1>1, InHand
  <1>3. h.kind \in Removals
    BY <1>1, <1>2, KindsApart DEF Sound, Making, Changing, Calling, SavePc
  <1>4. PICK r : r = [h EXCEPT !.pc = "kbroots"]
    OBVIOUS
  <1>5. /\ r \in Calling /\ r.pc = "kbroots" /\ r.kind = h.kind /\ r.id = h.id
        /\ r.made = h.made /\ r.seen = h.seen /\ r.todo = h.todo /\ r.stack = h.stack
        /\ r.roots = h.roots
    BY <1>4, Moved DEF Stages
  <1>6. Sound(h)'
    BY <1>1, <1>2, SoundStays
  <1>7. Making(r)' /\ Changing(r)'
    BY <1>3, <1>5, KindsApart DEF Making, Changing
  <1>8. Dropping(h)' => Dropping(r)'
    BY <1>1, <1>2, <1>5 DEF Dropping, WalkPc
  <1>9. Removing(r)'
    BY <1>1, <1>2, <1>3, <1>5, <1>6, <1>8 DEF Sound, Removing, Sweeping, WalkPc
  <1>10. Sound(r)' /\ Becomes(o, r) /\ kb \in BOOLEAN
    BY <1>1, <1>2, <1>4, <1>7, <1>9, InHand DEF Sound, Goto, RowsOK
  <1> QED
    BY <1>1, <1>2, <1>5, <1>10, QuietStep DEF Sprouts

LEMMA NextRootStep ==
    ASSUME TreeInv, NEW o \in Ops, NextRoot(o)
    PROVE  TreeInv'
  <1>1. op[o].kind # "idle" /\ op[o].pc = "kbroots" /\ UNCHANGED rows
    BY DEF NextRoot, At
  <1>2. PICK h \in Calling : h = op[o] /\ Sound(h)
    BY <1>1, InHand
  <1>3. h.kind = "dropkb" /\ h.kind \in Removals
    BY <1>1, <1>2, KindsApart DEF Sound, Making, Changing, Removing, Calling, SavePc
  <1>4. PICK n \in op[o].roots :
            Becomes(o, [op[o] EXCEPT !.pc = "find", !.id = n, !.roots = @ \ {n}])
    BY Zenon DEF NextRoot
  <1>5. PICK r : r = [h EXCEPT !.pc = "find", !.id = n, !.roots = @ \ {n}]
    OBVIOUS
  <1>6. n \in Ids
    BY <1>2, <1>4 DEF Calling
  <1>7. r \in Calling
    BY <1>5, <1>6 DEF Calling, Stages
  <1>8. r.pc = "find" /\ r.id = n /\ r.roots = h.roots \ {n} /\ r.kind = h.kind
    BY <1>5 DEF Calling
  <1>9. r.made = h.made /\ r.seen = h.seen /\ r.todo = h.todo /\ r.stack = h.stack
    BY <1>5 DEF Calling
  <1>10. Making(r) /\ Changing(r)
    BY <1>3, <1>8, KindsApart DEF Making, Changing
  <1>11. Removing(r) /\ r.made = FALSE
    BY <1>1, <1>2, <1>3, <1>4, <1>6, <1>8, <1>9 DEF Sound, Removing, Dropping, WalkPc
  <1>12. Sound(r)' /\ kb \in BOOLEAN
    BY <1>1, <1>7, <1>10, <1>11, SoundStays, InHand DEF Sound, rows, RowsOK
  <1> QED
    BY <1>1, <1>2, <1>3, <1>4, <1>5, <1>7, <1>8, <1>11, <1>12, QuietStep DEF Sprouts, rows

(***************************************************************************)
(* The steps that write the nodes.                                         *)
(***************************************************************************)
\* A node is added under one that no PUT may take away.
LEMMA RowAdded ==
    ASSUME TreeInv, NEW o \in InFlight, op[o].kind \in Makers, op[o].pc = "insert",
           NEW n \in Ids \ used, NEW row \in Row, row.parent = op[o].parent,
           nodes' = [nodes EXCEPT ![n] = row], used' = used \cup {n},
           UNCHANGED <<drafts, content, kb>>
    PROVE  /\ RowsOK' /\ TreeWhole' /\ (Live \subseteq used)'
           /\ n \in Live' /\ (row.kind = "document" => Leaf(n)')
           /\ \A q \in InFlight, h \in Calling : q # o /\ h = op[q] => Sound(h)'
  <1>1. /\ RowsOK /\ TreeRooted /\ NothingOrphaned /\ Live \subseteq used /\ Apart /\ Company
        /\ op[o] \in Calling /\ Sound(op[o])
    BY HandlerRec DEF TreeInv, TreeWhole, InFlight
  <1>2. kb /\ row.parent \in Live \cup {Root} /\ n \notin Live /\ n # Root
    BY <1>1, Roots DEF Sound, Making
  <1>3. /\ Live' = Live \cup {n} /\ nodes'[n] = row
        /\ \A m \in Ids : m # n => nodes'[m] = nodes[m]
    BY <1>1, Roots DEF RowsOK, Live
  <1>4. RowsOK' /\ (Live \subseteq used)'
    BY <1>1, <1>3 DEF RowsOK
  <1>5. TreeRooted'
    <2>1. \A m \in Live' : nodes'[m].parent \in Live' \cup {Root}
      BY <1>1, <1>2, <1>3 DEF TreeRooted, Live
    <2>2. ASSUME NEW S \in (SUBSET Live') \ {{}} PROVE \E m \in S : nodes'[m].parent \notin S
      <3>1. CASE S = {n}
        BY <1>2, <1>3, <3>1
      <3>2. CASE S # {n}
        <4>1. S \ {n} \in (SUBSET Live) \ {{}}
          BY <1>3, <3>2
        <4>2. PICK m \in S \ {n} : nodes[m].parent \notin S \ {n}
          BY <1>1, <4>1 DEF TreeRooted
        <4>3. m \in Live /\ nodes[m].parent # n /\ nodes'[m] = nodes[m]
          BY <1>1, <1>2, <1>3, <4>1 DEF TreeRooted, Live
        <4> QED
          BY <4>2, <4>3
      <3> QED
        BY <3>1, <3>2
    <2> QED
      BY <1>2, <2>1, <2>2 DEF TreeRooted
  <1>6. NothingOrphaned'
    BY <1>1, <1>3 DEF NothingOrphaned
  <1>7. ASSUME NEW m \in Ids, m # row.parent PROVE Children(m)' = Children(m)
    BY <1>2, <1>3, <1>7 DEF Children, Live
  <1>8. row.kind = "document" => Leaf(n)'
    <2>1. Children(n) = {}
      BY <1>1, <1>2 DEF Children, TreeRooted
    <2> QED
      BY <1>2, <1>3, <1>7, <2>1 DEF Leaf
  <1>9. ASSUME NEW q \in InFlight, NEW h \in Calling, q # o, h = op[q] PROVE Sound(h)'
    <2>1. h = op[q] /\ Sound(h)
      BY <1>9 DEF TreeInv
    <2>2. h.kind \in Makers \/ h.kind = "cleanup"
      BY <1>1, <1>9, <2>1 DEF Company, MayMeet, Makers
    <2>3. Sprouts(h) => h.id # row.parent
      BY <1>1, <1>9, <2>1 DEF Apart
    <2>4. h.id \in Ids /\ h.id # n /\ Leaf(h.id) /\ h.id # row.parent => Leaf(h.id)'
      BY <1>3, <1>7 DEF Leaf
    <2>5. Making(h)'
      BY <1>1, <1>2, <1>3, <2>1, <2>3, <2>4 DEF Sound, Making, Sprouts, Live
    <2>6. Changing(h)'
      BY <2>2, KindsApart DEF Changing, Updates
    <2>7. CASE h.kind \in Makers
      BY <2>1, <2>5, <2>6, <2>7, KindsApart DEF Sound, Removing
    <2>8. CASE h.kind = "cleanup"
      <3>1. Removing(h) /\ Sweeping(h) /\ h.id \in Ids /\ h.id # n
        BY <1>1, <2>1, <2>8 DEF Sound, Removing, Sweeping, Removals, RowsOK
      <3>2. Leaf(h.id)'
        BY <2>3, <2>4, <2>8, <3>1 DEF Sprouts, Sweeping
      <3>3. Sweeping(h)'
        BY <3>1, <3>2 DEF Sweeping
      <3>4. Framed(h.stack)'
        BY <3>1, <3>2 DEF Framed, Sweeping, Leaf
      <3>5. Removing(h)'
        BY <2>8, <3>1, <3>3, <3>4 DEF Removing
      <3> QED
        BY <2>5, <2>6, <3>5 DEF Sound
    <2> QED
      BY <2>2, <2>7, <2>8
  <1> QED
    BY <1>3, <1>4, <1>5, <1>6, <1>8, <1>9 DEF TreeWhole

LEMMA InsertStep ==
    ASSUME TreeInv, NEW o \in Ops, Insert(o)
    PROVE  TreeInv'
  <1>1. op[o].kind # "idle" /\ op[o].pc = "insert" /\ UNCHANGED <<drafts, content, kb>>
    BY DEF Insert, At
  <1>2. PICK h \in Calling : h = op[o] /\ Sound(h)
    BY <1>1, InHand
  <1>3. h.kind \in Makers
    BY <1>1, <1>2, KindsApart DEF Sound, Changing, Removing, Calling
  <1>4. PICK n \in Ids \ used, kind \in Kinds :
            /\ h.kind = "put" => kind = "document"
            /\ nodes' = [nodes EXCEPT ![n] = [parent |-> h.parent, name |-> h.name, kind |-> kind]]
            /\ used' = used \cup {n}
            /\ IF h.kind = "put"
               THEN Becomes(o, [op[o] EXCEPT !.pc = "draft", !.id = n, !.made = TRUE])
               ELSE Done(o)
    BY <1>2, Zenon DEF Insert
  <1>5. PICK row : row = [parent |-> h.parent, name |-> h.name, kind |-> kind]
    OBVIOUS
  <1>6. row \in Row /\ row.parent = h.parent /\ row.kind = kind
    BY <1>5 DEF Row, Calling
  <1>7. o \in InFlight
    BY <1>1, InHand
  <1>8. /\ RowsOK' /\ TreeWhole' /\ (Live \subseteq used)'
        /\ n \in Live' /\ (row.kind = "document" => Leaf(n)')
        /\ \A q \in InFlight, g \in Calling : q # o /\ g = op[q] => Sound(g)'
    BY <1>1, <1>2, <1>3, <1>4, <1>5, <1>6, <1>7, RowAdded
  <1>9. ASSUME NEW r, Becomes(o, r), r = Idle \/ (r \in Calling /\ Sound(r)' /\ r.kind = h.kind
                 /\ r.id = n /\ r.pc = "draft")
        PROVE  TreeInv'
    <2>1. OpOK' /\ op'[o] = r /\ \A q \in Ops : q # o => op'[q] = op[q]
      BY <1>9, BecomesOne DEF TreeInv
    <2>2. \A q \in InFlight' : q \in InFlight /\ (q # o => op'[q] = op[q])
      BY <1>7, <2>1 DEF InFlight
    <2>3. Company'
      BY <1>2, <1>7, <1>9, <2>1, <2>2 DEF TreeInv, Company, MayMeet, InFlight, Idle
    <2>4. ASSUME NEW q \in InFlight, q # o, op[q].pc = "insert" PROVE op[q].parent # n
      <3>1. op[q] \in Calling /\ Sound(op[q])
        BY HandlerRec DEF TreeInv, InFlight
      <3>2. op[q].kind \in Makers
        BY <2>4, <3>1, KindsApart DEF Sound, Changing, Removing, Calling
      <3>3. op[q].parent \in Live \cup {Root}
        BY <2>4, <3>1, <3>2 DEF Sound, Making
      <3> QED
        BY <3>3, Roots DEF TreeInv
    <2>5. Apart'
      BY <1>9, <2>1, <2>2, <2>4 DEF TreeInv, Apart, Sprouts, InFlight, Idle
    <2>6. ASSUME NEW q \in InFlight' PROVE Sound(op[q])'
      <3>1. CASE q = o
        BY <1>9, <2>1, <2>6, <3>1 DEF InFlight, Idle
      <3>2. CASE q # o
        <4>1. PICK g \in Calling : g = op[q]
          BY <2>2, <2>6, HandlerRec DEF TreeInv, InFlight
        <4>2. Sound(g)' /\ op'[q] = g
          BY <1>8, <2>2, <2>6, <3>2, <4>1
        <4> QED
          BY <4>2
      <3> QED
        BY <3>1, <3>2
    <2> QED
      BY <1>8, <2>1, <2>3, <2>5, <2>6 DEF TreeInv
  <1>10. CASE Done(o)
    BY <1>9, <1>10 DEF Done
  <1>11. CASE h.kind = "put" /\ Becomes(o, [op[o] EXCEPT !.pc = "draft", !.id = n, !.made = TRUE])
    <2>1. PICK r : r = [h EXCEPT !.pc = "draft", !.id = n, !.made = TRUE]
      OBVIOUS
    <2>2. r \in Calling
      BY <2>1 DEF Calling, Stages
    <2>3. r.pc = "draft" /\ r.id = n /\ r.made = TRUE /\ r.kind = h.kind
      BY <2>1 DEF Calling
    <2>4. r.seen = h.seen /\ r.todo = h.todo /\ r.stack = h.stack
      BY <2>1 DEF Calling
    <2>5. h.seen = {} /\ h.todo = {} /\ h.stack = <<>>
      BY <1>2, <1>3 DEF Sound, Making
    <2>6. Making(r)'
      BY <1>4, <1>6, <1>8, <1>11, <2>3, <2>4, <2>5 DEF Making, SavePc
    <2>7. Sound(r)'
      BY <1>3, <2>3, <2>6, KindsApart DEF Sound, Changing, Removing
    <2> QED
      BY <1>2, <1>9, <1>11, <2>1, <2>2, <2>3, <2>7
  <1> QED
    BY <1>4, <1>10, <1>11

\* The last step of a call that has no company.
LEMMA LastStep ==
    ASSUME TreeInv, NEW o \in Ops, InFlight = {o}, Done(o),
           RowsOK', TreeWhole', (Live \subseteq used)'
    PROVE  TreeInv'
  <1>1. OpOK' /\ op'[o] = Idle /\ \A q \in Ops : q # o => op'[q] = op[q]
    BY BecomesOne DEF TreeInv, Done
  <1>2. InFlight' = {}
    BY <1>1 DEF InFlight, Idle
  <1> QED
    BY <1>1, <1>2 DEF TreeInv, Company, Apart

\* A node is put under another one that is not under it.
LEMMA SaveStep ==
    ASSUME TreeInv, NEW o \in Ops, Save(o)
    PROVE  TreeInv'
  <1>1. op[o].kind # "idle" /\ op[o].pc = "save" /\ Done(o) /\ UNCHANGED <<used, drafts, content, kb>>
    BY DEF Save, At
  <1>2. PICK h \in Calling : h = op[o] /\ Sound(h)
    BY <1>1, InHand
  <1>3. h.kind \in Updates
    BY <1>1, <1>2, KindsApart DEF Sound, Making, Removing, Calling, SavePc
  <1>4. /\ h.id \in Live /\ h.id \in Ids /\ h.parent \in Live \cup {Root}
        /\ h.parent \notin Subtree(h.id) /\ h.copy = nodes[h.id]
    BY <1>1, <1>2, <1>3 DEF Sound, Changing, Live
  <1>5. /\ RowsOK /\ TreeRooted /\ NothingOrphaned /\ Live \subseteq used /\ InFlight = {o}
    BY <1>1, <1>2, <1>3, InHand, AloneKinds DEF TreeWhole
  <1>6. PICK row : row = [h.copy EXCEPT !.parent = h.parent, !.name = h.name]
    OBVIOUS
  <1>7. nodes[h.id] \in Row
    BY <1>4, <1>5 DEF RowsOK, Live
  <1>8. row \in Row /\ row.parent = h.parent
    BY <1>4, <1>6, <1>7 DEF Row, Calling
  <1>9. nodes' = [nodes EXCEPT ![h.id] = row]
    BY <1>2, <1>6 DEF Save
  <1>10. /\ nodes'[h.id] = row /\ Live' = Live
         /\ \A m \in Ids : m # h.id => nodes'[m] = nodes[m]
    BY <1>4, <1>5, <1>8, <1>9, Roots DEF RowsOK, Live
  <1>11. RowsOK' /\ (Live \subseteq used)' /\ NothingOrphaned'
    BY <1>1, <1>5, <1>8, <1>9, <1>10 DEF RowsOK, NothingOrphaned
  <1>12. ASSUME NEW S \in (SUBSET Live) \ {{}} PROVE \E m \in S : nodes'[m].parent \notin S
    <2>1. CASE h.id \notin S
      <3>1. PICK m \in S : nodes[m].parent \notin S
        BY <1>5 DEF TreeRooted
      <3> QED
        BY <1>10, <2>1, <3>1 DEF Live
    <2>2. CASE h.id \in S /\ h.parent \notin S
      BY <1>8, <1>10, <2>2
    <2>3. CASE h.id \in S /\ h.parent \in S
      <3>1. S \ Subtree(h.id) \in (SUBSET Live) \ {{}}
        BY <1>4, <2>3
      <3>2. PICK m \in S \ Subtree(h.id) : nodes[m].parent \notin S \ Subtree(h.id)
        BY <1>5, <3>1 DEF TreeRooted
      <3>3. nodes[m].parent \notin Subtree(h.id)
        BY <1>4, <3>2, SubtreeHolds DEF HoldsChildren
      <3>4. m # h.id /\ m \in Ids
        BY <1>4, <3>2, SubtreeHolds DEF Live
      <3> QED
        BY <1>10, <3>2, <3>3, <3>4
    <2> QED
      BY <2>1, <2>2, <2>3
  <1>13. \A m \in Live : nodes'[m].parent \in Live \cup {Root}
    BY <1>4, <1>5, <1>8, <1>10 DEF TreeRooted, Live
  <1>14. TreeWhole'
    BY <1>1, <1>5, <1>10, <1>11, <1>12, <1>13 DEF TreeWhole, TreeRooted
  <1> QED
    BY <1>1, <1>5, <1>11, <1>14, LastStep

\* When the top-level nodes are gone, so are all.
LEMMA RemoveBaseStep ==
    ASSUME TreeInv, NEW o \in Ops, RemoveBase(o)
    PROVE  TreeInv'
  <1>1. /\ op[o].kind # "idle" /\ op[o].pc = "kbroots" /\ Done(o) /\ op[o].roots = {}
        /\ kb' = FALSE /\ UNCHANGED <<nodes, used, drafts, content>>
    BY DEF RemoveBase, At
  <1>2. PICK h \in Calling : h = op[o] /\ Sound(h)
    BY <1>1, InHand
  <1>3. h.kind = "dropkb"
    BY <1>1, <1>2, KindsApart DEF Sound, Making, Changing, Removing, Calling, SavePc
  <1>4. Tops = {}
    BY <1>1, <1>2, <1>3 DEF Sound, Removing, Dropping, Removals
  <1>5. RowsOK /\ TreeRooted /\ NothingOrphaned /\ Live \subseteq used /\ InFlight = {o}
    BY <1>1, <1>2, <1>3, InHand, AloneKinds DEF TreeWhole
  <1>6. Live = {}
    <2>1. SUFFICES ASSUME Live # {} PROVE FALSE
      OBVIOUS
    <2>2. PICK n \in Live : nodes[n].parent \notin Live
      BY <1>5, <2>1 DEF TreeRooted
    <2>3. n \in Tops
      BY <1>5, <2>2 DEF TreeRooted, Tops
    <2> QED
      BY <1>4, <2>3
  <1>7. Live' = {} /\ RowsOK' /\ TreeWhole' /\ (Live \subseteq used)'
    BY <1>1, <1>5, <1>6 DEF Live, RowsOK, TreeWhole, TreeRooted, NothingOrphaned
  <1> QED
    BY <1>1, <1>5, <1>7, LastStep

\* The node on top has got no children when its row goes.
LEMMA RowGone ==
    ASSUME RowsOK, TreeWhole, Live \subseteq used, NEW t \in Ids, Children(t) = {},
           t \notin content, t \notin drafts,
           nodes' = [nodes EXCEPT ![t] = Gone], UNCHANGED <<used, drafts, content, kb>>
    PROVE  /\ RowsOK' /\ TreeWhole' /\ (Live \subseteq used)'
           /\ Live' = Live \ {t}
           /\ \A m \in Ids : Children(m)' = Children(m) \ {t}
           /\ \A m \in Ids : Leaf(m) => Leaf(m)'
           /\ Tops' = Tops \ {t}
  <1>1. Live' = Live \ {t} /\ \A m \in Ids : m # t => nodes'[m] = nodes[m]
    BY DEF RowsOK, Live
  <1>2. \A m \in Ids : Children(m)' = Children(m) \ {t}
    BY <1>1 DEF Children, Live
  <1>3. Tops' = Tops \ {t}
    BY <1>1 DEF Tops, Live
  <1>4. \A m \in Ids : Leaf(m) => Leaf(m)'
    BY <1>1, <1>2 DEF Leaf
  <1>5. RowsOK' /\ (Live \subseteq used)' /\ NothingOrphaned'
    BY <1>1 DEF RowsOK, NothingOrphaned, TreeWhole
  <1>6. TreeRooted'
    <2>1. \A m \in Live' : nodes'[m].parent \in Live' \cup {Root}
      BY <1>1 DEF TreeWhole, TreeRooted, Children, Live
    <2>2. ASSUME NEW S \in (SUBSET Live') \ {{}} PROVE \E m \in S : nodes'[m].parent \notin S
      <3>1. PICK m \in S : nodes[m].parent \notin S
        BY <1>1 DEF TreeWhole, TreeRooted
      <3> QED
        BY <1>1, <3>1 DEF Live
    <2> QED
      BY <1>1, <2>1, <2>2 DEF TreeWhole, TreeRooted
  <1> QED
    BY <1>1, <1>2, <1>3, <1>4, <1>5, <1>6 DEF TreeWhole

LEMMA RemoveRowStep ==
    ASSUME TreeInv, NEW o \in Ops, RemoveRow(o)
    PROVE  TreeInv'
  <1>1. /\ op[o].kind # "idle" /\ op[o].pc = "droprow" /\ UNCHANGED <<used, drafts, content, kb>>
    BY DEF RemoveRow, At
  <1>2. PICK h \in Calling : h = op[o] /\ Sound(h)
    BY <1>1, InHand
  <1>3. h.kind \in Removals
    BY <1>1, <1>2, KindsApart DEF Sound, Making, Changing, Calling, SavePc
  <1>4. Removing(h) /\ RowsOK /\ TreeWhole /\ Live \subseteq used /\ o \in InFlight
    BY <1>1, <1>2, InHand DEF Sound
  <1>5. PICK s \in Seq(Frames) : s = h.stack
    BY DEF Calling
  <1>6. PICK t : t = s[1].id
    OBVIOUS
  <1>7. /\ s # <<>> /\ s[1].todo = {} /\ t \notin content /\ t \notin drafts
        /\ h.id \in Ids /\ h.seen = {} /\ h.todo = {}
        /\ s[Len(s)].id = h.id /\ Framed(s)
    BY <1>1, <1>2, <1>3, <1>4, <1>5, <1>6 DEF Removing, WalkPc
  <1>8. Len(s) \in Nat /\ Len(s) >= 1 /\ s[1] \in Frames /\ Head(s) = s[1]
    BY <1>7
  <1>9. Top(o) = s[1] /\ t \in Ids
    BY <1>2, <1>5, <1>6, <1>8, FrameAt DEF Top
  <1>10. \A i \in 1..Len(s) :
            Children(s[i].id) \subseteq s[i].todo \cup (IF i = 1 THEN {} ELSE {s[i-1].id})
    BY <1>7 DEF Framed
  <1>11. Children(t) = {}
    BY <1>6, <1>7, <1>8, <1>10
  <1>12. nodes' = [nodes EXCEPT ![t] = Gone]
    BY <1>6, <1>9 DEF RemoveRow
  <1>13. /\ RowsOK' /\ TreeWhole' /\ (Live \subseteq used)'
         /\ Live' = Live \ {t}
         /\ \A m \in Ids : Children(m)' = Children(m) \ {t}
         /\ \A m \in Ids : Leaf(m) => Leaf(m)'
         /\ Tops' = Tops \ {t}
    BY <1>1, <1>4, <1>7, <1>9, <1>11, <1>12, RowGone
  <1>a. s # <<>>
    BY <1>7
  <1>b. Tail(s) \in Seq(Frames)
    BY <1>a
  <1>14. PICK below \in Seq(Frames) : below = Tail(s)
    BY <1>b
  <1>15. Len(below) = Len(s) - 1 /\ \A i \in 1..Len(below) : below[i] = s[i+1]
    BY <1>a, <1>14
  <1>16. PICK pc : pc = IF below # <<>> THEN "walk"
                        ELSE IF h.kind = "dropkb" THEN "kbroots" ELSE "stats"
    OBVIOUS
  <1>17. PICK r : r = [h EXCEPT !.stack = below, !.pc = pc]
    OBVIOUS
  <1>18. Becomes(o, r)
    BY <1>2, <1>5, <1>14, <1>16, <1>17 DEF RemoveRow, Return
  <1>19. r \in Calling
    <2>1. pc \in Stages
      BY <1>16 DEF Stages
    <2> QED
      BY <1>17, <2>1 DEF Calling
  <1>20. r.stack = below /\ r.pc = pc /\ r.kind = h.kind /\ r.id = h.id /\ r.made = h.made
    BY <1>17 DEF Calling
  <1>21. r.seen = {} /\ r.todo = {} /\ r.roots = h.roots
    BY <1>7, <1>17 DEF Calling
  <1>22. Framed(below)'
    <2> SUFFICES ASSUME NEW i \in 1..Len(below)
                 PROVE  Children(below[i].id)' \subseteq
                          below[i].todo \cup (IF i = 1 THEN {} ELSE {below[i-1].id})
      BY DEF Framed
    <2>1. below[i] = s[i+1] /\ i+1 \in 1..Len(s) /\ i+1 # 1
      BY <1>8, <1>15
    <2>2. s[i+1].id \in Ids
      BY <2>1, FrameAt
    <2>3. Children(s[i+1].id) \subseteq s[i+1].todo \cup {s[i].id}
      BY <1>10, <2>1
    <2>4. CASE i = 1
      BY <1>6, <1>13, <2>1, <2>2, <2>3, <2>4
    <2>5. CASE i # 1
      <3>1. below[i-1] = s[i]
        BY <1>15, <2>5
      <3> QED
        BY <1>13, <2>1, <2>2, <2>3, <2>5, <3>1
    <2> QED
      BY <2>4, <2>5
  <1>23. below # <<>> => below[Len(below)].id = h.id
    <2> SUFFICES ASSUME below # <<>> PROVE below[Len(below)].id = h.id
      OBVIOUS
    <2>1. Len(below) \in 1..Len(below) /\ Len(below) + 1 = Len(s)
      BY <1>8, <1>15
    <2> QED
      BY <1>7, <1>15, <2>1
  <1>24. below = <<>> => t = h.id
    <2>1. below = <<>> => Len(s) = 1
      BY <1>8, <1>15
    <2> QED
      BY <1>6, <1>7, <2>1
  <1>25. h.kind = "cleanup" => Sweeping(r)'
    <2> SUFFICES ASSUME h.kind = "cleanup" PROVE Sweeping(r)'
      OBVIOUS
    <2>1. Sweeping(h)
      BY <1>4 DEF Removing, Removals
    <2>2. h.id \in used' /\ Leaf(h.id)'
      BY <1>1, <1>7, <1>13, <2>1 DEF Sweeping
    <2>3. \A i \in 1..Len(below) : below[i].id = h.id /\ below[i].todo = {}
      <3> TAKE i \in 1..Len(below)
      <3>1. i+1 \in 1..Len(s) /\ below[i] = s[i+1]
        BY <1>8, <1>15
      <3> QED
        BY <1>5, <2>1, <3>1 DEF Sweeping
    <2>4. pc \in {"walk", "stats"}
      BY <1>16
    <2> QED
      BY <1>20, <1>21, <2>2, <2>3, <2>4 DEF Sweeping, WalkPc
  <1>26. h.kind = "dropkb" => Dropping(r)'
    <2> SUFFICES ASSUME h.kind = "dropkb" PROVE Dropping(r)'
      OBVIOUS
    <2>1. content = {} /\ Tops \subseteq h.roots \cup {h.id}
      BY <1>1, <1>2, <1>4 DEF Removing, Dropping, WalkPc, Removals
    <2>2. CASE below # <<>>
      BY <1>1, <1>13, <1>16, <1>20, <1>21, <2>1, <2>2 DEF Dropping, WalkPc
    <2>3. CASE below = <<>>
      BY <1>1, <1>13, <1>16, <1>20, <1>21, <1>24, <2>1, <2>3 DEF Dropping, WalkPc
    <2> QED
      BY <2>2, <2>3
  <1>27. Removing(r)'
    BY <1>4, <1>7, <1>16, <1>20, <1>21, <1>22, <1>23, <1>25, <1>26 DEF Removing, WalkPc
  <1>28. Sound(r)'
    BY <1>3, <1>20, <1>27, KindsApart DEF Sound, Making, Changing
  <1>29. OpOK' /\ op'[o] = r /\ \A q \in Ops : q # o => op'[q] = op[q]
    BY <1>18, <1>19, BecomesOne DEF TreeInv
  <1>30. \A q \in InFlight' : q \in InFlight /\ (q # o => op'[q] = op[q])
    BY <1>4, <1>29 DEF InFlight
  <1>31. Company' /\ Apart'
    <2>1. Sprouts(r) => Sprouts(op[o]) /\ r.id = op[o].id
      BY <1>2, <1>20 DEF Sprouts
    <2>2. r.pc # "insert"
      BY <1>16, <1>20
    <2> QED
      BY <1>2, <1>4, <1>20, <1>29, <1>30, <2>1, <2>2
         DEF TreeInv, Company, MayMeet, Apart, Sprouts, InFlight
  <1>32. ASSUME NEW q \in InFlight, NEW g \in Calling, g = op[q], q # o PROVE Sound(g)'
    <2>1. h.kind = "cleanup" /\ g.kind = "mkcol"
      BY <1>2, <1>3, <1>4, <1>32 DEF TreeInv, Company, MayMeet, Removals
    <2>2. Sound(g) /\ g.kind \in Makers
      BY <1>32, <2>1 DEF TreeInv, Makers
    <2>3. t = h.id
      BY <1>4, <1>5, <1>6, <1>8, <2>1 DEF Removing, Sweeping, Removals
    <2>4. g.pc = "insert" => g.parent # t
      BY <1>2, <1>4, <1>32, <2>1, <2>3 DEF TreeInv, Apart, Sprouts
    <2>5. Making(g)'
      BY <1>1, <1>13, <2>1, <2>2, <2>4 DEF Sound, Making, SavePc
    <2> QED
      BY <2>2, <2>5, KindsApart DEF Sound, Changing, Removing
  <1>33. ASSUME NEW q \in InFlight' PROVE Sound(op[q])'
    <2>1. CASE q = o
      BY <1>28, <1>29, <2>1, <1>30
    <2>2. CASE q # o
      <3>1. PICK g \in Calling : g = op[q]
        BY <1>30, <1>33, HandlerRec DEF TreeInv, InFlight
      <3>2. Sound(g)' /\ op'[q] = g
        BY <1>30, <1>32, <1>33, <2>2, <3>1
      <3> QED
        BY <3>2
    <2> QED
      BY <2>1, <2>2
  <1> QED
    BY <1>13, <1>29, <1>31, <1>33 DEF TreeInv

(***************************************************************************)
(* Calls, sessions and restarts leave the rows alone.                      *)
(***************************************************************************)
SameHand(h, r) ==
    /\ r.pc = h.pc /\ r.kind = h.kind /\ r.id = h.id /\ r.parent = h.parent /\ r.name = h.name
    /\ r.made = h.made /\ r.copy = h.copy /\ r.seen = h.seen /\ r.todo = h.todo
    /\ r.stack = h.stack /\ r.roots = h.roots

LEMMA SameHandSound ==
    ASSUME NEW h \in Calling, Sound(h), NEW r \in Calling, SameHand(h, r)
    PROVE  Sound(r)
  <1>1. Making(r)
    BY DEF SameHand, Sound, Making
  <1>2. Changing(r)
    BY DEF SameHand, Sound, Changing
  <1>3. Sweeping(h) => Sweeping(r)
    BY DEF SameHand, Sweeping
  <1>4. Dropping(h) => Dropping(r)
    BY DEF SameHand, Dropping
  <1>5. Removing(r)
    BY <1>3, <1>4 DEF SameHand, Sound, Removing
  <1> QED
    BY <1>1, <1>2, <1>5 DEF Sound

LEMMA Unmarked ==
    ASSUME NEW h \in Calling, NEW r, NEW S \in SUBSET Ids,
           r = [h EXCEPT !.alone = FALSE] \/ r = [h EXCEPT !.held = @ \ S]
    PROVE  r \in Calling /\ SameHand(h, r)
  <1>1. r \in Calling
    BY DEF Calling
  <1>2. r.pc = h.pc /\ r.kind = h.kind /\ r.id = h.id /\ r.parent = h.parent
    BY DEF Calling
  <1>3. r.name = h.name /\ r.made = h.made /\ r.copy = h.copy /\ r.seen = h.seen
    BY DEF Calling
  <1>4. r.todo = h.todo /\ r.stack = h.stack /\ r.roots = h.roots
    BY DEF Calling
  <1> QED
    BY <1>1, <1>2, <1>3, <1>4 DEF SameHand

\* The handlers in flight keep what they have in hand; one may be new.
LEMMA CallsStep ==
    ASSUME TreeInv, UNCHANGED rows, NEW new,
           new \subseteq InFlight' \ InFlight,
           op' \in [Ops -> {Idle} \cup Calling],
           \A q \in Ops : \/ q \in new \/ op'[q] = Idle
                          \/ q \in InFlight /\ SameHand(op[q], op'[q]),
           \A q \in new : Sound(op[q])' /\ op'[q].pc # "insert" /\ ~ Sprouts(op'[q]),
           \A q \in new, p \in InFlight' : q # p => MayMeet(op'[q].kind, op'[p].kind)
    PROVE  TreeInv'
  <1>1. RowsOK' /\ TreeWhole' /\ (Live \subseteq used)' /\ Live' = Live
    BY DEF TreeInv, RowsOK, TreeWhole, TreeRooted, NothingOrphaned, Live, rows
  <1>2. ASSUME NEW q \in InFlight', q \notin new
        PROVE  q \in InFlight /\ SameHand(op[q], op'[q])
    BY <1>2 DEF InFlight, Idle
  <1>3. Company'
    <2> SUFFICES ASSUME NEW p \in InFlight', NEW q \in InFlight', p # q
                 PROVE  MayMeet(op'[p].kind, op'[q].kind)
      BY DEF Company
    <2>1. CASE p \in new
      BY <2>1
    <2>2. CASE q \in new
      BY <2>2 DEF MayMeet
    <2>3. CASE p \notin new /\ q \notin new
      BY <1>2, <2>3 DEF TreeInv, Company, SameHand
    <2> QED
      BY <2>1, <2>2, <2>3
  <1>4. Apart'
    <2> SUFFICES ASSUME NEW p \in InFlight', NEW q \in InFlight', p # q,
                        Sprouts(op'[p]), op'[q].pc = "insert"
                 PROVE  op'[q].parent # op'[p].id
      BY DEF Apart, Sprouts
    <2> QED
      BY <1>2 DEF TreeInv, Apart, Sprouts, SameHand
  <1>5. ASSUME NEW q \in InFlight' PROVE Sound(op[q])'
    <2>1. CASE q \in new
      BY <2>1
    <2>2. CASE q \notin new
      <3>1. PICK h \in Calling : h = op[q] /\ Sound(h)
        BY <1>2, <2>2, HandlerRec DEF TreeInv, InFlight
      <3>2. PICK r \in Calling : r = op'[q]
        BY DEF InFlight, Idle
      <3>3. Sound(r)
        BY <1>2, <2>2, <3>1, <3>2, SameHandSound
      <3>4. Sound(r)'
        BY <3>3, SoundStays DEF rows
      <3> QED
        BY <3>2, <3>4
    <2> QED
      BY <2>1, <2>2
  <1> QED
    BY <1>1, <1>3, <1>4, <1>5 DEF TreeInv, OpOK

LEMMA NoneNewStep ==
    ASSUME TreeInv, UNCHANGED rows, op' \in [Ops -> {Idle} \cup Calling],
           \A q \in Ops : op'[q] = Idle \/ (q \in InFlight /\ SameHand(op[q], op'[q]))
    PROVE  TreeInv'
  <1>1. PICK new : new = {}
    OBVIOUS
  <1>2. new \subseteq InFlight' \ InFlight /\ \A q : q \notin new
    BY <1>1
  <1> QED
    BY <1>2, CallsStep

LEMMA ReleasedStep ==
    ASSUME TreeInv, NEW n, Released(n), UNCHANGED rows
    PROVE  TreeInv'
  <1>1. ASSUME NEW o \in Ops
        PROVE  /\ op'[o] \in {Idle} \cup Calling
               /\ op'[o] = Idle \/ (o \in InFlight /\ SameHand(op[o], op'[o]))
    <2>1. CASE op[o].kind = "idle"
      BY <2>1 DEF Released
    <2>2. CASE op[o].kind # "idle"
      <3>1. op[o] \in Calling /\ o \in InFlight
        BY <2>2, InHand
      <3>2. op'[o] = [op[o] EXCEPT !.held = @ \ {n}]
        BY <2>2 DEF Released
      <3>3. PICK S \in SUBSET Ids : S = {n} \cap Ids
        OBVIOUS
      <3>4. PICK h \in Calling : h = op[o]
        BY <3>1
      <3>5. PICK r : r = [h EXCEPT !.held = @ \ S]
        OBVIOUS
      <3>6. op'[o] = r
        BY <3>2, <3>3, <3>4, <3>5 DEF Calling
      <3> QED
        BY <3>1, <3>4, <3>5, <3>6, Unmarked
    <2> QED
      BY <2>1, <2>2
  <1>2. op' \in [Ops -> {Idle} \cup Calling]
    BY <1>1 DEF Released
  <1> QED
    BY <1>1, <1>2, NoneNewStep

LEMMA SessionStep ==
    ASSUME TreeInv, NEW c \in Conns, Session(c)
    PROVE  TreeInv'
  <1>1. UNCHANGED rows
    BY DEF Session, Authenticate, Load, Register, Disconnect
  <1>2. op' = op \/ \E n \in {conn[c].id} : Released(n)
    BY DEF Session, Authenticate, Load, Register, Disconnect
  <1>3. CASE op' = op
    <2>1. \A q \in Ops : op[q] = Idle \/ (q \in InFlight /\ SameHand(op[q], op'[q]))
      BY <1>3, HandlerRec DEF TreeInv, OpOK, SameHand, InFlight, Idle, Calling,
         Handlers, Makers, Updates, Removals
    <2> QED
      BY <1>1, <1>3, <2>1, NoneNewStep DEF TreeInv, OpOK
  <1> QED
    BY <1>1, <1>2, <1>3, ReleasedStep

LEMMA RestartStep ==
    ASSUME TreeInv, Restart
    PROVE  TreeInv'
  <1>1. UNCHANGED rows /\ op' = [o \in Ops |-> Idle]
    BY DEF Restart
  <1> QED
    BY <1>1, NoneNewStep

\* A call takes its place among the others.
LEMMA CallStep ==
    ASSUME TreeInv, Together, NEW o \in Ops, NEW k \in Handlers,
           NEW n \in Ids \cup {Root}, NEW p \in Live \cup {Root}, NEW x \in Names,
           Call(o, k, n, p, x), k # "cleanup",
           k = "create" => kb,
           k \in Updates => n \in Live,
           k \in {"rename", "patch"} => p = nodes[n].parent,
           k = "move" => p \notin Subtree(n) /\ x = nodes[n].name,
           k \in {"remove", "delete"} => n \in Ids
    PROVE  TreeInv'
  <1>1. /\ op[o].kind = "idle" /\ UNCHANGED rows
        /\ \A q \in InFlight : {k, op[q].kind} \in Overlap
    BY DEF Call
  <1>2. PICK r : r = [kind |-> k, pc |-> Entry(k), id |-> n, parent |-> p, name |-> x, made |-> FALSE,
              copy |-> Gone, seen |-> {}, todo |-> {}, stack |-> <<>>, roots |-> {},
              held |-> Edited, alone |-> InFlight = {}]
    OBVIOUS
  <1>3. op' = [q \in Ops |-> IF q = o THEN r
                             ELSE IF op[q].kind = "idle" THEN Idle ELSE [op[q] EXCEPT !.alone = FALSE]]
    BY Zenon, <1>2 DEF Call
  <1>4. /\ Entry(k) \in {"check", "snapshot", "kbfind"}
        /\ Entry(k) = "check" => k \in {"create", "move", "rename", "patch", "remove"}
        /\ Entry(k) = "kbfind" <=> k = "dropkb"
    BY DEF Entry, Handlers, Makers, Updates, Removals
  <1>5. r \in Calling
    <2>1. Entry(k) \in Stages /\ p \in Ids \cup {Root} /\ Edited \in SUBSET Ids
          /\ (InFlight = {}) \in BOOLEAN /\ <<>> \in Seq(Frames)
      BY <1>4 DEF Stages, Live, Edited
    <2> QED
      BY <1>2, <2>1 DEF Calling
  <1>6. /\ r.kind = k /\ r.pc = Entry(k) /\ r.id = n /\ r.parent = p /\ r.name = x
        /\ r.made = FALSE /\ r.seen = {} /\ r.todo = {} /\ r.stack = <<>>
    BY <1>2
  <1>7. Sound(r)
    <2>1. Making(r)
      BY <1>4, <1>6 DEF Making, Makers, SavePc
    <2>2. k \in {"rename", "patch"} => p \notin Subtree(n)
      BY ParentOutside DEF Updates, TreeInv, TreeWhole
    <2>3. k \in Updates => k \in {"rename", "patch", "move"} \/ (k = "davmove" /\ Entry(k) = "snapshot")
      BY <1>4 DEF Updates, Entry
    <2>4. Changing(r)
      BY <1>4, <1>6, <2>2, <2>3 DEF Changing
    <2>5. Dropping(r) \/ k # "dropkb"
      BY <1>4, <1>6 DEF Dropping, WalkPc
    <2>6. Removing(r)
      <3>1. k \in Removals => k \in {"remove", "delete", "dropkb"}
        BY DEF Removals
      <3>2. Framed(r.stack)
        BY <1>6 DEF Framed
      <3> QED
        BY <1>4, <1>6, <2>5, <3>1, <3>2 DEF Removing, WalkPc
    <2> QED
      BY <2>1, <2>4, <2>6 DEF Sound
  <1>8. Sound(r)' /\ op'[o] = r /\ r.pc # "insert" /\ ~ Sprouts(r)
    BY <1>1, <1>3, <1>4, <1>5, <1>6, <1>7, SoundStays DEF rows, Sprouts
  <1>9. o \notin InFlight /\ o \in InFlight'
    BY <1>1, <1>6, <1>8, KindsApart DEF InFlight
  <1>10. ASSUME NEW q \in Ops, q # o
         PROVE  /\ op'[q] \in {Idle} \cup Calling
                /\ op'[q] = Idle \/ (q \in InFlight /\ SameHand(op[q], op'[q]))
    <2>1. CASE op[q].kind = "idle"
      BY <1>3, <1>10, <2>1
    <2>2. CASE op[q].kind # "idle"
      <3>1. PICK h \in Calling : h = op[q] /\ q \in InFlight
        BY <2>2, InHand
      <3>2. op'[q] = [h EXCEPT !.alone = FALSE]
        BY <1>3, <1>10, <2>2, <3>1
      <3> QED
        BY <3>1, <3>2, Unmarked
    <2> QED
      BY <2>1, <2>2
  <1>11. op' \in [Ops -> {Idle} \cup Calling]
    BY <1>3, <1>5, <1>8, <1>10
  <1>12. ASSUME NEW q \in InFlight', q # o PROVE MayMeet(r.kind, op'[q].kind)
    <2>1. q \in InFlight /\ op'[q].kind = op[q].kind
      BY <1>10, <1>12 DEF InFlight, Idle, SameHand
    <2>2. {k, op[q].kind} \in {{"create"}, {"mkcol"}, {"create", "mkcol"}, {"mkcol", "put"},
                               {"mkcol", "cleanup"}}
      BY <1>1, <2>1 DEF Together
    <2> QED
      BY <1>6, <2>1, <2>2 DEF MayMeet
  <1>13. PICK new : new = {o}
    OBVIOUS
  <1>14. /\ new \subseteq InFlight' \ InFlight
         /\ \A q \in Ops : \/ q \in new \/ op'[q] = Idle
                           \/ q \in InFlight /\ SameHand(op[q], op'[q])
         /\ \A q \in new : op'[q].pc # "insert" /\ ~ Sprouts(op'[q])
         /\ \A q \in new, m \in InFlight' : q # m => MayMeet(op'[q].kind, op'[m].kind)
    BY <1>8, <1>9, <1>10, <1>12, <1>13
  <1>15. \A q \in new : Sound(op[q])'
    BY <1>8, <1>13
  <1> QED
    BY <1>1, <1>11, <1>14, <1>15, CallsStep

LEMMA AsksStep ==
    ASSUME TreeInv, Together, NEW o \in Ops, Asks(o)
    PROVE  TreeInv'
  <1>1. ASSUME NEW p \in Live \cup {Root}, NEW x \in Names, NEW k \in Makers, k = "create" => kb,
               Call(o, k, Root, p, x)
        PROVE  TreeInv'
    BY <1>1, CallStep, KindsApart DEF Makers, Updates, Removals
  <1>2. ASSUME NEW n \in Live, NEW p \in Live \cup {Root}, NEW x \in Names, NEW k \in Handlers,
               k \in {"davmove", "move", "rename", "patch", "remove", "delete"},
               k = "move" => x = nodes[n].name /\ Offered(n, p),
               k \in {"rename", "patch"} => p = nodes[n].parent, Call(o, k, n, p, x)
        PROVE  TreeInv'
    BY <1>2, CallStep DEF Offered, Live
  <1>3. ASSUME NEW x \in Names, Call(o, "dropkb", Root, Root, x)
        PROVE  TreeInv'
    BY <1>3, CallStep, KindsApart DEF Removals, Updates
  <1>4. {"davmove", "move", "rename", "patch", "remove", "delete"} \subseteq Handlers
    BY DEF Handlers, Updates, Removals
  <1>5. PICK p \in Live \cup {Root}, x \in Names :
            \/ \E k \in Makers : (k = "create" => kb) /\ Call(o, k, Root, p, x)
            \/ \E n \in Live :
                \/ Call(o, "davmove", n, p, x)
                \/ x = nodes[n].name /\ Offered(n, p) /\ Call(o, "move", n, p, x)
                \/ p = nodes[n].parent /\ \E k \in {"rename", "patch"} : Call(o, k, n, p, x)
                \/ /\ p = nodes[n].parent /\ x = nodes[n].name
                   /\ \E k \in {"remove", "delete"} : Call(o, k, n, p, x)
            \/ Call(o, "dropkb", Root, Root, x)
    BY Zenon DEF Asks
  <1>6. CASE \E k \in Makers : (k = "create" => kb) /\ Call(o, k, Root, p, x)
    BY Zenon, <1>1, <1>6
  <1>7. ASSUME NEW n \in Live, Call(o, "davmove", n, p, x) PROVE TreeInv'
    BY <1>2, <1>4, <1>7
  <1>8. ASSUME NEW n \in Live, x = nodes[n].name, Offered(n, p), Call(o, "move", n, p, x) PROVE TreeInv'
    BY <1>2, <1>4, <1>8
  <1>9. ASSUME NEW n \in Live, NEW k \in {"rename", "patch", "remove", "delete"},
               p = nodes[n].parent, Call(o, k, n, p, x) PROVE TreeInv'
    BY <1>2, <1>4, <1>9
  <1> QED
    BY <1>3, <1>5, <1>6, <1>7, <1>8, <1>9

LEMMA HandleStep ==
    ASSUME TreeInv, NEW o \in Ops, Handle(o)
    PROVE  TreeInv'
  <1>1. CASE Throws(o)
    BY <1>1, FailsStep DEF Throws
  <1> QED
    BY <1>1, CheckStep, DecideStep, PutStep, InsertStep, SaveDraftStep, ReadRowStep, WriteRowStep,
       FindForUpdateStep, SaveStep, CollectStep, FindForRemoveStep, EnterStep,
       RemoveContentStep, RemoveDraftStep, RemoveRowStep, StatsStep, SaveBaseStep,
       ReadNodesStep, RemoveBaseContentStep, NextRootStep, RemoveBaseStep DEF Handle

LEMMA TreeStep ==
    ASSUME TreeInv, Together, [TreeNext]_treeVars
    PROVE  TreeInv'
  <1>1. CASE UNCHANGED treeVars
    <2>1. UNCHANGED rows /\ op' = op
      BY <1>1 DEF treeVars
    <2>2. \A q \in Ops : op[q] = Idle \/ (q \in InFlight /\ SameHand(op[q], op'[q]))
      BY <2>1, KindsApart DEF TreeInv, OpOK, SameHand, InFlight, Calling
    <2> QED
      BY <2>1, <2>2, NoneNewStep DEF TreeInv, OpOK
  <1> QED
    BY <1>1, AsksStep, HandleStep, SessionStep, RestartStep DEF TreeNext

\* The rows there are at the start make a forest.
Planted ==
    LET rooted == {n \in Ids : First[n] # Gone}
    IN /\ \A n \in rooted : First[n].parent \in rooted \cup {Root}
       /\ \A S \in (SUBSET rooted) \ {{}} : \E n \in S : First[n].parent \notin S

LEMMA TreeInitially ==
    ASSUME TreeInit, Planted
    PROVE  TreeInv
  <1>1. /\ nodes = First /\ used = Live /\ drafts = {} /\ content \subseteq Live /\ kb = TRUE
        /\ op = [o \in Ops |-> Idle]
    BY DEF TreeInit
  <1>2. Live = {n \in Ids : First[n] # Gone} /\ Live \subseteq Ids
    BY <1>1 DEF Live
  <1>3. RowsOK /\ OpOK /\ InFlight = {}
    BY <1>1, <1>2, TreeAssumption DEF RowsOK, OpOK, InFlight, Idle
  <1>4. TreeWhole
    BY <1>1, <1>2 DEF TreeWhole, TreeRooted, NothingOrphaned, Planted
  <1> QED
    BY <1>1, <1>3, <1>4 DEF TreeInv, Company, Apart

\* Whatever is created, moved and removed, and wherever a call breaks off: the
\* nodes stay a forest in which every parent is there, none outlives its base, and
\* every draft and resource belongs to a live node.
THEOREM TreeStaysWhole ==
    ASSUME Together, Planted
    PROVE  TreeSpec => []TreeWhole
  <1>1. TreeInit => TreeInv
    BY TreeInitially
  <1>2. TreeInv /\ [TreeNext]_treeVars => TreeInv'
    BY TreeStep
  <1>3. TreeInv => TreeWhole
    BY DEF TreeInv
  <1> QED
    BY <1>1, <1>2, <1>3, PTL DEF TreeSpec

(***************************************************************************)
(* What protects the nodes that are edited.  A handler that writes a node  *)
(* it has asked about holds what it was told: held are the nodes edited    *)
(* ever since its call, and none of them is under the node in its hand.    *)
(***************************************************************************)
Clear(n, r) == Subtree(n) \cap r.held = {}

\* What was collected so far and what is left to read hold all of the subtree.
Collecting(r) ==
    /\ r.id \in r.seen \cup r.todo
    /\ \A m \in r.seen : Children(m) \subseteq r.seen \cup r.todo
Clearing(r) ==
    /\ r.stack = <<>> => Clear(r.id, r)
    /\ \A i \in 1..Len(r.stack) : /\ Clear(r.stack[i].id, r)
                                  /\ \A n \in r.stack[i].todo : Clear(n, r)

Lonely == Updates \cup {"remove", "delete", "dropkb"}
Careful(r) ==
    /\ r.kind # "patch"
    /\ r.kind = "davmove" => r.pc # "check"
    /\ r.kind \in Updates => r.pc = "collect" \/ r.seen = {}
    /\ r.kind \in Lonely /\ r.pc = "collect" => Collecting(r)
    /\ r.kind \in Lonely /\ r.pc \in WalkPc => Clearing(r)
    /\ r.kind \in Updates /\ r.pc = "save" =>
          Clear(r.id, r) \/ (r.parent = r.copy.parent /\ r.name = r.copy.name)
    /\ r.kind = "davmove" /\ r.pc \in {"find", "collect", "save"} =>
          Clear(r.id, r) /\ Sibling(r.parent, r.name) \subseteq {r.id}
    /\ Sprouts(r) => r.id \notin r.held
    /\ r.kind \in {"mkcol", "put"} /\ r.pc = "insert" /\ r.alone = TRUE =>
          Sibling(r.parent, r.name) = {}

ConnIds == \A c \in Conns : conn[c].pc # "closed" => conn[c].id \in used
Held == \A o \in InFlight : op[o].held \subseteq Edited
Alone == \A o \in InFlight : op[o].alone = TRUE => InFlight = {o}

GuardInv ==
    /\ TreeInv /\ RegistryInv /\ ConnIds /\ Held /\ Alone
    /\ \A o \in InFlight : Careful(op[o])

LEMMA EditedUsed ==
    ASSUME RegistryInv, ConnIds
    PROVE  Edited \subseteq used
  <1> SUFFICES ASSUME NEW n \in Ids, nodeSessions[n] # {} PROVE n \in used
    BY DEF Edited, HasSession
  <1>1. PICK c \in OpenOn(n) : TRUE
    BY DEF RegistryInv
  <1>2. c \in Conns /\ conn[c].pc = "open" /\ conn[c].id = n
    BY <1>1 DEF OpenOn
  <1>3. conn[c].pc # "closed"
    BY <1>2
  <1> QED
    BY <1>2, <1>3 DEF ConnIds

\* Whoever has company has nothing to be careful about but what it made.
LEMMA CompanyCareful ==
    ASSUME GuardInv, NEW o \in InFlight, NEW q \in InFlight, o # q,
           NEW h \in Calling, h = op[q]
    PROVE  Careful(h)' /\ h.alone # TRUE
  <1>1. Careful(h) /\ Sound(h) /\ h.alone # TRUE /\ MayMeet(op[o].kind, h.kind)
    BY DEF GuardInv, Alone, TreeInv, Company
  <1>2. h.kind \notin Lonely /\ h.kind \notin Updates /\ h.kind \notin {"patch", "davmove"}
    BY <1>1 DEF MayMeet, Lonely, Updates
  <1> QED
    BY <1>1, <1>2 DEF Careful, Sprouts

LEMMA Lonesome ==
    ASSUME GuardInv, NEW o \in InFlight, op[o].kind \in Lonely
    PROVE  InFlight = {o}
  BY AloneKinds DEF GuardInv, Lonely

\* A step of one handler.
LEMMA GuardStep ==
    ASSUME GuardInv, TreeInv', NEW o \in Ops, op[o].kind # "idle", NEW r, Becomes(o, r),
           \/ r = Idle
           \/ r \in Calling /\ r.held = op[o].held /\ r.alone = op[o].alone /\ Careful(r)',
           UNCHANGED <<nodeSessions, kbNodes, conn>>, used \subseteq used'
    PROVE  GuardInv'
  <1>1. OpOK' /\ op'[o] = r /\ \A q \in Ops : q # o => op'[q] = op[q]
    BY BecomesOne DEF GuardInv, TreeInv
  <1>2. o \in InFlight /\ InFlight' \subseteq InFlight
        /\ \A q \in InFlight' : q # o => op'[q] = op[q]
    BY <1>1 DEF InFlight
  <1>3. RegistryInv' /\ ConnIds' /\ Edited' = Edited
    BY DEF GuardInv, RegistryInv, OpenOn, SessionOf, ConnIds, Edited, HasSession
  <1>4. \A q \in InFlight' : q # o \/ (r \in Calling /\ r.held = op[o].held
                                        /\ r.alone = op[o].alone /\ Careful(r)')
    BY <1>1 DEF InFlight, Idle
  <1>5. Held' /\ Alone'
    BY <1>1, <1>2, <1>3, <1>4 DEF GuardInv, Held, Alone
  <1>6. ASSUME NEW q \in InFlight' PROVE Careful(op[q])'
    <2>1. CASE q = o
      BY <1>1, <1>4, <1>6, <2>1
    <2>2. CASE q # o
      <3>1. PICK h \in Calling : h = op[q]
        BY <1>2, <1>6, HandlerRec DEF GuardInv, TreeInv, InFlight
      <3>2. Careful(h)' /\ op'[q] = h
        BY <1>2, <1>6, <2>2, <3>1, CompanyCareful
      <3> QED
        BY <3>2
    <2> QED
      BY <2>1, <2>2
  <1> QED
    BY <1>3, <1>5, <1>6 DEF GuardInv

\* The same rows, and no more held or alone than before.
LEMMA CarefulStays ==
    ASSUME NEW h \in Calling, Careful(h), UNCHANGED nodes, NEW r \in Calling, SameHand(h, r),
           r.held \subseteq h.held, r.alone = TRUE => h.alone = TRUE
    PROVE  Careful(r)'
  <1>1. /\ \A n \in Ids \cup {Root} : Children(n)' = Children(n)
        /\ \A n \in Ids \cup {Root} : Subtree(n)' = Subtree(n)
        /\ \A p \in Ids \cup {Root}, x \in Names : Sibling(p, x)' = Sibling(p, x)
    BY DEF Live, Children, Subtree, HoldsChildren, Sibling
  <1>2. /\ r.id \in Ids \cup {Root} /\ r.parent \in Ids \cup {Root} /\ r.name \in Names
        /\ r.stack \in Seq(Frames) /\ r.seen \in SUBSET Ids
    BY DEF Calling
  <1>3. \A n \in Ids \cup {Root} : Clear(n, h) => Clear(n, r)'
    BY <1>1 DEF Clear
  <1>4. Collecting(h) => Collecting(r)'
    BY <1>1, <1>2 DEF Collecting, SameHand
  <1>5. Clearing(h) => Clearing(r)'
    <2> SUFFICES ASSUME Clearing(h) PROVE Clearing(r)'
      OBVIOUS
    <2>1. r.stack = h.stack /\ r.id = h.id
      BY DEF SameHand
    <2>2. \A i \in 1..Len(r.stack) : r.stack[i].id \in Ids /\ r.stack[i].todo \in SUBSET Ids
      BY <1>2, FrameAt
    <2> QED
      BY <1>2, <1>3, <2>1, <2>2 DEF Clearing
  <1>6. /\ r.kind = h.kind /\ r.pc = h.pc /\ r.seen = h.seen /\ r.copy = h.copy /\ r.id = h.id
        /\ r.parent = h.parent /\ r.name = h.name /\ Sprouts(r) = Sprouts(h)
    BY DEF SameHand, Sprouts
  <1>7. Clear(r.id, h) => Clear(r.id, r)'
    BY <1>2, <1>3
  <1>8. Sibling(r.parent, r.name)' = Sibling(r.parent, r.name)
    BY <1>1, <1>2
  <1> QED
    BY <1>4, <1>5, <1>6, <1>7, <1>8 DEF Careful, Sprouts

\* A step of one handler that leaves the rows alone.
LEMMA GuardQuiet ==
    ASSUME GuardInv, TreeInv', NEW o \in Ops, op[o].kind # "idle", NEW r, Becomes(o, r),
           \/ r = Idle
           \/ r \in Calling /\ r.held = op[o].held /\ r.alone = op[o].alone /\ Careful(r),
           UNCHANGED <<nodes, used, nodeSessions, kbNodes, conn>>
    PROVE  GuardInv'
  <1>1. r \in Calling /\ Careful(r) => Careful(r)'
    BY CarefulStays DEF SameHand
  <1> QED
    BY <1>1, GuardStep

LEMMA GuardDone ==
    ASSUME GuardInv, TreeInv', NEW o \in Ops, op[o].kind # "idle", Done(o),
           UNCHANGED <<nodes, used, nodeSessions, kbNodes, conn>>
    PROVE  GuardInv'
  BY GuardQuiet DEF Done

LEMMA GuardHand ==
    ASSUME GuardInv, NEW o \in Ops, op[o].kind # "idle"
    PROVE  /\ op[o] \in Calling /\ Sound(op[o]) /\ o \in InFlight /\ Careful(op[o])
           /\ op[o].held \subseteq Edited
  BY InHand DEF GuardInv, Held

LEMMA GuardFails ==
    ASSUME GuardInv, TreeInv', NEW o \in Ops, op[o].kind # "idle", Fails(o),
           UNCHANGED <<nodes, used, nodeSessions, kbNodes, conn>>
    PROVE  GuardInv'
  <1>1. PICK h \in Calling : h = op[o] /\ Careful(h)
    BY GuardHand
  <1>2. CASE h.kind = "put" /\ h.made = TRUE
    <2>1. PICK r : r = [h EXCEPT !.kind = "cleanup", !.pc = "find"]
      OBVIOUS
    <2>2. r \in Calling
      BY <2>1 DEF Calling, Handlers, Removals, Stages
    <2>3. r.kind = "cleanup" /\ r.pc = "find" /\ r.id = h.id
      BY <2>1 DEF Calling
    <2>4. r.held = h.held /\ r.alone = h.alone
      BY <2>1 DEF Calling
    <2>5. Careful(r)
      BY <1>1, <1>2, <2>3, <2>4 DEF Careful, Sprouts, Updates, Lonely
    <2>6. Becomes(o, r)
      BY <1>1, <1>2, <2>1 DEF Fails
    <2> QED
      BY <1>1, <2>2, <2>4, <2>5, <2>6, GuardQuiet
  <1>3. CASE ~ (h.kind = "put" /\ h.made = TRUE)
    BY <1>1, <1>3, GuardDone DEF Fails
  <1> QED
    BY <1>2, <1>3

\* r is the handler h gone on to pc, and is careful there.
Onward(h, pc, r) ==
    /\ r.pc = pc
    /\ r.kind = h.kind /\ r.id = h.id /\ r.parent = h.parent /\ r.name = h.name
    /\ r.made = h.made /\ r.copy = h.copy /\ r.seen = h.seen /\ r.todo = h.todo
    /\ r.stack = h.stack /\ r.roots = h.roots /\ r.held = h.held /\ r.alone = h.alone
CarefulAt(h, pc) == \A r \in Calling : Onward(h, pc, r) => Careful(r)

LEMMA GuardGoto ==
    ASSUME GuardInv, TreeInv', NEW o \in Ops, op[o].kind # "idle", NEW pc \in Stages, Goto(o, pc),
           CarefulAt(op[o], pc), UNCHANGED <<nodes, used, nodeSessions, kbNodes, conn>>
    PROVE  GuardInv'
  <1>1. PICK h \in Calling : h = op[o]
    BY GuardHand
  <1>2. PICK r : r = [h EXCEPT !.pc = pc]
    OBVIOUS
  <1>3. r \in Calling /\ Onward(h, pc, r)
    BY <1>2, Moved DEF Onward
  <1>4. Careful(r) /\ r.held = h.held /\ r.alone = h.alone
    BY <1>1, <1>3 DEF CarefulAt, Onward
  <1>5. Becomes(o, r)
    BY <1>1, <1>2 DEF Goto
  <1> QED
    BY <1>1, <1>3, <1>4, <1>5, GuardQuiet

\* Places where there is nothing to be careful about but what was made.
EasyPc == {"check", "snapshot", "draft", "stateread", "statewrite", "stats", "statswrite",
           "kbfind", "kbnodes", "kbcontent", "kbroots"}

LEMMA EasyPlace ==
    ASSUME NEW r \in Calling, r.kind # "patch", r.kind \in Updates => r.seen = {},
           r.kind = "davmove" => r.pc # "check",
           Sprouts(r) => r.id \notin r.held, r.pc \in EasyPc
    PROVE  Careful(r)
  BY DEF Careful, EasyPc, WalkPc

LEMMA CarefulFacts ==
    ASSUME NEW h \in Calling, Careful(h)
    PROVE  /\ h.kind # "patch" /\ (h.kind = "davmove" => h.pc # "check")
           /\ h.kind \in Updates => h.pc = "collect" \/ h.seen = {}
           /\ Sprouts(h) => h.id \notin h.held
  BY DEF Careful

LEMMA GuardCheck ==
    ASSUME GuardInv, TreeInv', NEW o \in Ops, Check(o)
    PROVE  GuardInv'
  <1> DEFINE pc == IF op[o].kind = "create" THEN "insert" ELSE "find"
  <1>1. /\ op[o].kind # "idle" /\ op[o].pc = "check"
        /\ UNCHANGED <<nodes, used, nodeSessions, kbNodes, conn>>
    BY DEF Check, At, rows, registry
  <1>2. CASE Done(o)
    BY <1>1, <1>2, GuardDone
  <1>3. CASE Goto(o, pc)
    <2>1. PICK h \in Calling : h = op[o] /\ Careful(h)
      BY <1>1, GuardHand
    <2>2. pc \in Stages
      BY DEF Stages
    <2>3. CarefulAt(h, pc)
      <3> SUFFICES ASSUME NEW r \in Calling, Onward(h, pc, r)
                   PROVE  Careful(r)
        BY DEF CarefulAt
      <3> HIDE DEF pc
      <3>1. /\ r.pc = pc /\ r.kind = h.kind /\ r.id = h.id /\ r.made = h.made /\ r.held = h.held
            /\ r.seen = h.seen
        BY DEF Onward
      <3> USE DEF pc
      <3>2. Sprouts(r) => r.id \notin r.held
        BY <2>1, <3>1 DEF Sprouts, Careful
      <3>3. r.pc \in {"insert", "find"} /\ r.kind \notin {"patch", "davmove"}
            /\ (r.pc = "insert" => r.kind = "create")
            /\ (r.kind \in Updates => r.seen = {})
        BY <1>1, <2>1, <3>1 DEF Careful
      <3> HIDE DEF pc
      <3> QED
        BY <3>2, <3>3 DEF Careful, WalkPc
    <2> HIDE DEF pc
    <2> QED
      BY <1>1, <1>3, <2>1, <2>2, <2>3, GuardGoto
  <1> QED
    BY <1>2, <1>3 DEF Check

LEMMA GuardDecide ==
    ASSUME GuardInv, TreeInv', NEW o \in Ops, Mkcol(o) \/ Delete(o) \/ Move(o)
    PROVE  GuardInv'
  <1>1. /\ op[o].kind # "idle" /\ op[o].pc = "snapshot"
        /\ UNCHANGED <<nodes, used, nodeSessions, kbNodes, conn>>
    BY DEF Mkcol, Delete, Move, At, rows, registry
  <1>2. CASE Done(o)
    BY <1>1, <1>2, GuardDone
  <1>3. PICK h \in Calling : h = op[o] /\ Careful(h) /\ h.held \subseteq Edited
    BY <1>1, GuardHand
  <1>4. CASE Goto(o, "insert") /\ h.kind = "mkcol" /\ Sibling(h.parent, h.name) = {}
    <2>1. CarefulAt(h, "insert")
      <3> SUFFICES ASSUME NEW r \in Calling, Onward(h, "insert", r)
                   PROVE  Careful(r)
        BY DEF CarefulAt
      <3>1. /\ r.pc = "insert" /\ r.kind = h.kind /\ r.id = h.id /\ r.made = h.made /\ r.held = h.held
            /\ r.parent = h.parent /\ r.name = h.name
        BY DEF Onward
      <3> QED
        BY <1>3, <1>4, <3>1 DEF Careful, WalkPc, Sprouts, Updates, Lonely
    <2> QED
      BY <1>1, <1>3, <1>4, <2>1, GuardGoto DEF Stages
  <1>5. CASE Goto(o, "find") /\ h.kind = "delete"
    <2>1. CarefulAt(h, "find")
      <3> SUFFICES ASSUME NEW r \in Calling, Onward(h, "find", r)
                   PROVE  Careful(r)
        BY DEF CarefulAt
      <3>1. r.pc = "find" /\ r.kind = h.kind /\ r.id = h.id /\ r.made = h.made /\ r.held = h.held
        BY DEF Onward
      <3> QED
        BY <1>3, <1>5, <3>1 DEF Careful, WalkPc, Sprouts, Updates, Lonely
    <2> QED
      BY <1>1, <1>3, <1>5, <2>1, GuardGoto DEF Stages
  <1>6. CASE /\ Goto(o, "find") /\ h.kind = "davmove" /\ Untouched(h.id) /\ h.id \in Live
             /\ Sibling(h.parent, h.name) \subseteq {h.id}
    <2>1. Clear(h.id, h)
      BY <1>3, <1>6 DEF Clear, Untouched, Edited
    <2>2. CarefulAt(h, "find")
      <3> SUFFICES ASSUME NEW r \in Calling, Onward(h, "find", r)
                   PROVE  Careful(r)
        BY DEF CarefulAt
      <3>1. /\ r.pc = "find" /\ r.kind = h.kind /\ r.id = h.id /\ r.made = h.made /\ r.held = h.held
            /\ r.parent = h.parent /\ r.name = h.name /\ r.seen = h.seen
        BY DEF Onward
      <3>2. Clear(r.id, r)
        BY <2>1, <3>1 DEF Clear
      <3> QED
        BY <1>1, <1>3, <1>6, <3>1, <3>2 DEF Careful, WalkPc, Sprouts, Updates, Lonely
    <2> QED
      BY <1>1, <1>3, <1>6, <2>2, GuardGoto DEF Stages
  <1> QED
    BY <1>2, <1>3, <1>4, <1>5, <1>6 DEF Mkcol, Delete, Move, MkcolAllowed, MoveAllowed

LEMMA GuardPut ==
    ASSUME GuardInv, TreeInv', NEW o \in Ops, Put(o)
    PROVE  GuardInv'
  <1>0. /\ At(o, "snapshot") /\ op[o].kind = "put"
        /\ UNCHANGED <<nodes, used, nodeSessions, kbNodes, conn>>
    <2>1. At(o, "snapshot") /\ op[o].kind = "put" /\ UNCHANGED <<rows, registry, conn, bounds>>
      BY Zenon DEF Put
    <2> QED
      BY <2>1 DEF rows, registry
  <1>1. op[o].kind = "put" /\ op[o].pc = "snapshot"
    BY <1>0 DEF At
  <1>2. CASE Done(o)
    BY <1>0, <1>1, <1>2, GuardDone
  <1>3. PICK h \in Calling : h = op[o] /\ Careful(h) /\ Sound(h)
    BY <1>1, GuardHand
  <1>4. ~ Sprouts(h)
    BY <1>1, <1>3 DEF Sound, Making, Makers, SavePc, Sprouts, Calling
  <1>5. CASE Goto(o, "insert") /\ Sibling(h.parent, h.name) = {}
    <2>1. CarefulAt(h, "insert")
      <3> SUFFICES ASSUME NEW r \in Calling, Onward(h, "insert", r)
                   PROVE  Careful(r)
        BY DEF CarefulAt
      <3>1. /\ r.pc = "insert" /\ r.kind = h.kind /\ r.id = h.id /\ r.made = h.made /\ r.held = h.held
            /\ r.parent = h.parent /\ r.name = h.name
        BY DEF Onward
      <3> QED
        BY <1>1, <1>3, <1>4, <1>5, <3>1 DEF Careful, WalkPc, Sprouts, Updates, Lonely
    <2> QED
      BY <1>0, <1>1, <1>3, <1>5, <2>1, GuardGoto DEF Stages
  <1>6. ASSUME NEW n \in Live, Becomes(o, [op[o] EXCEPT !.pc = "draft", !.id = n])
        PROVE  GuardInv'
    <2>1. PICK r : r = [h EXCEPT !.pc = "draft", !.id = n]
      OBVIOUS
    <2>2. r \in Calling
      BY <2>1 DEF Calling, Stages, Live
    <2>3. r.pc = "draft" /\ r.kind = h.kind /\ r.made = h.made
      BY <2>1 DEF Calling
    <2>4. r.held = h.held /\ r.alone = h.alone
      BY <2>1 DEF Calling
    <2>5. Careful(r)
      BY <1>1, <1>3, <1>4, <2>3 DEF Careful, WalkPc, Sprouts, Updates, Lonely
    <2> QED
      BY <1>0, <1>1, <1>3, <1>6, <2>1, <2>2, <2>4, <2>5, GuardQuiet
  <1>7. CASE \E n \in Sibling(op[o].parent, op[o].name) :
                  \/ Becomes(o, [op[o] EXCEPT !.pc = "draft", !.id = n])
                  \/ Done(o)
    <2>1. Sibling(op[o].parent, op[o].name) \subseteq Live
      BY DEF Sibling
    <2> QED
      BY Zenon, <1>2, <1>6, <1>7, <2>1
  <1>8. CASE (Sibling(op[o].parent, op[o].name) = {} /\ Goto(o, "insert")) \/ Done(o)
    BY <1>2, <1>3, <1>5, <1>8
  <1> QED
    BY Zenon, <1>7, <1>8 DEF Put

LEMMA GuardInsert ==
    ASSUME GuardInv, TreeInv', NEW o \in Ops, Insert(o)
    PROVE  GuardInv'
  <1>1. op[o].kind # "idle" /\ op[o].pc = "insert" /\ UNCHANGED <<nodeSessions, kbNodes, conn>>
    BY DEF Insert, At, registry
  <1>2. PICK h \in Calling : h = op[o] /\ Careful(h) /\ h.held \subseteq Edited
    BY <1>1, GuardHand
  <1>3. PICK n \in Ids \ used :
            /\ used' = used \cup {n}
            /\ IF h.kind = "put"
               THEN Becomes(o, [op[o] EXCEPT !.pc = "draft", !.id = n, !.made = TRUE])
               ELSE Done(o)
    BY <1>2, Zenon DEF Insert
  <1>4. CASE Done(o)
    BY <1>1, <1>3, <1>4, GuardStep DEF Done
  <1>5. CASE h.kind = "put" /\ Becomes(o, [op[o] EXCEPT !.pc = "draft", !.id = n, !.made = TRUE])
    <2>1. PICK r : r = [h EXCEPT !.pc = "draft", !.id = n, !.made = TRUE]
      OBVIOUS
    <2>2. r \in Calling
      BY <2>1 DEF Calling, Stages
    <2>3. r.pc = "draft" /\ r.id = n /\ r.kind = "put"
      BY <1>5, <2>1 DEF Calling
    <2>4. r.held = h.held /\ r.alone = h.alone
      BY <2>1 DEF Calling
    <2>5. n \notin r.held
      BY <1>2, <1>3, <2>4, EditedUsed DEF GuardInv
    <2>6. Careful(r)'
      BY <2>3, <2>5 DEF Careful, WalkPc, Sprouts, Updates, Lonely
    <2> QED
      BY <1>1, <1>2, <1>3, <1>5, <2>1, <2>2, <2>4, <2>6, GuardStep
  <1> QED
    BY <1>3, <1>4, <1>5

LEMMA GuardSaving ==
    ASSUME GuardInv, TreeInv', NEW o \in Ops, SaveDraft(o) \/ ReadRow(o)
    PROVE  GuardInv'
  <1>1. /\ op[o].kind # "idle" /\ op[o].pc \in {"draft", "stateread"}
        /\ UNCHANGED <<nodes, used, nodeSessions, kbNodes, conn>>
    BY DEF SaveDraft, ReadRow, At, rows, registry
  <1>2. CASE Fails(o)
    BY <1>1, <1>2, GuardFails
  <1>3. PICK h \in Calling : h = op[o] /\ Careful(h) /\ Sound(h)
    BY <1>1, GuardHand
  <1>4. h.kind = "put" /\ h.id \in Live /\ nodes[h.id] \in Row
    BY <1>1, <1>3, KindsApart
       DEF Sound, Making, Changing, Removing, Calling, SavePc, GuardInv, TreeInv, RowsOK, Live
  <1>5. ASSUME NEW r \in Calling, Becomes(o, r), r.pc \in {"stateread", "statewrite"},
               r.kind = h.kind, r.id = h.id, r.made = h.made,
               r.held = h.held, r.alone = h.alone
        PROVE  GuardInv'
    <2>1. Careful(r)
      BY <1>3, <1>4, <1>5 DEF Careful, WalkPc, Sprouts, Updates, Lonely
    <2> QED
      BY <1>1, <1>3, <1>5, <2>1, GuardQuiet
  <1>6. CASE Goto(o, "stateread")
    <2>1. PICK r : r = [h EXCEPT !.pc = "stateread"]
      OBVIOUS
    <2>2. /\ r \in Calling /\ r.pc = "stateread" /\ r.kind = h.kind /\ r.id = h.id
          /\ r.made = h.made /\ r.held = h.held /\ r.alone = h.alone
      BY <2>1, Moved DEF Stages
    <2>3. Becomes(o, r)
      BY <1>3, <1>6, <2>1 DEF Goto
    <2> QED
      BY <1>5, <2>2, <2>3
  <1>7. CASE Becomes(o, [op[o] EXCEPT !.pc = "statewrite", !.copy = nodes[op[o].id]])
    <2>1. PICK r : r = [h EXCEPT !.pc = "statewrite", !.copy = nodes[h.id]]
      OBVIOUS
    <2>2. r \in Calling
      BY <1>4, <2>1 DEF Calling, Stages
    <2>3. r.pc = "statewrite" /\ r.kind = h.kind /\ r.id = h.id /\ r.made = h.made
      BY <2>1 DEF Calling
    <2>4. r.held = h.held /\ r.alone = h.alone
      BY <2>1 DEF Calling
    <2> QED
      BY <1>3, <1>5, <1>7, <2>1, <2>2, <2>3, <2>4
  <1> QED
    BY <1>2, <1>6, <1>7 DEF SaveDraft, ReadRow

\* The row a PUT writes back is the one there is.
LEMMA RowWrittenBack ==
    ASSUME TreeInv, NEW o \in Ops, WriteRow(o)
    PROVE  nodes' = nodes
  <1>1. op[o].kind # "idle" /\ op[o].pc = "statewrite"
    BY DEF WriteRow, At
  <1>2. PICK h \in Calling : h = op[o] /\ Sound(h)
    BY <1>1, InHand
  <1>3. h.copy = nodes[h.id] /\ h.id \in Ids
    BY <1>1, <1>2, KindsApart
       DEF Sound, Making, Changing, Removing, Calling, SavePc, Live
  <1>4. nodes' = [nodes EXCEPT ![h.id] = h.copy]
    BY <1>2 DEF WriteRow
  <1> QED
    BY <1>1, <1>3, <1>4, InHand DEF RowsOK

LEMMA GuardFindForUpdate ==
    ASSUME GuardInv, TreeInv', NEW o \in Ops, FindForUpdate(o)
    PROVE  GuardInv'
  <1>1. /\ op[o].kind # "idle" /\ op[o].pc = "find" /\ op[o].kind \in Updates
        /\ UNCHANGED <<nodes, used, nodeSessions, kbNodes, conn>>
    BY DEF FindForUpdate, At, rows, registry
  <1>2. CASE Done(o)
    BY <1>1, <1>2, GuardDone
  <1>3. PICK h \in Calling : h = op[o] /\ Careful(h) /\ Sound(h)
    BY <1>1, GuardHand
  <1>4. /\ h.id \in Live /\ h.id \in Ids /\ nodes[h.id] \in Row
        /\ h.kind = "rename" => h.parent = nodes[h.id].parent
        /\ h.kind = "move" => h.name = nodes[h.id].name
    BY <1>1, <1>3 DEF Sound, Changing, Live, GuardInv, TreeInv, RowsOK
  <1>5. h.kind \in {"move", "rename", "davmove"} /\ h.seen = {}
    BY <1>1, <1>3 DEF Careful, Updates
  <1>6. ASSUME NEW pc \in {"collect", "save"},
               pc = "save" => ~ TouchesSubtree(o, nodes[h.id]),
               Becomes(o, [op[o] EXCEPT !.copy = nodes[op[o].id], !.todo = {op[o].id}, !.pc = pc])
        PROVE  GuardInv'
    <2>1. PICK r : r = [h EXCEPT !.copy = nodes[h.id], !.todo = {h.id}, !.pc = pc]
      OBVIOUS
    <2>2. r \in Calling
      BY <1>4, <2>1 DEF Calling, Stages
    <2>3. r.pc = pc /\ r.copy = nodes[h.id] /\ r.todo = {h.id} /\ r.kind = h.kind
      BY <2>1 DEF Calling
    <2>4. r.id = h.id /\ r.made = h.made /\ r.parent = h.parent /\ r.name = h.name
      BY <2>1 DEF Calling
    <2>5. r.seen = {} /\ r.held = h.held /\ r.alone = h.alone
      BY <1>5, <2>1 DEF Calling
    <2>6. Collecting(r)
      BY <2>3, <2>4, <2>5 DEF Collecting
    <2>7. pc = "save" /\ r.kind # "davmove" => r.parent = r.copy.parent /\ r.name = r.copy.name
      BY <1>3, <1>4, <1>5, <1>6, <2>3, <2>4 DEF TouchesSubtree
    <2>8. r.kind = "davmove" => Clear(r.id, r) /\ Sibling(r.parent, r.name) \subseteq {r.id}
      BY <1>1, <1>3, <2>3, <2>4, <2>5 DEF Careful, Clear
    <2>9. ~ Sprouts(r)
      BY <1>1, <1>3, <1>5, <2>3, <2>4 DEF Sound, Changing, Sprouts
    <2>10. Careful(r)
      BY <1>5, <2>3, <2>5, <2>6, <2>7, <2>8, <2>9 DEF Careful, WalkPc
    <2> QED
      BY <1>1, <1>3, <1>6, <2>1, <2>2, <2>5, <2>10, GuardQuiet
  <1>7. nodes[op[o].id] # Gone => \E pc \in {"collect", "save"} :
            /\ pc = "save" => ~ TouchesSubtree(o, nodes[op[o].id])
            /\ Becomes(o, [op[o] EXCEPT !.copy = nodes[op[o].id], !.todo = {op[o].id}, !.pc = pc])
    BY DEF FindForUpdate
  <1> QED
    BY <1>2, <1>3, <1>4, <1>6, <1>7 DEF Live

\* When nothing is left to read, all of the subtree has been collected.
LEMMA Collected ==
    ASSUME NEW r, r.id \in Ids, Collecting(r), r.seen \in SUBSET Ids, r.todo \in SUBSET Ids,
           NEW n \in r.todo, (r.todo \ {n}) \cup Children(n) = {}
    PROVE  Subtree(r.id) \subseteq r.seen \cup r.todo
  <1>1. r.todo = {n} /\ Children(n) = {} /\ r.id \in r.seen \cup {n}
    BY DEF Collecting
  <1>2. HoldsChildren(r.seen \cup {n})
    <2> SUFFICES ASSUME NEW m \in Live \ (r.seen \cup {n}), nodes[m].parent \in r.seen \cup {n}
                 PROVE  FALSE
      BY DEF HoldsChildren
    <2>1. m \in Children(nodes[m].parent)
      BY DEF Children
    <2> QED
      BY <1>1, <2>1 DEF Collecting
  <1> QED
    BY <1>1, <1>2, SubtreeLeast

LEMMA GuardCollect ==
    ASSUME GuardInv, TreeInv', NEW o \in Ops, Collect(o)
    PROVE  GuardInv'
  <1>1. /\ op[o].kind # "idle" /\ op[o].pc = "collect"
        /\ UNCHANGED <<nodes, used, nodeSessions, kbNodes, conn>>
    BY DEF Collect, At, rows, registry
  <1>2. CASE Fails(o)
    BY <1>1, <1>2, GuardFails
  <1>3. PICK h \in Calling : h = op[o] /\ Careful(h) /\ Sound(h) /\ h.held \subseteq Edited
    BY <1>1, GuardHand
  <1>4. /\ h.kind \in Updates \cup Removals /\ h.id \in Ids
        /\ h.kind \in Updates => ~ Sprouts(h)
        /\ h.kind \in Removals => h.stack = <<>>
    BY <1>1, <1>3, KindsApart
       DEF Sound, Making, Changing, Removing, Calling, SavePc, WalkPc, Live, Sprouts, Removals
  <1>5. ASSUME NEW n \in h.todo, NEW seen, seen = h.seen \cup {n},
               NEW todo, todo = (h.todo \ {n}) \cup Children(n),
               Becomes(o, [op[o] EXCEPT !.seen = seen, !.todo = todo])
        PROVE  GuardInv'
    <2>1. PICK r : r = [h EXCEPT !.seen = seen, !.todo = todo]
      OBVIOUS
    <2>2. seen \in SUBSET Ids /\ todo \in SUBSET Ids
      BY <1>5 DEF Calling, Children, Live
    <2>3. r \in Calling
      BY <2>1, <2>2 DEF Calling
    <2>4. r.seen = seen /\ r.todo = todo /\ r.pc = "collect" /\ r.kind = h.kind /\ r.id = h.id
      BY <1>1, <1>3, <2>1 DEF Calling
    <2>5. r.made = h.made /\ r.parent = h.parent /\ r.name = h.name
      BY <2>1 DEF Calling
    <2>6. r.held = h.held /\ r.alone = h.alone
      BY <2>1 DEF Calling
    <2>7. Collecting(h) => Collecting(r)
      BY <1>5, <2>4 DEF Collecting
    <2>8. r.kind = "davmove" => Clear(r.id, r) /\ Sibling(r.parent, r.name) \subseteq {r.id}
      BY <1>1, <1>3, <2>4, <2>5, <2>6 DEF Careful, Clear
    <2>9. Sprouts(r) => r.id \notin r.held
      BY <1>3, <2>4, <2>5, <2>6 DEF Careful, Sprouts
    <2>10. Careful(r)
      BY <1>1, <1>3, <2>4, <2>7, <2>8, <2>9 DEF Careful, WalkPc
    <2> QED
      BY <1>1, <1>3, <1>5, <2>1, <2>3, <2>6, <2>10, GuardQuiet
  <1>6. ASSUME NEW n \in h.todo, (h.todo \ {n}) \cup Children(n) = {}, ~ SessionInside(o),
               Becomes(o, [op[o] EXCEPT !.pc = AfterCollect(o), !.seen = {}, !.todo = {}])
        PROVE  GuardInv'
    <2>1. PICK r : r = [h EXCEPT !.pc = AfterCollect(o), !.seen = {}, !.todo = {}]
      OBVIOUS
    <2>2. AfterCollect(o) = (IF h.kind \in Updates THEN "save" ELSE "walk")
      BY <1>3 DEF AfterCollect
    <2>3. r \in Calling
      BY <2>1, <2>2 DEF Calling, Stages
    <2>4. r.seen = {} /\ r.pc = (IF h.kind \in Updates THEN "save" ELSE "walk")
      BY <2>1, <2>2 DEF Calling
    <2>5. r.kind = h.kind /\ r.id = h.id /\ r.made = h.made /\ r.parent = h.parent
      BY <2>1 DEF Calling
    <2>6. r.name = h.name /\ r.stack = h.stack /\ r.held = h.held /\ r.alone = h.alone
      BY <2>1 DEF Calling
    <2>7. h.kind \in Lonely => Clear(r.id, r)
      <3> SUFFICES ASSUME h.kind \in Lonely PROVE Clear(r.id, r)
        OBVIOUS
      <3>1. Collecting(h) /\ h.seen \in SUBSET Ids /\ h.todo \in SUBSET Ids
        BY <1>1, <1>3 DEF Careful, Calling
      <3>2. Subtree(h.id) \subseteq h.seen \cup h.todo
        BY <1>4, <1>6, <3>1, Collected
      <3>3. (h.seen \cup h.todo) \cap Edited = {}
        BY <1>3, <1>6 DEF SessionInside, Edited
      <3> QED
        BY <1>3, <2>5, <2>6, <3>2, <3>3 DEF Clear
    <2>8. h.kind \in Removals /\ h.kind \in Lonely => Clearing(r)
      BY <1>4, <2>6, <2>7 DEF Clearing
    <2>9. r.kind = "davmove" => Sibling(r.parent, r.name) \subseteq {r.id}
      BY <1>1, <1>3, <2>5, <2>6 DEF Careful
    <2>10. Sprouts(r) => r.id \notin r.held
      BY <1>3, <2>5, <2>6 DEF Careful, Sprouts
    <2>11. Updates \subseteq Lonely /\ "davmove" \in Updates
      BY DEF Lonely, Updates
    <2>12. CASE h.kind \in Updates
      <3>1. r.pc = "save" /\ r.kind \in Updates
        BY <2>4, <2>5, <2>12
      <3>2. r.kind # "patch" /\ r.kind \notin {"mkcol", "put"}
        BY <1>3, <2>5, <2>12 DEF Careful, Updates
      <3>3. Careful(r)
        BY <2>4, <2>5, <2>7, <2>9, <2>10, <2>11, <2>12, <3>1, <3>2 DEF Careful, WalkPc
      <3> QED
        BY <1>1, <1>3, <1>6, <2>1, <2>3, <2>6, <3>3, GuardQuiet
    <2>13. CASE h.kind \in Removals
      <3>1. r.pc = "walk" /\ r.kind \in Removals /\ r.kind \notin Updates
        BY <2>4, <2>5, <2>13, KindsApart
      <3>2. r.kind # "patch" /\ r.kind \notin {"mkcol", "put", "davmove"}
        BY <2>5, <2>13 DEF Removals
      <3>3. r.kind \in Lonely => Clearing(r)
        BY <2>5, <2>8, <2>13
      <3>4. Careful(r)
        BY <2>10, <3>1, <3>2, <3>3 DEF Careful
      <3> QED
        BY <1>1, <1>3, <1>6, <2>1, <2>3, <2>6, <3>4, GuardQuiet
    <2> QED
      BY <1>4, <2>12, <2>13
  <1>7. PICK n \in op[o].todo :
            \/ Becomes(o, [op[o] EXCEPT !.seen = op[o].seen \cup {n},
                                        !.todo = (op[o].todo \ {n}) \cup Children(n)])
            \/ Fails(o)
            \/ /\ (op[o].todo \ {n}) \cup Children(n) = {} /\ ~ SessionInside(o)
               /\ Becomes(o, [op[o] EXCEPT !.pc = AfterCollect(o), !.seen = {}, !.todo = {}])
    BY Zenon DEF Collect
  <1>8. CASE Becomes(o, [op[o] EXCEPT !.seen = op[o].seen \cup {n},
                                      !.todo = (op[o].todo \ {n}) \cup Children(n)])
    BY Zenon, <1>3, <1>5, <1>7, <1>8
  <1>9. CASE /\ (op[o].todo \ {n}) \cup Children(n) = {} /\ ~ SessionInside(o)
             /\ Becomes(o, [op[o] EXCEPT !.pc = AfterCollect(o), !.seen = {}, !.todo = {}])
    BY Zenon, <1>3, <1>6, <1>7, <1>9
  <1> QED
    BY <1>2, <1>7, <1>8, <1>9

LEMMA GuardFindForRemove ==
    ASSUME GuardInv, TreeInv', NEW o \in Ops, FindForRemove(o)
    PROVE  GuardInv'
  <1>1. /\ op[o].kind # "idle" /\ op[o].pc = "find" /\ op[o].kind \in Removals
        /\ UNCHANGED <<nodes, used, nodeSessions, kbNodes, conn>>
    BY DEF FindForRemove, At, rows, registry
  <1>2. CASE Done(o)
    BY <1>1, <1>2, GuardDone
  <1>3. CASE Becomes(o, [op[o] EXCEPT !.pc = "collect", !.todo = {op[o].id}])
    <2>1. PICK h \in Calling : h = op[o] /\ Sound(h) /\ Careful(h)
      BY <1>1, GuardHand
    <2>2. PICK r : r = [h EXCEPT !.pc = "collect", !.todo = {h.id}]
      OBVIOUS
    <2>3. h.id \in Ids /\ h.seen = {}
      BY <1>1, <2>1 DEF Sound, Removing
    <2>4. r \in Calling
      BY <2>2, <2>3 DEF Calling, Stages
    <2>5. r.pc = "collect" /\ r.todo = {h.id} /\ r.seen = {} /\ r.kind = h.kind /\ r.id = h.id
      BY <2>2, <2>3 DEF Calling
    <2>6. r.made = h.made /\ r.held = h.held /\ r.alone = h.alone
      BY <2>2 DEF Calling
    <2>7. Collecting(r)
      BY <2>5 DEF Collecting
    <2>8. Sprouts(r) => r.id \notin r.held
      BY <2>1, <2>5, <2>6 DEF Careful, Sprouts
    <2>9. r.kind # "patch" /\ r.kind # "davmove"
      BY <1>1, <2>1, <2>5 DEF Removals
    <2>10. Careful(r)
      BY <2>5, <2>7, <2>8, <2>9 DEF Careful, WalkPc
    <2> QED
      BY <1>1, <1>3, <2>1, <2>2, <2>4, <2>6, <2>10, GuardQuiet
  <1> QED
    BY <1>2, <1>3 DEF FindForRemove

\* The walk of a removal.
LEMMA WalkRec ==
    ASSUME GuardInv, NEW o \in Ops, op[o].kind # "idle", op[o].pc \in WalkPc
    PROVE  /\ op[o] \in Calling /\ op[o].kind \in Removals
           /\ Sound(op[o]) /\ Careful(op[o]) /\ o \in InFlight
  BY GuardHand, KindsApart DEF Sound, Making, Changing, Calling, SavePc, WalkPc

LEMMA WalkCareful ==
    ASSUME NEW r \in Calling, r.kind \in Removals, r.pc \in WalkPc,
           r.kind \in Lonely => Clearing(r), Sprouts(r) => r.id \notin r.held,
           r.seen = {}
    PROVE  Careful(r)
  BY KindsApart DEF Careful, WalkPc, Removals, Updates

LEMMA ClearChild ==
    ASSUME NEW r, NEW n \in Ids, NEW m \in Children(n), Clear(n, r)
    PROVE  Clear(m, r)
  BY SubtreeOfChild DEF Clear

LEMMA GuardEnter ==
    ASSUME GuardInv, TreeInv', NEW o \in Ops, Enter(o)
    PROVE  GuardInv'
  <1>1. /\ op[o].kind # "idle" /\ op[o].pc = "walk"
        /\ UNCHANGED <<nodes, used, nodeSessions, kbNodes, conn>>
    BY DEF Enter, At, rows, registry
  <1>2. CASE Done(o)
    BY <1>1, <1>2, GuardDone
  <1>3. PICK h \in Calling : h = op[o] /\ h.kind \in Removals /\ Sound(h) /\ Careful(h)
    BY <1>1, WalkRec DEF WalkPc
  <1>4. /\ h.id \in Ids /\ h.seen = {}
        /\ h.kind \in Lonely => Clearing(h)
        /\ Sprouts(h) => h.id \notin h.held
    BY <1>1, <1>3 DEF Sound, Removing, Careful, WalkPc
  <1>5. ASSUME NEW t \in Seq(Frames),
               h.kind \in Lonely =>
                  /\ t # <<>>
                  /\ \A i \in 1..Len(t) : Clear(t[i].id, h) /\ \A n \in t[i].todo : Clear(n, h),
               Becomes(o, [op[o] EXCEPT !.stack = t])
        PROVE  GuardInv'
    <2>1. PICK r : r = [h EXCEPT !.stack = t]
      OBVIOUS
    <2>2. r \in Calling /\ r.stack = t
      BY <1>5, <2>1 DEF Calling
    <2>3. r.pc = "walk" /\ r.kind = h.kind /\ r.id = h.id /\ r.made = h.made
      BY <1>1, <1>3, <2>1 DEF Calling
    <2>4. r.seen = h.seen /\ r.held = h.held /\ r.alone = h.alone
      BY <2>1 DEF Calling
    <2>5. h.kind \in Lonely => Clearing(r)
      BY <1>5, <2>2, <2>4 DEF Clearing, Clear
    <2>6. Careful(r)
      BY <1>3, <1>4, <2>2, <2>3, <2>4, <2>5, WalkCareful DEF Sprouts, WalkPc
    <2> QED
      BY <1>1, <1>3, <1>5, <2>1, <2>2, <2>4, <2>6, GuardQuiet
  <1>6. CASE h.stack = <<>> /\ Descend(o, h.id, <<>>) /\ ~ Done(o)
    <2>1. PICK t : t = <<[id |-> h.id, todo |-> Children(h.id)]>> \o <<>>
      OBVIOUS
    <2>2. Becomes(o, [op[o] EXCEPT !.stack = t])
      BY <1>6, <2>1 DEF Descend
    <2>3. PICK f : f = [id |-> h.id, todo |-> Children(h.id)]
      OBVIOUS
    <2>4. f \in Frames /\ f.id = h.id /\ f.todo = Children(h.id)
      BY <1>4, <2>3 DEF Frames, Children, Live
    <2>5. t \in Seq(Frames) /\ Len(t) = 1 /\ t[1] = f /\ t # <<>>
      BY <2>1, <2>3, <2>4
    <2>6. h.kind \in Lonely => Clear(h.id, h)
      BY <1>4, <1>6 DEF Clearing
    <2>7. h.kind \in Lonely =>
             \A i \in 1..Len(t) : Clear(t[i].id, h) /\ \A n \in t[i].todo : Clear(n, h)
      BY <1>4, <2>4, <2>5, <2>6, ClearChild
    <2> QED
      BY <1>5, <2>2, <2>5, <2>7
  <1>7. ASSUME h.stack # <<>>, NEW n \in Head(h.stack).todo, ~ Done(o),
               Descend(o, n, <<[Head(h.stack) EXCEPT !.todo = @ \ {n}]>> \o Tail(h.stack))
        PROVE  GuardInv'
    <2>1. PICK s : s = h.stack
      OBVIOUS
    <2>2. s \in Seq(Frames) /\ s # <<>>
      BY <1>7, <2>1 DEF Calling
    <2>3. Head(s) = s[1] /\ 1 \in 1..Len(s) /\ Len(s) \in Nat
      BY <2>2
    <2>4. n \in s[1].todo /\ n \in Ids /\ Children(n) \in SUBSET Ids
      BY <1>7, <2>1, <2>2, <2>3, FrameAt DEF Children, Live
    <2>5. PICK f : f = [id |-> n, todo |-> Children(n)]
      OBVIOUS
    <2>6. PICK g : g = [Head(s) EXCEPT !.todo = @ \ {n}]
      OBVIOUS
    <2>7. f \in Frames /\ f.id = n /\ f.todo = Children(n)
      BY <2>4, <2>5 DEF Frames
    <2>8. g \in Frames /\ g.id = s[1].id /\ g.todo = s[1].todo \ {n}
      <3>1. s[1] \in Frames
        BY <2>2, <2>3
      <3>2. g = [s[1] EXCEPT !.todo = @ \ {n}]
        BY <2>3, <2>6
      <3> QED
        BY <3>1, <3>2 DEF Frames
    <2>9. PICK t : t = <<f>> \o (<<g>> \o Tail(s))
      OBVIOUS
    <2>10. Becomes(o, [op[o] EXCEPT !.stack = t])
      BY <1>7, <2>1, <2>5, <2>6, <2>9 DEF Descend
    <2>11. /\ t \in Seq(Frames) /\ t # <<>> /\ Len(t) = Len(s) + 1
           /\ t[1] = f /\ t[2] = g /\ \A i \in 3..Len(t) : t[i] = s[i-1]
      BY <2>2, <2>7, <2>8, <2>9, PushFrame
    <2>12. ASSUME h.kind \in Lonely, NEW i \in 1..Len(t)
           PROVE  Clear(t[i].id, h) /\ \A m \in t[i].todo : Clear(m, h)
      <3>1. \A j \in 1..Len(s) : Clear(s[j].id, h) /\ \A m \in s[j].todo : Clear(m, h)
        BY <1>4, <2>1, <2>12 DEF Clearing
      <3>2. CASE i = 1
        BY <2>3, <2>4, <2>7, <2>11, <3>1, <3>2, ClearChild
      <3>3. CASE i = 2
        BY <2>3, <2>8, <2>11, <3>1, <3>3
      <3>4. CASE i > 2
        <4>1. t[i] = s[i-1] /\ i-1 \in 1..Len(s)
          BY <2>3, <2>11, <3>4
        <4> QED
          BY <3>1, <4>1
      <3> QED
        BY <2>3, <2>11, <3>2, <3>3, <3>4
    <2> QED
      BY <1>5, <2>10, <2>11, <2>12
  <1>8. Top(o) = Head(h.stack)
    BY <1>3 DEF Top
  <1> QED
    BY Zenon, <1>2, <1>3, <1>6, <1>7, <1>8 DEF Enter

LEMMA GuardGoing ==
    ASSUME GuardInv, TreeInv', NEW o \in Ops, RemoveContent(o) \/ RemoveDraft(o)
    PROVE  GuardInv'
  <1>1. /\ op[o].kind # "idle" /\ op[o].pc \in WalkPc
        /\ op[o].pc = "dropdraft" \/ op[o].stack # <<>>
        /\ UNCHANGED <<nodes, used, nodeSessions, kbNodes, conn>>
    BY DEF RemoveContent, RemoveDraft, At, registry, WalkPc
  <1>2. PICK h \in Calling : h = op[o] /\ h.kind \in Removals /\ Sound(h) /\ Careful(h)
    BY <1>1, WalkRec
  <1>3. /\ h.seen = {} /\ h.stack # <<>>
        /\ h.kind \in Lonely => Clearing(h)
        /\ Sprouts(h) => h.id \notin h.held
    BY <1>1, <1>2 DEF Sound, Removing, Careful, WalkPc
  <1>4. PICK pc \in {"dropdraft", "droprow"} : Goto(o, pc)
    BY DEF RemoveContent, RemoveDraft
  <1>5. CarefulAt(h, pc)
    <2> SUFFICES ASSUME NEW r \in Calling, Onward(h, pc, r)
                 PROVE  Careful(r)
      BY DEF CarefulAt
    <2>1. /\ r.pc = pc /\ r.kind = h.kind /\ r.id = h.id /\ r.made = h.made /\ r.seen = h.seen
          /\ r.stack = h.stack /\ r.held = h.held
      BY DEF Onward
    <2>2. h.kind \in Lonely => Clearing(r)
      BY <1>3, <2>1 DEF Clearing, Clear
    <2> QED
      BY <1>2, <1>3, <1>4, <2>1, <2>2, WalkCareful DEF Sprouts, WalkPc
  <1> QED
    BY <1>1, <1>2, <1>4, <1>5, GuardGoto DEF Stages

LEMMA GuardRemoveRow ==
    ASSUME GuardInv, TreeInv', NEW o \in Ops, RemoveRow(o)
    PROVE  GuardInv'
  <1>1. op[o].kind # "idle" /\ op[o].pc = "droprow" /\ UNCHANGED <<used, nodeSessions, kbNodes, conn>>
    BY DEF RemoveRow, At, registry
  <1>2. PICK h \in Calling : h = op[o] /\ h.kind \in Removals /\ Sound(h) /\ Careful(h)
    BY <1>1, WalkRec DEF WalkPc
  <1>3. /\ h.seen = {} /\ h.stack # <<>> /\ h.id \in Ids
        /\ h.kind \in Lonely => Clearing(h)
        /\ Sprouts(h) => h.id \notin h.held
    BY <1>1, <1>2 DEF Sound, Removing, Careful, WalkPc
  <1>4. PICK s \in Seq(Frames) : s = h.stack
    BY DEF Calling
  <1>5. s # <<>> /\ Tail(s) \in Seq(Frames)
    BY <1>3, <1>4
  <1>6. PICK below \in Seq(Frames) : below = Tail(s)
    BY <1>5
  <1>7. Len(below) = Len(s) - 1 /\ Len(s) \in Nat /\ \A i \in 1..Len(below) : below[i] = s[i+1]
    BY <1>5, <1>6
  <1>8. PICK pc : pc = IF below # <<>> THEN "walk"
                       ELSE IF h.kind = "dropkb" THEN "kbroots" ELSE "stats"
    OBVIOUS
  <1>9. PICK r : r = [h EXCEPT !.stack = below, !.pc = pc]
    OBVIOUS
  <1>10. Becomes(o, r)
    BY <1>2, <1>4, <1>6, <1>8, <1>9 DEF RemoveRow, Return
  <1>11. r \in Calling
    <2>1. pc \in Stages
      BY <1>8 DEF Stages
    <2> QED
      BY <1>9, <2>1 DEF Calling
  <1>12. r.stack = below /\ r.pc = pc /\ r.kind = h.kind /\ r.id = h.id /\ r.made = h.made
    BY <1>9 DEF Calling
  <1>13. r.seen = {} /\ r.held = h.held /\ r.alone = h.alone
    BY <1>3, <1>9 DEF Calling
  <1>14. Live' \subseteq Live /\ \A m \in Live' : nodes'[m] = nodes[m]
    BY DEF RemoveRow, GuardInv, TreeInv, RowsOK, Live
  <1>15. \A n \in Ids : Clear(n, h) => Clear(n, r)'
    BY <1>13, <1>14, SubtreeShrinks DEF Clear
  <1>16. below # <<>> /\ h.kind \in Lonely => Clearing(r)'
    <2> SUFFICES ASSUME below # <<>>, h.kind \in Lonely, NEW i \in 1..Len(below)
                 PROVE  (/\ Clear(below[i].id, r) /\ \A n \in below[i].todo : Clear(n, r))'
      BY <1>12 DEF Clearing
    <2>1. below[i] = s[i+1] /\ i+1 \in 1..Len(s)
      BY <1>7
    <2>2. Clear(s[i+1].id, h) /\ \A n \in s[i+1].todo : Clear(n, h)
      BY <1>3, <1>4, <2>1 DEF Clearing
    <2>3. s[i+1].id \in Ids /\ s[i+1].todo \in SUBSET Ids
      BY <2>1, FrameAt
    <2> QED
      BY <1>15, <2>1, <2>2, <2>3
  <1>17. Sprouts(r) => r.id \notin r.held
    BY <1>3, <1>12, <1>13 DEF Sprouts
  <1>18. Careful(r)'
    <2>1. r.kind \in Removals /\ r.kind \notin Updates
          /\ r.kind \notin {"patch", "davmove", "mkcol", "put"}
      BY <1>2, <1>12, KindsApart DEF Removals
    <2>2. r.pc \in WalkPc => below # <<>>
      BY <1>8, <1>12 DEF WalkPc
    <2>3. r.pc # "collect"
      BY <1>8, <1>12
    <2> QED
      BY <1>12, <1>16, <1>17, <2>1, <2>2, <2>3 DEF Careful
  <1> QED
    BY <1>1, <1>2, <1>10, <1>11, <1>13, <1>18, GuardStep

\* The statistics, and the removal of a base between its nodes.
LEMMA GuardBase ==
    ASSUME GuardInv, TreeInv', NEW o \in Ops,
           \/ ReadBase(o) \/ SaveBase(o) \/ FindBase(o) \/ ReadNodes(o)
           \/ RemoveBaseContent(o) \/ RemoveBase(o)
    PROVE  GuardInv'
  <1>1. /\ op[o].kind # "idle" /\ op[o].pc \in EasyPc /\ op[o].pc \notin SavePc
        /\ op[o].pc \notin {"check", "snapshot"}
        /\ UNCHANGED <<nodes, used, nodeSessions, kbNodes, conn>>
    BY DEF ReadBase, SaveBase, FindBase, ReadNodes, RemoveBaseContent, RemoveBase, At, rows,
       registry, EasyPc, SavePc
  <1>2. CASE Done(o)
    BY <1>1, <1>2, GuardDone
  <1>3. PICK h \in Calling : h = op[o] /\ Sound(h) /\ Careful(h)
    BY <1>1, GuardHand
  <1>4. h.kind \in Removals /\ h.seen = {}
    BY <1>1, <1>3, KindsApart DEF Sound, Making, Changing, Removing, Calling, SavePc, EasyPc
  <1>5. ASSUME NEW r \in Calling, Becomes(o, r), r.pc \in EasyPc, r.kind = h.kind, r.id = h.id,
               r.made = h.made, r.seen = h.seen, r.held = h.held, r.alone = h.alone
        PROVE  GuardInv'
    <2>1. r.kind # "davmove"
      BY <1>4, <1>5 DEF Removals
    <2>2. Careful(r)
      BY <1>3, <1>4, <1>5, <2>1, EasyPlace DEF Careful, Sprouts
    <2> QED
      BY <1>1, <1>3, <1>5, <2>2, GuardQuiet
  <1>6. ASSUME NEW pc \in {"statswrite", "kbnodes", "kbroots"}, Goto(o, pc)
        PROVE  GuardInv'
    <2>1. PICK r : r = [h EXCEPT !.pc = pc]
      OBVIOUS
    <2>2. /\ r \in Calling /\ r.pc = pc /\ r.kind = h.kind /\ r.id = h.id /\ r.made = h.made
          /\ r.seen = h.seen /\ r.held = h.held /\ r.alone = h.alone
      BY <2>1, Moved DEF Stages
    <2>3. Becomes(o, r)
      BY <1>3, <1>6, <2>1 DEF Goto
    <2> QED
      BY <1>5, <2>2, <2>3 DEF EasyPc
  <1>7. CASE ReadNodes(o)
    <2>1. PICK roots : roots = {n \in Live : nodes[n].parent \notin Live}
      OBVIOUS
    <2>2. PICK r : r = [h EXCEPT !.pc = "kbcontent", !.roots = roots]
      OBVIOUS
    <2>3. roots \in SUBSET Ids
      BY <2>1 DEF Live
    <2>4. r \in Calling
      BY <2>2, <2>3 DEF Calling, Stages
    <2>5. r.pc = "kbcontent" /\ r.kind = h.kind /\ r.id = h.id /\ r.made = h.made
      BY <2>2 DEF Calling
    <2>6. r.seen = h.seen /\ r.held = h.held /\ r.alone = h.alone
      BY <2>2 DEF Calling
    <2>7. Becomes(o, r)
      BY <1>3, <1>7, <2>1, <2>2 DEF ReadNodes
    <2> QED
      BY <1>5, <2>4, <2>5, <2>6, <2>7 DEF EasyPc
  <1> QED
    BY <1>2, <1>6, <1>7 DEF ReadBase, SaveBase, FindBase, RemoveBaseContent, RemoveBase

LEMMA GuardNextRoot ==
    ASSUME GuardInv, TreeInv', NEW o \in Ops, NextRoot(o)
    PROVE  GuardInv'
  <1>1. /\ op[o].kind # "idle" /\ op[o].pc = "kbroots"
        /\ UNCHANGED <<nodes, used, nodeSessions, kbNodes, conn>>
    BY DEF NextRoot, At, rows, registry
  <1>2. PICK h \in Calling : h = op[o] /\ Sound(h) /\ Careful(h)
    BY <1>1, GuardHand
  <1>3. h.kind = "dropkb" /\ h.made = FALSE
    BY <1>1, <1>2, KindsApart DEF Sound, Making, Changing, Removing, Calling, SavePc
  <1>4. PICK n \in op[o].roots :
            Becomes(o, [op[o] EXCEPT !.pc = "find", !.id = n, !.roots = @ \ {n}])
    BY Zenon DEF NextRoot
  <1>5. PICK r : r = [h EXCEPT !.pc = "find", !.id = n, !.roots = @ \ {n}]
    OBVIOUS
  <1>6. n \in Ids
    BY <1>2, <1>4 DEF Calling
  <1>7. r \in Calling
    BY <1>5, <1>6 DEF Calling, Stages
  <1>8. r.pc = "find" /\ r.kind = "dropkb" /\ r.made = FALSE
    BY <1>3, <1>5 DEF Calling
  <1>9. r.held = h.held /\ r.alone = h.alone
    BY <1>5 DEF Calling
  <1>10. Careful(r)
    BY <1>8 DEF Careful, Sprouts, Updates, WalkPc
  <1> QED
    BY <1>1, <1>2, <1>4, <1>5, <1>7, <1>9, <1>10, GuardQuiet

\* A move or a rename writes its node and is done.
LEMMA GuardSave ==
    ASSUME GuardInv, TreeInv', NEW o \in Ops, Save(o)
    PROVE  GuardInv'
  <1>1. /\ op[o].kind # "idle" /\ Done(o)
        /\ UNCHANGED <<used, nodeSessions, kbNodes, conn>>
    BY DEF Save, At, registry
  <1> QED
    BY <1>1, GuardStep DEF Done

LEMMA GuardHandle ==
    ASSUME GuardInv, TreeInv', NEW o \in Ops, Handle(o)
    PROVE  GuardInv'
  <1>1. CASE Throws(o)
    BY <1>1, GuardFails DEF Throws, rows, registry
  <1>2. CASE WriteRow(o)
    <2>1. nodes' = nodes
      BY <1>2, RowWrittenBack DEF GuardInv
    <2>2. op[o].kind # "idle" /\ Done(o) /\ UNCHANGED <<used, nodeSessions, kbNodes, conn>>
      BY <1>2 DEF WriteRow, At, registry
    <2> QED
      BY <2>1, <2>2, GuardDone
  <1> QED
    BY <1>1, <1>2, GuardCheck, GuardDecide, GuardPut, GuardInsert, GuardSaving,
       GuardFindForUpdate, GuardSave, GuardCollect, GuardFindForRemove, GuardEnter,
       GuardGoing, GuardRemoveRow, GuardBase, GuardNextRoot DEF Handle

(***************************************************************************)
(* Calls, sessions and restarts.                                           *)
(***************************************************************************)
\* The same handlers in flight, or fewer, with no more held or alone than before.
LEMMA GuardAround ==
    ASSUME GuardInv, TreeInv', RegistryInv', ConnIds', UNCHANGED nodes, Held', Alone',
           NEW new, new \subseteq InFlight' \ InFlight,
           \A q \in new : Careful(op[q])',
           \A q \in Ops : \/ q \in new \/ op'[q] = Idle
                          \/ /\ q \in InFlight /\ op'[q] \in Calling /\ SameHand(op[q], op'[q])
                             /\ op'[q].held \subseteq op[q].held
                             /\ op'[q].alone = TRUE => op[q].alone = TRUE
    PROVE  GuardInv'
  <1>1. ASSUME NEW q \in InFlight' PROVE Careful(op[q])'
    <2>1. CASE q \in new
      BY <2>1
    <2>2. CASE q \notin new
      <3>1. /\ q \in Ops /\ q \in InFlight /\ op'[q] \in Calling /\ SameHand(op[q], op'[q])
            /\ op'[q].held \subseteq op[q].held
            /\ op'[q].alone = TRUE => op[q].alone = TRUE
        BY <1>1, <2>2 DEF InFlight, Idle
      <3>2. PICK h \in Calling : h = op[q] /\ Careful(h)
        BY <3>1, HandlerRec DEF GuardInv, TreeInv, InFlight
      <3>3. PICK r \in Calling : r = op'[q]
        BY <3>1
      <3>4. Careful(r)'
        BY <3>1, <3>2, <3>3, CarefulStays
      <3> QED
        BY <3>3, <3>4
    <2> QED
      BY <2>1, <2>2
  <1> QED
    BY <1>1 DEF GuardInv

LEMMA GuardNoneNew ==
    ASSUME GuardInv, TreeInv', RegistryInv', ConnIds', UNCHANGED nodes, Held', Alone',
           \A q \in Ops : \/ op'[q] = Idle
                          \/ /\ q \in InFlight /\ op'[q] \in Calling /\ SameHand(op[q], op'[q])
                             /\ op'[q].held \subseteq op[q].held
                             /\ op'[q].alone = TRUE => op[q].alone = TRUE
    PROVE  GuardInv'
  <1>1. PICK new : new = {}
    OBVIOUS
  <1>2. new \subseteq InFlight' \ InFlight
    BY <1>1
  <1>3. \A q \in new : Careful(op[q])'
    BY <1>1
  <1> QED
    BY <1>2, <1>3, GuardAround

\* While no handler starts or goes on.
LEMMA GuardStill ==
    ASSUME GuardInv, TreeInv', RegistryInv', ConnIds', UNCHANGED nodes, op' = op,
           Edited \subseteq Edited'
    PROVE  GuardInv'
  <1>1. InFlight' = InFlight /\ Held' /\ Alone'
    BY DEF InFlight, GuardInv, Held, Alone
  <1>2. \A q \in Ops : \/ op'[q] = Idle
                       \/ /\ q \in InFlight /\ op'[q] \in Calling /\ SameHand(op[q], op'[q])
                          /\ op'[q].held \subseteq op[q].held
                          /\ op'[q].alone = TRUE => op[q].alone = TRUE
    BY KindsApart DEF GuardInv, TreeInv, OpOK, InFlight, SameHand, Idle, Calling
  <1> QED
    BY <1>1, <1>2, GuardNoneNew

LEMMA GuardSession ==
    ASSUME GuardInv, TreeInv', RegistryInv', NEW c \in Conns, Session(c)
    PROVE  GuardInv'
  <1>0. RegistryInv /\ ConnIds /\ TreeInv /\ Held /\ Alone /\ conn[c] \in ConnRec
    BY DEF GuardInv, RegistryInv
  <1>1. UNCHANGED <<nodes, used>>
    BY DEF Session, Authenticate, Load, Register, Disconnect, rows
  <1>2. CASE Authenticate(c)
    <2>1. PICK n \in Live : conn' = [conn EXCEPT ![c] = [pc |-> "loading", id |-> n]]
      BY <1>2 DEF Authenticate
    <2>2. ConnIds'
      BY <1>0, <1>1, <2>1 DEF ConnIds, TreeInv, RegistryInv
    <2>3. op' = op /\ Edited' = Edited
      BY <1>2 DEF Authenticate, registry, Edited, HasSession
    <2> QED
      BY <1>1, <2>2, <2>3, GuardStill
  <1>3. CASE Load(c)
    <2>1. /\ conn[c].pc = "loading" /\ \/ conn' = [conn EXCEPT ![c] = [@ EXCEPT !.pc = "loaded"]]
                                       \/ conn' = [conn EXCEPT ![c] = Closed]
      BY <1>3 DEF Load
    <2>2. conn[c] \in [pc : {"loading", "loaded", "open"}, id : Ids]
      BY <1>0, <2>1 DEF ConnRec, Closed
    <2>3. [conn[c] EXCEPT !.pc = "loaded"].id = conn[c].id /\ conn[c].id \in used
      BY <1>0, <2>1, <2>2 DEF ConnIds
    <2>4. ConnIds'
      <3>0. PICK r \in {[conn[c] EXCEPT !.pc = "loaded"], Closed} : conn' = [conn EXCEPT ![c] = r]
        BY <1>3 DEF Load, RegistryInv
      <3>1. conn'[c].id = conn[c].id \/ conn'[c].pc = "closed"
        <4>1. conn'[c] = r
          BY <1>0, <3>0 DEF RegistryInv
        <4>2. r = Closed => r.pc = "closed"
          BY DEF Closed
        <4> QED
          BY Zenon, <2>3, <3>0, <4>1, <4>2
      <3>2. \A d \in Conns : d # c => conn'[d] = conn[d]
        BY <1>0, <3>0 DEF RegistryInv
      <3> QED
        BY <1>0, <1>1, <2>3, <3>1, <3>2 DEF ConnIds
    <2>5. op' = op /\ Edited' = Edited
      BY <1>3 DEF Load, registry, Edited, HasSession
    <2> QED
      BY <1>1, <2>4, <2>5, GuardStill
  <1>4. CASE Register(c)
    <2>1. /\ conn[c].pc = "loaded" /\ conn' = [conn EXCEPT ![c].pc = "open"] /\ op' = op
          /\ nodeSessions' = [nodeSessions EXCEPT ![conn[c].id] =
                {s \in @ : s.conn # c} \cup {[conn |-> c, mode |-> ModeOf[c]]}]
      BY <1>4 DEF Register
    <2>2. conn[c] \in [pc : {"loading", "loaded", "open"}, id : Ids]
      BY <1>0, <2>1 DEF ConnRec, Closed
    <2>3. [conn[c] EXCEPT !.pc = "open"].id = conn[c].id /\ conn[c].id \in used /\ conn[c].id \in Ids
      BY <1>0, <2>1, <2>2 DEF ConnIds
    <2>4. ConnIds'
      BY <1>0, <1>1, <2>1, <2>3 DEF ConnIds, RegistryInv
    <2>5. Edited \subseteq Edited'
      BY <1>0, <2>1, <2>3 DEF Edited, HasSession, RegistryInv
    <2> QED
      BY <1>1, <2>1, <2>4, <2>5, GuardStill
  <1>5. CASE Disconnect(c)
    <2>1. /\ conn[c].pc # "closed" /\ conn' = [conn EXCEPT ![c] = Closed]
      BY <1>5 DEF Disconnect
    <2>2. ConnIds'
      BY <1>0, <1>1, <2>1 DEF ConnIds, RegistryInv, Closed
    <2>3. PICK n : n = conn[c].id
      OBVIOUS
    <2>4. PICK left : left = {s \in nodeSessions[n] : s.conn # c}
      OBVIOUS
    <2>5. conn[c] \in [pc : {"loading", "loaded", "open"}, id : Ids] /\ n \in Ids
      BY <1>0, <2>1, <2>3 DEF ConnRec, Closed
    <2>6. CASE conn[c].pc # "open"
      <3>1. op' = op /\ Edited' = Edited
        BY <1>5, <2>6 DEF Disconnect, registry, Edited, HasSession
      <3> QED
        BY <1>1, <2>2, <3>1, GuardStill
    <2>7. CASE conn[c].pc = "open" /\ left # {}
      <3>1. op' = op /\ nodeSessions' = [nodeSessions EXCEPT ![n] = left]
        BY <1>5, <2>3, <2>4, <2>7 DEF Disconnect
      <3>2. Edited \subseteq Edited'
        BY <1>0, <2>5, <2>7, <3>1 DEF Edited, HasSession, RegistryInv
      <3> QED
        BY <1>1, <2>2, <3>1, <3>2, GuardStill
    <2>8. CASE conn[c].pc = "open" /\ left = {}
      <3>1. Released(n) /\ nodeSessions' = [nodeSessions EXCEPT ![n] = left]
        BY <1>5, <2>3, <2>4, <2>8 DEF Disconnect
      <3>2. Edited' = Edited \ {n}
        BY <1>0, <2>5, <2>8, <3>1 DEF Edited, HasSession, RegistryInv
      <3>3. ASSUME NEW q \in Ops
            PROVE  \/ op'[q] = Idle
                   \/ /\ q \in InFlight /\ op'[q] \in Calling /\ SameHand(op[q], op'[q])
                      /\ op'[q].held = op[q].held \ {n} /\ op'[q].alone = op[q].alone
        <4>1. CASE op[q].kind = "idle"
          BY <3>1, <4>1 DEF Released
        <4>2. CASE op[q].kind # "idle"
          <5>1. PICK h \in Calling : h = op[q] /\ q \in InFlight
            BY <1>0, <4>2, InHand
          <5>2. PICK S \in SUBSET Ids : S = {n}
            BY <2>5
          <5>3. PICK r : r = [h EXCEPT !.held = @ \ S]
            OBVIOUS
          <5>4. op'[q] = r
            BY <3>1, <4>2, <5>1, <5>2, <5>3 DEF Released
          <5>5. r.held = h.held \ S /\ r.alone = h.alone
            BY <5>3 DEF Calling
          <5> QED
            BY <5>1, <5>2, <5>3, <5>4, <5>5, Unmarked
        <4> QED
          BY <4>1, <4>2
      <3>4. \A q \in InFlight' : /\ q \in InFlight /\ op'[q].held = op[q].held \ {n}
                                 /\ op'[q].alone = op[q].alone
        BY <3>3 DEF InFlight, Idle
      <3>5. InFlight' = InFlight
        <4>1. \A q \in InFlight : op'[q] # Idle
          BY <3>1 DEF Released, InFlight, Idle
        <4>2. \A q \in InFlight : q \in InFlight'
          BY <3>3, <4>1, KindsApart DEF InFlight, Calling
        <4> QED
          BY <3>4, <4>2
      <3>6. Held' /\ Alone'
        BY <1>0, <3>2, <3>4, <3>5 DEF Held, Alone
      <3> QED
        BY <1>1, <2>2, <3>3, <3>6, GuardNoneNew
    <2> QED
      BY <2>6, <2>7, <2>8
  <1> QED
    BY <1>2, <1>3, <1>4, <1>5 DEF Session

LEMMA GuardRestart ==
    ASSUME GuardInv, TreeInv', RegistryInv', Restart
    PROVE  GuardInv'
  <1>1. /\ UNCHANGED nodes /\ op' = [o \in Ops |-> Idle] /\ conn' = [c \in Conns |-> Closed]
    BY DEF Restart, rows
  <1>2. InFlight' = {} /\ ConnIds'
    BY <1>1 DEF InFlight, Idle, ConnIds, Closed
  <1> QED
    BY <1>1, <1>2 DEF GuardInv, Held, Alone

LEMMA GuardCall ==
    ASSUME GuardInv, TreeInv', RegistryInv', NEW o \in Ops, NEW k \in Handlers,
           NEW n \in Ids \cup {Root}, NEW p \in Ids \cup {Root}, NEW x \in Names,
           Call(o, k, n, p, x), k \notin {"patch", "cleanup"}
    PROVE  GuardInv'
  <1>1. /\ op[o].kind = "idle" /\ UNCHANGED <<nodes, used, nodeSessions, conn>>
    BY DEF Call, rows, registry
  <1>2. PICK r : r = [kind |-> k, pc |-> Entry(k), id |-> n, parent |-> p, name |-> x, made |-> FALSE,
              copy |-> Gone, seen |-> {}, todo |-> {}, stack |-> <<>>, roots |-> {},
              held |-> Edited, alone |-> InFlight = {}]
    OBVIOUS
  <1>3. op' = [q \in Ops |-> IF q = o THEN r
                             ELSE IF op[q].kind = "idle" THEN Idle ELSE [op[q] EXCEPT !.alone = FALSE]]
    BY Zenon, <1>2 DEF Call
  <1>4. Entry(k) \in {"check", "snapshot", "kbfind"} /\ (k = "davmove" => Entry(k) = "snapshot")
    BY DEF Entry
  <1>5. r \in Calling
    <2>1. Entry(k) \in Stages /\ Edited \in SUBSET Ids
          /\ (InFlight = {}) \in BOOLEAN /\ <<>> \in Seq(Frames)
      BY <1>4 DEF Stages, Edited
    <2> QED
      BY <1>2, <2>1 DEF Calling
  <1>6. /\ r.kind = k /\ r.pc = Entry(k) /\ r.made = FALSE /\ r.seen = {}
        /\ r.held = Edited /\ (r.alone = TRUE => InFlight = {})
    BY <1>2
  <1>7. Careful(r)
    BY <1>4, <1>5, <1>6, EasyPlace DEF EasyPc, Sprouts
  <1>8. Careful(r)' /\ op'[o] = r /\ Edited' = Edited
    BY <1>1, <1>3, <1>5, <1>7, CarefulStays DEF SameHand, Edited, HasSession
  <1>9. o \notin InFlight /\ o \in InFlight'
    BY <1>1, <1>6, <1>8, KindsApart DEF InFlight
  <1>10. ASSUME NEW q \in Ops, q # o
         PROVE  \/ op'[q] = Idle
                \/ /\ q \in InFlight /\ op'[q] \in Calling /\ SameHand(op[q], op'[q])
                   /\ op'[q].held = op[q].held /\ op'[q].alone = FALSE
    <2>1. CASE op[q].kind = "idle"
      BY <1>3, <1>10, <2>1
    <2>2. CASE op[q].kind # "idle"
      <3>1. PICK h \in Calling : h = op[q] /\ q \in InFlight
        BY <2>2, InHand DEF GuardInv
      <3>2. PICK g : g = [h EXCEPT !.alone = FALSE]
        OBVIOUS
      <3>3. op'[q] = g
        BY <1>3, <1>10, <2>2, <3>1, <3>2
      <3>4. g.held = h.held /\ g.alone = FALSE
        BY <3>2 DEF Calling
      <3> QED
        BY <3>1, <3>2, <3>3, <3>4, Unmarked
    <2> QED
      BY <2>1, <2>2
  <1>11. ASSUME NEW q \in InFlight', q # o
         PROVE  q \in InFlight /\ op'[q].held = op[q].held /\ op'[q].alone = FALSE
    <2>1. q \in Ops /\ op'[q] # Idle
      BY DEF InFlight, Idle
    <2> QED
      BY <1>10, <1>11, <2>1
  <1>12. Held'
    BY <1>6, <1>8, <1>11 DEF GuardInv, Held
  <1>13. Alone'
    BY <1>6, <1>8, <1>9, <1>11 DEF Alone
  <1>14. ConnIds'
    BY <1>1 DEF GuardInv, ConnIds
  <1>15. PICK new : new = {o}
    OBVIOUS
  <1>16. new \subseteq InFlight' \ InFlight
    BY <1>9, <1>15
  <1>17. \A q \in new : Careful(op[q])'
    BY <1>8, <1>15
  <1>18. \A q \in Ops : \/ q \in new \/ op'[q] = Idle
                        \/ /\ q \in InFlight /\ op'[q] \in Calling /\ SameHand(op[q], op'[q])
                           /\ op'[q].held \subseteq op[q].held
                           /\ op'[q].alone = TRUE => op[q].alone = TRUE
    BY <1>10, <1>15
  <1> QED
    BY <1>1, <1>12, <1>13, <1>14, <1>16, <1>17, <1>18, GuardAround

LEMMA GuardAsks ==
    ASSUME GuardInv, TreeInv', RegistryInv', Together, "patch" \notin Served,
           NEW o \in Ops, Asks(o)
    PROVE  GuardInv'
  <1>1. PICK k \in Handlers, n \in Ids \cup {Root}, p \in Ids \cup {Root}, x \in Names :
            Call(o, k, n, p, x)
    BY DEF Asks, Live, Handlers, Makers, Updates, Removals
  <1>2. k \in Served
    BY <1>1 DEF Call
  <1> QED
    BY <1>1, <1>2, GuardCall DEF Together

LEMMA GuardNext ==
    ASSUME GuardInv, Together, "patch" \notin Served, [TreeNext]_treeVars
    PROVE  GuardInv'
  <1>1. TreeInv' /\ RegistryInv'
    BY TreeStep, RegistryStep DEF GuardInv
  <1>2. CASE UNCHANGED treeVars
    <2>1. UNCHANGED <<nodes, used, nodeSessions, conn, op>>
      BY <1>2 DEF treeVars, rows, registry
    <2> QED
      BY <1>1, <2>1, GuardStill DEF ConnIds, GuardInv, Edited, HasSession
  <1> QED
    BY <1>1, <1>2, GuardAsks, GuardHandle, GuardSession, GuardRestart DEF TreeNext

LEMMA GuardInitially ==
    ASSUME TreeInit, Planted
    PROVE  GuardInv
  <1>1. /\ nodeSessions = [n \in Ids |-> {}] /\ kbNodes = {} /\ conn = [c \in Conns |-> Closed]
        /\ op = [o \in Ops |-> Idle]
    BY DEF TreeInit
  <1>2. \A n \in Ids : OpenOn(n) = {}
    BY <1>1 DEF OpenOn, Closed
  <1>3. RegistryInv /\ ConnIds
    BY <1>1, <1>2 DEF RegistryInv, ConnRec, ConnIds, Closed
  <1>4. InFlight = {}
    BY <1>1 DEF InFlight, Idle
  <1> QED
    BY <1>3, <1>4, TreeInitially DEF GuardInv, Held, Alone

(***************************************************************************)
(* What a step does to the rows.                                           *)
(***************************************************************************)
\* A step that writes the nodes inserts one, writes a moved one or removes one.
LEMMA WhoWrites ==
    ASSUME TreeInv, [TreeNext]_treeVars, nodes' # nodes
    PROVE  \E o \in Ops : Insert(o) \/ Save(o) \/ RemoveRow(o)
  <1>1. ~ UNCHANGED treeVars
    BY DEF treeVars, rows
  <1>2. \A o \in Ops : ~ Asks(o)
    <2> SUFFICES ASSUME NEW o \in Ops, Asks(o) PROVE UNCHANGED nodes
      OBVIOUS
    <2>1. PICK k \in Handlers, n \in Ids \cup {Root}, p \in Ids \cup {Root}, x \in Names :
              Call(o, k, n, p, x)
      BY DEF Asks, Live, Handlers, Makers, Updates, Removals
    <2> QED
      BY <2>1 DEF Call, rows
  <1>3. \A c \in Conns : ~ Session(c)
    BY DEF Session, Authenticate, Load, Register, Disconnect, rows
  <1>4. ~ Restart
    BY DEF Restart, rows
  <1>5. PICK o \in Ops : Handle(o)
    BY <1>1, <1>2, <1>3, <1>4 DEF TreeNext
  <1>6. ~ WriteRow(o)
    BY RowWrittenBack
  <1>7. ASSUME Check(o) \/ Mkcol(o) \/ Put(o) \/ Delete(o) \/ Move(o) \/ SaveDraft(o) \/ ReadRow(o)
        PROVE  UNCHANGED nodes
    <2>1. Put(o) => UNCHANGED nodes
      BY Zenon DEF Put, rows
    <2> QED
      BY <1>7, <2>1 DEF Check, Mkcol, Delete, Move, SaveDraft, ReadRow, rows
  <1>8. ASSUME FindForUpdate(o) \/ Collect(o) \/ FindForRemove(o) \/ Enter(o) \/ Throws(o)
        PROVE  UNCHANGED nodes
    <2>1. Collect(o) \/ Enter(o) => UNCHANGED nodes
      BY Zenon DEF Collect, Enter, rows
    <2> QED
      BY <1>8, <2>1 DEF FindForUpdate, FindForRemove, Throws, rows
  <1>9. ASSUME \/ RemoveContent(o) \/ RemoveDraft(o) \/ ReadBase(o) \/ SaveBase(o) \/ FindBase(o)
               \/ ReadNodes(o) \/ RemoveBaseContent(o) \/ NextRoot(o) \/ RemoveBase(o)
        PROVE  UNCHANGED nodes
    <2>1. RemoveContent(o) \/ RemoveDraft(o) \/ SaveBase(o) => UNCHANGED nodes
      BY DEF RemoveContent, RemoveDraft, SaveBase
    <2>2. ReadBase(o) \/ FindBase(o) \/ RemoveBaseContent(o) \/ RemoveBase(o) => UNCHANGED nodes
      BY DEF ReadBase, FindBase, RemoveBaseContent, RemoveBase, rows
    <2>3. ReadNodes(o) \/ NextRoot(o) => UNCHANGED nodes
      BY Zenon DEF ReadNodes, NextRoot, rows
    <2> QED
      BY <1>9, <2>1, <2>2, <2>3
  <1> QED
    BY <1>5, <1>6, <1>7, <1>8, <1>9 DEF Handle

\* What a new node, a moved one and a removed one do.
LEMMA InsertedRow ==
    ASSUME GuardInv, NEW o \in Ops, Insert(o)
    PROVE  \E n \in Ids \ Live, row \in Row :
              /\ nodes' = [nodes EXCEPT ![n] = row]
              /\ row.parent = op[o].parent /\ row.name = op[o].name
              /\ \A q \in Ops : q # o => op'[q] = op[q]
  <1>1. op[o].kind # "idle"
    BY DEF Insert, At
  <1>2. PICK h \in Calling : h = op[o]
    BY <1>1, GuardHand
  <1>3. PICK n \in Ids \ used, kind \in Kinds :
            /\ nodes' = [nodes EXCEPT ![n] = [parent |-> h.parent, name |-> h.name, kind |-> kind]]
            /\ IF op[o].kind = "put"
               THEN Becomes(o, [op[o] EXCEPT !.pc = "draft", !.id = n, !.made = TRUE])
               ELSE Done(o)
    BY <1>2, Zenon DEF Insert
  <1>4. PICK row : row = [parent |-> h.parent, name |-> h.name, kind |-> kind]
    OBVIOUS
  <1>5. row \in Row /\ row.parent = h.parent /\ row.name = h.name
    BY <1>4 DEF Row, Calling
  <1>6. n \in Ids \ Live /\ op \in [Ops -> {Idle} \cup Calling]
    BY DEF GuardInv, TreeInv, OpOK
  <1>7. \A q \in Ops : q # o => op'[q] = op[q]
    BY <1>3, <1>6 DEF Done, Becomes
  <1> QED
    BY <1>2, <1>3, <1>4, <1>5, <1>6, <1>7

LEMMA SavedRow ==
    ASSUME GuardInv, NEW o \in Ops, Save(o)
    PROVE  /\ op[o].kind \in {"move", "rename", "davmove"} /\ op[o].id \in Live
           /\ Clear(op[o].id, op[o]) \/ nodes' = nodes
           /\ op[o].kind = "davmove" => Sibling(op[o].parent, op[o].name) \subseteq {op[o].id}
           /\ \E row \in Row :
                 /\ nodes' = [nodes EXCEPT ![op[o].id] = row]
                 /\ row.parent = op[o].parent /\ row.name = op[o].name
           /\ \A q \in Ops : q # o => op'[q] = op[q]
  <1>1. op[o].kind # "idle" /\ op[o].pc = "save" /\ Done(o)
    BY DEF Save, At
  <1>2. PICK h \in Calling : h = op[o] /\ Sound(h) /\ Careful(h)
    BY <1>1, GuardHand
  <1>3. h.kind \in Updates
    BY <1>1, <1>2, KindsApart DEF Sound, Making, Removing, Calling, SavePc
  <1>4. h.id \in Live /\ h.copy = nodes[h.id] /\ nodes \in [Ids -> Row \cup {Gone}] /\ h.id \in Ids
    BY <1>1, <1>2, <1>3 DEF Sound, Changing, GuardInv, TreeInv, RowsOK, Live
  <1>5. PICK row : row = [h.copy EXCEPT !.parent = h.parent, !.name = h.name]
    OBVIOUS
  <1>6. nodes[h.id] \in Row
    BY <1>4 DEF Live
  <1>7. row \in Row /\ row.parent = h.parent /\ row.name = h.name
    BY <1>4, <1>5, <1>6 DEF Row, Calling
  <1>8. nodes' = [nodes EXCEPT ![h.id] = row]
    BY <1>2, <1>5 DEF Save
  <1>9. h.parent = h.copy.parent /\ h.name = h.copy.name => row = nodes[h.id]
    BY <1>4, <1>5, <1>6 DEF Row
  <1>10. Clear(h.id, h) \/ nodes' = nodes
    BY <1>1, <1>2, <1>3, <1>4, <1>8, <1>9 DEF Careful
  <1>11. h.kind \in {"move", "rename", "davmove"}
         /\ (h.kind = "davmove" => Sibling(h.parent, h.name) \subseteq {h.id})
    BY <1>1, <1>2, <1>3 DEF Careful, Updates
  <1>12. \A q \in Ops : q # o => op'[q] = op[q]
    BY <1>1 DEF Done, Becomes, GuardInv, TreeInv, OpOK
  <1> QED
    BY <1>2, <1>4, <1>7, <1>8, <1>10, <1>11, <1>12

LEMMA RemovedRow ==
    ASSUME GuardInv, NEW o \in Ops, RemoveRow(o)
    PROVE  \E t \in Ids :
              /\ nodes' = [nodes EXCEPT ![t] = Gone]
              /\ Clear(t, op[o])
              /\ \A q \in Ops : q # o => op'[q] = op[q]
  <1>1. op[o].kind # "idle" /\ op[o].pc = "droprow"
    BY DEF RemoveRow, At
  <1>2. PICK h \in Calling : h = op[o] /\ h.kind \in Removals /\ Sound(h) /\ Careful(h)
    BY <1>1, WalkRec DEF WalkPc
  <1>3. PICK s \in Seq(Frames) : s = h.stack
    BY DEF Calling
  <1>4. s # <<>> /\ s[1].todo = {} /\ Framed(s)
    BY <1>1, <1>2, <1>3 DEF Sound, Removing
  <1>5. 1 \in 1..Len(s) /\ Head(s) = s[1]
    BY <1>4
  <1>6. PICK t \in Ids : t = s[1].id
    BY <1>5, FrameAt
  <1>7. nodes' = [nodes EXCEPT ![t] = Gone]
    BY <1>2, <1>3, <1>5, <1>6 DEF RemoveRow, Top
  <1>8. Children(t) = {}
    BY <1>4, <1>5, <1>6 DEF Framed
  <1>9. Clear(t, h)
    <2>1. CASE h.kind \in Lonely
      BY <1>1, <1>2, <1>3, <1>5, <1>6, <2>1 DEF Careful, Clearing, WalkPc
    <2>2. CASE h.kind = "cleanup"
      <3>1. t = h.id
        BY <1>2, <1>3, <1>5, <1>6, <2>2 DEF Sound, Removing, Sweeping
      <3>2. h.id \notin h.held
        BY <1>2, <2>2 DEF Careful, Sprouts
      <3> QED
        BY <1>8, <3>1, <3>2, SubtreeOfLeaf DEF Clear
    <2> QED
      BY <1>2, <2>1, <2>2 DEF Removals, Lonely
  <1>10. \A q \in Ops : q # o => op'[q] = op[q]
    BY DEF RemoveRow, Return, Becomes, GuardInv, TreeInv, OpOK
  <1> QED
    BY <1>2, <1>7, <1>9, <1>10

\* One row is written: no other node changes, and the twins there are then have
\* been there before, or are twins of the one written.
LEMMA OneWritten ==
    ASSUME nodes \in [Ids -> Row \cup {Gone}], NEW t \in Ids, NEW row,
           nodes' = [nodes EXCEPT ![t] = row]
    PROVE  \A n \in Ids : nodes'[n] = IF n = t THEN row ELSE nodes[n]
  OBVIOUS

LEMMA NoNewTwins ==
    ASSUME nodes \in [Ids -> Row \cup {Gone}], NEW t \in Ids, NEW row \in Row \cup {Gone},
           nodes' = [nodes EXCEPT ![t] = row],
           row # Gone => Sibling(row.parent, row.name) \subseteq {t}
    PROVE  Twins(nodes') \subseteq Twins(nodes)
  <1> SUFFICES ASSUME NEW p \in Ids \X Ids, p \in Twins(nodes') PROVE p \in Twins(nodes)
    BY DEF Twins
  <1>1. /\ p[1] \in Ids /\ p[2] \in Ids /\ p[1] # p[2]
        /\ nodes'[p[1]] # Gone /\ nodes'[p[2]] # Gone
        /\ nodes'[p[1]].parent = nodes'[p[2]].parent /\ nodes'[p[1]].name = nodes'[p[2]].name
    BY DEF Twins
  <1>2. \A n \in Ids : nodes'[n] = IF n = t THEN row ELSE nodes[n]
    OBVIOUS
  <1>3. p[1] # t /\ p[2] # t
    BY <1>1, <1>2 DEF Sibling, Live
  <1> QED
    BY <1>1, <1>2, <1>3 DEF Twins

LEMMA ProtectedStep ==
    ASSUME GuardInv, [TreeNext]_treeVars, NEW n \in Ids, NEW o \in InFlight,
           Disturbed(n), op'[o] # op[o]
    PROVE  Subtree(n) \cap op[o].held = {}
  <1>1. nodes[n] # Gone /\ nodes'[n] # nodes[n] /\ n \in Live
    BY DEF Disturbed, Live
  <1>2. PICK q \in Ops : Insert(q) \/ Save(q) \/ RemoveRow(q)
    BY <1>1, WhoWrites DEF GuardInv
  <1>3. nodes \in [Ids -> Row \cup {Gone}] /\ o \in Ops
    BY DEF GuardInv, TreeInv, RowsOK, InFlight
  <1>4. CASE Insert(q)
    BY <1>1, <1>3, <1>4, InsertedRow, OneWritten
  <1>5. CASE Save(q)
    <2>1. q = o /\ Clear(op[q].id, op[q])
      BY <1>1, <1>3, <1>5, SavedRow
    <2>2. n = op[q].id
      <3>1. PICK row \in Row : nodes' = [nodes EXCEPT ![op[q].id] = row]
        BY <1>5, SavedRow
      <3> QED
        BY <1>1, <1>3, <3>1
    <2> QED
      BY <2>1, <2>2 DEF Clear
  <1>6. CASE RemoveRow(q)
    <2>1. PICK t \in Ids : /\ nodes' = [nodes EXCEPT ![t] = Gone] /\ Clear(t, op[q])
                           /\ \A w \in Ops : w # q => op'[w] = op[w]
      BY <1>6, RemovedRow
    <2> QED
      BY <1>1, <1>3, <2>1 DEF Clear
  <1> QED
    BY <1>2, <1>4, <1>5, <1>6

LEMMA NamesApartStep ==
    ASSUME GuardInv, [TreeNext]_treeVars, NEW o \in InFlight,
           op[o].kind \in {"mkcol", "put", "davmove"}, op[o].alone = TRUE, op'[o] # op[o]
    PROVE  Twins(nodes') \subseteq Twins(nodes)
  <1>1. nodes \in [Ids -> Row \cup {Gone}] /\ o \in Ops
    BY DEF GuardInv, TreeInv, RowsOK, InFlight
  <1>2. CASE nodes' = nodes
    BY <1>2
  <1>3. CASE nodes' # nodes
    <2>1. PICK q \in Ops : Insert(q) \/ Save(q) \/ RemoveRow(q)
      BY <1>3, WhoWrites DEF GuardInv
    <2>2. CASE Insert(q)
      <3>1. PICK n \in Ids \ Live, row \in Row :
                /\ nodes' = [nodes EXCEPT ![n] = row]
                /\ row.parent = op[q].parent /\ row.name = op[q].name
                /\ \A w \in Ops : w # q => op'[w] = op[w]
        BY <2>2, InsertedRow
      <3>2. q = o /\ op[o].pc = "insert"
        BY <1>1, <2>2, <3>1 DEF Insert, At
      <3>3. PICK h \in Calling : h = op[o] /\ Sound(h) /\ Careful(h)
        BY <1>1, <2>2, <3>2, GuardHand DEF Insert, At
      <3>4. h.kind # "davmove"
        BY <3>2, <3>3 DEF Sound, Changing, Updates
      <3>5. Sibling(h.parent, h.name) = {}
        BY <3>2, <3>3, <3>4 DEF Careful
      <3> QED
        BY <1>1, <3>1, <3>2, <3>3, <3>5, NoNewTwins
    <2>3. CASE Save(q)
      <3>1. q = o
        BY <1>1, <2>3, SavedRow
      <3>2. op[o].kind = "davmove" /\ op[o].id \in Ids
        BY <2>3, <3>1, SavedRow DEF Live
      <3>3. PICK row \in Row : /\ nodes' = [nodes EXCEPT ![op[o].id] = row]
                               /\ row.parent = op[o].parent /\ row.name = op[o].name
        BY <2>3, <3>1, SavedRow
      <3>4. Sibling(row.parent, row.name) \subseteq {op[o].id}
        BY <2>3, <3>1, <3>2, <3>3, SavedRow
      <3> QED
        BY <1>1, <3>2, <3>3, <3>4, NoNewTwins
    <2>4. CASE RemoveRow(q)
      <3>1. PICK t \in Ids : nodes' = [nodes EXCEPT ![t] = Gone]
        BY <2>4, RemovedRow
      <3> QED
        BY <1>1, <3>1, NoNewTwins
    <2> QED
      BY <2>1, <2>2, <2>3, <2>4
  <1> QED
    BY <1>2, <1>3

\* Whichever way a handler came, a node is not moved, renamed or removed while one
\* was edited under it all the time since the call; and a WebDAV call that nothing
\* overlaps gives no folder a second node of one name.  A patch is left out: it is
\* judged by the parent it names, and renames under whoever edits.
THEOREM TreeIsGuarded ==
    ASSUME Together, Planted, "patch" \notin Served
    PROVE  TreeSpec => TreeStepsGuarded
  <1>1. TreeInit => GuardInv
    BY GuardInitially
  <1>2. GuardInv /\ [TreeNext]_treeVars => GuardInv'
    BY GuardNext
  <1>3. GuardInv /\ [TreeNext]_treeVars =>
            [\A n \in Ids, o \in InFlight :
               Disturbed(n) /\ op'[o] # op[o] => Subtree(n) \cap op[o].held = {}]_treeVars
    BY ProtectedStep
  <1>4. GuardInv /\ [TreeNext]_treeVars =>
            [\A o \in InFlight :
               op[o].kind \in {"mkcol", "put", "davmove"} /\ op[o].alone /\ op'[o] # op[o]
                  => Twins(nodes') \subseteq Twins(nodes)]_treeVars
    <2>1. GuardInv => \A o \in InFlight : op[o].alone \in BOOLEAN
      BY GuardHand DEF Calling, InFlight
    <2> QED
      BY <2>1, NamesApartStep
  <1> QED
    BY <1>1, <1>2, <1>3, <1>4, PTL
       DEF TreeSpec, TreeStepsGuarded, SessionsProtectTree, DavKeepsNamesApart
=============================================================================
