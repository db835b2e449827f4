--------------------------- MODULE DavRequestsProofs ---------------------------
(***************************************************************************)
(* Theorems about DavRequests, for any number of requests, visitors, bases *)
(* and nodes.                                                              *)
(*                                                                         *)
(* An ETag is a node with the stamp of its row, and a text is stored       *)
(* before its row is stamped; so between the two steps the old tag covers  *)
(* the new text.  What a reader was given under a tag is the text of the   *)
(* node as long as the row keeps the stamp, unless a save is between its   *)
(* steps or broke off there; and who has been alone since it came knows    *)
(* that no save is.                                                        *)
(***************************************************************************)
EXTENDS DavRequests, SequenceTheorems, TLAPS

(***************************************************************************)
(* The invariant.                                                          *)
(***************************************************************************)
DavFields == {"pc", "a", "tag", "base", "node", "parent", "made", "code", "alone"}
Underway(r) == dav[r].pc \notin {"none", "answered"}

StoreShapes ==
    /\ DOMAIN texts = DavIds /\ DOMAIN davRows = DavIds /\ stamp \in Nat
    /\ \A n \in DavLive :
          "stamp" \in DOMAIN davRows[n] /\ davRows[n].stamp \in Nat /\ davRows[n].stamp <= stamp
CallShapes ==
    /\ DOMAIN dav = DavCalls
    /\ \A r \in DavCalls : Underway(r) =>
          DOMAIN dav[r] = DavFields /\ dav[r].a \in DavAsks[r] /\ dav[r].alone \in BOOLEAN

\* A request that has been alone since it came is the only one on its way.
AloneMeans ==
    \A r \in DavCalls : Underway(r) /\ dav[r].alone => \A c \in DavCalls : Underway(c) => c = r

\* What a request has passed on its way to a place.
BasesFor(r) ==
    /\ dav[r].a.method \in {"PROPFIND", "GET", "HEAD", "MKCOL", "PUT", "DELETE", "MOVE"}
    /\ dav[r].a.method \in {"GET", "HEAD", "PUT"} => Len(dav[r].a.path) >= 2
TaggedNode(r) ==
    dav[r].node \in DavIds /\ \E s \in Nat : s <= stamp /\ dav[r].tag = <<dav[r].node, s>>
PlaceFits(r) ==
    /\ dav[r].pc = "body" => dav[r].a.method = "PUT"
    /\ dav[r].pc = "bases" => BasesFor(r)
    /\ dav[r].pc = "tree" => BasesFor(r)
    /\ dav[r].pc = "make" /\ dav[r].a.method = "PUT" => dav[r].a.cond # "match"
    /\ dav[r].pc = "content" => TaggedNode(r)

\* A conditional PUT that is about to store its text, and has been alone, named
\* the tag its node still has.
TagChecked(r) ==
    dav[r].pc = "text" /\ dav[r].a.cond = "match" /\ dav[r].alone =>
        \/ dav[r].tag = AnyTag
        \/ dav[r].node \in DavLive /\ dav[r].tag = <<dav[r].node, davRows[dav[r].node].stamp>>

\* A text that was read is the node's as long as its stamp is, or a save of the
\* node is between its two steps.
SaveOpen(n) == \E c \in DavCalls : dav[c].pc = "touch" /\ dav[c].node = n
CopyFits(copy) ==
    \E n \in DavIds, s \in Nat :
        /\ s <= stamp /\ copy.tag = <<n, s>>
        /\ n \in DavLive /\ davRows[n].stamp = s /\ n \notin torn => copy.text = texts[n] \/ SaveOpen(n)

DavInv ==
    /\ StoreShapes /\ CallShapes /\ AloneMeans
    /\ \A r \in DavCalls : PlaceFits(r) /\ TagChecked(r)
    /\ \A copy \in copies : CopyFits(copy)

\* A request moves and the others stay where they are.
DavMoves(r) ==
    /\ DOMAIN dav' = DavCalls
    /\ Underway(r)
    /\ \A c \in DavCalls \ {r} : dav'[c] = dav[c]
    /\ \/ dav'[r].pc = "answered"
       \/ DOMAIN dav'[r] = DavFields /\ dav'[r].a = dav[r].a /\ dav'[r].alone = dav[r].alone

LEMMA RespondMoves ==
    ASSUME DavInv, NEW r \in DavCalls, Underway(r), NEW status, Respond(r, status)
    PROVE  DavMoves(r) /\ dav'[r].pc = "answered" /\ PlaceFits(r)' /\ TagChecked(r)'
  <1>1. dav' = [dav EXCEPT ![r] = [pc |-> "answered", status |-> status]] /\ DOMAIN dav = DavCalls
    BY DEF Respond, DavInv, CallShapes
  <1>2. dav'[r].pc = "answered" /\ DOMAIN dav' = DavCalls /\ \A c \in DavCalls \ {r} : dav'[c] = dav[c]
    BY <1>1
  <1> QED
    BY <1>2 DEF DavMoves, PlaceFits, TagChecked

LEMMA GotoMoves ==
    ASSUME DavInv, NEW r \in DavCalls, Underway(r), NEW pc, DavGoto(r, pc)
    PROVE  /\ DavMoves(r) /\ dav'[r].pc = pc /\ dav'[r].a = dav[r].a /\ dav'[r].base = dav[r].base
           /\ dav'[r].node = dav[r].node /\ dav'[r].tag = dav[r].tag
  <1>1. dav' = [dav EXCEPT ![r].pc = pc] /\ DOMAIN dav = DavCalls /\ DOMAIN dav[r] = DavFields
    BY DEF DavGoto, DavInv, CallShapes
  <1>2. dav'[r] = [dav[r] EXCEPT !.pc = pc] /\ DOMAIN dav' = DavCalls
        /\ \A c \in DavCalls \ {r} : dav'[c] = dav[c]
    BY <1>1
  <1>3. DOMAIN dav'[r] = DavFields /\ dav'[r].pc = pc
        /\ dav'[r].a = dav[r].a /\ dav'[r].base = dav[r].base
        /\ dav'[r].node = dav[r].node /\ dav'[r].tag = dav[r].tag /\ dav'[r].alone = dav[r].alone
    BY <1>1, <1>2 DEF DavFields
  <1> QED
    BY <1>2, <1>3 DEF DavMoves

LEMMA BreaksOffMoves ==
    ASSUME DavInv, NEW r \in DavCalls, Underway(r), NEW status, BreaksOff(r, status)
    PROVE  DavMoves(r) /\ dav'[r].pc \in {"answered", "cleanup"} /\ PlaceFits(r)' /\ TagChecked(r)'
  <1>1. CASE Respond(r, status)
    BY <1>1, RespondMoves
  <1>2. CASE dav' = [dav EXCEPT ![r].pc = "cleanup", ![r].code = status]
    <2>1. DOMAIN dav = DavCalls /\ DOMAIN dav[r] = DavFields
      BY DEF DavInv, CallShapes
    <2>2. dav'[r] = [dav[r] EXCEPT !.pc = "cleanup", !.code = status] /\ DOMAIN dav' = DavCalls
          /\ \A c \in DavCalls \ {r} : dav'[c] = dav[c]
      BY <1>2, <2>1
    <2>3. DOMAIN dav'[r] = DavFields /\ dav'[r].pc = "cleanup"
          /\ dav'[r].a = dav[r].a /\ dav'[r].alone = dav[r].alone
      BY <2>1, <2>2 DEF DavFields
    <2> QED
      BY <2>2, <2>3 DEF DavMoves, PlaceFits, TagChecked
  <1> QED
    BY <1>1, <1>2 DEF BreaksOff

\* What is left to show of a step of one request.
LEMMA MovesKeepInv ==
    ASSUME DavInv, NEW r \in DavCalls, DavMoves(r), StoreShapes', stamp <= stamp',
           PlaceFits(r)', TagChecked(r)', \A copy \in copies' : CopyFits(copy)'
    PROVE  DavInv'
  <1>1. \A c \in DavCalls : Underway(c)' => Underway(c) /\ dav'[c].a = dav[c].a
            /\ dav'[c].alone = dav[c].alone /\ DOMAIN dav'[c] = DavFields
    BY DEF DavMoves, Underway, DavInv, CallShapes
  <1>2. CallShapes'
    BY <1>1 DEF DavMoves, DavInv, CallShapes, Underway
  <1>3. AloneMeans'
    BY <1>1 DEF AloneMeans, DavInv, Underway
  <1>4. ASSUME NEW c \in DavCalls, c # r
        PROVE  PlaceFits(c)' /\ TagChecked(c)'
    <2>1. dav'[c] = dav[c] /\ PlaceFits(c) /\ stamp \in Nat /\ stamp' \in Nat
      BY <1>4 DEF DavMoves, DavInv, StoreShapes
    <2>2. TaggedNode(c) => TaggedNode(c)'
      BY <2>1 DEF TaggedNode
    <2>3. PlaceFits(c)'
      BY <2>1, <2>2 DEF PlaceFits, BasesFor
    <2>4. dav[c].pc = "text" => ~dav[c].alone
      BY <1>4 DEF DavMoves, DavInv, AloneMeans, Underway
    <2> QED
      BY <2>1, <2>3, <2>4 DEF TagChecked
  <1> QED
    BY <1>2, <1>3, <1>4 DEF DavInv

\* Copies still fit when each row that is there has kept its stamp or has a fresh
\* one, and no save of a row that kept it was closed.
RowKept(n) ==
    /\ n \in DavLive /\ davRows'[n].stamp = davRows[n].stamp
    /\ n \notin torn
    /\ SaveOpen(n) => SaveOpen(n)'
LEMMA CopiesStay ==
    ASSUME DavInv, copies' = copies, texts' = texts, stamp' \in Nat, stamp <= stamp',
           \A n \in DavIds : n \in DavLive' /\ n \notin torn' => RowKept(n) \/ davRows'[n].stamp > stamp
    PROVE  \A copy \in copies' : CopyFits(copy)'
  <1> SUFFICES ASSUME NEW copy \in copies
               PROVE  CopyFits(copy)'
    OBVIOUS
  <1>1. PICK n \in DavIds, s \in Nat :
            /\ s <= stamp /\ copy.tag = <<n, s>>
            /\ n \in DavLive /\ davRows[n].stamp = s /\ n \notin torn => copy.text = texts[n] \/ SaveOpen(n)
    BY DEF DavInv, CopyFits
  <1>2. s <= stamp'
    BY <1>1 DEF DavInv, StoreShapes
  <1>3. ASSUME n \in DavLive', davRows'[n].stamp = s, n \notin torn'
        PROVE  copy.text = texts'[n] \/ SaveOpen(n)'
    <2>1. ~(s > stamp)
      BY <1>1 DEF DavInv, StoreShapes
    <2>2. RowKept(n)
      BY <1>3, <2>1
    <2> QED
      BY <1>1, <1>3, <2>2 DEF RowKept
  <1> QED
    BY <1>1, <1>2, <1>3 DEF CopyFits

\* A step that leaves what is stored and read alone.
LEMMA QuietMove ==
    ASSUME DavInv, NEW r \in DavCalls, DavMoves(r), dav[r].pc # "touch",
           UNCHANGED <<davRows, texts, stamp, copies, torn>>, PlaceFits(r)', TagChecked(r)'
    PROVE  DavInv'
  <1>1. StoreShapes' /\ stamp \in Nat /\ stamp <= stamp'
    BY DEF DavInv, StoreShapes, DavLive
  <1>2. \A n : SaveOpen(n) => SaveOpen(n)'
    BY DEF SaveOpen, DavMoves
  <1>3. \A n \in DavIds : n \in DavLive' /\ n \notin torn' => RowKept(n)
    BY <1>2 DEF RowKept, DavLive
  <1>4. \A copy \in copies' : CopyFits(copy)'
    BY <1>1, <1>3, CopiesStay
  <1> QED
    BY <1>1, <1>4, MovesKeepInv

\* The child of a name, and the node of a path, are rows there are or none.
LEMMA ChildIsThere ==
    ASSUME NEW parent, NEW name PROVE ChildNamed(parent, name) \in DavLive \cup {NoDavRow}
  BY DEF ChildNamed
LEMMA NodeIsThere ==
    ASSUME NEW base, NEW names
    PROVE  IF names = <<>> THEN NodeAt(base, names) = base
           ELSE NodeAt(base, names) \in DavLive \cup {NoDavRow}
  <1>1. CASE names = <<>>
    BY <1>1 DEF NodeAt
  <1>2. CASE names # <<>>
    <2>1. PICK parent, name : NodeAt(base, names) = ChildNamed(parent, name)
      BY <1>2, Zenon DEF NodeAt
    <2> QED
      BY <1>2, <2>1, ChildIsThere
  <1> QED
    BY <1>1, <1>2

\* The ETag of a row.
LEMMA TagOfRow ==
    ASSUME DavAssumption, NEW n \in DavIds PROVE TagOf(n) = <<n, davRows[n].stamp>>
  BY DEF DavAssumption, TagOf

\* Paths with two names have one below the base.
LEMMA DeepPath ==
    ASSUME NEW p \in Seq(STRING), Len(p) >= 2 PROVE Tail(p) # <<>>
  <1>1. Len(Tail(p)) = Len(p) - 1
    <2>1. p # <<>>
      OBVIOUS
    <2> QED
      BY <2>1, HeadTailProperties
  <1>2. Len(p) \in Nat /\ Len(<<>>) = 0
    OBVIOUS
  <1> QED
    BY <1>1, <1>2
LEMMA PathOfAsk ==
    ASSUME DavAssumption, NEW r \in DavCalls, NEW a \in DavAsks[r]
    PROVE  /\ a.path \in Seq(STRING) /\ Len(a.path) \in Nat /\ a.method \in Methods
           /\ a.method = "save" => a.cond = "none"
  <1>1. a \in DavAsk /\ (a.method = "save" => a.cond = "none")
    BY DEF DavAssumption
  <1>2. a.path \in Seq(STRING) /\ a.method \in Methods
    BY <1>1 DEF DavAsk
  <1> QED
    BY <1>1, <1>2

LEMMA DavInitInv == ASSUME DavAssumption, DavInit PROVE DavInv
  <1>1. FirstDavRows \in [DavIds -> FirstDavRow \cup {NoDavRow}] /\ davRows = FirstDavRows
    BY DEF DavAssumption, DavInit
  <1>2. \A n \in DavLive : "stamp" \in DOMAIN davRows[n] /\ davRows[n].stamp = 1
    BY <1>1 DEF DavLive, FirstDavRow
  <1>3. StoreShapes
    BY <1>1, <1>2 DEF DavInit, StoreShapes
  <1>4. \A r \in DavCalls : dav[r].pc = "none"
    BY DEF DavInit, NotAsked
  <1>5. DOMAIN dav = DavCalls /\ copies = {}
    BY DEF DavInit
  <1>6. CallShapes /\ AloneMeans
    BY <1>4, <1>5 DEF CallShapes, AloneMeans, Underway
  <1>7. \A r \in DavCalls : PlaceFits(r) /\ TagChecked(r)
    BY <1>4 DEF PlaceFits, TagChecked
  <1> QED
    BY <1>3, <1>5, <1>6, <1>7 DEF DavInv

\* An arrival: whoever was alone no longer is.
LEMMA ArriveKeepsInv ==
    ASSUME DavInv, NEW r \in DavCalls, DavArrive(r) PROVE DavInv'
  <1>1. UNCHANGED <<davRows, texts, stamp, copies, torn>> /\ dav[r].pc = "none"
    BY DEF DavArrive, davStore, davSeen, NotAsked
  <1>2. PICK a \in DavAsks[r], tag \in tags \cup {AnyTag} : dav' = [c \in DavCalls |->
              IF c = r THEN [pc |-> "received", a |-> a, tag |-> tag, base |-> NoDavRow,
                             node |-> NoDavRow, parent |-> NoDavRow, made |-> FALSE, code |-> 0,
                             alone |-> OnTheWay = {}]
              ELSE IF c \in OnTheWay THEN [dav[c] EXCEPT !.alone = FALSE] ELSE dav[c]]
    BY DEF DavArrive
  <1> DEFINE asked == [pc |-> "received", a |-> a, tag |-> tag, base |-> NoDavRow,
                             node |-> NoDavRow, parent |-> NoDavRow, made |-> FALSE, code |-> 0,
                             alone |-> OnTheWay = {}]
  <1>3. dav'[r] = asked /\ DOMAIN dav' = DavCalls
    BY <1>2
  <1>4. asked.pc = "received" /\ asked.a = a /\ DOMAIN asked = DavFields
    BY DEF DavFields
  <1>5. asked.alone <=> OnTheWay = {}
    BY Zenon
  <1>6. asked.alone \in BOOLEAN
    BY Zenon
  <1> HIDE DEF asked
  <1>7. ASSUME NEW c \in DavCalls, c # r, Underway(c)
        PROVE  /\ dav'[c].pc = dav[c].pc /\ dav'[c].a = dav[c].a /\ dav'[c].tag = dav[c].tag
               /\ dav'[c].base = dav[c].base /\ dav'[c].node = dav[c].node
               /\ dav'[c].alone = FALSE /\ DOMAIN dav'[c] = DavFields
    <2>1. dav'[c] = [dav[c] EXCEPT !.alone = FALSE] /\ DOMAIN dav[c] = DavFields
      BY <1>2, <1>7 DEF OnTheWay, Underway, DavInv, CallShapes
    <2> QED
      BY <2>1 DEF DavFields
  <1>8. ASSUME NEW c \in DavCalls, c # r, ~Underway(c)
        PROVE  dav'[c] = dav[c]
    BY <1>2, <1>8 DEF OnTheWay, Underway
  <1>9. CallShapes'
    <2>1. ASSUME NEW c \in DavCalls, Underway(c)'
          PROVE  DOMAIN dav'[c] = DavFields /\ dav'[c].a \in DavAsks[c] /\ dav'[c].alone \in BOOLEAN
      <3>1. CASE c = r
        BY <1>3, <1>4, <1>6, <3>1
      <3>2. CASE c # r
        <4>1. Underway(c)
          BY <1>8, <2>1, <3>2 DEF Underway
        <4> QED
          BY <1>7, <3>2, <4>1 DEF DavInv, CallShapes
      <3> QED
        BY <3>1, <3>2
    <2> QED
      BY <1>3, <2>1 DEF CallShapes, Underway
  <1>10. AloneMeans'
    <2>1. ASSUME NEW c \in DavCalls, Underway(c)', dav'[c].alone, NEW d \in DavCalls, Underway(d)'
          PROVE  d = c
      <3>1. c = r
        <4>1. CASE c # r
          <5>1. Underway(c)
            BY <1>8, <2>1, <4>1 DEF Underway
          <5> QED
            BY <1>7, <2>1, <4>1, <5>1
        <4> QED
          BY <4>1
      <3>2. OnTheWay = {}
        BY <1>3, <1>5, <2>1, <3>1
      <3>3. d # r => Underway(d)
        BY <1>8, <2>1 DEF Underway
      <3> QED
        BY <3>1, <3>2, <3>3 DEF OnTheWay, Underway
    <2> QED
      BY <2>1 DEF AloneMeans, Underway
  <1>11. ASSUME NEW c \in DavCalls
         PROVE  PlaceFits(c)' /\ TagChecked(c)'
    <2>1. CASE c = r
      BY <1>3, <1>4, <2>1 DEF PlaceFits, TagChecked
    <2>2. CASE c # r /\ Underway(c)
      <3>1. PlaceFits(c) /\ TagChecked(c)
        BY DEF DavInv
      <3>2. TaggedNode(c) => TaggedNode(c)'
        BY <1>1, <1>7, <2>2 DEF TaggedNode
      <3>3. BasesFor(c) => BasesFor(c)'
        BY <1>7, <2>2 DEF BasesFor
      <3> QED
        BY <1>7, <2>2, <3>1, <3>2, <3>3 DEF PlaceFits, TagChecked
    <2>3. CASE c # r /\ ~Underway(c)
      BY <1>8, <2>3 DEF PlaceFits, TagChecked, Underway
    <2> QED
      BY <2>1, <2>2, <2>3
  <1>12. \A n : SaveOpen(n) => SaveOpen(n)'
    <2>1. \A c \in DavCalls : dav[c].pc = "touch" => c # r /\ Underway(c)
      BY <1>1 DEF Underway
    <2> QED
      BY <1>7, <2>1 DEF SaveOpen
  <1>13. StoreShapes' /\ stamp \in Nat /\ stamp <= stamp'
    BY <1>1 DEF DavInv, StoreShapes, DavLive
  <1>14. \A n \in DavIds : n \in DavLive' /\ n \notin torn' => RowKept(n)
    BY <1>1, <1>12 DEF RowKept, DavLive
  <1>15. \A copy \in copies' : CopyFits(copy)'
    BY <1>1, <1>13, <1>14, CopiesStay
  <1> QED
    BY <1>9, <1>10, <1>11, <1>13, <1>15 DEF DavInv

\* The one editor.
LEMMA EditorKeepsInv ==
    ASSUME DavInv, EditorOpens PROVE DavInv'
  <1>1. UNCHANGED <<davRows, texts, stamp, copies, torn, dav>>
    BY DEF EditorOpens, davStore, davSeen
  <1> QED
    BY <1>1 DEF DavInv, StoreShapes, CallShapes, AloneMeans, PlaceFits, BasesFor, TaggedNode, TagChecked,
       CopyFits, SaveOpen, Underway, DavLive

\* Places nothing has to be known for.
LEMMA FreePlace ==
    ASSUME NEW r, dav'[r].pc \notin {"body", "bases", "tree", "make", "content", "text"}
    PROVE  PlaceFits(r)' /\ TagChecked(r)'
  BY DEF PlaceFits, TagChecked

\* An answer, or a way on to such a place, that changes nothing else.
LEMMA AnswerKeepsInv ==
    ASSUME DavInv, NEW r \in DavCalls, Underway(r), dav[r].pc # "touch", NEW status, Respond(r, status),
           UNCHANGED <<davRows, texts, stamp, copies, torn>>
    PROVE  DavInv'
  BY RespondMoves, QuietMove
LEMMA WayOnKeepsInv ==
    ASSUME DavInv, NEW r \in DavCalls, Underway(r), dav[r].pc # "touch", NEW pc, DavGoto(r, pc),
           pc \notin {"body", "bases", "tree", "make", "content", "text"},
           UNCHANGED <<davRows, texts, stamp, copies, torn>>
    PROVE  DavInv'
  BY GotoMoves, FreePlace, QuietMove

LEMMA AskKnown ==
    ASSUME DavAssumption, DavInv, NEW r \in DavCalls, Underway(r)
    PROVE  /\ dav[r].a.path \in Seq(STRING) /\ Len(dav[r].a.path) \in Nat /\ dav[r].a.method \in Methods
           /\ dav[r].a.method = "save" => dav[r].a.cond = "none"
  BY PathOfAsk DEF DavInv, CallShapes

LEMMA EarlyPassed ==
    ASSUME NEW r, EarlyRefusal(r) = 0
    PROVE  /\ dav[r].a.method # "LOCK"
           /\ dav[r].a.method \in {"GET", "HEAD"} => ~(Len(dav[r].a.path) < 2)
  <1>1. dav[r].a.method # "LOCK"
    BY DEF EarlyRefusal
  <1>2. ASSUME dav[r].a.method \in {"GET", "HEAD"}, Len(dav[r].a.path) < 2
        PROVE  FALSE
    <2>1. ~Writes(dav[r].a.method) /\ dav[r].a.method # "MOVE"
      BY <1>2 DEF Writes
    <2>2. EarlyRefusal(r) \in {400, 405}
      BY <1>2, <2>1 DEF EarlyRefusal
    <2> QED
      BY <2>2
  <1> QED
    BY <1>1, <1>2

LEMMA LetInKeepsInv ==
    ASSUME DavAssumption, DavInv, NEW r \in DavCalls, Unknown(r) \/ LetIn(r) PROVE DavInv'
  <1>1. /\ dav[r].pc = "received" /\ Underway(r)
        /\ UNCHANGED <<davRows, texts, stamp, copies, torn>>
    BY DEF Unknown, LetIn, DavAt, Underway, davStore, davSeen
  <1>2. ASSUME NEW status, Respond(r, status)
        PROVE  DavInv'
    BY <1>1, <1>2, AnswerKeepsInv
  <1>3. ASSUME dav[r].a.method \notin {"OPTIONS", "save"}, EarlyRefusal(r) = 0,
               DavGoto(r, IF dav[r].a.method = "PUT" THEN "body" ELSE "bases")
        PROVE  DavInv'
    <2> DEFINE pc == IF dav[r].a.method = "PUT" THEN "body" ELSE "bases"
    <2>1. DavMoves(r) /\ dav'[r].pc = pc /\ dav'[r].a = dav[r].a
      BY <1>1, <1>3, GotoMoves
    <2>2. dav[r].a.method # "PUT" => BasesFor(r)'
      BY <1>1, <1>3, <2>1, AskKnown, EarlyPassed DEF BasesFor, Methods
    <2>3. PlaceFits(r)' /\ TagChecked(r)'
      BY <2>1, <2>2 DEF PlaceFits, TagChecked
    <2> QED
      BY <1>1, <2>1, <2>3, QuietMove
  <1>4. CASE Unknown(r)
    BY <1>2, <1>4 DEF Unknown
  <1>5. CASE LetIn(r)
    BY <1>2, <1>3, <1>5 DEF LetIn
  <1> QED
    BY <1>4, <1>5

LEMMA BodyKeepsInv ==
    ASSUME DavAssumption, DavInv, NEW r \in DavCalls, Body(r) PROVE DavInv'
  <1>1. /\ dav[r].pc = "body" /\ Underway(r)
        /\ UNCHANGED <<davRows, texts, stamp, copies, torn>>
    BY DEF Body, DavAt, Underway, davStore, davSeen
  <1>2. ASSUME NEW status, Respond(r, status)
        PROVE  DavInv'
    BY <1>1, <1>2, AnswerKeepsInv
  <1>3. ASSUME ~(Len(dav[r].a.path) < 2), DavGoto(r, "bases")
        PROVE  DavInv'
    <2>1. DavMoves(r) /\ dav'[r].pc = "bases" /\ dav'[r].a = dav[r].a
      BY <1>1, <1>3, GotoMoves
    <2>2. dav[r].a.method = "PUT"
      BY <1>1 DEF DavInv, PlaceFits
    <2>3. BasesFor(r)'
      BY <1>1, <1>3, <2>1, <2>2, AskKnown DEF BasesFor
    <2>4. PlaceFits(r)' /\ TagChecked(r)'
      BY <2>1, <2>3 DEF PlaceFits, TagChecked
    <2> QED
      BY <1>1, <2>1, <2>4, QuietMove
  <1> QED
    BY <1>2, <1>3 DEF Body

LEMMA ReadBasesKeepsInv ==
    ASSUME DavAssumption, DavInv, NEW r \in DavCalls, ReadBases(r) PROVE DavInv'
  <1>1. /\ dav[r].pc = "bases" /\ Underway(r) /\ BasesFor(r)
        /\ UNCHANGED <<davRows, texts, stamp, copies, torn>>
    BY DEF ReadBases, DavAt, Underway, davStore, DavInv, PlaceFits
  <1>2. ASSUME NEW status, Respond(r, status)
        PROVE  DavInv'
    BY <1>1, <1>2, AnswerKeepsInv
  <1>3. DOMAIN dav = DavCalls /\ DOMAIN dav[r] = DavFields
    BY <1>1 DEF DavInv, CallShapes
  <1>4. CASE /\ dav[r].a.method \in {"MKCOL", "DELETE", "MOVE"}
             /\ \E b : dav' = [dav EXCEPT ![r].pc = NextForBase(dav[r].a.method), ![r].base = b]
    <2>0. PICK b : dav' = [dav EXCEPT ![r].pc = NextForBase(dav[r].a.method), ![r].base = b]
      BY <1>4
    <2>1. NextForBase(dav[r].a.method) \in {"quota", "dropbase", "renamebase"}
      BY <1>4 DEF NextForBase
    <2> HIDE DEF NextForBase
    <2>2. DOMAIN dav' = DavCalls /\ (\A c \in DavCalls \ {r} : dav'[c] = dav[c])
          /\ dav'[r] = [dav[r] EXCEPT !.pc = NextForBase(dav[r].a.method), !.base = b]
      BY <1>3, <2>0
    <2>3. DOMAIN dav'[r] = DavFields /\ dav'[r].pc = NextForBase(dav[r].a.method)
          /\ dav'[r].a = dav[r].a /\ dav'[r].alone = dav[r].alone
      BY <1>3, <2>2 DEF DavFields
    <2>4. DavMoves(r)
      BY <1>1, <2>2, <2>3 DEF DavMoves
    <2>5. PlaceFits(r)' /\ TagChecked(r)'
      BY <2>1, <2>3, FreePlace
    <2> QED
      BY <1>1, <2>4, <2>5, QuietMove
  <1>5. CASE \E b, tag : dav' = [dav EXCEPT ![r].pc = "tree", ![r].base = b, ![r].tag = tag]
    <2>1. PICK b, tag : dav' = [dav EXCEPT ![r].pc = "tree", ![r].base = b, ![r].tag = tag]
      BY <1>5
    <2>2. DOMAIN dav' = DavCalls /\ (\A c \in DavCalls \ {r} : dav'[c] = dav[c])
          /\ dav'[r] = [dav[r] EXCEPT !.pc = "tree", !.base = b, !.tag = tag]
      BY <1>3, <2>1
    <2>3. DOMAIN dav'[r] = DavFields /\ dav'[r].pc = "tree"
          /\ dav'[r].a = dav[r].a /\ dav'[r].alone = dav[r].alone
      BY <1>3, <2>2 DEF DavFields
    <2>4. DavMoves(r)
      BY <1>1, <2>2, <2>3 DEF DavMoves
    <2>5. BasesFor(r)'
      BY <1>1, <2>3 DEF BasesFor
    <2>6. PlaceFits(r)' /\ TagChecked(r)'
      BY <2>3, <2>5 DEF PlaceFits, TagChecked
    <2> QED
      BY <1>1, <2>4, <2>6, QuietMove
  <1> DEFINE base == IF dav[r].a.path = <<>> THEN NoDavRow ELSE BaseNamed(dav[r].a.path[1])
  <1>6. \/ \E status : Respond(r, status)
        \/ /\ Len(dav[r].a.path) = 1 /\ dav[r].a.method # "PROPFIND"
           /\ dav' = [dav EXCEPT ![r].pc = NextForBase(dav[r].a.method), ![r].base = base]
        \/ \E tag : dav' = [dav EXCEPT ![r].pc = "tree", ![r].base = base, ![r].tag = tag]
    <2>1. CASE dav[r].a.path = <<>>
      BY <2>1 DEF ReadBases
    <2>2. CASE dav[r].a.path # <<>> /\ Len(dav[r].a.path) = 1 /\ dav[r].a.method # "PROPFIND"
      BY <2>2, Zenon DEF ReadBases
    <2>3. CASE dav[r].a.path # <<>> /\ ~(Len(dav[r].a.path) = 1 /\ dav[r].a.method # "PROPFIND")
      BY <2>3, Zenon DEF ReadBases
    <2> QED
      BY <2>1, <2>2, <2>3
  <1> HIDE DEF base
  <1>7. CASE \E status : Respond(r, status)
    BY <1>2, <1>7
  <1>8. CASE /\ Len(dav[r].a.path) = 1 /\ dav[r].a.method # "PROPFIND"
             /\ dav' = [dav EXCEPT ![r].pc = NextForBase(dav[r].a.method), ![r].base = base]
    <2>1. dav[r].a.method \in {"MKCOL", "DELETE", "MOVE"}
      BY <1>1, <1>8 DEF BasesFor
    <2>2. \E b : dav' = [dav EXCEPT ![r].pc = NextForBase(dav[r].a.method), ![r].base = b]
      BY <1>8
    <2> QED
      BY <1>4, <2>1, <2>2
  <1>9. CASE \E tag : dav' = [dav EXCEPT ![r].pc = "tree", ![r].base = base, ![r].tag = tag]
    BY <1>5, <1>9, Zenon
  <1> QED
    BY <1>6, <1>7, <1>8, <1>9

\* The condition of a PUT that is not refused.
LEMMA ConditionPassed ==
    ASSUME DavAssumption, NEW r, NEW n, dav[r].a.method = "PUT", dav[r].a.cond = "match",
           NodeRefusal(r, n) = 0
    PROVE  /\ n # NoDavRow
           /\ n \in DavIds => dav[r].tag = AnyTag \/ dav[r].tag = <<n, davRows[n].stamp>>
  <1>1. PutRefusal(r, n) = 0
    BY DEF NodeRefusal
  <1>2. CASE n = NoDavRow
    <2>1. ~NodeConditionFails(r, NoDavRow)
      <3>1. NodeConditionFails(r, NoDavRow) => PutRefusal(r, n) # 0
        BY <1>2 DEF PutRefusal
      <3> QED
        BY <1>1, <3>1
    <2> QED
      BY <2>1 DEF NodeConditionFails, ConditionFails
  <1>3. CASE n # NoDavRow
    <2>1. ~NodeConditionFails(r, n)
      <3>1. NodeConditionFails(r, n) => PutRefusal(r, n) # 0
        BY <1>3 DEF PutRefusal
      <3> QED
        BY <1>1, <3>1
    <2>2. dav[r].tag = AnyTag \/ dav[r].tag \in {TagOf(n)}
      BY <1>3, <2>1 DEF NodeConditionFails, ConditionFails
    <2> QED
      BY <1>3, <2>2, TagOfRow
  <1> QED
    BY <1>2, <1>3

LEMMA DecideWriteKeepsInv ==
    ASSUME DavAssumption, DavInv, NEW r \in DavCalls, DecideWrite(r) PROVE DavInv'
  <1> DEFINE n == NodeAt(dav[r].base, Tail(dav[r].a.path))
             parent == FolderOf(r, Place(dav[r].a))
  <1>1. /\ dav[r].pc = "tree" /\ Underway(r) /\ BasesFor(r)
        /\ Writes(dav[r].a.method)
        /\ UNCHANGED <<davRows, texts, stamp, copies, torn>>
    BY DEF DecideWrite, DavAt, Underway, davStore, davSeen, DavInv, PlaceFits
  <1>2. CASE NodeRefusal(r, n) # 0
    <2>1. Respond(r, NodeRefusal(r, n))
      BY <1>2, Zenon DEF DecideWrite
    <2> QED
      BY <1>1, <2>1, AnswerKeepsInv
  <1>3. CASE NodeRefusal(r, n) = 0
    <2>1. dav' = [dav EXCEPT ![r].pc = NextForNode(r, n), ![r].node = n, ![r].parent = parent]
      BY <1>3, Zenon DEF DecideWrite
    <2>2. NextForNode(r, n) =
            IF dav[r].a.method = "MKCOL" THEN "make"
            ELSE IF dav[r].a.method = "PUT" THEN IF n = NoDavRow THEN "make" ELSE "text"
            ELSE IF dav[r].a.method = "DELETE" THEN "drop" ELSE "place"
      BY <1>1 DEF NextForNode, Writes
    <2>3. dav[r].a.method = "PUT" => n \in DavLive \cup {NoDavRow}
      <3>1. dav[r].a.method = "PUT" => Tail(dav[r].a.path) # <<>>
        BY <1>1, AskKnown, DeepPath DEF BasesFor
      <3> QED
        BY <3>1, NodeIsThere
    <2>4. dav[r].a.method = "PUT" /\ dav[r].a.cond = "match" =>
            n # NoDavRow /\ (n \in DavIds => dav[r].tag = AnyTag \/ dav[r].tag = <<n, davRows[n].stamp>>)
      BY <1>3, ConditionPassed
    <2> HIDE DEF n, parent
    <2>5. DOMAIN dav = DavCalls /\ DOMAIN dav[r] = DavFields
      BY <1>1 DEF DavInv, CallShapes
    <2>6. DOMAIN dav' = DavCalls /\ (\A c \in DavCalls \ {r} : dav'[c] = dav[c])
          /\ dav'[r] = [dav[r] EXCEPT !.pc = NextForNode(r, n), !.node = n, !.parent = parent]
      BY <2>1, <2>5
    <2>7. DOMAIN dav'[r] = DavFields /\ dav'[r].pc = NextForNode(r, n) /\ dav'[r].node = n
          /\ dav'[r].a = dav[r].a /\ dav'[r].alone = dav[r].alone /\ dav'[r].tag = dav[r].tag
      BY <2>5, <2>6 DEF DavFields
    <2>8. DavMoves(r)
      BY <1>1, <2>6, <2>7 DEF DavMoves
    <2>9. dav'[r].pc \in {"make", "text", "drop", "place"}
      BY <2>2, <2>7
    <2>10. PlaceFits(r)'
      BY <2>2, <2>4, <2>7, <2>9 DEF PlaceFits
    <2>11. TagChecked(r)'
      <3>1. dav'[r].pc = "text" => dav[r].a.method = "PUT"
        BY <2>2, <2>7
      <3> QED
        BY <1>1, <2>3, <2>4, <2>7, <3>1 DEF TagChecked, DavLive
    <2> QED
      BY <1>1, <2>8, <2>10, <2>11, QuietMove
  <1> QED
    BY <1>2, <1>3

LEMMA PropfindKeepsInv ==
    ASSUME DavAssumption, DavInv, NEW r \in DavCalls, Propfind(r) PROVE DavInv'
  <1>1. /\ dav[r].pc = "tree" /\ Underway(r)
        /\ UNCHANGED <<davRows, texts, stamp, copies, torn>>
    BY DEF Propfind, DavAt, Underway, davStore
  <1>2. PICK status : Respond(r, status)
    BY DEF Propfind
  <1> QED
    BY <1>1, <1>2, AnswerKeepsInv

LEMMA ReadKeepsInv ==
    ASSUME DavAssumption, DavInv, NEW r \in DavCalls, Read(r) PROVE DavInv'
  <1> DEFINE n == NodeAt(dav[r].base, Tail(dav[r].a.path))
  <1>1. /\ dav[r].pc = "tree" /\ Underway(r) /\ BasesFor(r)
        /\ dav[r].a.method \in {"GET", "HEAD"}
        /\ UNCHANGED <<davRows, texts, stamp, copies, torn>>
    BY DEF Read, DavAt, Underway, davStore, DavInv, PlaceFits
  <1>2. \/ \E status : Respond(r, status)
        \/ n # NoDavRow /\ dav' = [dav EXCEPT ![r].pc = "content", ![r].node = n, ![r].tag = TagOf(n)]
    BY Zenon DEF Read
  <1>3. CASE \E status : Respond(r, status)
    BY <1>1, <1>3, AnswerKeepsInv
  <1>4. CASE n # NoDavRow /\ dav' = [dav EXCEPT ![r].pc = "content", ![r].node = n, ![r].tag = TagOf(n)]
    <2>1. Tail(dav[r].a.path) # <<>>
      BY <1>1, AskKnown, DeepPath DEF BasesFor
    <2>2. n \in DavLive
      <3>1. n \in DavLive \cup {NoDavRow}
        BY <2>1, NodeIsThere
      <3> QED
        BY <1>4, <3>1
    <2> HIDE DEF n
    <2>3. n \in DavIds /\ TagOf(n) = <<n, davRows[n].stamp>>
      BY <2>2, TagOfRow DEF DavLive
    <2>4. davRows[n].stamp \in Nat /\ davRows[n].stamp <= stamp
      BY <2>2 DEF DavInv, StoreShapes
    <2>5. DOMAIN dav = DavCalls /\ DOMAIN dav[r] = DavFields
      BY <1>1 DEF DavInv, CallShapes
    <2>6. DOMAIN dav' = DavCalls /\ (\A c \in DavCalls \ {r} : dav'[c] = dav[c])
          /\ dav'[r] = [dav[r] EXCEPT !.pc = "content", !.node = n, !.tag = TagOf(n)]
      BY <1>4, <2>5
    <2>7. DOMAIN dav'[r] = DavFields /\ dav'[r].pc = "content" /\ dav'[r].node = n
          /\ dav'[r].a = dav[r].a /\ dav'[r].alone = dav[r].alone /\ dav'[r].tag = TagOf(n)
      BY <2>5, <2>6 DEF DavFields
    <2>8. DavMoves(r)
      BY <1>1, <2>6, <2>7 DEF DavMoves
    <2>9. TaggedNode(r)'
      BY <1>1, <2>3, <2>4, <2>7 DEF TaggedNode
    <2>10. PlaceFits(r)' /\ TagChecked(r)'
      BY <2>7, <2>9 DEF PlaceFits, TagChecked
    <2> QED
      BY <1>1, <2>8, <2>10, QuietMove
  <1> QED
    BY <1>2, <1>3, <1>4

\* The text is answered under the tag the row had when it was read.
LEMMA ContentKeepsInv ==
    ASSUME DavAssumption, DavInv, NEW r \in DavCalls, Content(r) PROVE DavInv'
  <1>1. /\ dav[r].pc = "content" /\ Underway(r) /\ TaggedNode(r)
        /\ UNCHANGED <<davRows, texts, stamp, torn>>
    BY DEF Content, DavAt, Underway, davStore, DavInv, PlaceFits
  <1>2. PICK status : Respond(r, status)
    BY DEF Content
  <1>3. PICK read : read.tag = dav[r].tag /\ read.text = texts[dav[r].node]
                    /\ copies' \subseteq copies \cup {read}
    <2>1. copies' \subseteq copies \cup {[tag |-> dav[r].tag, text |-> texts[dav[r].node]]}
      BY DEF Content, davSeen
    <2> QED
      BY <2>1
  <1>4. /\ DavMoves(r) /\ dav'[r].pc = "answered" /\ PlaceFits(r)' /\ TagChecked(r)'
    BY <1>1, <1>2, RespondMoves
  <1>5. StoreShapes' /\ stamp \in Nat /\ stamp <= stamp'
    BY <1>1 DEF DavInv, StoreShapes, DavLive
  <1>6. \A n : SaveOpen(n) => SaveOpen(n)'
    BY <1>1, <1>4 DEF SaveOpen, DavMoves
  <1>7. ASSUME NEW copy \in copies
        PROVE  CopyFits(copy)'
    <2>1. CopyFits(copy)
      BY DEF DavInv
    <2> QED
      BY <1>1, <1>6, <2>1 DEF CopyFits, DavLive
  <1>8. CopyFits(read)'
    <2>1. PICK s \in Nat : s <= stamp /\ dav[r].tag = <<dav[r].node, s>>
      BY <1>1 DEF TaggedNode
    <2>2. read.tag = <<dav[r].node, s>> /\ read.text = texts'[dav[r].node] /\ dav[r].node \in DavIds
      BY <1>1, <1>3, <2>1 DEF TaggedNode
    <2> QED
      BY <1>1, <2>1, <2>2 DEF CopyFits
  <1>9. \A copy \in copies' : CopyFits(copy)'
    BY <1>3, <1>7, <1>8
  <1> QED
    BY <1>4, <1>5, <1>9, MovesKeepInv

LEMMA ConsoleSaveKeepsInv ==
    ASSUME DavAssumption, DavInv, NEW r \in DavCalls, ConsoleSave(r) PROVE DavInv'
  <1> DEFINE n == NodeAt(BaseNamed(dav[r].a.path[1]), Tail(dav[r].a.path))
  <1>1. /\ dav[r].pc = "received" /\ Underway(r) /\ dav[r].a.method = "save"
        /\ UNCHANGED <<davRows, texts, stamp, copies, torn>>
    BY DEF ConsoleSave, DavAt, Underway, davStore, davSeen
  <1>2. \/ \E status : Respond(r, status)
        \/ dav' = [dav EXCEPT ![r].pc = "text", ![r].node = n]
    BY Zenon DEF ConsoleSave
  <1> HIDE DEF n
  <1>3. CASE \E status : Respond(r, status)
    BY <1>1, <1>3, AnswerKeepsInv
  <1>4. CASE dav' = [dav EXCEPT ![r].pc = "text", ![r].node = n]
    <2>1. DOMAIN dav = DavCalls /\ DOMAIN dav[r] = DavFields
      BY <1>1 DEF DavInv, CallShapes
    <2>2. DOMAIN dav' = DavCalls /\ (\A c \in DavCalls \ {r} : dav'[c] = dav[c])
          /\ dav'[r] = [dav[r] EXCEPT !.pc = "text", !.node = n]
      BY <1>4, <2>1
    <2>3. DOMAIN dav'[r] = DavFields /\ dav'[r].pc = "text"
          /\ dav'[r].a = dav[r].a /\ dav'[r].alone = dav[r].alone
      BY <2>1, <2>2 DEF DavFields
    <2>4. DavMoves(r)
      BY <1>1, <2>2, <2>3 DEF DavMoves
    <2>5. dav'[r].a.cond # "match"
      BY <1>1, <2>3, AskKnown
    <2>6. PlaceFits(r)' /\ TagChecked(r)'
      BY <2>3, <2>5 DEF PlaceFits, TagChecked
    <2> QED
      BY <1>1, <2>4, <2>6, QuietMove
  <1> QED
    BY <1>2, <1>3, <1>4

\* A row that is written gets a stamp nobody has been given yet.
RowFresh(n) ==
    "stamp" \in DOMAIN davRows'[n] /\ davRows'[n].stamp = stamp' /\ stamp' = stamp + 1
RowMoves(n) ==
    \/ davRows'[n] = davRows[n] /\ (n \in torn => n \in torn')
    \/ davRows'[n] = NoDavRow
    \/ RowFresh(n)

\* Rows stay, go, or get a fresh stamp; the save that ends here stamps its row,
\* finds none, or leaves it torn.
LEMMA RowsMoveKeepInv ==
    ASSUME DavInv, NEW r \in DavCalls, DavMoves(r), PlaceFits(r)', TagChecked(r)',
           copies' = copies, texts' = texts, stamp' = stamp \/ stamp' = stamp + 1,
           DOMAIN davRows' = DavIds, \A n \in DavIds : RowMoves(n),
           dav[r].pc = "touch" /\ dav[r].node \in DavIds =>
              davRows'[dav[r].node] = NoDavRow \/ RowFresh(dav[r].node) \/ dav[r].node \in torn'
    PROVE  DavInv'
  <1>1. stamp \in Nat /\ stamp' \in Nat /\ stamp <= stamp' /\ DOMAIN texts' = DavIds
    BY DEF DavInv, StoreShapes
  <1>2. ASSUME NEW n \in DavLive'
        PROVE  "stamp" \in DOMAIN davRows'[n] /\ davRows'[n].stamp \in Nat /\ davRows'[n].stamp <= stamp'
    <2>1. n \in DavIds /\ davRows'[n] # NoDavRow
      BY <1>2 DEF DavLive
    <2>2. CASE davRows'[n] = davRows[n]
      <3>1. n \in DavLive
        BY <2>1, <2>2 DEF DavLive
      <3>2. "stamp" \in DOMAIN davRows[n] /\ davRows[n].stamp \in Nat /\ davRows[n].stamp <= stamp
        BY <3>1 DEF DavInv, StoreShapes
      <3> QED
        BY <1>1, <2>2, <3>2
    <2>3. CASE RowFresh(n)
      BY <1>1, <2>3 DEF RowFresh
    <2> QED
      BY <2>1, <2>2, <2>3 DEF RowMoves
  <1>3. StoreShapes'
    BY <1>1, <1>2 DEF StoreShapes
  <1>4. ASSUME NEW n \in DavIds, n \in DavLive', n \notin torn'
        PROVE  RowKept(n) \/ davRows'[n].stamp > stamp
    <2>1. davRows'[n] # NoDavRow
      BY <1>4 DEF DavLive
    <2>2. CASE RowFresh(n)
      BY <1>1, <2>2 DEF RowFresh
    <2>3. CASE ~RowFresh(n)
      <3>1. davRows'[n] = davRows[n] /\ n \notin torn
        BY <1>4, <2>1, <2>3 DEF RowMoves
      <3>2. n \in DavLive
        BY <2>1, <3>1 DEF DavLive
      <3>3. SaveOpen(n) => SaveOpen(n)'
        BY <1>4, <2>1, <2>3 DEF SaveOpen, DavMoves
      <3> QED
        BY <3>1, <3>2, <3>3 DEF RowKept
    <2> QED
      BY <2>2, <2>3
  <1>5. \A copy \in copies' : CopyFits(copy)'
    BY <1>1, <1>4, CopiesStay
  <1> QED
    BY <1>1, <1>3, <1>5, MovesKeepInv

LEMMA StampedMoves ==
    ASSUME DavInv, NEW n, NEW row, "stamp" \in DOMAIN row, Stamped(n, row),
           \A m \in torn : m \in torn' \/ m = n
    PROVE  /\ DOMAIN davRows' = DavIds /\ stamp' = stamp + 1
           /\ \A m \in DavIds : RowMoves(m)
           /\ n \in DavIds => RowFresh(n)
  <1>1. DOMAIN davRows = DavIds
    BY DEF DavInv, StoreShapes
  <1>2. stamp' = stamp + 1 /\ davRows' = [davRows EXCEPT ![n] = [row EXCEPT !.stamp = stamp + 1]]
    BY DEF Stamped
  <1>3. n \in DavIds => davRows'[n] = [row EXCEPT !.stamp = stamp + 1]
    BY <1>1, <1>2
  <1>4. n \in DavIds => RowFresh(n)
    BY <1>2, <1>3 DEF RowFresh
  <1>5. \A m \in DavIds : m # n => davRows'[m] = davRows[m]
    BY <1>1, <1>2
  <1> QED
    BY <1>1, <1>2, <1>4, <1>5 DEF RowMoves

\* Bases: quota, creation, new name, removal with all that is in it.
LEMMA BasesKeepInv ==
    ASSUME DavInv, NEW r \in DavCalls, Quota(r) \/ MakeBase(r) \/ RenameBase(r) \/ DropBase(r)
    PROVE  DavInv'
  <1>1. /\ dav[r].pc \in {"quota", "makebase", "renamebase", "dropbase"} /\ Underway(r)
        /\ UNCHANGED <<texts, copies, torn>>
    BY DEF Quota, MakeBase, RenameBase, DropBase, DavAt, Underway, davStore, davSeen
  <1>2. \/ \E status : Respond(r, status)
        \/ \E pc \in {"makebase", "audit"} : DavGoto(r, pc)
    BY Zenon DEF Quota, MakeBase, RenameBase, DropBase
  <1>3. DavMoves(r) /\ PlaceFits(r)' /\ TagChecked(r)'
    <2>1. CASE \E status : Respond(r, status)
      BY <1>1, <2>1, RespondMoves
    <2>2. CASE \E pc \in {"makebase", "audit"} : DavGoto(r, pc)
      BY <1>1, <2>2, GotoMoves, FreePlace
    <2> QED
      BY <1>2, <2>1, <2>2
  <1>4. /\ stamp' = stamp \/ stamp' = stamp + 1
        /\ DOMAIN davRows' = DavIds /\ \A n \in DavIds : davRows'[n] \in {davRows[n], NoDavRow}
    <2>1. DOMAIN davRows = DavIds
      BY DEF DavInv, StoreShapes
    <2>2. CASE Quota(r) \/ MakeBase(r) \/ RenameBase(r)
      BY <2>1, <2>2 DEF Quota, MakeBase, RenameBase, davStore
    <2>3. CASE DropBase(r)
      BY <2>1, <2>3 DEF DropBase
    <2> QED
      BY <2>2, <2>3
  <1>5. \A n \in DavIds : RowMoves(n)
    BY <1>1, <1>4 DEF RowMoves
  <1> QED
    BY <1>1, <1>3, <1>4, <1>5, RowsMoveKeepInv

LEMMA MakeKeepsInv ==
    ASSUME DavInv, NEW r \in DavCalls, Make(r) PROVE DavInv'
  <1>1. /\ dav[r].pc = "make" /\ Underway(r) /\ UNCHANGED <<texts, copies>>
        /\ DOMAIN dav = DavCalls /\ DOMAIN dav[r] = DavFields
        /\ dav[r].a.method = "PUT" => dav[r].a.cond # "match"
    BY DEF Make, DavAt, Underway, davSeen, DavInv, CallShapes, PlaceFits
  <1>2. \E n, pc, made, row :
            /\ dav' = [dav EXCEPT ![r].pc = pc, ![r].node = n, ![r].made = made]
            /\ pc \in {"text", "audit"} /\ (pc = "text" => dav[r].a.method = "PUT")
            /\ Stamped(n, row) /\ "stamp" \in DOMAIN row /\ torn' = torn \ {n}
    <2>1. PICK n \in DavIds \ DavLive :
            /\ Stamped(n, [base |-> dav[r].base, parent |-> dav[r].parent, name |-> NameOf(dav[r].a.path),
                       kind |-> IF dav[r].a.method = "PUT" THEN "document" ELSE "collection", stamp |-> 0])
            /\ dav' = [dav EXCEPT ![r].pc = IF @ = "make" /\ dav[r].a.method = "PUT" THEN "text" ELSE "audit",
                              ![r].node = n, ![r].made = dav[r].a.method = "PUT"]
            /\ torn' = torn \ {n}
      BY DEF Make
    <2> DEFINE kind == IF dav[r].a.method = "PUT" THEN "document" ELSE "collection"
               row == [base |-> dav[r].base, parent |-> dav[r].parent, name |-> NameOf(dav[r].a.path),
                       kind |-> kind, stamp |-> 0]
               pc == IF dav[r].a.method = "PUT" THEN "text" ELSE "audit"
               made == dav[r].a.method = "PUT"
    <2>2. dav' = [dav EXCEPT ![r].pc = pc, ![r].node = n, ![r].made = made]
      <3>1. CASE dav[r].a.method = "PUT"
        BY <1>1, <2>1, <3>1
      <3>2. CASE dav[r].a.method # "PUT"
        BY <1>1, <2>1, <3>2
      <3> QED
        BY <3>1, <3>2
    <2>3. Stamped(n, row) /\ "stamp" \in DOMAIN row
      BY <2>1
    <2>4. pc \in {"text", "audit"} /\ (pc = "text" => dav[r].a.method = "PUT")
      OBVIOUS
    <2> HIDE DEF row, pc, made
    <2> QED
      BY <2>1, <2>2, <2>3, <2>4
  <1>3. PICK n, pc, made, row :
            /\ dav' = [dav EXCEPT ![r].pc = pc, ![r].node = n, ![r].made = made]
            /\ pc \in {"text", "audit"} /\ (pc = "text" => dav[r].a.method = "PUT")
            /\ Stamped(n, row) /\ "stamp" \in DOMAIN row /\ torn' = torn \ {n}
    BY <1>2
  <1>4. DOMAIN dav' = DavCalls /\ (\A c \in DavCalls \ {r} : dav'[c] = dav[c])
        /\ dav'[r] = [dav[r] EXCEPT !.pc = pc, !.node = n, !.made = made]
    BY <1>1, <1>3
  <1>5. DOMAIN dav'[r] = DavFields /\ dav'[r].pc = pc
        /\ dav'[r].a = dav[r].a /\ dav'[r].alone = dav[r].alone
    BY <1>1, <1>4 DEF DavFields
  <1>6. DavMoves(r)
    BY <1>1, <1>4, <1>5 DEF DavMoves
  <1>7. PlaceFits(r)' /\ TagChecked(r)'
    BY <1>1, <1>3, <1>5 DEF PlaceFits, TagChecked
  <1>8. /\ DOMAIN davRows' = DavIds /\ stamp' = stamp + 1 /\ \A m \in DavIds : RowMoves(m)
    BY <1>3, StampedMoves
  <1> QED
    BY <1>1, <1>6, <1>7, <1>8, RowsMoveKeepInv

\* From here on the old tag covers the new text, and the save is open.
LEMMA StoreTextKeepsInv ==
    ASSUME DavInv, NEW r \in DavCalls, StoreText(r) PROVE DavInv'
  <1>1. /\ dav[r].pc = "text" /\ Underway(r)
        /\ UNCHANGED <<davRows, stamp, copies, torn>>
    BY DEF StoreText, DavAt, Underway, davSeen
  <1>2. \/ UNCHANGED texts /\ \E status : BreaksOff(r, status)
        \/ texts' = [texts EXCEPT ![dav[r].node] = r] /\ DavGoto(r, "touch")
    BY Zenon DEF StoreText
  <1>3. CASE UNCHANGED texts /\ \E status : BreaksOff(r, status)
    BY <1>1, <1>3, BreaksOffMoves, QuietMove
  <1>4. CASE texts' = [texts EXCEPT ![dav[r].node] = r] /\ DavGoto(r, "touch")
    <2>1. DavMoves(r) /\ dav'[r].pc = "touch" /\ dav'[r].node = dav[r].node
      BY <1>1, <1>4, GotoMoves
    <2>2. PlaceFits(r)' /\ TagChecked(r)'
      BY <2>1, FreePlace
    <2>3. StoreShapes' /\ stamp \in Nat /\ stamp <= stamp'
      BY <1>1, <1>4 DEF DavInv, StoreShapes, DavLive
    <2>4. \A n : SaveOpen(n) => SaveOpen(n)'
      BY <1>1, <2>1 DEF SaveOpen, DavMoves
    <2>5. \A n : n = dav[r].node => SaveOpen(n)'
      BY <2>1 DEF SaveOpen
    <2>6. \A n \in DavIds : texts'[n] = texts[n] \/ SaveOpen(n)'
      <3>1. \A n \in DavIds : n # dav[r].node => texts'[n] = texts[n]
        BY <1>4 DEF DavInv, StoreShapes
      <3> QED
        BY <2>5, <3>1
    <2>7. ASSUME NEW copy \in copies'
          PROVE  CopyFits(copy)'
      <3>1. CopyFits(copy)
        BY <1>1, <2>7 DEF DavInv
      <3> QED
        BY <1>1, <2>4, <2>6, <3>1 DEF CopyFits, DavLive
    <2> QED
      BY <2>1, <2>2, <2>3, <2>7, MovesKeepInv
  <1> QED
    BY <1>2, <1>3, <1>4

LEMMA TouchKeepsInv ==
    ASSUME DavInv, NEW r \in DavCalls, TouchRow(r) PROVE DavInv'
  <1> DEFINE n == dav[r].node
  <1>1. /\ dav[r].pc = "touch" /\ Underway(r) /\ UNCHANGED <<texts, copies, torn>>
    BY DEF TouchRow, DavAt, Underway, davSeen
  <1>2. DOMAIN davRows = DavIds
    BY DEF DavInv, StoreShapes
  <1>3. CASE davRows[n] = NoDavRow
    <2>1. UNCHANGED <<davRows, stamp>> /\ \E status : BreaksOff(r, status)
      BY <1>3, Zenon DEF TouchRow
    <2>2. DavMoves(r) /\ PlaceFits(r)' /\ TagChecked(r)'
      BY <1>1, <2>1, BreaksOffMoves
    <2>3. \A m \in DavIds : RowMoves(m)
      BY <1>1, <2>1 DEF RowMoves
    <2> QED
      BY <1>1, <1>2, <1>3, <2>1, <2>2, <2>3, RowsMoveKeepInv
  <1>4. CASE davRows[n] # NoDavRow
    <2>1. Stamped(n, davRows[n]) /\ DavGoto(r, "audit")
      BY <1>4, Zenon DEF TouchRow
    <2>2. DavMoves(r) /\ PlaceFits(r)' /\ TagChecked(r)'
      BY <1>1, <2>1, GotoMoves, FreePlace
    <2>3. CASE n \in DavIds
      <3>1. "stamp" \in DOMAIN davRows[n]
        BY <1>4, <2>3 DEF DavInv, StoreShapes, DavLive
      <3>2. /\ DOMAIN davRows' = DavIds /\ stamp' = stamp + 1
            /\ \A m \in DavIds : RowMoves(m)
            /\ RowFresh(n)
        BY <1>1, <2>1, <2>3, <3>1, StampedMoves
      <3> QED
        BY <1>1, <2>2, <3>2, RowsMoveKeepInv
    <2>4. CASE n \notin DavIds
      <3>1. DOMAIN davRows' = DavIds /\ stamp' = stamp + 1 /\ \A m \in DavIds : davRows'[m] = davRows[m]
        BY <1>2, <2>1, <2>4 DEF Stamped
      <3>2. \A m \in DavIds : RowMoves(m)
        BY <1>1, <3>1 DEF RowMoves
      <3> QED
        BY <1>1, <2>2, <2>4, <3>1, <3>2, RowsMoveKeepInv
    <2> QED
      BY <2>3, <2>4
  <1> QED
    BY <1>3, <1>4

LEMMA PlaceKeepsInv ==
    ASSUME DavInv, NEW r \in DavCalls, PlaceNode(r) PROVE DavInv'
  <1> DEFINE n == dav[r].node
             row == [davRows[n] EXCEPT !.parent = dav[r].parent, !.name = NameOf(dav[r].a.dest)]
  <1>1. /\ dav[r].pc = "place" /\ Underway(r) /\ UNCHANGED <<texts, copies, torn>>
    BY DEF PlaceNode, DavAt, Underway, davSeen
  <1>2. DOMAIN davRows = DavIds
    BY DEF DavInv, StoreShapes
  <1>3. \/ UNCHANGED <<davRows, stamp>> /\ \E status : Respond(r, status)
        \/ davRows[n] # NoDavRow /\ Stamped(n, row) /\ DavGoto(r, "audit")
    BY Zenon DEF PlaceNode
  <1>4. CASE UNCHANGED <<davRows, stamp>> /\ \E status : Respond(r, status)
    BY <1>1, <1>4, AnswerKeepsInv
  <1>5. CASE davRows[n] # NoDavRow /\ Stamped(n, row) /\ DavGoto(r, "audit")
    <2>1. DavMoves(r) /\ PlaceFits(r)' /\ TagChecked(r)'
      BY <1>1, <1>5, GotoMoves, FreePlace
    <2>2. CASE n \in DavIds
      <3>1. "stamp" \in DOMAIN davRows[n]
        BY <1>5, <2>2 DEF DavInv, StoreShapes, DavLive
      <3>2. "stamp" \in DOMAIN row
        BY <3>1
      <3> HIDE DEF row
      <3>3. /\ DOMAIN davRows' = DavIds /\ stamp' = stamp + 1
            /\ \A m \in DavIds : RowMoves(m)
        BY <1>1, <1>5, <3>2, StampedMoves
      <3> QED
        BY <1>1, <2>1, <3>3, RowsMoveKeepInv
    <2>3. CASE n \notin DavIds
      <3> HIDE DEF row
      <3>1. DOMAIN davRows' = DavIds /\ stamp' = stamp + 1 /\ \A m \in DavIds : davRows'[m] = davRows[m]
        BY <1>2, <1>5, <2>3 DEF Stamped
      <3>2. \A m \in DavIds : RowMoves(m)
        BY <1>1, <3>1 DEF RowMoves
      <3> QED
        BY <1>1, <2>1, <3>1, <3>2, RowsMoveKeepInv
    <2> QED
      BY <2>2, <2>3
  <1> QED
    BY <1>3, <1>4, <1>5

LEMMA TakeAwayKeepsInv ==
    ASSUME DavInv, NEW r \in DavCalls, TakeAway(r) PROVE DavInv'
  <1>1. /\ dav[r].pc \in {"drop", "cleanup"} /\ Underway(r) /\ UNCHANGED <<texts, copies, torn, stamp>>
    BY DEF TakeAway, Underway, davSeen
  <1>2. DOMAIN davRows = DavIds
    BY DEF DavInv, StoreShapes
  <1>3. (\E status : Respond(r, status)) \/ DavGoto(r, "audit")
    BY Zenon DEF TakeAway
  <1>4. DavMoves(r) /\ PlaceFits(r)' /\ TagChecked(r)'
    <2>1. CASE \E status : Respond(r, status)
      BY <1>1, <2>1, RespondMoves
    <2>2. CASE DavGoto(r, "audit")
      BY <1>1, <2>2, GotoMoves, FreePlace
    <2> QED
      BY <1>3, <2>1, <2>2
  <1>5. \/ davRows' = davRows
        \/ davRows' = [m \in DavIds |-> IF m \in DavSubtree(dav[r].node) THEN NoDavRow ELSE davRows[m]]
    BY Zenon DEF TakeAway
  <1>6. DOMAIN davRows' = DavIds /\ \A m \in DavIds : davRows'[m] \in {davRows[m], NoDavRow}
    BY <1>2, <1>5
  <1>7. \A m \in DavIds : RowMoves(m)
    BY <1>1, <1>6 DEF RowMoves
  <1> QED
    BY <1>1, <1>4, <1>6, <1>7, RowsMoveKeepInv

\* What throws answers or cleans up; a save that breaks off before it has stamped
\* its row leaves the node torn.
LEMMA BrokenKeepsInv ==
    ASSUME DavInv, NEW r \in DavCalls, Broken(r) \/ Audit(r) PROVE DavInv'
  <1>1. /\ Underway(r) /\ UNCHANGED <<davRows, texts, stamp, copies>>
        /\ torn' = IF dav[r].pc = "touch" THEN torn \cup {dav[r].node} ELSE torn
    BY DEF Broken, Audit, DavAt, Underway, davStore, davSeen
  <1>2. (\E status : Respond(r, status)) \/ (\E status : BreaksOff(r, status))
    <2>1. CASE Audit(r)
      BY <2>1 DEF Audit
    <2>2. CASE Broken(r)
      <3>1. CASE dav[r].pc \in {"text", "touch"}
        BY <2>2, <3>1 DEF Broken
      <3>2. CASE dav[r].pc \in {"make", "place"}
        BY <2>2, <3>2 DEF Broken
      <3>3. CASE dav[r].pc \in {"drop", "dropbase"}
        BY <2>2, <3>3 DEF Broken
      <3>4. CASE dav[r].pc \in {"bases", "tree", "quota", "makebase", "renamebase", "cleanup", "audit"}
        BY <2>2, <3>4 DEF Broken
      <3> QED
        BY <2>2, <3>1, <3>2, <3>3, <3>4 DEF Broken
    <2> QED
      BY <2>1, <2>2
  <1>3. DavMoves(r) /\ PlaceFits(r)' /\ TagChecked(r)'
    <2>1. CASE \E status : Respond(r, status)
      BY <1>1, <2>1, RespondMoves
    <2>2. CASE \E status : BreaksOff(r, status)
      BY <1>1, <2>2, BreaksOffMoves
    <2> QED
      BY <1>2, <2>1, <2>2
  <1>4. \A m \in DavIds : RowMoves(m)
    BY <1>1 DEF RowMoves
  <1>5. DOMAIN davRows' = DavIds
    BY <1>1 DEF DavInv, StoreShapes
  <1> QED
    BY <1>1, <1>3, <1>4, <1>5, RowsMoveKeepInv

LEMMA DavStepKeepsInv ==
    ASSUME DavAssumption, DavInv, [DavNext]_davVars PROVE DavInv'
  <1>1. ASSUME NEW r \in DavCalls, DavServes(r)
        PROVE  DavInv'
    BY <1>1, LetInKeepsInv, BodyKeepsInv, ReadBasesKeepsInv, DecideWriteKeepsInv, PropfindKeepsInv,
       ReadKeepsInv, ContentKeepsInv, BasesKeepInv, MakeKeepsInv, StoreTextKeepsInv, TouchKeepsInv,
       PlaceKeepsInv, TakeAwayKeepsInv, BrokenKeepsInv, ConsoleSaveKeepsInv DEF DavServes
  <1>2. CASE UNCHANGED davVars
    BY <1>2 DEF davVars, davStore, davSeen, DavInv, StoreShapes, CallShapes, AloneMeans, PlaceFits, BasesFor,
       TaggedNode, TagChecked, CopyFits, SaveOpen, Underway, DavLive
  <1> QED
    BY <1>1, <1>2, ArriveKeepsInv, EditorKeepsInv DEF DavNext

\* A conditional PUT that stores its text finds the text its tag was given for.
ReplacesWhatWasRead(r) ==
    DavAt(r, "text") /\ texts' # texts /\ dav'[r].pc = "touch"
    /\ dav[r].a.cond = "match" /\ dav[r].alone /\ dav[r].node \notin torn
      => \A copy \in copies : copy.tag = dav[r].tag => texts[dav[r].node] = copy.text
LEMMA StoreIsExact ==
    ASSUME DavAssumption, DavInv, NEW r \in DavCalls
    PROVE  ReplacesWhatWasRead(r)
  <1> SUFFICES ASSUME DavAt(r, "text"), texts' # texts, dav'[r].pc = "touch", dav[r].a.cond = "match",
                      dav[r].alone, dav[r].node \notin torn,
                      NEW copy \in copies, copy.tag = dav[r].tag
               PROVE  texts[dav[r].node] = copy.text
    BY DEF ReplacesWhatWasRead
  <1>1. Underway(r) /\ dav[r].pc = "text"
    BY DEF DavAt, Underway
  <1>2. PICK n \in DavIds, s \in Nat :
            /\ copy.tag = <<n, s>>
            /\ n \in DavLive /\ davRows[n].stamp = s /\ n \notin torn => copy.text = texts[n] \/ SaveOpen(n)
    BY DEF DavInv, CopyFits
  <1>3. dav[r].tag # AnyTag
    BY <1>2 DEF DavAssumption
  <1>4. dav[r].node \in DavLive /\ dav[r].tag = <<dav[r].node, davRows[dav[r].node].stamp>>
    BY <1>1, <1>3 DEF DavInv, TagChecked
  <1>5. n = dav[r].node /\ davRows[n].stamp = s
    <2>1. <<n, s>> = <<dav[r].node, davRows[dav[r].node].stamp>>
      BY <1>2, <1>4
    <2>2. n = dav[r].node /\ s = davRows[dav[r].node].stamp
      BY <2>1
    <2> QED
      BY <2>2
  <1>6. ~SaveOpen(n)
    BY <1>1 DEF SaveOpen, DavInv, AloneMeans, Underway
  <1> QED
    BY <1>2, <1>4, <1>5, <1>6

\* A PUT with the ETag of a GET replaces the very text that GET answered, for any
\* number of requests, visitors, bases and nodes and whatever was asked between
\* the two, as long as nothing overlapped either and no save broke off between
\* its two writes.
THEOREM PutReplacesWhatWasRead == DavSpec => ConditionalPutIsExact
  <1>1. DavInit => DavInv
    BY DavInitInv, DavAssumption
  <1>2. DavInv /\ [DavNext]_davVars =>
            /\ DavInv'
            /\ [\A r \in DavCalls : ReplacesWhatWasRead(r)]_davVars
    BY DavStepKeepsInv, StoreIsExact, DavAssumption
  <1> QED
    BY <1>1, <1>2, PTL DEF DavSpec, ConditionalPutIsExact, ReplacesWhatWasRead
==============================================================================
