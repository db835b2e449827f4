------------------------ MODULE DocumentDraftsProofs ------------------------
(***************************************************************************)
(* What is proved of DocumentDrafts for any number of handlers and calls.  *)
(***************************************************************************)
EXTENDS DocumentDrafts, TLAPS

Flying == [kind : Kinds, pc : Places, mark : Marks, copy : Nodes,
           version : Nat, text : Nat, indexed : Nat]

\* Where a handler of each kind may be, and what it may be about to mark.
Sound(r) ==
    \/ r.kind = "save" /\ r.pc \in {"find", "store", "state", "merge"}
                       /\ r.mark \in {"none", "dirty"}
    \/ r.kind = "fill" /\ r.pc \in {"draft", "download", "find", "store", "state", "merge"}
                       /\ r.mark \in {"none", "filled"}
    \/ /\ r.kind = "index"
       /\ r.pc \in {"draft", "download", "state", "merge", "write", "count", "refresh"}
       /\ r.mark \in {"none", "indexing", "clean", "vectorless", "busy", "failed"}
    \/ r.kind = "import" /\ r.pc \in {"clear", "inject", "mark"} /\ r.mark = "none"
    \/ r.kind \in {"sync", "manual"} /\ r.pc = "mark" /\ r.mark = "none"
    \/ r.kind = "warm" /\ r.pc \in {"download", "find", "store", "number"} /\ r.mark = "none"

Legal == {r \in Flying : Sound(r)} \cup {Idle}

\* The inductive form of TypeOK: a handler is only where its kind goes.
Typed == TypeOK /\ op \in [Ops -> Legal]

LEMMA LegalRec == Legal \subseteq OpRec
  BY DEF Legal, Flying, Idle, OpRec

LEMMA InFlightRec ==
    ASSUME Typed, NEW o \in Ops, op[o].kind # "idle"
    PROVE  op[o] \in Flying /\ Sound(op[o])
  <1>1. op[o] \in Legal
    BY DEF Typed
  <1> QED
    BY <1>1 DEF Legal, Idle

\* A step that gives one handler a legal record keeps the invariant, if it
\* keeps the types of the other variables.
LEMMA StepTyped ==
    ASSUME Typed, NEW o \in Ops, NEW r \in Legal, op' = [op EXCEPT ![o] = r],
           draft' \in [version : Nat, text : Nat], node' \in Nodes, ov' \in Nat,
           imported' \in BOOLEAN, texts' \in Nat, calls' \in [Called -> Nat],
           restarts' \in 0..MaxRestarts
    PROVE  Typed'
  <1>1. op' \in [Ops -> Legal]
    BY DEF Typed
  <1>2. op' \in [Ops -> OpRec]
    BY <1>1, LegalRec
  <1> QED
    BY <1>1, <1>2 DEF Typed, TypeOK

\* The row a syncIndexState writes is a row.
LEMMA MergedIsNode ==
    ASSUME NEW r \in Flying
    PROVE  Merged(r) \in Nodes
  <1>1. /\ r.copy \in Nodes /\ r.mark \in Marks
        /\ r.version \in Nat /\ r.indexed \in Nat
    BY DEF Flying
  <1> QED
    BY <1>1 DEF Merged, Marks, Nodes, Statuses

\* The ways a step leaves a handler: it ends, moves on or goes to write the node.
LEMMA DoneLegal ==
    ASSUME NEW o \in Ops, Done(o)
    PROVE  \E r \in Legal : op' = [op EXCEPT ![o] = r]
  BY DEF Done, Legal

LEMMA GotoLegal ==
    ASSUME NEW o \in Ops, NEW pc, Goto(o, pc), [op[o] EXCEPT !.pc = pc] \in Legal
    PROVE  \E r \in Legal : op' = [op EXCEPT ![o] = r]
  <1>1. op' = [op EXCEPT ![o] = [op[o] EXCEPT !.pc = pc]]
    BY DEF Goto
  <1> QED
    BY <1>1

LEMMA SyncLegal ==
    ASSUME NEW o \in Ops, NEW mark, Sync(o, mark),
           [op[o] EXCEPT !.pc = "state", !.mark = mark] \in Legal
    PROVE  \E r \in Legal : op' = [op EXCEPT ![o] = r]
  <1>1. op' = [op EXCEPT ![o] = [op[o] EXCEPT !.pc = "state", !.mark = mark]]
    BY DEF Sync
  <1> QED
    BY <1>1

\* A call starts a handler at its first place.
LEMMA CallTyped ==
    ASSUME Typed, NEW o \in Ops, NEW k \in Called, Call(o, k)
    PROVE  Typed'
  <1> DEFINE r == [kind |-> k, pc |-> First[k], mark |-> "none", copy |-> node,
                   version |-> 0, text |-> IF k = "save" THEN texts + 1 ELSE 0,
                   indexed |-> node.indexedVersion]
  <1>1. r \in Flying
    BY DEF First, Called, Kinds, Flying, Places, Marks, Typed, TypeOK, Nodes
  <1>2. Sound(r)
    BY DEF First, Called, Sound
  <1>3. op' = [op EXCEPT ![o] = r]
    BY DEF Call
  <1>4. texts' \in Nat /\ calls' \in [Called -> Nat]
    BY DEF Call, Typed, TypeOK
  <1>5. r \in Legal
    BY <1>1, <1>2 DEF Legal
  <1> HIDE DEF r
  <1> QED
    BY <1>3, <1>4, <1>5, StepTyped DEF Call, Typed, TypeOK

\* The steps on the draft.
LEMMA DraftTyped ==
    ASSUME Typed, NEW o \in Ops, Draft(o)
    PROVE  Typed'
  <1> USE DEF bounds
  <1>1. op[o] \in Flying /\ Sound(op[o])
    BY InFlightRec DEF Draft, ReadDraft, Download, FindDraft, StoreDraft, At
  <1>2. draft.version \in Nat /\ draft.text \in Nat /\ ov \in Nat
    BY DEF Typed, TypeOK
  <1>3. CASE ReadDraft(o)
    <2>1. op[o].kind \in {"fill", "index"} /\ op[o].mark \in Marks
      BY <1>1, <1>3 DEF Sound, ReadDraft, At, Flying
    <2>2. CASE draft.version = 0
      <3> DEFINE r == [op[o] EXCEPT !.pc = "download", !.version = op[o].copy.draftVersion]
      <3>1. r \in Flying
        BY <1>1 DEF Flying, Places, Nodes
      <3>2. Sound(r)
        BY <1>1, <2>1 DEF Sound, Flying
      <3>3. op' = [op EXCEPT ![o] = r]
        BY <1>3, <2>2 DEF ReadDraft
      <3>4. r \in Legal
        BY <3>1, <3>2 DEF Legal
      <3> HIDE DEF r
      <3> QED
        BY <1>3, <3>3, <3>4, StepTyped DEF ReadDraft, Typed, TypeOK
    <2>3. CASE draft.version # 0 /\ op[o].kind = "index"
      <3> DEFINE r == [op[o] EXCEPT !.pc = "state", !.mark = "indexing",
                                    !.version = draft.version, !.text = draft.text]
      <3>1. r \in Flying
        BY <1>1, <1>2 DEF Flying, Places, Marks
      <3>2. Sound(r)
        BY <1>1, <2>3 DEF Sound, Flying
      <3>3. op' = [op EXCEPT ![o] = r]
        BY <1>3, <2>3 DEF ReadDraft
      <3>4. r \in Legal
        BY <3>1, <3>2 DEF Legal
      <3> HIDE DEF r
      <3> QED
        BY <1>3, <3>3, <3>4, StepTyped DEF ReadDraft, Typed, TypeOK
    <2>4. CASE draft.version # 0 /\ op[o].kind # "index"
      <3>1. Done(o)
        BY <1>3, <2>4 DEF ReadDraft
      <3> QED
        BY <1>3, <3>1, DoneLegal, StepTyped DEF ReadDraft, Typed, TypeOK
    <2> QED
      BY <2>2, <2>3, <2>4
  <1>4. CASE Download(o)
    <2>1. CASE op[o].kind # "index" /\ ov # 0
      <3> DEFINE r == [op[o] EXCEPT !.pc = "find", !.text = ov]
      <3>1. r \in Flying
        BY <1>1, <1>2 DEF Flying, Places
      <3>2. Sound(r)
        BY <1>1, <1>4, <2>1 DEF Sound, Flying, Download, At
      <3>3. op' = [op EXCEPT ![o] = r]
        BY <1>4, <2>1 DEF Download
      <3>4. r \in Legal
        BY <3>1, <3>2 DEF Legal
      <3> HIDE DEF r
      <3> QED
        BY <1>4, <3>3, <3>4, StepTyped DEF Download, Typed, TypeOK
    <2>2. CASE op[o].kind = "index" /\ ~ (ov = 0 /\ op[o].copy.contentUri)
      <3> DEFINE r == [op[o] EXCEPT !.pc = "state", !.mark = "indexing", !.text = ov]
      <3>1. r \in Flying
        BY <1>1, <1>2 DEF Flying, Places, Marks
      <3>2. Sound(r)
        BY <1>1, <2>2 DEF Sound, Flying
      <3>3. op' = [op EXCEPT ![o] = r]
        BY <1>4, <2>2 DEF Download
      <3>4. r \in Legal
        BY <3>1, <3>2 DEF Legal
      <3> HIDE DEF r
      <3> QED
        BY <1>4, <3>3, <3>4, StepTyped DEF Download, Typed, TypeOK
    <2>3. CASE \/ op[o].kind # "index" /\ ov = 0
               \/ op[o].kind = "index" /\ ov = 0 /\ op[o].copy.contentUri
      <3>1. Done(o)
        BY <1>4, <2>3 DEF Download
      <3> QED
        BY <1>4, <3>1, DoneLegal, StepTyped DEF Download, Typed, TypeOK
    <2> QED
      BY <2>1, <2>2, <2>3
  <1>5. CASE FindDraft(o)
    <2> DEFINE r == [op[o] EXCEPT !.pc = "store", !.version = draft.version + 1]
    <2>1. r \in Flying
      <3>1. PICK v \in Nat : v = draft.version + 1
        BY <1>2
      <3>2. [op[o] EXCEPT !.pc = "store", !.version = v] \in Flying
        BY <1>1 DEF Flying, Places
      <3> QED
        BY <3>1, <3>2
    <2>2. Sound(r)
      BY <1>1, <1>5 DEF Sound, Flying, FindDraft, At
    <2>3. op' = [op EXCEPT ![o] = r]
      BY <1>5 DEF FindDraft
    <2>4. r \in Legal
      BY <2>1, <2>2 DEF Legal
    <2> HIDE DEF r
    <2> QED
      BY <1>5, <2>3, <2>4, StepTyped DEF FindDraft, Typed, TypeOK
  <1>6. CASE StoreDraft(o)
    <2>1. draft' \in [version : Nat, text : Nat]
      <3>1. op[o].version \in Nat /\ op[o].text \in Nat
        BY <1>1 DEF Flying
      <3>2. draft' = draft \/ draft' = [version |-> op[o].version, text |-> op[o].text]
        BY <1>6 DEF StoreDraft
      <3> QED
        BY <3>1, <3>2 DEF Typed, TypeOK
    <2>2. op[o].kind \in {"save", "fill", "warm"}
      BY <1>1, <1>6 DEF Sound, StoreDraft, At
    <2>3. \E r \in Legal : op' = [op EXCEPT ![o] = r]
      <3>1. CASE Done(o)
        BY <3>1, DoneLegal
      <3>2. CASE op[o].kind = "save" /\ Sync(o, "dirty")
        <4>1. [op[o] EXCEPT !.pc = "state", !.mark = "dirty"] \in Legal
          BY <1>1, <3>2 DEF Legal, Flying, Sound, Places, Marks
        <4> QED
          BY <3>2, <4>1, SyncLegal
      <3>3. CASE op[o].kind = "fill" /\ Sync(o, "filled")
        <4>1. [op[o] EXCEPT !.pc = "state", !.mark = "filled"] \in Legal
          BY <1>1, <3>3 DEF Legal, Flying, Sound, Places, Marks
        <4> QED
          BY <3>3, <4>1, SyncLegal
      <3>4. CASE op[o].kind = "warm" /\ Goto(o, "number")
        <4>1. [op[o] EXCEPT !.pc = "number"] \in Legal
          BY <1>1, <1>6, <3>4 DEF Legal, Flying, Sound, Places, StoreDraft, At
        <4> QED
          BY <3>4, <4>1, GotoLegal
      <3> QED
        BY <1>6, <2>2, <3>1, <3>2, <3>3, <3>4 DEF StoreDraft
    <2> QED
      BY <1>6, <2>1, <2>3, StepTyped DEF StoreDraft, Typed, TypeOK
  <1> QED
    BY <1>3, <1>4, <1>5, <1>6 DEF Draft

\* The read and the write of syncIndexState.
LEMMA IndexStateTyped ==
    ASSUME Typed, NEW o \in Ops, IndexState(o)
    PROVE  Typed'
  <1> USE DEF bounds
  <1>1. op[o] \in Flying /\ Sound(op[o])
    BY InFlightRec DEF IndexState, ReadNode, WriteNode, At
  <1>2. CASE ReadNode(o)
    <2> DEFINE r == [op[o] EXCEPT !.pc = "merge", !.copy = node]
    <2>1. r \in Flying
      BY <1>1 DEF Flying, Places, Typed, TypeOK
    <2>2. Sound(r)
      BY <1>1, <1>2 DEF Sound, Flying, ReadNode, At
    <2>3. op' = [op EXCEPT ![o] = r]
      BY <1>2 DEF ReadNode
    <2>4. r \in Legal
      BY <2>1, <2>2 DEF Legal
    <2> HIDE DEF r
    <2> QED
      BY <1>2, <2>3, <2>4, StepTyped DEF ReadNode, Typed, TypeOK
  <1>3. CASE WriteNode(o)
    <2>1. node' \in Nodes
      BY <1>1, <1>3, MergedIsNode DEF WriteNode
    <2>2. \E r \in Legal : op' = [op EXCEPT ![o] = r]
      <3>1. CASE op[o].mark = "indexing"
        <4>1. [op[o] EXCEPT !.pc = "write"] \in Legal
          BY <1>1, <3>1 DEF Legal, Flying, Sound, Places
        <4> QED
          BY <1>3, <3>1, <4>1, GotoLegal DEF WriteNode
      <3>2. CASE op[o].mark \in {"clean", "vectorless"}
        <4>1. [op[o] EXCEPT !.pc = "refresh"] \in Legal
          BY <1>1, <3>2 DEF Legal, Flying, Sound, Places
        <4>2. Goto(o, "refresh")
          BY <1>3, <3>2 DEF WriteNode
        <4> QED
          BY <4>1, <4>2, GotoLegal
      <3>3. CASE op[o].mark \notin {"indexing", "clean", "vectorless"}
        BY <1>3, <3>3, DoneLegal DEF WriteNode
      <3> QED
        BY <3>1, <3>2, <3>3
    <2> QED
      BY <1>3, <2>1, <2>2, StepTyped DEF WriteNode, Typed, TypeOK
  <1> QED
    BY <1>2, <1>3 DEF IndexState

\* A handler of an index that goes to write the node keeps the invariant.
LEMMA IndexSyncs ==
    ASSUME Typed, NEW o \in Ops, op[o].kind = "index",
           NEW mark \in {"clean", "vectorless", "busy", "failed"}, Sync(o, mark)
    PROVE  \E r \in Legal : op' = [op EXCEPT ![o] = r]
  <1>1. op[o] \in Flying
    BY InFlightRec
  <1>2. [op[o] EXCEPT !.pc = "state", !.mark = mark] \in Legal
    BY <1>1 DEF Legal, Flying, Sound, Places, Marks
  <1> QED
    BY <1>2, SyncLegal

\* The rest of indexContent.
LEMMA IndexTyped ==
    ASSUME Typed, NEW o \in Ops, Index(o)
    PROVE  Typed'
  <1> USE DEF bounds
  <1>1. op[o] \in Flying /\ Sound(op[o])
    BY InFlightRec DEF Index, WriteContent, WriteContentBusy, WriteContentFails,
                       CountVectors, RefreshStats, At
  <1>2. op[o].kind = "index"
    BY <1>1 DEF Sound, Index, WriteContent, WriteContentBusy, WriteContentFails,
                CountVectors, RefreshStats, At
  <1>3. op[o].text \in Nat
    BY <1>1 DEF Flying
  <1>4. \E r \in Legal : op' = [op EXCEPT ![o] = r]
    <2>1. CASE WriteContent(o)
      <3>1. [op[o] EXCEPT !.pc = "count"] \in Legal
        <4>1. op[o].mark \in {"none", "indexing", "clean", "vectorless", "busy", "failed"}
          BY <1>1, <1>2 DEF Sound
        <4> QED
          BY <1>1, <1>2, <4>1 DEF Legal, Flying, Sound, Places
      <3> QED
        BY <2>1, <3>1, GotoLegal DEF WriteContent
    <2>2. CASE WriteContentBusy(o)
      BY <1>2, <2>2, IndexSyncs DEF WriteContentBusy
    <2>3. CASE WriteContentFails(o)
      BY <1>2, <2>3, IndexSyncs DEF WriteContentFails
    <2>4. CASE CountVectors(o)
      BY <1>2, <2>4, IndexSyncs DEF CountVectors
    <2>5. CASE RefreshStats(o)
      BY <1>2, <2>5, IndexSyncs, DoneLegal DEF RefreshStats
    <2> QED
      BY <2>1, <2>2, <2>3, <2>4, <2>5 DEF Index
  <1>5. /\ UNCHANGED <<draft, node, imported, bounds>>
        /\ ov' \in {ov, op[o].text}
    BY DEF Index, WriteContent, WriteContentBusy, WriteContentFails, CountVectors, RefreshStats
  <1> QED
    BY <1>3, <1>4, <1>5, StepTyped DEF Typed, TypeOK

\* The row that says a document is imported is a row.
LEMMA MarkedIsNode ==
    ASSUME NEW o \in Ops, op[o] \in Flying, NEW row \in Nodes
    PROVE  Marked(row, o) \in Nodes
  <1>1. op[o].copy.draftVersion \in Nat
    BY DEF Flying, Nodes
  <1> QED
    BY <1>1 DEF Marked, Nodes, Statuses

\* The import worker and the compensation.
LEMMA WorkerTyped ==
    ASSUME Typed, NEW o \in Ops, Worker(o)
    PROVE  Typed'
  <1> USE DEF bounds
  <1>1. op[o] \in Flying /\ Sound(op[o])
    BY InFlightRec DEF Worker, ClearTarget, ClearTargetFails, Inject, InjectFails,
                       MarkImported, MarkSynced, NumberDraft, At
  <1>2. ov \in Nat /\ texts \in Nat /\ node \in Nodes /\ imported \in BOOLEAN
    BY DEF Typed, TypeOK
  <1>3. CASE ClearTarget(o)
    <2>1. [op[o] EXCEPT !.pc = "inject"] \in Legal
      BY <1>1, <1>3 DEF Legal, Flying, Sound, Places, ClearTarget, At
    <2>2. \E r \in Legal : op' = [op EXCEPT ![o] = r]
      BY <1>3, <2>1, GotoLegal DEF ClearTarget
    <2> QED
      BY <1>2, <1>3, <2>2, StepTyped DEF ClearTarget, Typed, TypeOK
  <1>4. CASE ClearTargetFails(o)
    BY <1>2, <1>4, DoneLegal, StepTyped DEF ClearTargetFails, Typed, TypeOK
  <1>5. CASE Inject(o)
    <2>1. [op[o] EXCEPT !.pc = "mark"] \in Legal
      BY <1>1, <1>5 DEF Legal, Flying, Sound, Places, Inject, At
    <2>2. \E r \in Legal : op' = [op EXCEPT ![o] = r]
      BY <1>5, <2>1, GotoLegal DEF Inject
    <2>3. texts' \in Nat /\ ov' \in Nat
      BY <1>2, <1>5 DEF Inject
    <2> QED
      BY <1>5, <2>2, <2>3, StepTyped DEF Inject, Typed, TypeOK
  <1>6. CASE InjectFails(o)
    <2>1. texts' \in Nat /\ ov' \in Nat
      BY <1>2, <1>6 DEF InjectFails
    <2>2. \E r \in Legal : op' = [op EXCEPT ![o] = r]
      BY <1>6, DoneLegal DEF InjectFails
    <2> QED
      BY <1>6, <2>1, <2>2, StepTyped DEF InjectFails, Typed, TypeOK
  <1>7. CASE MarkImported(o)
    <2> DEFINE r == [op[o] EXCEPT !.kind = "warm", !.pc = "download"]
    <2>1. r \in Legal
      BY <1>1, <1>7 DEF Legal, Flying, Kinds, Sound, Places, MarkImported, At
    <2>2. op' = [op EXCEPT ![o] = r]
      BY <1>7 DEF MarkImported
    <2>3. node' \in Nodes /\ imported' \in BOOLEAN
      BY <1>1, <1>2, <1>7, MarkedIsNode DEF MarkImported
    <2> HIDE DEF r
    <2> QED
      BY <1>7, <2>1, <2>2, <2>3, StepTyped DEF MarkImported, Typed, TypeOK
  <1>8. CASE MarkSynced(o)
    <2>1. op[o].copy \in Nodes
      BY <1>1 DEF Flying
    <2>2. node' \in Nodes
      BY <1>1, <1>8, <2>1, MarkedIsNode DEF MarkSynced
    <2>3. \E r \in Legal : op' = [op EXCEPT ![o] = r]
      BY <1>8, DoneLegal DEF MarkSynced
    <2> QED
      BY <1>8, <2>2, <2>3, StepTyped DEF MarkSynced, Typed, TypeOK
  <1>9. CASE NumberDraft(o)
    <2>1. op[o].version \in Nat
      BY <1>1 DEF Flying
    <2>2. node' \in Nodes
      BY <1>2, <1>9, <2>1 DEF NumberDraft, Nodes
    <2>3. \E r \in Legal : op' = [op EXCEPT ![o] = r]
      BY <1>9, DoneLegal DEF NumberDraft
    <2> QED
      BY <1>9, <2>2, <2>3, StepTyped DEF NumberDraft, Typed, TypeOK
  <1> QED
    BY <1>3, <1>4, <1>5, <1>6, <1>7, <1>8, <1>9 DEF Worker

\* An await that throws.
LEMMA ThrowsTyped ==
    ASSUME Typed, NEW o \in Ops, Throws(o)
    PROVE  Typed'
  <1>1. \E r \in Legal : op' = [op EXCEPT ![o] = r]
    <2>1. CASE op[o].kind = "index" /\ Sync(o, "failed")
      BY <2>1, IndexSyncs
    <2>2. CASE Done(o)
      BY <2>2, DoneLegal
    <2> QED
      BY <2>1, <2>2 DEF Throws
  <1> QED
    BY <1>1, StepTyped DEF Throws, bounds, Typed, TypeOK

\* Every step keeps the invariant.
LEMMA NextTyped ==
    ASSUME DraftAssumption, Typed, [Next]_vars
    PROVE  Typed'
  <1>1. CASE \E o \in Ops, k \in Called : Call(o, k)
    BY <1>1, CallTyped
  <1>2. CASE \E o \in Ops : Draft(o) \/ IndexState(o) \/ Index(o) \/ Worker(o) \/ Throws(o)
    BY <1>2, DraftTyped, IndexStateTyped, IndexTyped, WorkerTyped, ThrowsTyped
  <1>3. CASE Restart
    <2>1. op' \in [Ops -> Legal] /\ op' \in [Ops -> OpRec]
      BY <1>3, LegalRec DEF Restart, Legal
    <2>2. restarts' \in 0..MaxRestarts
      BY <1>3 DEF Restart, Typed, TypeOK, DraftAssumption
    <2> QED
      BY <1>3, <2>1, <2>2 DEF Restart, Typed, TypeOK
  <1>4. CASE UNCHANGED vars
    BY <1>4 DEF vars, bounds, Typed, TypeOK
  <1> QED
    BY <1>1, <1>2, <1>3, <1>4 DEF Next

LEMMA InitTyped ==
    ASSUME DraftAssumption, Init
    PROVE  Typed
  <1>1. op \in [Ops -> Legal] /\ op \in [Ops -> OpRec]
    BY LegalRec DEF Init, Legal
  <1>2. node \in Nodes
    BY DEF Init, NewNode, Nodes, Statuses
  <1>3. draft \in [version : Nat, text : Nat] /\ calls \in [Called -> Nat]
    BY DEF Init
  <1>4. restarts \in 0..MaxRestarts
    BY DEF Init, DraftAssumption
  <1> QED
    BY <1>1, <1>2, <1>3, <1>4 DEF Init, Typed, TypeOK

\* A handler is only where its kind goes, in every reachable state.
LEMMA AlwaysTyped == Spec => []Typed
  BY DraftAssumption, InitTyped, NextTyped, PTL DEF Spec

\* Every variable keeps its type: no mark reaches a status the column cannot
\* hold, and a handler is never at a place its code does not have.
THEOREM DraftTypeCorrect == Spec => []TypeOK
  <1>1. Typed => TypeOK
    BY DEF Typed
  <1> QED
    BY <1>1, AlwaysTyped, PTL

(***************************************************************************)
(* The draft never goes back, where only readers overlap and no import or  *)
(* compensation hits a document that has a draft.                          *)
(***************************************************************************)
Readers == {"fill", "index", "manual", "warm"}
Lone == Overlap \subseteq SUBSET Readers /\ ~OverDrafts

\* A handler that takes OpenViking's text to a new draft.
Fills(r) == r.kind \in {"fill", "warm"} /\ r.pc \in {"download", "find", "store"}

\* A handler that carries a text it has read.
Bears(r) ==
    \/ Fills(r) /\ r.pc # "download"
    \/ r.kind = "index" /\ r.pc \notin {"draft", "download"}

\* A save in flight carries a text newer than the draft's; imports and
\* compensations run on a document without a draft.
Carry(r) ==
    /\ r.text <= texts
    /\ r.kind = "save" /\ r.pc \in {"find", "store"} => draft.text < r.text
    /\ r.pc = "store" => r.version >= 1
    /\ r.kind \in {"import", "sync"} => draft.version = 0

\* There is no draft yet, or one is still being made from OpenViking's text.
Level == draft.version = 0 \/ \E o \in Ops : op[o].kind # "idle" /\ Fills(op[o])

\* Then everybody who carries a text carries the one OpenViking holds.
Steady ==
    Level => /\ draft.version > 0 => draft.text = ov
             /\ \A o \in Ops : op[o].kind # "idle" /\ Bears(op[o]) => op[o].text = ov

Apart == \A o, p \in Ops :
    o # p /\ op[o].kind # "idle" /\ op[p].kind # "idle" => op[o].kind \in Readers

Orderly ==
    /\ draft.version = 0 => draft.text = 0
    /\ draft.text <= texts /\ ov <= texts
    /\ \A o \in Ops : op[o].kind # "idle" => Carry(op[o])
    /\ Apart
    /\ Steady

LEMMA TypedNumbers ==
    ASSUME Typed
    PROVE  /\ op \in [Ops -> Legal]
           /\ draft.version \in Nat /\ draft.text \in Nat /\ ov \in Nat /\ texts \in Nat
  BY DEF Typed, TypeOK

\* A handler that moves on keeps the invariant when what it carries is in order.
LEMMA Moves ==
    ASSUME Typed, Orderly, NEW o \in Ops, op[o].kind # "idle",
           NEW r, op' = [op EXCEPT ![o] = r], UNCHANGED <<draft, texts>>,
           ov' <= texts, Level => ov' = ov,
           \/ r.kind = "idle"
           \/ /\ r.kind = op[o].kind /\ Carry(r)
              /\ Fills(r) => Level
              /\ Level /\ Bears(r) => r.text = ov
    PROVE  Orderly'
  <1>1. op'[o] = r /\ \A p \in Ops : p # o => op'[p] = op[p]
    BY TypedNumbers
  <1>2. \A p \in Ops : op'[p].kind # "idle" => Carry(op[p])'
    <2>1. SUFFICES ASSUME NEW p \in Ops, op'[p].kind # "idle" PROVE Carry(op[p])'
      OBVIOUS
    <2>2. CASE p = o
      BY <1>1, <2>1, <2>2 DEF Carry
    <2>3. CASE p # o
      BY <1>1, <2>1, <2>3 DEF Carry, Orderly
    <2> QED
      BY <2>2, <2>3
  <1>3. Apart'
    BY <1>1 DEF Apart, Orderly
  <1>4. Level' => Level
    BY <1>1 DEF Level, Fills
  <1>5. Steady'
    <2>1. SUFFICES ASSUME Level'
                   PROVE  /\ draft.version > 0 => draft.text = ov
                          /\ \A p \in Ops : op'[p].kind # "idle" /\ Bears(op[p])'
                                              => op'[p].text = ov
      BY <1>4 DEF Steady
    <2>2. draft.version > 0 => draft.text = ov
      BY <1>4, <2>1 DEF Orderly, Steady
    <2>3. ASSUME NEW p \in Ops, op'[p].kind # "idle", Bears(op[p])'
          PROVE  op'[p].text = ov
      <3>1. CASE p = o
        BY <1>1, <1>4, <2>1, <2>3, <3>1 DEF Bears, Fills
      <3>2. CASE p # o
        BY <1>1, <1>4, <2>1, <2>3, <3>2 DEF Bears, Fills, Orderly, Steady
      <3> QED
        BY <3>1, <3>2
    <2> QED
      BY <2>2, <2>3
  <1> QED
    BY <1>2, <1>3, <1>5 DEF Orderly

LEMMA MovesDone ==
    ASSUME Typed, Orderly, NEW o \in Ops, op[o].kind # "idle", Done(o),
           UNCHANGED <<draft, ov, texts>>
    PROVE  Orderly'
  <1>1. op' = [op EXCEPT ![o] = Idle] /\ Idle.kind = "idle"
    BY DEF Done, Idle
  <1> QED
    BY <1>1, Moves DEF Orderly

\* An index that is past its reads moves on with the text it has.
LEMMA MovesIndex ==
    ASSUME Typed, Orderly, NEW o \in Ops, op[o].kind = "index", Bears(op[o]),
           \/ \E pc \in {"merge", "write", "count", "refresh"} : Goto(o, pc)
           \/ \E mark \in Marks : Sync(o, mark),
           UNCHANGED <<draft, texts>>, ov' \in {ov, op[o].text}
    PROVE  Orderly'
  <1>1. op[o] \in Flying /\ Carry(op[o]) /\ (Level => op[o].text = ov)
    BY InFlightRec DEF Orderly, Steady
  <1>2. ov' <= texts /\ (Level => ov' = ov)
    BY <1>1 DEF Orderly, Carry
  <1>3. CASE \E pc \in {"merge", "write", "count", "refresh"} : Goto(o, pc)
    <2>1. PICK pc \in {"merge", "write", "count", "refresh"} : Goto(o, pc)
      BY <1>3
    <2> DEFINE r == [op[o] EXCEPT !.pc = pc]
    <2>2. op' = [op EXCEPT ![o] = r]
      BY <2>1 DEF Goto
    <2>3. r.kind = "index" /\ r.text = op[o].text /\ Carry(r) /\ ~ Fills(r)
      BY <1>1 DEF Flying, Carry, Fills
    <2> HIDE DEF r
    <2> QED
      BY <1>1, <1>2, <2>2, <2>3, Moves
  <1>4. CASE \E mark \in Marks : Sync(o, mark)
    <2>1. PICK mark \in Marks : Sync(o, mark)
      BY <1>4
    <2> DEFINE r == [op[o] EXCEPT !.pc = "state", !.mark = mark]
    <2>2. op' = [op EXCEPT ![o] = r]
      BY <2>1 DEF Sync
    <2>3. r.kind = "index" /\ r.text = op[o].text /\ Carry(r) /\ ~ Fills(r)
      BY <1>1 DEF Flying, Carry, Fills
    <2> HIDE DEF r
    <2> QED
      BY <1>1, <1>2, <2>2, <2>3, Moves
  <1> QED
    BY <1>3, <1>4

\* A fill or an index reads the draft.
LEMMA ReadDraftOrderly ==
    ASSUME Typed, Orderly, NEW o \in Ops, ReadDraft(o)
    PROVE  Orderly'
  <1>1. op[o] \in Flying /\ Sound(op[o]) /\ op[o].kind # "idle" /\ Carry(op[o])
    BY InFlightRec DEF ReadDraft, At, Orderly
  <1>2. UNCHANGED <<draft, ov, texts>>
    BY DEF ReadDraft, bounds
  <1>3. CASE draft.version = 0
    <2> DEFINE r == [op[o] EXCEPT !.pc = "download", !.version = op[o].copy.draftVersion]
    <2>1. op' = [op EXCEPT ![o] = r]
      BY <1>3 DEF ReadDraft
    <2>2. r.kind = op[o].kind /\ Carry(r) /\ ~ Bears(r) /\ Level
      BY <1>1, <1>3 DEF Flying, Carry, Bears, Fills, Level
    <2> HIDE DEF r
    <2> QED
      BY <1>1, <1>2, <2>1, <2>2, Moves DEF Orderly
  <1>4. CASE draft.version # 0 /\ op[o].kind = "index"
    <2> DEFINE r == [op[o] EXCEPT !.pc = "state", !.mark = "indexing",
                                  !.version = draft.version, !.text = draft.text]
    <2>1. op' = [op EXCEPT ![o] = r]
      BY <1>4 DEF ReadDraft
    <2>2. r.kind = op[o].kind /\ r.text = draft.text /\ ~ Fills(r)
      BY <1>1, <1>4 DEF Flying, Fills
    <2>3. Carry(r)
      BY <1>1, <1>4 DEF Flying, Carry, Orderly
    <2>4. Level => draft.text = ov
      BY <1>4, TypedNumbers DEF Orderly, Steady
    <2> HIDE DEF r
    <2> QED
      BY <1>1, <1>2, <2>1, <2>2, <2>3, <2>4, Moves DEF Orderly
  <1>5. CASE draft.version # 0 /\ op[o].kind # "index"
    <2>1. Done(o)
      BY <1>5 DEF ReadDraft
    <2> QED
      BY <1>1, <1>2, <2>1, MovesDone
  <1> QED
    BY <1>3, <1>4, <1>5

\* A fill, a warm-up or an index takes the text OpenViking holds.
LEMMA DownloadOrderly ==
    ASSUME Typed, Orderly, NEW o \in Ops, Download(o)
    PROVE  Orderly'
  <1>1. op[o] \in Flying /\ Sound(op[o]) /\ op[o].kind # "idle" /\ Carry(op[o])
    BY InFlightRec DEF Download, At, Orderly
  <1>2. UNCHANGED <<draft, ov, texts>>
    BY DEF Download, bounds
  <1>3. CASE op[o].kind # "index" /\ ov # 0
    <2> DEFINE r == [op[o] EXCEPT !.pc = "find", !.text = ov]
    <2>1. op' = [op EXCEPT ![o] = r]
      BY <1>3 DEF Download
    <2>2. op[o].kind \in {"fill", "warm"} /\ op[o].pc = "download"
      BY <1>1, <1>3 DEF Sound, Download, At
    <2>3. r.kind = op[o].kind /\ r.text = ov /\ Level
      BY <1>1, <2>2 DEF Flying, Fills, Level
    <2>4. Carry(r)
      BY <1>1, <2>2 DEF Flying, Carry, Orderly
    <2> HIDE DEF r
    <2> QED
      BY <1>1, <1>2, <2>1, <2>3, <2>4, Moves DEF Orderly
  <1>4. CASE op[o].kind = "index" /\ ~ (ov = 0 /\ op[o].copy.contentUri)
    <2> DEFINE r == [op[o] EXCEPT !.pc = "state", !.mark = "indexing", !.text = ov]
    <2>1. op' = [op EXCEPT ![o] = r]
      BY <1>4 DEF Download
    <2>2. r.kind = op[o].kind /\ r.text = ov /\ ~ Fills(r)
      BY <1>1, <1>4 DEF Flying, Fills
    <2>3. Carry(r)
      BY <1>1, <1>4 DEF Flying, Carry, Orderly
    <2> HIDE DEF r
    <2> QED
      BY <1>1, <1>2, <2>1, <2>2, <2>3, Moves DEF Orderly
  <1>5. CASE Done(o)
    BY <1>1, <1>2, <1>5, MovesDone
  <1> QED
    BY <1>3, <1>4, <1>5 DEF Download

\* saveMarkdown reads the version it is going to count on from.
LEMMA FindDraftOrderly ==
    ASSUME Typed, Orderly, NEW o \in Ops, FindDraft(o)
    PROVE  Orderly'
  <1>1. op[o] \in Flying /\ Sound(op[o]) /\ op[o].kind # "idle" /\ Carry(op[o])
    BY InFlightRec DEF FindDraft, At, Orderly
  <1> DEFINE r == [op[o] EXCEPT !.pc = "store", !.version = draft.version + 1]
  <1>2. op' = [op EXCEPT ![o] = r] /\ UNCHANGED <<draft, ov, texts>>
    BY DEF FindDraft, bounds
  <1>3. /\ r.kind = op[o].kind /\ r.text = op[o].text /\ r.pc = "store"
        /\ r.version = draft.version + 1
    BY <1>1 DEF Flying
  <1>4. Carry(r)
    BY <1>1, <1>3, TypedNumbers DEF Carry, FindDraft, At
  <1>5. Fills(r) => Fills(op[o])
    BY <1>3 DEF Fills, FindDraft, At
  <1>6. Bears(r) => Bears(op[o])
    BY <1>3, <1>5 DEF Bears, FindDraft, At, Fills
  <1>7. Level /\ Bears(r) => r.text = ov
    BY <1>1, <1>3, <1>6 DEF Orderly, Steady
  <1>8. Fills(r) => Level
    BY <1>1, <1>5 DEF Level
  <1> HIDE DEF r
  <1> QED
    BY <1>1, <1>2, <1>3, <1>4, <1>7, <1>8, Moves DEF Orderly

\* A save, a fill or a warm-up stores its text: never an older one.
LEMMA StoreDraftOrderly ==
    ASSUME Typed, Orderly, NEW o \in Ops, StoreDraft(o)
    PROVE  Orderly' /\ draft'.text >= draft.text
  <1>1. /\ op[o] \in Flying /\ Sound(op[o]) /\ op[o].kind # "idle" /\ Carry(op[o])
        /\ op[o].pc = "store" /\ op[o].version >= 1
        /\ op[o].kind \in {"save", "fill", "warm"}
    BY InFlightRec DEF StoreDraft, At, Orderly, Carry, Sound
  <1>2. UNCHANGED <<ov, texts>>
    BY DEF StoreDraft, bounds
  <1>3. CASE op[o].version = 1 /\ draft.version > 0
    <2>1. Done(o) /\ UNCHANGED draft
      BY <1>3 DEF StoreDraft
    <2> QED
      BY <1>1, <1>2, <2>1, MovesDone, TypedNumbers
  <1>4. CASE ~ (op[o].version = 1 /\ draft.version > 0)
    <2>1. draft'.version = op[o].version /\ draft'.text = op[o].text
      <3>1. draft' = [version |-> op[o].version, text |-> op[o].text]
        BY <1>4 DEF StoreDraft
      <3> QED
        BY <3>1
    <2>2. PICK r \in Flying :
                   /\ op' = [op EXCEPT ![o] = r]
                   /\ r.kind = op[o].kind /\ r.text = op[o].text
                   /\ r.pc \in {"state", "number"}
      <3>1. CASE Goto(o, "number")
        <4>1. op' = [op EXCEPT ![o] = [op[o] EXCEPT !.pc = "number"]]
          BY <3>1 DEF Goto
        <4>2. [op[o] EXCEPT !.pc = "number"] \in Flying
          BY <1>1 DEF Flying, Places
        <4> QED
          BY <1>1, <4>1, <4>2 DEF Flying
      <3>2. CASE \E mark \in {"dirty", "filled"} : Sync(o, mark)
        <4>1. PICK mark \in {"dirty", "filled"} : Sync(o, mark)
          BY <3>2
        <4>2. op' = [op EXCEPT ![o] = [op[o] EXCEPT !.pc = "state", !.mark = mark]]
          BY <4>1 DEF Sync
        <4>3. [op[o] EXCEPT !.pc = "state", !.mark = mark] \in Flying
          BY <1>1 DEF Flying, Places, Marks
        <4> QED
          BY <1>1, <4>2, <4>3 DEF Flying
      <3>3. Goto(o, "number") \/ Sync(o, "dirty") \/ Sync(o, "filled")
        BY <1>1, <1>4 DEF StoreDraft
      <3> QED
        BY <3>1, <3>2, <3>3
    <2>3. op'[o] = r /\ \A p \in Ops : p # o => op'[p] = op[p]
      BY <2>2, TypedNumbers
    <2>4. \A p \in Ops : p # o /\ op[p].kind # "idle" => op[p].kind \in Readers
      BY <1>1 DEF Orderly, Apart
    <2>5. \A p \in Ops : op'[p].kind # "idle" => Carry(op[p])'
      <3>1. SUFFICES ASSUME NEW p \in Ops, op'[p].kind # "idle" PROVE Carry(op[p])'
        OBVIOUS
      <3>2. CASE p = o
        BY <1>1, <1>2, <2>2, <2>3, <3>2 DEF Carry
      <3>3. CASE p # o
        BY <1>2, <2>3, <2>4, <3>1, <3>3 DEF Carry, Orderly, Readers
      <3> QED
        BY <3>2, <3>3
    <2>6. Apart'
      BY <2>2, <2>3 DEF Apart, Orderly
    <2>7. draft'.version > 0 /\ draft'.text <= texts
      BY <1>1, <2>1, TypedNumbers DEF Carry, Flying
    <2>8. CASE op[o].kind = "save"
      <3>1. \A p \in Ops : p # o => op[p].kind = "idle"
        BY <1>1, <2>8 DEF Orderly, Apart, Readers
      <3>2. ~ Level'
        BY <2>2, <2>3, <2>7, <2>8, <3>1, TypedNumbers DEF Level, Fills
      <3>3. draft'.text >= draft.text
        BY <1>1, <2>1, <2>8, TypedNumbers DEF Carry, Flying
      <3> QED
        BY <1>2, <2>5, <2>6, <2>7, <3>2, <3>3 DEF Orderly, Steady
    <2>9. CASE op[o].kind # "save"
      <3>1. Fills(op[o]) /\ Bears(op[o])
        BY <1>1, <2>9 DEF Fills, Bears
      <3>2. /\ op[o].text = ov
            /\ draft.version > 0 => draft.text = ov
            /\ \A p \in Ops : op[p].kind # "idle" /\ Bears(op[p]) => op[p].text = ov
        BY <1>1, <3>1 DEF Orderly, Steady, Level
      <3>3. draft'.text >= draft.text
        BY <2>1, <3>2, TypedNumbers DEF Orderly
      <3>4. \A p \in Ops : op'[p].kind # "idle" /\ Bears(op[p])' => op'[p].text = ov
        BY <2>2, <2>3, <3>2 DEF Bears, Fills
      <3>5. Steady'
        BY <1>2, <2>1, <3>2, <3>4 DEF Steady
      <3> QED
        BY <1>2, <2>5, <2>6, <2>7, <3>3, <3>5 DEF Orderly
    <2> QED
      BY <2>8, <2>9
  <1> QED
    BY <1>3, <1>4

\* The read and the write of syncIndexState move no text.
LEMMA IndexStateOrderly ==
    ASSUME Typed, Orderly, NEW o \in Ops, IndexState(o)
    PROVE  Orderly'
  <1>1. /\ op[o] \in Flying /\ Sound(op[o]) /\ op[o].kind # "idle" /\ Carry(op[o])
        /\ op[o].pc \in {"state", "merge"}
        /\ UNCHANGED <<draft, ov, texts>>
    BY InFlightRec DEF IndexState, ReadNode, WriteNode, At, Orderly, bounds
  <1>2. \/ Done(o)
        \/ /\ op[o].kind = "index"
           /\ \E pc \in {"write", "refresh"} : Goto(o, pc)
        \/ op' = [op EXCEPT ![o].pc = "merge", ![o].copy = node]
    BY <1>1 DEF IndexState, ReadNode, WriteNode, Sound
  <1>3. CASE Done(o)
    BY <1>1, <1>3, MovesDone
  <1>4. CASE op[o].kind = "index" /\ \E pc \in {"write", "refresh"} : Goto(o, pc)
    <2>1. Bears(op[o])
      BY <1>1, <1>4 DEF Bears
    <2> QED
      BY <1>1, <1>4, <2>1, MovesIndex
  <1>5. CASE op' = [op EXCEPT ![o].pc = "merge", ![o].copy = node]
    <2> DEFINE r == [op[o] EXCEPT !.pc = "merge", !.copy = node]
    <2>1. op' = [op EXCEPT ![o] = r]
      BY <1>5
    <2>2. r.kind = op[o].kind /\ r.text = op[o].text /\ r.pc = "merge"
      BY <1>1 DEF Flying
    <2>3. Carry(r) /\ ~ Fills(r) /\ (Bears(r) => Bears(op[o]))
      BY <1>1, <2>2 DEF Carry, Fills, Bears
    <2>4. Level /\ Bears(r) => r.text = ov
      BY <1>1, <2>2, <2>3 DEF Orderly, Steady
    <2> HIDE DEF r
    <2> QED
      BY <1>1, <2>1, <2>2, <2>3, <2>4, Moves DEF Orderly
  <1> QED
    BY <1>2, <1>3, <1>4, <1>5

\* An index writes OpenViking's own text to it while there is no draft yet.
LEMMA IndexOrderly ==
    ASSUME Typed, Orderly, NEW o \in Ops, Index(o)
    PROVE  Orderly'
  <1>1. /\ op[o] \in Flying /\ Sound(op[o]) /\ op[o].kind # "idle"
        /\ op[o].pc \in {"write", "count", "refresh"}
    BY InFlightRec DEF Index, WriteContent, WriteContentBusy, WriteContentFails,
                       CountVectors, RefreshStats, At
  <1>2. op[o].kind = "index" /\ Bears(op[o])
    BY <1>1 DEF Sound, Bears
  <1>3. UNCHANGED <<draft, texts>> /\ ov' \in {ov, op[o].text}
    BY DEF Index, WriteContent, WriteContentBusy, WriteContentFails, CountVectors,
           RefreshStats, bounds
  <1>4. \/ Goto(o, "count")
        \/ \E mark \in Marks : Sync(o, mark)
        \/ Done(o) /\ UNCHANGED ov
    BY DEF Index, WriteContent, WriteContentBusy, WriteContentFails, CountVectors,
           RefreshStats, Marks
  <1> QED
    BY <1>1, <1>2, <1>3, <1>4, MovesIndex, MovesDone

\* An import or a compensation runs alone, on a document without a draft.
LEMMA MovesImport ==
    ASSUME Typed, Orderly, NEW o \in Ops, op[o].kind \in {"import", "sync"},
           NEW r, op' = [op EXCEPT ![o] = r], UNCHANGED draft,
           texts' \in Nat, texts' >= texts, ov' <= texts',
           \/ r.kind = "idle"
           \/ /\ r.kind \in {"import", "warm"} /\ r.text \in Nat /\ r.text <= texts
              /\ r.pc \in {"inject", "mark", "download"}
    PROVE  Orderly'
  <1>1. op'[o] = r /\ \A p \in Ops : p # o => op'[p] = op[p]
    BY TypedNumbers
  <1>2. draft.version = 0
    BY DEF Orderly, Carry
  <1>3. \A p \in Ops : p # o => op[p].kind = "idle"
    BY DEF Orderly, Apart, Readers
  <1>4. \A p \in Ops : op'[p].kind # "idle" => Carry(op[p])'
    <2>1. SUFFICES ASSUME r.kind # "idle" PROVE Carry(op[o])'
      BY <1>1, <1>3
    <2>2. r.text <= texts'
      BY <2>1, TypedNumbers
    <2> QED
      BY <1>1, <1>2, <2>1, <2>2 DEF Carry
  <1>5. Apart'
    BY <1>1, <1>3 DEF Apart
  <1>6. Steady'
    BY <1>1, <1>2, <1>3, TypedNumbers DEF Steady, Bears, Fills
  <1>7. draft'.text <= texts'
    BY TypedNumbers DEF Orderly
  <1> QED
    BY <1>4, <1>5, <1>6, <1>7 DEF Orderly

LEMMA WorkerOrderly ==
    ASSUME Typed, Orderly, NEW o \in Ops, Worker(o)
    PROVE  Orderly'
  <1>1. op[o] \in Flying /\ Sound(op[o]) /\ op[o].kind # "idle" /\ Carry(op[o])
    BY InFlightRec DEF Worker, ClearTarget, ClearTargetFails, Inject, InjectFails,
                       MarkImported, MarkSynced, NumberDraft, At, Orderly
  <1>2. op[o].text \in Nat /\ op[o].text <= texts
    BY <1>1 DEF Flying, Carry
  <1>3. CASE ClearTarget(o)
    <2>1. op[o].kind = "import" /\ ov' <= texts /\ UNCHANGED <<draft, texts>>
      BY <1>1, <1>3, TypedNumbers DEF ClearTarget, At, Sound, Orderly, bounds
    <2> DEFINE r == [op[o] EXCEPT !.pc = "inject"]
    <2>2. op' = [op EXCEPT ![o] = r]
      BY <1>3 DEF ClearTarget, Goto
    <2>3. r.kind = "import" /\ r.text = op[o].text /\ r.pc = "inject"
      BY <1>1, <2>1 DEF Flying
    <2>4. texts' \in Nat /\ texts' >= texts /\ ov' <= texts'
      BY <2>1, TypedNumbers
    <2> HIDE DEF r
    <2> QED
      BY <1>2, <2>1, <2>2, <2>3, <2>4, MovesImport
  <1>4. CASE ClearTargetFails(o)
    <2>1. op[o].kind = "import" /\ ov' <= texts /\ UNCHANGED <<draft, texts>>
      BY <1>1, <1>4, TypedNumbers DEF ClearTargetFails, At, Sound, Orderly, bounds
    <2>2. op' = [op EXCEPT ![o] = Idle] /\ Idle.kind = "idle"
      BY <1>4 DEF ClearTargetFails, Done, Idle
    <2>3. texts' \in Nat /\ texts' >= texts /\ ov' <= texts'
      BY <2>1, TypedNumbers
    <2> QED
      BY <2>1, <2>2, <2>3, MovesImport
  <1>5. CASE Inject(o)
    <2>1. op[o].kind = "import" /\ UNCHANGED draft /\ ov' = texts + 1 /\ texts' = texts + 1
      BY <1>1, <1>5 DEF Inject, At, Sound
    <2> DEFINE r == [op[o] EXCEPT !.pc = "mark"]
    <2>2. op' = [op EXCEPT ![o] = r]
      BY <1>5 DEF Inject, Goto
    <2>3. r.kind = "import" /\ r.text = op[o].text /\ r.pc = "mark"
      BY <1>1, <2>1 DEF Flying
    <2>4. texts' \in Nat /\ texts' >= texts /\ ov' <= texts'
      BY <2>1, TypedNumbers
    <2> HIDE DEF r
    <2> QED
      BY <1>2, <2>1, <2>2, <2>3, <2>4, MovesImport
  <1>6. CASE InjectFails(o)
    <2>1. op[o].kind = "import" /\ UNCHANGED draft
      BY <1>1, <1>6 DEF InjectFails, At, Sound
    <2>2. op' = [op EXCEPT ![o] = Idle] /\ Idle.kind = "idle"
      BY <1>6 DEF InjectFails, Done, Idle
    <2>3. texts' \in Nat /\ texts' >= texts /\ ov' <= texts'
      BY <1>6, TypedNumbers DEF InjectFails, Orderly
    <2> QED
      BY <2>1, <2>2, <2>3, MovesImport
  <1>7. CASE MarkImported(o)
    <2>1. op[o].kind \in {"import", "sync"} /\ UNCHANGED <<draft, ov, texts>>
      BY <1>1, <1>7 DEF MarkImported, At, Sound, bounds
    <2> DEFINE r == [op[o] EXCEPT !.kind = "warm", !.pc = "download"]
    <2>2. op' = [op EXCEPT ![o] = r]
      BY <1>7 DEF MarkImported
    <2>3. r.kind = "warm" /\ r.text = op[o].text /\ r.pc = "download"
      BY <1>1 DEF Flying
    <2>4. texts' \in Nat /\ texts' >= texts /\ ov' <= texts'
      BY <2>1, TypedNumbers DEF Orderly
    <2> HIDE DEF r
    <2> QED
      BY <1>2, <2>1, <2>2, <2>3, <2>4, MovesImport
  <1>8. CASE MarkSynced(o)
    <2>1. Done(o) /\ UNCHANGED <<draft, ov, texts>>
      BY <1>8 DEF MarkSynced, bounds
    <2> QED
      BY <1>1, <2>1, MovesDone
  <1>9. CASE NumberDraft(o)
    <2>1. Done(o) /\ UNCHANGED <<draft, ov, texts>>
      BY <1>9 DEF NumberDraft, bounds
    <2> QED
      BY <1>1, <2>1, MovesDone
  <1> QED
    BY <1>3, <1>4, <1>5, <1>6, <1>7, <1>8, <1>9 DEF Worker

LEMMA ThrowsOrderly ==
    ASSUME Typed, Orderly, NEW o \in Ops, Throws(o)
    PROVE  Orderly'
  <1>1. op[o].kind # "idle" /\ UNCHANGED <<draft, ov, texts>>
    BY DEF Throws, bounds
  <1>2. CASE op[o].kind = "index" /\ op[o].pc \in {"state", "merge"} /\ Sync(o, "failed")
    <2>1. Bears(op[o]) /\ "failed" \in Marks
      BY <1>2 DEF Bears, Marks
    <2> QED
      BY <1>1, <1>2, <2>1, MovesIndex
  <1>3. CASE Done(o)
    BY <1>1, <1>3, MovesDone
  <1> QED
    BY <1>2, <1>3 DEF Throws

\* A call: a save alone and with a new text, an import alone and without a draft.
LEMMA CallOrderly ==
    ASSUME Lone, Typed, Orderly, NEW o \in Ops, NEW k \in Called, Call(o, k)
    PROVE  Orderly'
  <1> DEFINE r == [kind |-> k, pc |-> First[k], mark |-> "none", copy |-> node,
                   version |-> 0, text |-> IF k = "save" THEN texts + 1 ELSE 0,
                   indexed |-> node.indexedVersion]
  <1>1. op' = [op EXCEPT ![o] = r] /\ UNCHANGED <<draft, ov>>
    BY DEF Call
  <1>2. r.kind = k /\ r.pc = First[k] /\ r.text = IF k = "save" THEN texts + 1 ELSE 0
    OBVIOUS
  <1> HIDE DEF r
  <1>3. texts' \in Nat /\ texts' >= texts /\ r.text <= texts'
    BY <1>2, TypedNumbers DEF Call
  <1>4. op'[o] = r /\ \A p \in Ops : p # o => op'[p] = op[p]
    BY <1>1, TypedNumbers
  <1>5. op[o].kind = "idle"
    BY DEF Call
  <1>6. \A p \in Ops : op[p].kind # "idle" => k \in Readers /\ op[p].kind \in Readers
    <2>1. SUFFICES ASSUME NEW p \in Ops, op[p].kind # "idle"
                   PROVE  k \in Readers /\ op[p].kind \in Readers
      OBVIOUS
    <2>2. {k, op[p].kind} \in Overlap
      BY <2>1 DEF Call, InFlight
    <2>3. {k, op[p].kind} \subseteq Readers
      BY <2>2 DEF Lone
    <2> QED
      BY <2>3
  <1>7. k \in {"import", "sync"} => draft.version = 0
    BY DEF Call, Lone
  <1>8. ~ Fills(r) /\ ~ Bears(r) /\ r.pc # "store"
    BY <1>2 DEF Fills, Bears, First, Called
  <1>9. \A p \in Ops : op'[p].kind # "idle" => Carry(op[p])'
    <2>1. SUFFICES ASSUME NEW p \in Ops, op'[p].kind # "idle" PROVE Carry(op[p])'
      OBVIOUS
    <2>2. CASE p = o
      <3>1. k = "save" => draft.text < r.text
        BY <1>2, TypedNumbers DEF Orderly
      <3> QED
        BY <1>1, <1>2, <1>3, <1>4, <1>7, <1>8, <2>2, <3>1 DEF Carry
    <2>3. CASE p # o
      <3>1. op[p] \in Flying /\ Carry(op[p]) /\ op'[p] = op[p]
        BY <1>4, <2>1, <2>3, InFlightRec DEF Orderly
      <3>2. op[p].text <= texts'
        BY <1>3, <3>1, TypedNumbers DEF Carry, Flying
      <3> QED
        BY <1>1, <3>1, <3>2 DEF Carry
    <2> QED
      BY <2>2, <2>3
  <1>10. Apart'
    BY <1>2, <1>4, <1>5, <1>6 DEF Apart, Orderly
  <1>11. Level' => Level
    BY <1>1, <1>4, <1>8 DEF Level, Fills
  <1>12. Steady'
    <2>1. SUFFICES ASSUME Level
                   PROVE  /\ draft.version > 0 => draft.text = ov
                          /\ \A p \in Ops : op'[p].kind # "idle" /\ Bears(op[p])'
                                              => op'[p].text = ov
      BY <1>1, <1>11 DEF Steady
    <2>2. \A p \in Ops : op'[p].kind # "idle" /\ Bears(op[p])' => op'[p].text = ov
      BY <1>4, <1>8, <2>1 DEF Bears, Fills, Orderly, Steady
    <2> QED
      BY <2>1, <2>2 DEF Orderly, Steady
  <1>13. draft'.text <= texts' /\ ov' <= texts'
    BY <1>1, <1>3, TypedNumbers DEF Orderly
  <1> QED
    BY <1>1, <1>9, <1>10, <1>12, <1>13 DEF Orderly

\* Every step keeps the order, and stores no older text.
LEMMA NextOrderly ==
    ASSUME Lone, Typed, Orderly, [Next]_vars
    PROVE  Orderly' /\ draft'.text >= draft.text
  <1>1. CASE \E o \in Ops, k \in Called : Call(o, k)
    <2>1. UNCHANGED draft
      BY <1>1 DEF Call
    <2> QED
      BY <1>1, <2>1, CallOrderly, TypedNumbers
  <1>2. ASSUME NEW o \in Ops, Draft(o)
        PROVE  Orderly' /\ draft'.text >= draft.text
    <2>1. CASE StoreDraft(o)
      BY <2>1, StoreDraftOrderly
    <2>2. CASE ReadDraft(o) \/ Download(o) \/ FindDraft(o)
      <3>1. UNCHANGED draft
        BY <2>2 DEF ReadDraft, Download, FindDraft
      <3> QED
        BY <2>2, <3>1, ReadDraftOrderly, DownloadOrderly, FindDraftOrderly, TypedNumbers
    <2> QED
      BY <1>2, <2>1, <2>2 DEF Draft
  <1>3. ASSUME NEW o \in Ops, IndexState(o) \/ Index(o) \/ Worker(o) \/ Throws(o)
        PROVE  Orderly' /\ draft'.text >= draft.text
    <2>1. UNCHANGED draft
      BY <1>3 DEF IndexState, ReadNode, WriteNode, Index, WriteContent, WriteContentBusy,
                  WriteContentFails, CountVectors, RefreshStats, Worker, ClearTarget,
                  ClearTargetFails, Inject, InjectFails, MarkImported, MarkSynced,
                  NumberDraft, Throws
    <2> QED
      BY <1>3, <2>1, IndexStateOrderly, IndexOrderly, WorkerOrderly, ThrowsOrderly,
         TypedNumbers
  <1>4. CASE Restart
    <2>1. \A o \in Ops : op'[o].kind = "idle"
      BY <1>4 DEF Restart, Idle
    <2>2. UNCHANGED <<draft, ov, texts>>
      BY <1>4 DEF Restart
    <2>3. Steady' /\ Apart'
      BY <2>1, <2>2 DEF Orderly, Steady, Level, Apart
    <2> QED
      BY <2>1, <2>2, <2>3, TypedNumbers DEF Orderly
  <1>5. CASE UNCHANGED vars
    BY <1>5, TypedNumbers DEF vars, bounds, Orderly, Apart, Steady, Level, Carry, Bears, Fills
  <1> QED
    BY <1>1, <1>2, <1>3, <1>4, <1>5 DEF Next

LEMMA InitOrderly ==
    ASSUME Init
    PROVE  Orderly
  BY DEF Init, Idle, Orderly, Carry, Apart, Steady, Level

\* Where saves, imports and compensations run alone and an import or a
\* compensation finds no draft, no text a user saved is ever replaced by an
\* older one, whatever reads, fills, rebuilds and warm-ups do meanwhile and
\* whichever awaits fail.  Both assumptions are needed: the code does not
\* make the second one true by itself.
THEOREM DraftKeepsItsText ==
    ASSUME Lone
    PROVE  Spec => DraftNeverGoesBack
  <1>1. Typed /\ Orderly /\ [Next]_vars => Orderly' /\ [draft'.text >= draft.text]_vars
    BY NextOrderly
  <1>2. Init => Orderly
    BY InitOrderly
  <1> QED
    BY <1>1, <1>2, AlwaysTyped, PTL DEF Spec, DraftNeverGoesBack

(***************************************************************************)
(* A clean node has the draft's text in OpenViking, where besides fills    *)
(* come one at a time: three fills beside a warm-up can take the version   *)
(* back, and a later save then gives it the number of a clean row.         *)
(***************************************************************************)
FillsAlone == {"fill"} \notin Overlap

\* A handler that knows OpenViking's text and the draft's to be the same, once
\* there is a draft: it took the one from the other.
Seen(r) ==
    \/ r.kind \in {"fill", "warm"} /\ r.pc # "draft"
    \/ r.kind = "index" /\ \/ r.pc \in {"download", "count", "refresh"}
                           \/ r.mark \in {"clean", "vectorless"}

\* No handler knows a version beyond the draft's but one that is about to store it.
Dated(r) ==
    /\ r.copy.draftVersion <= draft.version
    /\ r.kind = "manual" => r.copy.draftVersion = 0
    /\ r.pc # "store" => r.version <= draft.version
    /\ r.pc = "store" => \/ r.version = draft.version + 1
                         \/ r.kind # "save" /\ r.version = 1

\* What a handler carries or has written is the draft's text, once there is one.
Same(r) ==
    draft.version > 0 => /\ Bears(r) => r.text = draft.text
                         /\ Seen(r) => ov = draft.text

\* One fill and one warm-up at most, and one of them once there is a draft.
Single ==
    \A o, p \in Ops :
        o # p /\ op[o].kind # "idle" /\ op[p].kind # "idle" /\ op[o].kind \in {"fill", "warm"} =>
            /\ op[o].kind # op[p].kind
            /\ Fills(op[o]) /\ Fills(op[p]) => draft.version = 0

Agreed ==
    /\ node.draftVersion <= draft.version
    /\ \A o \in Ops : op[o].kind # "idle" => Dated(op[o]) /\ Same(op[o])
    /\ Single
    /\ CleanMeansEqual

LEMMA TypedRows ==
    ASSUME Typed
    PROVE  /\ op \in [Ops -> Legal]
           /\ draft.version \in Nat /\ draft.text \in Nat /\ ov \in Nat
           /\ node \in Nodes /\ node.draftVersion \in Nat
  BY DEF Typed, TypeOK, Nodes

\* A handler that moves on, without storing a draft, keeps the invariant when
\* it keeps its own part and leaves the node in order.
LEMMA KeepsAgreed ==
    ASSUME Typed, Agreed, NEW o \in Ops, op[o].kind # "idle",
           NEW r, op' = [op EXCEPT ![o] = r], UNCHANGED draft,
           draft.version > 0 => ov' = ov \/ ov' = draft.text,
           node'.draftVersion <= draft.version,
           node'.status = "clean" /\ node'.draftVersion = draft.version /\ draft.version > 0
             => ov' = draft.text,
           \/ r.kind = "idle"
           \/ /\ r.kind = op[o].kind
              /\ Fills(r) => Fills(op[o]) \/ draft.version = 0
              /\ Dated(r)
              /\ draft.version > 0 /\ Bears(r) => r.text = draft.text
              /\ draft.version > 0 /\ Seen(r) => ov' = draft.text
    PROVE  Agreed'
  <1>1. op'[o] = r /\ \A p \in Ops : p # o => op'[p] = op[p]
    BY TypedRows
  <1>2. \A p \in Ops : op'[p].kind # "idle" => Dated(op[p])' /\ Same(op[p])'
    <2>1. SUFFICES ASSUME NEW p \in Ops, op'[p].kind # "idle"
                   PROVE  Dated(op[p])' /\ Same(op[p])'
      OBVIOUS
    <2>2. CASE p = o
      BY <1>1, <2>1, <2>2 DEF Dated, Same, Bears, Seen, Fills
    <2>3. CASE p # o
      <3>1. op'[p] = op[p] /\ Dated(op[p]) /\ Same(op[p])
        BY <1>1, <2>1, <2>3 DEF Agreed
      <3> QED
        BY <3>1 DEF Dated, Same, Bears, Seen, Fills
    <2> QED
      BY <2>2, <2>3
  <1>3. Single'
    <2>1. SUFFICES ASSUME NEW p \in Ops, NEW q \in Ops, p # q, op'[p].kind # "idle",
                          op'[q].kind # "idle", op'[p].kind \in {"fill", "warm"}
                   PROVE  /\ op'[p].kind # op'[q].kind
                          /\ Fills(op[p])' /\ Fills(op[q])' => draft.version = 0
      BY DEF Single
    <2>2. \A s \in Ops : op'[s].kind # "idle" =>
            /\ op'[s].kind = op[s].kind
            /\ Fills(op[s])' => Fills(op[s]) \/ draft.version = 0
      BY <1>1 DEF Fills
    <2> QED
      BY <2>1, <2>2 DEF Agreed, Single
  <1>4. CleanMeansEqual'
    BY DEF CleanMeansEqual
  <1> QED
    BY <1>2, <1>3, <1>4 DEF Agreed

\* One that ends keeps it when it leaves the texts and the node alone.
LEMMA EndsAgreed ==
    ASSUME Typed, Agreed, NEW o \in Ops, op[o].kind # "idle", Done(o),
           UNCHANGED <<draft, node, ov>>
    PROVE  Agreed'
  <1>1. op' = [op EXCEPT ![o] = Idle] /\ Idle.kind = "idle"
    BY DEF Done, Idle
  <1>2. /\ node'.draftVersion <= draft.version
        /\ node'.status = "clean" /\ node'.draftVersion = draft.version /\ draft.version > 0
           => ov' = draft.text
    BY DEF Agreed, CleanMeansEqual
  <1> QED
    BY <1>1, <1>2, KeepsAgreed

\* The reads: of the draft, of OpenViking, and of the version a store goes by.
LEMMA ReadDraftAgreed ==
    ASSUME Typed, Orderly, Agreed, NEW o \in Ops, ReadDraft(o)
    PROVE  Agreed'
  <1>1. /\ op[o] \in Flying /\ Sound(op[o]) /\ op[o].kind # "idle"
        /\ op[o].kind \in {"fill", "index"} /\ op[o].mark \in Marks
    BY InFlightRec DEF ReadDraft, At, Sound, Flying
  <1>2. Dated(op[o]) /\ op[o].copy.draftVersion \in Nat
    BY <1>1 DEF Agreed, Flying, Nodes
  <1>3. /\ UNCHANGED <<draft, node, ov>> /\ node'.draftVersion <= draft.version
        /\ node'.status = "clean" /\ node'.draftVersion = draft.version /\ draft.version > 0
           => ov' = draft.text
    BY DEF ReadDraft, Agreed, CleanMeansEqual
  <1>4. CASE draft.version = 0
    <2> DEFINE r == [op[o] EXCEPT !.pc = "download", !.version = op[o].copy.draftVersion]
    <2>1. op' = [op EXCEPT ![o] = r]
      BY <1>4 DEF ReadDraft
    <2>2. /\ r.kind = op[o].kind /\ r.pc = "download" /\ r.copy = op[o].copy
          /\ r.version = op[o].copy.draftVersion
      BY <1>1 DEF Flying
    <2> HIDE DEF r
    <2>3. Dated(r)
      BY <1>1, <1>2, <2>2 DEF Dated
    <2>4. ~ (draft.version > 0) /\ UNCHANGED draft
      BY <1>3, <1>4
    <2> QED
      BY <1>1, <1>3, <1>4, <2>1, <2>2, <2>3, <2>4, KeepsAgreed
  <1>5. CASE draft.version # 0 /\ op[o].kind = "index"
    <2> DEFINE r == [op[o] EXCEPT !.pc = "state", !.mark = "indexing",
                                  !.version = draft.version, !.text = draft.text]
    <2>1. op' = [op EXCEPT ![o] = r]
      BY <1>5 DEF ReadDraft
    <2>2. /\ r.kind = "index" /\ r.pc = "state" /\ r.mark = "indexing"
          /\ r.copy = op[o].copy /\ r.version = draft.version /\ r.text = draft.text
      BY <1>1, <1>5 DEF Flying
    <2> HIDE DEF r
    <2>3. Dated(r)
      BY <1>1, <1>2, <2>2, TypedRows DEF Dated
    <2>4. ~ Fills(r) /\ ~ Seen(r)
      BY <2>2 DEF Fills, Seen
    <2> QED
      BY <1>1, <1>3, <1>5, <2>1, <2>2, <2>3, <2>4, KeepsAgreed
  <1>6. CASE draft.version # 0 /\ op[o].kind # "index"
    <2>1. Done(o)
      BY <1>6 DEF ReadDraft
    <2> QED
      BY <1>1, <1>3, <2>1, EndsAgreed
  <1> QED
    BY <1>4, <1>5, <1>6

LEMMA DownloadAgreed ==
    ASSUME Typed, Orderly, Agreed, NEW o \in Ops, Download(o)
    PROVE  Agreed'
  <1>1. /\ op[o] \in Flying /\ Sound(op[o]) /\ op[o].kind # "idle" /\ op[o].pc = "download"
        /\ op[o].kind \in {"fill", "warm", "index"}
    BY InFlightRec DEF Download, At, Sound
  <1>2. Dated(op[o]) /\ Same(op[o]) /\ (draft.version > 0 => ov = draft.text)
    BY <1>1 DEF Agreed, Same, Seen
  <1>3. /\ UNCHANGED <<draft, node, ov>> /\ node'.draftVersion <= draft.version
        /\ node'.status = "clean" /\ node'.draftVersion = draft.version /\ draft.version > 0
           => ov' = draft.text
    BY DEF Download, Agreed, CleanMeansEqual
  <1>4. CASE Done(o)
    BY <1>1, <1>3, <1>4, EndsAgreed
  <1>5. CASE op[o].kind # "index" /\ op' = [op EXCEPT ![o].pc = "find", ![o].text = ov]
    <2> DEFINE r == [op[o] EXCEPT !.pc = "find", !.text = ov]
    <2>1. op' = [op EXCEPT ![o] = r]
      BY <1>5
    <2>2. /\ r.kind = op[o].kind /\ r.pc = "find" /\ r.copy = op[o].copy
          /\ r.version = op[o].version /\ r.text = ov
      BY <1>1 DEF Flying
    <2> HIDE DEF r
    <2>3. Dated(r) /\ Fills(op[o])
      BY <1>1, <1>2, <1>5, <2>2 DEF Dated, Fills
    <2> QED
      BY <1>1, <1>2, <1>3, <2>1, <2>2, <2>3, KeepsAgreed
  <1>6. CASE /\ op[o].kind = "index"
             /\ op' = [op EXCEPT ![o].pc = "state", ![o].mark = "indexing", ![o].text = ov]
    <2> DEFINE r == [op[o] EXCEPT !.pc = "state", !.mark = "indexing", !.text = ov]
    <2>1. op' = [op EXCEPT ![o] = r]
      BY <1>6
    <2>2. /\ r.kind = op[o].kind /\ r.pc = "state" /\ r.copy = op[o].copy
          /\ r.version = op[o].version /\ r.text = ov
      BY <1>1 DEF Flying
    <2> HIDE DEF r
    <2>3. Dated(r) /\ ~ Fills(r)
      BY <1>1, <1>2, <1>6, <2>2 DEF Dated, Fills
    <2> QED
      BY <1>1, <1>2, <1>3, <2>1, <2>2, <2>3, KeepsAgreed
  <1> QED
    BY <1>4, <1>5, <1>6 DEF Download

LEMMA FindDraftAgreed ==
    ASSUME Typed, Orderly, Agreed, NEW o \in Ops, FindDraft(o)
    PROVE  Agreed'
  <1>1. /\ op[o] \in Flying /\ Sound(op[o]) /\ op[o].kind # "idle" /\ op[o].pc = "find"
        /\ op[o].kind \in {"save", "fill", "warm"}
    BY InFlightRec DEF FindDraft, At, Sound
  <1>2. Dated(op[o]) /\ Same(op[o])
    BY <1>1 DEF Agreed
  <1>3. /\ UNCHANGED <<draft, node, ov>> /\ node'.draftVersion <= draft.version
        /\ node'.status = "clean" /\ node'.draftVersion = draft.version /\ draft.version > 0
           => ov' = draft.text
    BY DEF FindDraft, Agreed, CleanMeansEqual
  <1> DEFINE r == [op[o] EXCEPT !.pc = "store", !.version = draft.version + 1]
  <1>4. op' = [op EXCEPT ![o] = r]
    BY DEF FindDraft
  <1>5. /\ r.kind = op[o].kind /\ r.pc = "store" /\ r.copy = op[o].copy
        /\ r.version = draft.version + 1 /\ r.text = op[o].text
    BY <1>1 DEF Flying
  <1> HIDE DEF r
  <1>6. Dated(r) /\ (Fills(r) => Fills(op[o]))
    BY <1>1, <1>2, <1>5 DEF Dated, Fills
  <1>7. (Bears(r) => Bears(op[o])) /\ (Seen(r) => Seen(op[o]))
    BY <1>1, <1>5 DEF Bears, Fills, Seen
  <1> QED
    BY <1>1, <1>2, <1>3, <1>4, <1>5, <1>6, <1>7, KeepsAgreed DEF Same

\* A save is alone when it stores; a fill stores the text OpenViking holds, and
\* so does everybody else who carries a text then.
LEMMA StoreDraftAgreed ==
    ASSUME Typed, Orderly, Agreed, NEW o \in Ops, StoreDraft(o)
    PROVE  Agreed'
  <1>1. /\ op[o] \in Flying /\ Sound(op[o]) /\ op[o].kind # "idle" /\ op[o].pc = "store"
        /\ op[o].kind \in {"save", "fill", "warm"}
    BY InFlightRec DEF StoreDraft, At, Sound
  <1>2. UNCHANGED <<node, ov>>
    BY DEF StoreDraft
  <1>3. CASE UNCHANGED draft /\ Done(o)
    BY <1>1, <1>2, <1>3, EndsAgreed
  <1>4. CASE ~ (UNCHANGED draft /\ Done(o))
    <2>1. /\ draft' = [version |-> op[o].version, text |-> op[o].text]
          /\ ~ (op[o].version = 1 /\ draft.version > 0)
          /\ \/ op[o].kind = "save" /\ Sync(o, "dirty")
             \/ op[o].kind = "fill" /\ Sync(o, "filled")
             \/ op[o].kind = "warm" /\ Goto(o, "number")
      BY <1>1, <1>4 DEF StoreDraft
    <2>2. Dated(op[o]) /\ Same(op[o]) /\ op[o].version \in Nat /\ op[o].copy.draftVersion \in Nat
      BY <1>1 DEF Agreed, Flying, Nodes
    <2>3. op[o].version = draft.version + 1
      <3>1. op[o].version = draft.version + 1 \/ op[o].version = 1
        BY <1>1, <2>2 DEF Dated
      <3> QED
        BY <2>1, <3>1, TypedRows
    <2>4. draft'.version = draft.version + 1 /\ draft'.text = op[o].text
      BY <2>1, <2>3
    <2>5. PICK r : /\ op' = [op EXCEPT ![o] = r] /\ r.kind = op[o].kind
                   /\ r.pc \in {"state", "number"} /\ r.version = op[o].version
                   /\ r.copy = op[o].copy /\ r.text = op[o].text
      <3>1. CASE \E mark \in {"dirty", "filled"} : Sync(o, mark)
        <4>1. PICK mark \in {"dirty", "filled"} : Sync(o, mark)
          BY <3>1
        <4> DEFINE r == [op[o] EXCEPT !.pc = "state", !.mark = mark]
        <4>2. op' = [op EXCEPT ![o] = r]
          BY <4>1 DEF Sync
        <4>3. /\ r.kind = op[o].kind /\ r.pc = "state" /\ r.version = op[o].version
              /\ r.copy = op[o].copy /\ r.text = op[o].text
          BY <1>1 DEF Flying
        <4> HIDE DEF r
        <4> QED
          BY <4>2, <4>3
      <3>2. CASE Goto(o, "number")
        <4> DEFINE r == [op[o] EXCEPT !.pc = "number"]
        <4>1. op' = [op EXCEPT ![o] = r]
          BY <3>2 DEF Goto
        <4>2. /\ r.kind = op[o].kind /\ r.pc = "number" /\ r.version = op[o].version
              /\ r.copy = op[o].copy /\ r.text = op[o].text
          BY <1>1 DEF Flying
        <4> HIDE DEF r
        <4> QED
          BY <4>1, <4>2
      <3> QED
        BY <2>1, <3>1, <3>2
    <2>6. op'[o] = r /\ \A p \in Ops : p # o => op'[p] = op[p]
      BY <2>5, TypedRows
    <2>7. op[o].kind # "save" => /\ op[o].text = ov
                                 /\ \A p \in Ops : op[p].kind # "idle" /\ Bears(op[p])
                                                     => op[p].text = ov
      <3>1. op[o].kind # "save" => Level /\ Bears(op[o])
        BY <1>1 DEF Level, Fills, Bears
      <3> QED
        BY <1>1, <3>1 DEF Orderly, Steady
    <2>8. op[o].kind = "save" => \A p \in Ops : p # o => op[p].kind = "idle"
      BY <1>1 DEF Orderly, Apart, Readers
    <2>9. \A p \in Ops : op'[p].kind # "idle" => Dated(op[p])' /\ Same(op[p])'
      <3>1. SUFFICES ASSUME NEW p \in Ops, op'[p].kind # "idle"
                     PROVE  Dated(op[p])' /\ Same(op[p])'
        OBVIOUS
      <3>2. CASE p = o
        <4>1. Dated(op[o])'
          BY <1>1, <2>2, <2>4, <2>3, <2>5, <2>6, TypedRows DEF Dated
        <4>2. Same(op[o])'
          BY <1>1, <1>2, <2>4, <2>5, <2>6, <2>7 DEF Same, Seen, Bears, Fills
        <4> QED
          BY <3>2, <4>1, <4>2
      <3>3. CASE p # o
        <4>1. op'[p] = op[p] /\ op[o].kind # "save" /\ op[p].kind # "idle"
          BY <2>6, <2>8, <3>1, <3>3
        <4>2. op[p] \in Flying /\ Sound(op[p]) /\ Dated(op[p])
          BY <4>1, InFlightRec DEF Agreed
        <4>3. op[p].kind # "save"
          BY <1>1, <3>3, <4>1 DEF Orderly, Apart, Readers
        <4>4. op[p].version \in Nat /\ op[p].copy.draftVersion \in Nat
          BY <4>2 DEF Flying, Nodes
        <4>5. Dated(op[p])'
          <5>1. op[p].pc = "store" => op[p].version = 1
            <6>1. SUFFICES ASSUME op[p].pc = "store", op[p].version # 1 PROVE FALSE
              OBVIOUS
            <6>2. Fills(op[o]) /\ Fills(op[p])
              BY <1>1, <4>1, <4>2, <4>3, <6>1 DEF Fills, Sound
            <6>3. draft.version = 0
              BY <1>1, <3>3, <4>1, <6>2 DEF Agreed, Single
            <6> QED
              BY <4>2, <6>1, <6>3 DEF Dated
          <5> QED
            BY <2>4, <4>1, <4>2, <4>3, <4>4, <5>1, TypedRows DEF Dated
        <4>6. Same(op[p])'
          BY <1>2, <2>4, <2>7, <4>1 DEF Same, Bears, Fills
        <4> QED
          BY <3>3, <4>5, <4>6
      <3> QED
        BY <3>2, <3>3
    <2>10. Single'
      <3>1. SUFFICES ASSUME NEW p \in Ops, NEW q \in Ops, p # q, op'[p].kind # "idle",
                            op'[q].kind # "idle", op'[p].kind \in {"fill", "warm"}
                     PROVE  /\ op'[p].kind # op'[q].kind
                            /\ Fills(op[p])' /\ Fills(op[q])' => FALSE
        BY DEF Single
      <3>2. \A s \in Ops : op'[s].kind = op[s].kind
        BY <2>5, <2>6
      <3>3. op'[p].kind # op'[q].kind
        BY <3>1, <3>2 DEF Agreed, Single
      <3>4. ASSUME Fills(op[p])', Fills(op[q])' PROVE FALSE
        <4>1. p # o /\ q # o /\ op'[p] = op[p] /\ op'[q] = op[q]
          BY <2>5, <2>6, <3>4 DEF Fills
        <4>2. /\ op[p].kind \in {"fill", "warm"} /\ op[q].kind \in {"fill", "warm"}
              /\ op[o].kind # "save"
          BY <2>8, <3>1, <3>4, <4>1 DEF Fills
        <4>3. op[p].kind # op[o].kind /\ op[q].kind # op[o].kind
          BY <1>1, <3>1, <4>1, <4>2 DEF Agreed, Single
        <4> QED
          BY <1>1, <3>2, <3>3, <4>2, <4>3
      <3> QED
        BY <3>3, <3>4
    <2>11. node'.draftVersion < draft'.version
      BY <1>2, <2>4, TypedRows DEF Agreed
    <2>12. node'.draftVersion <= draft'.version /\ CleanMeansEqual'
      BY <1>2, <2>4, <2>11, TypedRows DEF CleanMeansEqual
    <2> QED
      BY <2>9, <2>10, <2>12 DEF Agreed
  <1> QED
    BY <1>3, <1>4

\* What syncIndexState writes: a version its caller knows, and a clean status
\* only from a caller that has compared the texts.
LEMMA MergedRow ==
    ASSUME NEW r \in Flying, Sound(r), r.pc = "merge"
    PROVE  /\ Merged(r).draftVersion \in {r.version, r.copy.draftVersion}
           /\ Merged(r).status = "clean" => Seen(r)
  <1>1. /\ r.copy \in Nodes /\ r.mark \in Marks /\ r.kind \in {"save", "fill", "index"}
        /\ r.kind = "fill" => r.mark \in {"none", "filled"}
        /\ r.kind = "save" => r.mark \in {"none", "dirty"}
        /\ r.kind = "index" =>
             r.mark \in {"none", "indexing", "clean", "vectorless", "busy", "failed"}
    BY DEF Flying, Sound
  <1> QED
    BY <1>1 DEF Merged, Marks, Nodes, Statuses, Seen

LEMMA IndexStateAgreed ==
    ASSUME Typed, Orderly, Agreed, NEW o \in Ops, IndexState(o)
    PROVE  Agreed'
  <1>1. /\ op[o] \in Flying /\ Sound(op[o]) /\ op[o].kind # "idle"
        /\ op[o].pc \in {"state", "merge"} /\ UNCHANGED <<draft, ov>>
        /\ op[o].kind \in {"save", "fill", "index"}
    BY InFlightRec DEF IndexState, ReadNode, WriteNode, At, Sound
  <1>2. Dated(op[o]) /\ Same(op[o])
    BY <1>1 DEF Agreed
  <1>3. CASE ReadNode(o)
    <2> DEFINE r == [op[o] EXCEPT !.pc = "merge", !.copy = node]
    <2>1. op' = [op EXCEPT ![o] = r] /\ op[o].pc = "state"
      BY <1>3 DEF ReadNode, At
    <2>2. /\ r.kind = op[o].kind /\ r.pc = "merge" /\ r.copy = node /\ r.mark = op[o].mark
          /\ r.version = op[o].version /\ r.text = op[o].text
      BY <1>1 DEF Flying
    <2> HIDE DEF r
    <2>3. Dated(r) /\ ~ Fills(r)
      BY <1>1, <1>2, <2>1, <2>2 DEF Dated, Fills, Agreed
    <2>4. (Bears(r) => Bears(op[o])) /\ (Seen(r) => Seen(op[o]))
      BY <1>1, <2>1, <2>2 DEF Bears, Fills, Seen
    <2>5. /\ node'.draftVersion <= draft.version
          /\ node'.status = "clean" /\ node'.draftVersion = draft.version /\ draft.version > 0
             => ov' = draft.text
      BY <1>1, <1>3 DEF ReadNode, Agreed, CleanMeansEqual
    <2> QED
      BY <1>1, <1>2, <2>1, <2>2, <2>3, <2>4, <2>5, KeepsAgreed DEF Same
  <1>4. CASE WriteNode(o)
    <2>1. op[o].pc = "merge" /\ node' = Merged(op[o])
      BY <1>4 DEF WriteNode, At
    <2>2. /\ node'.draftVersion \in {op[o].version, op[o].copy.draftVersion}
          /\ node'.status = "clean" => Seen(op[o])
      BY <1>1, <2>1, MergedRow
    <2>3. /\ node'.draftVersion <= draft.version
          /\ node'.status = "clean" /\ node'.draftVersion = draft.version /\ draft.version > 0
             => ov' = draft.text
      BY <1>1, <1>2, <2>1, <2>2 DEF Dated, Same
    <2>4. CASE Done(o)
      <3>1. op' = [op EXCEPT ![o] = Idle] /\ Idle.kind = "idle"
        BY <2>4 DEF Done, Idle
      <3> QED
        BY <1>1, <2>3, <3>1, KeepsAgreed
    <2>5. CASE /\ op[o].mark \in {"indexing", "clean", "vectorless"}
               /\ Goto(o, IF op[o].mark = "indexing" THEN "write" ELSE "refresh")
      <3> DEFINE pc == IF op[o].mark = "indexing" THEN "write" ELSE "refresh"
      <3> DEFINE r == [op[o] EXCEPT !.pc = pc]
      <3>1. op' = [op EXCEPT ![o] = r] /\ op[o].kind = "index"
        BY <1>1, <2>5 DEF Goto, Sound
      <3>2. /\ r.kind = op[o].kind /\ r.pc = pc /\ r.copy = op[o].copy /\ r.mark = op[o].mark
            /\ r.version = op[o].version /\ r.text = op[o].text
        BY <1>1 DEF Flying
      <3> HIDE DEF r
      <3>3. Dated(r) /\ ~ Fills(r) /\ Bears(op[o])
        BY <1>1, <1>2, <2>1, <3>1, <3>2 DEF Dated, Fills, Bears
      <3>4. Seen(r) => Seen(op[o])
        BY <2>5, <3>1, <3>2 DEF Seen
      <3> QED
        BY <1>1, <1>2, <2>3, <3>1, <3>2, <3>3, <3>4, KeepsAgreed DEF Same
    <2> QED
      BY <1>4, <2>4, <2>5 DEF WriteNode
  <1> QED
    BY <1>3, <1>4 DEF IndexState

\* An index that is past its reads writes the text it carries, and goes on.
LEMMA IndexMoves ==
    ASSUME Typed, Agreed, NEW o \in Ops, op[o].kind = "index", Bears(op[o]),
           NEW r, op' = [op EXCEPT ![o] = r], UNCHANGED <<draft, node>>,
           ov' \in {ov, op[o].text}, r.kind = "index", r.pc # "store", r.copy = op[o].copy,
           r.version = op[o].version, r.text = op[o].text,
           draft.version > 0 /\ Seen(r) => ov' = draft.text
    PROVE  Agreed'
  <1>1. op[o] \in Flying /\ Sound(op[o]) /\ Dated(op[o]) /\ Same(op[o]) /\ op[o].pc # "store"
    BY InFlightRec DEF Agreed, Sound
  <1>2. Dated(r) /\ ~ Fills(r)
    BY <1>1 DEF Dated, Fills
  <1>3. draft.version > 0 => op[o].text = draft.text
    BY <1>1 DEF Same
  <1>4. /\ node'.draftVersion <= draft.version
        /\ node'.status = "clean" /\ node'.draftVersion = draft.version /\ draft.version > 0
           => ov' = draft.text
    BY <1>3 DEF Agreed, CleanMeansEqual
  <1>5. draft.version > 0 => ov' = ov \/ ov' = draft.text
    BY <1>3
  <1> QED
    BY <1>2, <1>3, <1>4, <1>5, KeepsAgreed

LEMMA IndexSyncsAgreed ==
    ASSUME Typed, Agreed, NEW o \in Ops, op[o].kind = "index", Bears(op[o]),
           NEW mark, Sync(o, mark), UNCHANGED <<draft, node>>, ov' \in {ov, op[o].text},
           mark \in {"clean", "vectorless"} => UNCHANGED ov /\ Seen(op[o])
    PROVE  Agreed'
  <1>1. op[o] \in Flying /\ Same(op[o])
    BY InFlightRec DEF Agreed
  <1> DEFINE r == [op[o] EXCEPT !.pc = "state", !.mark = mark]
  <1>2. op' = [op EXCEPT ![o] = r]
    BY DEF Sync
  <1>3. /\ r.kind = "index" /\ r.pc = "state" /\ r.copy = op[o].copy /\ r.mark = mark
        /\ r.version = op[o].version /\ r.text = op[o].text
    BY <1>1 DEF Flying
  <1> HIDE DEF r
  <1>4. draft.version > 0 /\ Seen(r) => ov' = draft.text
    BY <1>1, <1>3 DEF Seen, Same
  <1> QED
    BY <1>2, <1>3, <1>4, IndexMoves

LEMMA IndexAgreed ==
    ASSUME Typed, Orderly, Agreed, NEW o \in Ops, Index(o)
    PROVE  Agreed'
  <1>1. /\ op[o] \in Flying /\ Sound(op[o]) /\ op[o].kind # "idle"
        /\ op[o].pc \in {"write", "count", "refresh"} /\ UNCHANGED <<draft, node>>
    BY InFlightRec DEF Index, WriteContent, WriteContentBusy, WriteContentFails,
                       CountVectors, RefreshStats, At
  <1>2. op[o].kind = "index" /\ Bears(op[o]) /\ Same(op[o])
    BY <1>1 DEF Sound, Bears, Agreed
  <1>3. CASE WriteContent(o)
    <2> DEFINE r == [op[o] EXCEPT !.pc = "count"]
    <2>1. op' = [op EXCEPT ![o] = r] /\ ov' = op[o].text
      BY <1>3 DEF WriteContent, Goto
    <2>2. /\ r.kind = "index" /\ r.pc = "count" /\ r.copy = op[o].copy
          /\ r.version = op[o].version /\ r.text = op[o].text
      BY <1>1, <1>2 DEF Flying
    <2> HIDE DEF r
    <2>3. draft.version > 0 => ov' = draft.text
      BY <1>2, <2>1 DEF Same
    <2> QED
      BY <1>1, <1>2, <2>1, <2>2, <2>3, IndexMoves
  <1>4. CASE WriteContentBusy(o)
    BY <1>1, <1>2, <1>4, IndexSyncsAgreed DEF WriteContentBusy
  <1>5. CASE WriteContentFails(o)
    BY <1>1, <1>2, <1>5, IndexSyncsAgreed DEF WriteContentFails
  <1>6. CASE CountVectors(o)
    <2>1. Seen(op[o]) /\ UNCHANGED ov
      BY <1>2, <1>6 DEF CountVectors, At, Seen
    <2>2. PICK mark \in {"clean", "vectorless"} : Sync(o, mark)
      BY <1>6 DEF CountVectors
    <2> QED
      BY <1>1, <1>2, <2>1, <2>2, IndexSyncsAgreed
  <1>7. CASE RefreshStats(o)
    <2>1. UNCHANGED ov /\ (Done(o) \/ Sync(o, "failed"))
      BY <1>7 DEF RefreshStats
    <2>2. CASE Done(o)
      BY <1>1, <2>1, <2>2, EndsAgreed
    <2>3. CASE Sync(o, "failed")
      BY <1>1, <1>2, <2>1, <2>3, IndexSyncsAgreed
    <2> QED
      BY <2>1, <2>2, <2>3
  <1> QED
    BY <1>3, <1>4, <1>5, <1>6, <1>7 DEF Index

\* Before there is a draft, a handler that only numbers by what it knows keeps
\* the invariant, whatever it does to OpenViking.
LEMMA DraftlessAgreed ==
    ASSUME Typed, Orderly, Agreed, NEW o \in Ops, op[o].kind \in {"import", "sync"},
           NEW r, op' = [op EXCEPT ![o] = r], UNCHANGED draft,
           node'.draftVersion = node.draftVersion,
           \/ r.kind = "idle"
           \/ /\ r.kind \in {"import", "warm"} /\ r.pc # "store"
              /\ r.copy = op[o].copy /\ r.version = op[o].version
    PROVE  Agreed'
  <1>1. op'[o] = r /\ \A p \in Ops : p # o => op'[p].kind = "idle"
    BY TypedRows DEF Orderly, Apart, Readers
  <1>2. op[o] \in Flying /\ Sound(op[o]) /\ Dated(op[o]) /\ draft.version = 0
    BY InFlightRec DEF Agreed, Orderly, Carry
  <1>3. \A p \in Ops : op'[p].kind # "idle" => Dated(op[p])' /\ Same(op[p])'
    <2>1. SUFFICES ASSUME r.kind # "idle" PROVE Dated(op[o])' /\ Same(op[o])'
      BY <1>1
    <2>2. op[o].pc # "store" /\ op'[o].kind # "manual"
      BY <1>1, <1>2, <2>1 DEF Sound
    <2> QED
      BY <1>1, <1>2, <2>1, <2>2 DEF Dated, Same
  <1>4. Single'
    BY <1>1 DEF Single
  <1> QED
    BY <1>2, <1>3, <1>4 DEF Agreed, CleanMeansEqual

LEMMA WorkerAgreed ==
    ASSUME Typed, Orderly, Agreed, NEW o \in Ops, Worker(o)
    PROVE  Agreed'
  <1>1. op[o] \in Flying /\ Sound(op[o]) /\ op[o].kind # "idle" /\ UNCHANGED draft
    BY InFlightRec DEF Worker, ClearTarget, ClearTargetFails, Inject, InjectFails,
                       MarkImported, MarkSynced, NumberDraft, At
  <1>2. Dated(op[o]) /\ Same(op[o]) /\ op[o].copy.draftVersion \in Nat
    BY <1>1 DEF Agreed, Flying, Nodes
  <1>3. CASE \E pc \in {"inject", "mark"} : Goto(o, pc) /\ (ClearTarget(o) \/ Inject(o))
    <2>1. PICK pc \in {"inject", "mark"} : Goto(o, pc)
      BY <1>3
    <2>2. op[o].kind = "import" /\ UNCHANGED node
      BY <1>1, <1>3 DEF ClearTarget, Inject, At, Sound
    <2> DEFINE r == [op[o] EXCEPT !.pc = pc]
    <2>3. op' = [op EXCEPT ![o] = r]
      BY <2>1 DEF Goto
    <2>4. r.kind = "import" /\ r.pc = pc /\ r.copy = op[o].copy /\ r.version = op[o].version
      BY <1>1, <2>2 DEF Flying
    <2> HIDE DEF r
    <2> QED
      BY <1>1, <2>2, <2>3, <2>4, DraftlessAgreed
  <1>4. CASE ClearTargetFails(o) \/ InjectFails(o)
    <2>1. op[o].kind = "import" /\ UNCHANGED node /\ Done(o)
      BY <1>1, <1>4 DEF ClearTargetFails, InjectFails, At, Sound
    <2>2. op' = [op EXCEPT ![o] = Idle] /\ Idle.kind = "idle"
      BY <2>1 DEF Done, Idle
    <2> QED
      BY <1>1, <2>1, <2>2, DraftlessAgreed
  <1>5. CASE MarkImported(o)
    <2>1. op[o].kind \in {"import", "sync"}
      BY <1>1, <1>5 DEF MarkImported, At, Sound
    <2>2. node'.draftVersion = node.draftVersion
      BY <1>5, TypedRows DEF MarkImported, Marked, Nodes
    <2> DEFINE r == [op[o] EXCEPT !.kind = "warm", !.pc = "download"]
    <2>3. op' = [op EXCEPT ![o] = r]
      BY <1>5 DEF MarkImported
    <2>4. /\ r.kind = "warm" /\ r.pc = "download" /\ r.copy = op[o].copy
          /\ r.version = op[o].version
      BY <1>1 DEF Flying
    <2> HIDE DEF r
    <2> QED
      BY <1>1, <2>1, <2>2, <2>3, <2>4, DraftlessAgreed
  <1>6. CASE MarkSynced(o)
    <2>1. op' = [op EXCEPT ![o] = Idle] /\ Idle.kind = "idle" /\ UNCHANGED ov
      BY <1>6 DEF MarkSynced, Done, Idle
    <2>2. node'.draftVersion = 0
      <3>1. op[o].kind = "manual" /\ op[o].copy \in Nodes
        BY <1>1, <1>6 DEF MarkSynced, Flying
      <3> QED
        BY <1>2, <1>6, <3>1 DEF MarkSynced, Marked, Nodes, Dated
    <2>3. /\ node'.draftVersion <= draft.version
          /\ node'.status = "clean" /\ node'.draftVersion = draft.version /\ draft.version > 0
             => ov' = draft.text
      BY <2>2, TypedRows
    <2> QED
      BY <1>1, <2>1, <2>3, KeepsAgreed
  <1>7. CASE NumberDraft(o)
    <2>1. /\ op' = [op EXCEPT ![o] = Idle] /\ Idle.kind = "idle" /\ UNCHANGED ov
          /\ op[o].pc = "number"
      BY <1>7 DEF NumberDraft, Done, Idle, At
    <2>2. node'.draftVersion = op[o].version /\ op[o].kind = "warm"
      BY <1>1, <1>7, TypedRows DEF NumberDraft, Nodes, At, Sound
    <2>3. /\ node'.draftVersion <= draft.version
          /\ draft.version > 0 => ov' = draft.text
      BY <1>2, <2>1, <2>2 DEF Dated, Same, Seen
    <2> QED
      BY <1>1, <2>1, <2>3, KeepsAgreed
  <1> QED
    BY <1>3, <1>4, <1>5, <1>6, <1>7 DEF Worker, ClearTarget, Inject

LEMMA ThrowsAgreed ==
    ASSUME Typed, Orderly, Agreed, NEW o \in Ops, Throws(o)
    PROVE  Agreed'
  <1>1. op[o].kind # "idle" /\ UNCHANGED <<draft, node, ov>>
    BY DEF Throws
  <1>2. CASE op[o].kind = "index" /\ op[o].pc \in {"state", "merge"} /\ Sync(o, "failed")
    <2>1. Bears(op[o])
      BY <1>2 DEF Bears
    <2> QED
      BY <1>1, <1>2, <2>1, IndexSyncsAgreed
  <1>3. CASE Done(o)
    BY <1>1, <1>3, EndsAgreed
  <1> QED
    BY <1>2, <1>3 DEF Throws

\* A call starts with the node as it is; a fill only beside no other.
LEMMA CallAgreed ==
    ASSUME Lone, FillsAlone, Typed, Agreed, NEW o \in Ops, NEW k \in Called, Call(o, k)
    PROVE  Agreed'
  <1> DEFINE r == [kind |-> k, pc |-> First[k], mark |-> "none", copy |-> node,
                   version |-> 0, text |-> IF k = "save" THEN texts + 1 ELSE 0,
                   indexed |-> node.indexedVersion]
  <1>1. op' = [op EXCEPT ![o] = r] /\ UNCHANGED <<draft, node, ov>> /\ op[o].kind = "idle"
    BY DEF Call
  <1>2. /\ r.kind = k /\ r.pc = First[k] /\ r.mark = "none" /\ r.copy = node /\ r.version = 0
    OBVIOUS
  <1> HIDE DEF r
  <1>3. op'[o] = r /\ \A p \in Ops : p # o => op'[p] = op[p]
    BY <1>1, TypedRows
  <1>4. ~ Fills(r) /\ ~ Bears(r) /\ ~ Seen(r) /\ r.pc # "store"
    BY <1>2 DEF Fills, Bears, Seen, First, Called
  <1>5. k = "manual" => draft.version = 0
    BY DEF Call, Lone
  <1>6. \A p \in Ops : op'[p].kind # "idle" => Dated(op[p])' /\ Same(op[p])'
    <2>1. SUFFICES ASSUME NEW p \in Ops, op'[p].kind # "idle"
                   PROVE  Dated(op[p])' /\ Same(op[p])'
      OBVIOUS
    <2>2. CASE p = o
      <3>1. Dated(op[o])'
        BY <1>1, <1>2, <1>3, <1>4, <1>5, TypedRows DEF Dated, Agreed
      <3>2. Same(op[o])'
        BY <1>3, <1>4 DEF Same, Bears, Fills, Seen
      <3> QED
        BY <2>2, <3>1, <3>2
    <2>3. CASE p # o
      BY <1>1, <1>3, <2>1, <2>3 DEF Agreed, Dated, Same, Bears, Fills, Seen
    <2> QED
      BY <2>2, <2>3
  <1>7. Single'
    <2>1. SUFFICES ASSUME NEW p \in Ops, NEW q \in Ops, p # q, op'[p].kind # "idle",
                          op'[q].kind # "idle", op'[p].kind \in {"fill", "warm"}
                   PROVE  /\ op'[p].kind # op'[q].kind
                          /\ Fills(op[p])' /\ Fills(op[q])' => draft.version = 0
      BY <1>1 DEF Single
    <2>2. ASSUME NEW s \in Ops, s # o, op[s].kind = k, k = "fill"
          PROVE  FALSE
      <3>1. {k, op[s].kind} \in Overlap
        BY <2>2 DEF Call, InFlight
      <3>2. {k, op[s].kind} = {"fill"}
        BY <2>2
      <3> QED
        BY <3>1, <3>2 DEF FillsAlone
    <2>3. k # "warm"
      BY DEF Called
    <2>4. op'[p].kind # op'[q].kind
      BY <1>2, <1>3, <2>1, <2>2, <2>3 DEF Agreed, Single
    <2>5. Fills(op[p])' /\ Fills(op[q])' => p # o /\ q # o
      BY <1>3, <1>4 DEF Fills
    <2>6. Fills(op[p])' /\ Fills(op[q])' => draft.version = 0
      BY <1>3, <2>1, <2>5 DEF Agreed, Single, Fills
    <2> QED
      BY <2>4, <2>6
  <1> QED
    BY <1>1, <1>6, <1>7 DEF Agreed, CleanMeansEqual

LEMMA NextAgreed ==
    ASSUME Lone, FillsAlone, Typed, Orderly, Agreed, [Next]_vars
    PROVE  Agreed'
  <1>1. CASE \E o \in Ops, k \in Called : Call(o, k)
    BY <1>1, CallAgreed
  <1>2. CASE \E o \in Ops : Draft(o)
    BY <1>2, ReadDraftAgreed, DownloadAgreed, FindDraftAgreed, StoreDraftAgreed DEF Draft
  <1>3. CASE \E o \in Ops : IndexState(o) \/ Index(o) \/ Worker(o) \/ Throws(o)
    BY <1>3, IndexStateAgreed, IndexAgreed, WorkerAgreed, ThrowsAgreed
  <1>4. CASE Restart
    <2>1. (\A o \in Ops : op'[o].kind = "idle") /\ UNCHANGED <<draft, node, ov>>
      BY <1>4 DEF Restart, Idle
    <2> QED
      BY <2>1 DEF Agreed, Single, CleanMeansEqual
  <1>5. CASE UNCHANGED vars
    BY <1>5 DEF vars, Agreed, Single, CleanMeansEqual, Dated, Same, Bears, Fills, Seen
  <1> QED
    BY <1>1, <1>2, <1>3, <1>4, <1>5 DEF Next

LEMMA InitAgreed ==
    ASSUME Init
    PROVE  Agreed
  BY DEF Init, Idle, NewNode, Agreed, Single, CleanMeansEqual

\* Where saves, imports and compensations run alone, none of the latter two
\* finds a draft, and fills come one at a time: a node that is clean at the
\* version of the draft has the draft's text in OpenViking, whatever indexes,
\* manual syncs and warm-ups run beside each other, whichever awaits fail and
\* wherever the process dies.
THEOREM CleanDraftsIndexed ==
    ASSUME Lone, FillsAlone
    PROVE  Spec => []CleanMeansEqual
  <1>1. Typed /\ Orderly /\ Agreed /\ [Next]_vars => Orderly' /\ Agreed'
    BY NextOrderly, NextAgreed
  <1>2. Init => Orderly /\ Agreed
    BY InitOrderly, InitAgreed
  <1>3. Agreed => CleanMeansEqual
    BY DEF Agreed
  <1> QED
    BY <1>1, <1>2, <1>3, AlwaysTyped, PTL DEF Spec

=============================================================================
