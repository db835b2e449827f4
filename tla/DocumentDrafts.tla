--------------------------- MODULE DocumentDrafts ---------------------------
(***************************************************************************)
(* The draft and the index of one document: its row in document_drafts     *)
(* with a version, the index state in its knowledge node, and the text     *)
(* OpenViking holds.  Requests, the import worker and its delayed          *)
(* compensation read the rows at one await and write them at a later one.  *)
(*                                                                         *)
(* An action is the code between two awaits.  Texts are numbered in the    *)
(* order they come into being; 0 is no text, or an empty one.              *)
(***************************************************************************)
EXTENDS Naturals, FiniteSets

CONSTANTS
    Ops,          \* handlers that may be in flight
    Calls,        \* bound on the calls of each kind
    Overlap,      \* the pairs of kinds that may be in flight at once
    OverDrafts,   \* imports and syncs may hit a document that has a draft
    MaxRestarts   \* bound on the crashes of a behaviour

Called == {"save", "fill", "index", "import", "sync", "manual"}
Kinds == Called \cup {"warm"}

ASSUME DraftAssumption ==
    /\ IsFiniteSet(Ops)
    /\ Calls \in [Called -> Nat]
    /\ Overlap \subseteq SUBSET Kinds
    /\ OverDrafts \in BOOLEAN
    /\ MaxRestarts \in Nat

VARIABLES
    draft,     \* document_drafts: version (0 is no row) and text
    node,      \* knowledge_nodes: contentUri, indexStatus and the versions
    ov,        \* the text OpenViking holds under the document
    imported,  \* a finished import task has the document as its target
    op,        \* handlers in flight
    texts,     \* texts made so far
    calls, restarts

bounds == <<texts, calls, restarts>>
vars == <<draft, node, ov, imported, op, bounds>>

Statuses == {"clean", "dirty", "indexing", "failed"}
Nodes == [contentUri : BOOLEAN, status : Statuses, draftVersion : Nat, indexedVersion : Nat]

\* What a syncIndexState writes.
Marks == {"none", "filled", "dirty", "indexing", "clean", "vectorless", "busy", "failed"}
Places == {"draft", "download", "find", "store", "state", "merge", "write", "count",
           "refresh", "clear", "inject", "mark", "number"}

NewNode == [contentUri |-> FALSE, status |-> "clean", draftVersion |-> 0, indexedVersion |-> 0]

Idle == [kind |-> "idle"]
InFlight == {o \in Ops : op[o].kind # "idle"}
At(o, pc) == op[o].kind # "idle" /\ op[o].pc = pc
Done(o) == op' = [op EXCEPT ![o] = Idle]
Goto(o, pc) == op' = [op EXCEPT ![o].pc = pc]
\* Read the node's row again and write it back with a new mark.
Sync(o, mark) == op' = [op EXCEPT ![o].pc = "state", ![o].mark = mark]

(***************************************************************************)
(* A call: its first read is that of the node.                             *)
(***************************************************************************)
First == [save |-> "find", fill |-> "draft", index |-> "draft",
          import |-> "clear", sync |-> "mark", manual |-> "mark"]

\* fill stands for getMetadata and loadContent, which write only when there is
\* a contentUri and no draft; sync for the worker's delayed compensation, and
\* manual for syncResult.
Call(o, k) ==
    /\ op[o].kind = "idle"
    /\ calls[k] < Calls[k]
    /\ \A p \in InFlight : {k, op[p].kind} \in Overlap
    /\ k = "fill" => node.contentUri
    /\ k = "sync" => imported
    /\ k = "manual" => ov # 0
    /\ k \in {"import", "sync", "manual"} /\ ~OverDrafts => draft.version = 0
    /\ calls' = [calls EXCEPT ![k] = @ + 1]
    /\ texts' = IF k = "save" THEN texts + 1 ELSE texts
    /\ op' = [op EXCEPT ![o] =
        [kind |-> k, pc |-> First[k], mark |-> "none", copy |-> node, version |-> 0,
         text |-> IF k = "save" THEN texts + 1 ELSE 0, indexed |-> node.indexedVersion]]
    /\ UNCHANGED <<draft, node, ov, imported, restarts>>

(***************************************************************************)
(* Steps several handlers share.                                           *)
(***************************************************************************)
ReadDraftAlways(o) ==  \* a fill that does not look whether there is a draft
    /\ At(o, "draft")
    /\ IF draft.version = 0 \/ op[o].kind = "fill"
       THEN op' = [op EXCEPT ![o].pc = "download", ![o].version = op[o].copy.draftVersion]
       ELSE op' = [op EXCEPT ![o].pc = "state", ![o].mark = "indexing",
                             ![o].version = draft.version, ![o].text = draft.text]
    /\ UNCHANGED <<draft, node, ov, imported, bounds>>

\* findByNode of a fill or of an index.
ReadDraft(o) ==
    /\ At(o, "draft")
    /\ IF draft.version = 0
       THEN op' = [op EXCEPT ![o].pc = "download", ![o].version = op[o].copy.draftVersion]
       ELSE IF op[o].kind = "index"
       THEN op' = [op EXCEPT ![o].pc = "state", ![o].mark = "indexing",
                             ![o].version = draft.version, ![o].text = draft.text]
       ELSE Done(o)
    /\ UNCHANGED <<draft, node, ov, imported, bounds>>

\* The text in OpenViking; a missing one ends the handler, except that an index
\* of a document without contentUri goes on with an empty text.
Download(o) ==
    /\ At(o, "download")
    /\ IF op[o].kind # "index"
       THEN IF ov = 0 THEN Done(o)
            ELSE op' = [op EXCEPT ![o].pc = "find", ![o].text = ov]
       ELSE IF ov = 0 /\ op[o].copy.contentUri THEN Done(o)
            ELSE op' = [op EXCEPT ![o].pc = "state", ![o].mark = "indexing", ![o].text = ov]
    /\ UNCHANGED <<draft, node, ov, imported, bounds>>

FindDraft(o) ==
    /\ At(o, "find")
    /\ op' = [op EXCEPT ![o].pc = "store", ![o].version = draft.version + 1]
    /\ UNCHANGED <<draft, node, ov, imported, bounds>>

StoreDraftUnmarked(o) ==  \* the save does not mark the node dirty
    /\ At(o, "store")
    /\ IF op[o].version = 1 /\ draft.version > 0
       THEN UNCHANGED draft /\ Done(o)
       ELSE /\ draft' = [version |-> op[o].version, text |-> op[o].text]
            /\ IF op[o].kind = "warm" THEN Goto(o, "number") ELSE Sync(o, "filled")
    /\ UNCHANGED <<node, ov, imported, bounds>>

\* saveMarkdown's second half; a second insert breaks the unique index.
StoreDraft(o) ==
    /\ At(o, "store")
    /\ IF op[o].version = 1 /\ draft.version > 0
       THEN UNCHANGED draft /\ Done(o)
       ELSE /\ draft' = [version |-> op[o].version, text |-> op[o].text]
            /\ CASE op[o].kind = "save" -> Sync(o, "dirty")
                 [] op[o].kind = "fill" -> Sync(o, "filled")
                 [] op[o].kind = "warm" -> Goto(o, "number")
    /\ UNCHANGED <<node, ov, imported, bounds>>

\* syncIndexState: the whole row is read,
ReadNode(o) ==
    /\ At(o, "state")
    /\ op' = [op EXCEPT ![o].pc = "merge", ![o].copy = node]
    /\ UNCHANGED <<draft, node, ov, imported, bounds>>

\* and the whole row is written, its other columns as they were read.
Merged(r) ==
    CASE r.mark = "filled" -> [r.copy EXCEPT !.draftVersion = r.version]
      [] r.mark \in {"dirty", "indexing"} ->
            [r.copy EXCEPT !.draftVersion = r.version, !.status = r.mark]
      [] r.mark = "clean" ->
            [contentUri |-> TRUE, status |-> "clean",
             draftVersion |-> r.version, indexedVersion |-> r.version]
      [] r.mark = "vectorless" ->
            [contentUri |-> TRUE, status |-> "indexing",
             draftVersion |-> r.version, indexedVersion |-> r.indexed]
      [] r.mark = "busy" ->
            [r.copy EXCEPT !.contentUri = TRUE, !.status = "indexing", !.draftVersion = r.version]
      [] r.mark \in {"failed", "none"} -> [r.copy EXCEPT !.status = "failed"]

WriteNode(o) ==
    /\ At(o, "merge")
    /\ node' = Merged(op[o])
    /\ CASE op[o].mark = "indexing" -> Goto(o, "write")
         [] op[o].mark \in {"clean", "vectorless"} -> Goto(o, "refresh")
         [] OTHER -> Done(o)
    /\ UNCHANGED <<draft, ov, imported, bounds>>

(***************************************************************************)
(* indexContent.                                                           *)
(***************************************************************************)
\* The content is replaced, or injected where there was none.
WriteContent(o) ==
    /\ At(o, "write")
    /\ ov' = op[o].text
    /\ Goto(o, "count")
    /\ UNCHANGED <<draft, node, imported, bounds>>

\* OpenViking is busy, or the request fails, applied or not.
WriteContentBusy(o) ==
    /\ At(o, "write")
    /\ Sync(o, "busy")
    /\ UNCHANGED <<draft, node, ov, imported, bounds>>

WriteContentFails(o) ==
    /\ At(o, "write")
    /\ ov' \in {ov, op[o].text}
    /\ Sync(o, "failed")
    /\ UNCHANGED <<draft, node, imported, bounds>>

\* Vectors may not be there yet, or could not be counted.
CountVectors(o) ==
    /\ At(o, "count")
    /\ \E mark \in {"clean", "vectorless"} : Sync(o, mark)
    /\ UNCHANGED <<draft, node, ov, imported, bounds>>

\* The knowledge base's counts; a failure marks the indexed document failed.
RefreshStats(o) ==
    /\ At(o, "refresh")
    /\ Done(o) \/ Sync(o, "failed")
    /\ UNCHANGED <<draft, node, ov, imported, bounds>>

(***************************************************************************)
(* The import worker and the compensation.                                 *)
(***************************************************************************)
\* A document that has content is emptied first.
ClearTarget(o) ==
    /\ At(o, "clear")
    /\ ov' = IF op[o].copy.contentUri THEN 0 ELSE ov
    /\ Goto(o, "inject")
    /\ UNCHANGED <<draft, node, imported, bounds>>

ClearTargetFails(o) ==
    /\ At(o, "clear")
    /\ op[o].copy.contentUri
    /\ ov' \in {ov, 0}
    /\ Done(o)
    /\ UNCHANGED <<draft, node, imported, bounds>>

Inject(o) ==
    /\ At(o, "inject")
    /\ texts' = texts + 1
    /\ ov' = texts + 1
    /\ Goto(o, "mark")
    /\ UNCHANGED <<draft, node, imported, calls, restarts>>

InjectFails(o) ==
    /\ At(o, "inject")
    /\ \/ UNCHANGED <<ov, texts>>
       \/ ov' = texts + 1 /\ texts' = texts + 1
    /\ Done(o)
    /\ UNCHANGED <<draft, node, imported, calls, restarts>>

\* The columns both kinds of sync write, from the copy their caller read.
Marked(row, o) ==
    [row EXCEPT !.contentUri = TRUE, !.status = "clean",
                !.indexedVersion = op[o].copy.draftVersion]

\* syncDocumentContentUri: some columns are written and the warm-up goes on by
\* itself.  The task of an import is done then, if its own update succeeds.
MarkImported(o) ==
    /\ At(o, "mark")
    /\ op[o].kind # "manual"
    /\ node' = Marked(node, o)
    /\ imported' \in {imported, TRUE}
    /\ op' = [op EXCEPT ![o].kind = "warm", ![o].pc = "download"]
    /\ UNCHANGED <<draft, ov, bounds>>

\* compensateDocumentImportFromOpenViking: the whole row, and no draft.
MarkSynced(o) ==
    /\ At(o, "mark")
    /\ op[o].kind = "manual"
    /\ node' = Marked(op[o].copy, o)
    /\ Done(o)
    /\ UNCHANGED <<draft, ov, imported, bounds>>

\* The end of warmDraftAfterImport.
NumberDraft(o) ==
    /\ At(o, "number")
    /\ node' = [node EXCEPT !.draftVersion = op[o].version]
    /\ Done(o)
    /\ UNCHANGED <<draft, ov, imported, bounds>>

(***************************************************************************)
(* An await throws.  An index that has begun marks the document failed,    *)
(* unless it is that write, or the one of a busy engine, that throws.      *)
(***************************************************************************)
Throws(o) ==
    /\ op[o].kind # "idle"
    /\ IF op[o].kind = "index" /\ op[o].pc \in {"state", "merge"}
                               /\ op[o].mark \in {"clean", "vectorless"}
       THEN Sync(o, "failed")
       ELSE /\ op[o].pc \notin {"write", "count", "refresh", "inject"}
            /\ Done(o)
    /\ UNCHANGED <<draft, node, ov, imported, bounds>>

Restart ==
    /\ restarts < MaxRestarts
    /\ restarts' = restarts + 1
    /\ op' = [o \in Ops |-> Idle]
    /\ UNCHANGED <<draft, node, ov, imported, texts, calls>>

Init ==
    /\ draft = [version |-> 0, text |-> 0]
    /\ node = NewNode
    /\ ov = 0
    /\ imported = FALSE
    /\ op = [o \in Ops |-> Idle]
    /\ texts = 0
    /\ calls = [k \in Called |-> 0]
    /\ restarts = 0

Draft(o) == ReadDraft(o) \/ Download(o) \/ FindDraft(o) \/ StoreDraft(o)
IndexState(o) == ReadNode(o) \/ WriteNode(o)
Index(o) == WriteContent(o) \/ WriteContentBusy(o) \/ WriteContentFails(o)
            \/ CountVectors(o) \/ RefreshStats(o)
Worker(o) == ClearTarget(o) \/ ClearTargetFails(o) \/ Inject(o) \/ InjectFails(o)
             \/ MarkImported(o) \/ MarkSynced(o) \/ NumberDraft(o)

Next ==
    \/ \E o \in Ops :
        \/ \E k \in Called : Call(o, k)
        \/ Draft(o) \/ IndexState(o) \/ Index(o) \/ Worker(o)
        \/ Throws(o)
    \/ Restart

Spec == Init /\ [][Next]_vars

(***************************************************************************)
(* Properties.                                                             *)
(***************************************************************************)
OpRec == [kind : {"idle"}]
    \cup [kind : Kinds, pc : Places, mark : Marks, copy : Nodes,
          version : Nat, text : Nat, indexed : Nat]

\* Every variable has its type: the type invariant.
TypeOK ==
    /\ draft \in [version : Nat, text : Nat]
    /\ node \in Nodes
    /\ ov \in Nat
    /\ imported \in BOOLEAN
    /\ op \in [Ops -> OpRec]
    /\ texts \in Nat
    /\ calls \in [Called -> Nat]
    /\ restarts \in 0..MaxRestarts

\* A node that is clean at the version of the draft has the draft's text in
\* OpenViking, whatever fails half way and wherever the process dies.
CleanMeansEqual ==
    node.status = "clean" /\ node.draftVersion = draft.version /\ draft.version > 0
        => ov = draft.text

\* The draft never goes back to an older text: what a user has saved stays until
\* something newer is saved or imported.
DraftNeverGoesBack == [][draft'.text >= draft.text]_vars

=============================================================================
