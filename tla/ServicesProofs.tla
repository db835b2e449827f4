---------------------------- MODULE ServicesProofs ----------------------------
(***************************************************************************)
(* Theorems about what answers the web and the command line: the editor's  *)
(* page, the uploads of images, the sign-ins, the commands of the client,  *)
(* the calls of capabilities with what they may see, and the files of      *)
(* imports; each for any number of edits, saves, uploads, sign-ins,        *)
(* commands, nodes and changes of their access lists, runs and files.      *)
(***************************************************************************)
EXTENDS AssetUploads, EditorPage, CliProfiles, CapabilityAccess, ImportFiles,
        FiniteSetTheorems, FunctionTheorems, SequenceTheorems, TLAPS

(***************************************************************************)
(* The editor's page.  As long as the last edit is covered, every save     *)
(* under way carries it, so that whichever answers first, the flags go     *)
(* back only with the text on the server; and until then the exit save is  *)
(* armed.                                                                  *)
(***************************************************************************)

SaveRec == [pc : {"sent", "saved", "failed"}, text : Nat]
PagePlaces ==
    /\ text \in Nat /\ hasLocalChanges \in BOOLEAN /\ exitSaveTriggered \in BOOLEAN /\ covered \in BOOLEAN
    /\ saves \in Seq(SaveRec) /\ exitSaves \in Seq(Nat)

Sent == \/ \E i \in DOMAIN saves : saves[i].text = text /\ saves[i].pc = "saved"
        \/ \E i \in DOMAIN exitSaves : exitSaves[i] = text

CoveredIsSafe ==
    covered /\ text > 0 =>
        /\ \A i \in DOMAIN saves : saves[i].pc = "sent" => saves[i].text = text
        /\ Sent \/ (hasLocalChanges /\ ~exitSaveTriggered)
        /\ page = "gone" => Sent

PageInv == PagePlaces /\ CoveredIsSafe

LEMMA PageInitInv == ASSUME PageInit PROVE PageInv
  <1>1. /\ text = 0 /\ saves = <<>> /\ exitSaves = <<>>
        /\ hasLocalChanges = FALSE /\ exitSaveTriggered = FALSE /\ covered = TRUE
    BY DEF PageInit
  <1>2. PagePlaces
    <2>1. <<>> \in Seq(SaveRec) /\ <<>> \in Seq(Nat)
      OBVIOUS
    <2> QED BY <1>1, <2>1 DEF PagePlaces
  <1>3. CoveredIsSafe
    BY <1>1 DEF CoveredIsSafe
  <1> QED BY <1>2, <1>3 DEF PageInv

\* A save that is started carries the text there is.
LEMMA StartKeepsInv ==
    ASSUME PageInv, StartSave PROVE PageInv'
  <1> USE DEF PageInv, PagePlaces
  <1>1. saves' = Append(saves, [pc |-> "sent", text |-> text]) /\ [pc |-> "sent", text |-> text] \in SaveRec
    BY DEF StartSave, SaveRec
  <1>2. UNCHANGED <<page, text, hasLocalChanges, exitSaveTriggered, exitSaves, covered>>
    BY DEF StartSave, flags
  <1>3. PagePlaces'
    BY <1>1, <1>2
  <1>4. \A i \in DOMAIN saves : i \in DOMAIN saves' /\ saves'[i] = saves[i]
    BY <1>1
  <1>5. \A i \in DOMAIN saves' : i \in DOMAIN saves \/ saves'[i].text = text
    BY <1>1
  <1>6. Sent => Sent'
    BY <1>2, <1>4 DEF Sent
  <1>7. CoveredIsSafe'
    BY <1>2, <1>4, <1>5, <1>6 DEF CoveredIsSafe
  <1> QED BY <1>3, <1>7

\* An answer: one save ends.  The flags go back only when it was a success, and
\* then, if the last edit is covered, it was that edit's save.
LEMMA AnswerKeepsInv ==
    ASSUME PageInv, page = "open", NEW i \in DOMAIN saves, SaveReturns(i) \/ SaveFails(i)
    PROVE  PageInv'
  <1> USE DEF PageInv, PagePlaces
  <1>1. /\ saves[i].pc = "sent" /\ i \in DOMAIN saves
        /\ UNCHANGED <<page, text, exitSaves, covered>>
    BY DEF SaveReturns, SaveFails, AfterSave, UnderWay
  <1>2. PICK ends \in {"saved", "failed"} :
            /\ saves' = [saves EXCEPT ![i].pc = ends]
            /\ \/ ends = "saved" /\ hasLocalChanges' = FALSE /\ exitSaveTriggered' = FALSE
               \/ UNCHANGED <<hasLocalChanges, exitSaveTriggered>>
    BY DEF SaveReturns, SaveFails, AfterSave, flags
  <1>3. saves' \in Seq(SaveRec) /\ DOMAIN saves' = DOMAIN saves
    <2>1. saves' = [saves EXCEPT ![i] = [saves[i] EXCEPT !.pc = ends]]
      BY <1>1, <1>2
    <2>2. saves[i] \in SaveRec /\ i \in 1..Len(saves)
      OBVIOUS
    <2>3. [saves[i] EXCEPT !.pc = ends] \in SaveRec
      BY <2>2 DEF SaveRec
    <2> QED BY <2>1, <2>2, <2>3, ExceptSeq
  <1>4. \A j \in DOMAIN saves : saves[j] \in SaveRec
    OBVIOUS
  <1>5. /\ saves'[i].pc = ends /\ saves'[i].text = saves[i].text
        /\ \A j \in DOMAIN saves \ {i} : saves'[j] = saves[j]
    BY <1>1, <1>2, <1>4 DEF SaveRec
  <1>6. PagePlaces'
    BY <1>1, <1>2, <1>3
  <1>8. Sent => Sent'
    BY <1>1, <1>3, <1>5 DEF Sent
  <1>9. CoveredIsSafe'
    <2>1. SUFFICES ASSUME covered, text > 0
                   PROVE  /\ \A j \in DOMAIN saves : saves'[j].pc = "sent" => saves'[j].text = text
                          /\ Sent' \/ (hasLocalChanges' /\ ~exitSaveTriggered')
                          /\ page = "gone" => Sent'
      BY <1>1, <1>3 DEF CoveredIsSafe
    <2>2. \A j \in DOMAIN saves : saves'[j].pc = "sent" => saves'[j].text = text
      BY <1>5, <2>1, <1>1 DEF CoveredIsSafe
    <2>3. saves[i].text = text
      BY <1>1, <2>1 DEF CoveredIsSafe
    <2>4. ends = "saved" => Sent'
      BY <1>1, <1>3, <1>5, <2>3 DEF Sent
    <2>5. Sent' \/ (hasLocalChanges' /\ ~exitSaveTriggered')
      BY <1>2, <1>8, <2>1, <2>4 DEF CoveredIsSafe
    <2> QED BY <1>1, <1>8, <2>1, <2>2, <2>5 DEF CoveredIsSafe
  <1> QED BY <1>6, <1>9

\* The exit save sends the text, or there is nothing that has to be sent.
LEMMA ExitKeepsInv ==
    ASSUME PageInv, page = "open", BeforeUnload \/ LeavePage
    PROVE  PageInv'
  <1> USE DEF PageInv, PagePlaces
  <1>1. UNCHANGED <<text, saves, covered>> /\ ExitSave
    BY DEF BeforeUnload, LeavePage
  <1>2. CASE exitSaveTriggered \/ ~hasLocalChanges
    <2>1. UNCHANGED <<hasLocalChanges, exitSaveTriggered, exitSaves>>
      BY <1>1, <1>2 DEF ExitSave, flags
    <2>2. Sent' <=> Sent
      BY <1>1, <2>1 DEF Sent
    <2>3. CoveredIsSafe'
      BY <1>1, <1>2, <2>1, <2>2 DEF CoveredIsSafe
    <2> QED BY <1>1, <2>1, <2>3
  <1>3. CASE ~exitSaveTriggered /\ hasLocalChanges
    <2>1. /\ exitSaveTriggered' = TRUE /\ hasLocalChanges' = FALSE
          /\ exitSaves' = Append(exitSaves, text)
      BY <1>1, <1>3 DEF ExitSave
    <2>2. PagePlaces'
      <3>1. Append(exitSaves, text) \in Seq(Nat)
        OBVIOUS
      <3>2. UNCHANGED <<text, saves, covered>>
        BY <1>1
      <3> QED BY <2>1, <3>1, <3>2
    <2>3. /\ DOMAIN exitSaves' = 1..Len(exitSaves) + 1 /\ DOMAIN exitSaves = 1..Len(exitSaves)
          /\ exitSaves'[Len(exitSaves) + 1] = text
          /\ \A j \in DOMAIN exitSaves : exitSaves'[j] = exitSaves[j]
          /\ Len(exitSaves) \in Nat
      BY <2>1
    <2>7. Sent'
      BY <1>1, <2>3 DEF Sent
    <2>8. CoveredIsSafe'
      BY <1>1, <2>7 DEF CoveredIsSafe
    <2> QED BY <2>2, <2>8
  <1> QED BY <1>2, <1>3

\* An edit makes everything that was sent old.
LEMMA TypeKeepsInv ==
    ASSUME PageInv, Type PROVE PageInv'
  <1> USE DEF PageInv, PagePlaces
  <1>1. /\ page = "open" /\ page' = page /\ text' = text + 1 /\ hasLocalChanges' = TRUE
        /\ covered' = (UnderWay = {} /\ ~exitSaveTriggered)
        /\ UNCHANGED <<exitSaveTriggered, saves, exitSaves>>
    BY DEF Type
  <1>2. PagePlaces'
    BY <1>1
  <1>3. CoveredIsSafe'
    BY <1>1 DEF CoveredIsSafe, UnderWay
  <1> QED BY <1>2, <1>3

LEMMA PageStep ==
    ASSUME PageInv, [PageNext]_pageVars PROVE PageInv'
  <1>1. CASE Loaded \/ Reload \/ IndexReturns \/ UNCHANGED pageVars
    <2>1. UNCHANGED <<text, hasLocalChanges, exitSaveTriggered, saves, exitSaves, covered>>
      BY <1>1 DEF Loaded, Reload, IndexReturns, pageVars, flags
    <2>2. page' = "gone" => page = "gone"
      BY <1>1 DEF Loaded, Reload, IndexReturns, pageVars
    <2>3. CoveredIsSafe'
      BY <2>1, <2>2 DEF PageInv, CoveredIsSafe, Sent
    <2> QED BY <2>1, <2>3 DEF PageInv, PagePlaces
  <1>2. CASE Type
    BY <1>2, TypeKeepsInv
  <1>3. CASE ClickSave \/ ClickIndex
    BY <1>3, StartKeepsInv DEF ClickSave, ClickIndex
  <1>4. CASE BeforeUnload \/ LeavePage
    BY <1>4, ExitKeepsInv DEF BeforeUnload, LeavePage
  <1>5. CASE page = "open" /\ \E i \in DOMAIN saves : SaveReturns(i) \/ SaveFails(i)
    BY <1>5, AnswerKeepsInv
  <1> QED BY <1>1, <1>2, <1>3, <1>4, <1>5 DEF PageNext

LEMMA PageInvAlways == PageSpec => []PageInv
  <1> QED BY PageInitInv, PageStep, PTL DEF PageSpec

\* Who leaves the page after an edit with no save under way has sent that text
\* (hasLocalChangesRef and exitSaveTriggeredRef, whatever failed before).
THEOREM LastEditSent == PageSpec => []LastTextIsSent
  <1>1. PageInv => LastTextIsSent
    BY DEF PageInv, PagePlaces, CoveredIsSafe, Sent, LastTextIsSent
  <1> QED BY <1>1, PageInvAlways, PTL

(***************************************************************************)
(* Uploads.                                                                *)
(***************************************************************************)
HoldsImage(u, leaf) == leaf \in leaves /\ (ContentOf(leaf) = ImageOf[u] \/ ImageOf[u] \in misled)
KeysGood(kept) ==
    \A i \in Images : kept[i] # NoLeaf => kept[i] \in leaves /\ (ContentOf(kept[i]) = i \/ i \in misled)
StoredBy(u) == \E leaf \in leaves : leaf.of = u

\* A document that shows an image: whoever uploads it again finds it.
Spared(u, r) ==
    /\ \E l \in shown : ContentOf(l) = ImageOf[u]
    /\ ~StoredBy(u)
    /\ r.pc \notin {"none", "inject", "confirm", "touch"}
    /\ r.pc = "replace" => r.entries[ImageOf[u]] # NoLeaf

UploadFits(u, r) ==
    /\ KeysGood(r.entries)
    /\ r.pc \in {"touch", "set", "answered"} => HoldsImage(u, r.answer)
    /\ r.pc = "confirm" => StoredBy(u)
    /\ u \in Before => r.pc = "none"
    /\ r.pc = "none" /\ u \notin Before => ~StoredBy(u)
    /\ r.late => Spared(u, r)

\* What the tree shows; where it is not late, that is all there is, and nobody
\* looks for a file it does not show.
TreeFits ==
    /\ IsFiniteSet(shown)
    /\ ~slow => shown = leaves /\ misled = {}

CacheFits == KeysGood(hashKey) /\ KeysGood(indexKey)
AllFit == \A u \in Uploads : UploadFits(u, upload[u])
AssetsInv == AssetsTypeOK /\ TreeFits /\ CacheFits /\ AllFit

UploadPlaces == {"none", "get", "getAll", "list", "replace", "inject", "confirm", "touch",
                 "set", "answered", "failed"}
UploadRec ==
    [pc : UploadPlaces, entries : [Images -> AllLeaves \cup {NoLeaf}], attempt : 0..Attempts - 1,
     answer : AllLeaves \cup {NoLeaf}, late : BOOLEAN]

LEMMA UploadTyped ==
    ASSUME AssetsTypeOK, NEW u \in Uploads
    PROVE  /\ upload \in [Uploads -> UploadRec] /\ upload[u] \in UploadRec /\ ImageOf[u] \in Images
           /\ upload[u].entries \in [Images -> AllLeaves \cup {NoLeaf}]
           /\ upload[u].answer \in AllLeaves \cup {NoLeaf}
           /\ \A r : upload[u] = r => r \in UploadRec
  <1>1. upload \in [Uploads -> UploadRec]
    BY DEF AssetsTypeOK, UploadRec, UploadPlaces
  <1>2. upload[u] \in UploadRec
    BY <1>1
  <1>3. ImageOf[u] \in Images
    BY AssetsAssumption
  <1>4. /\ upload[u].entries \in [Images -> AllLeaves \cup {NoLeaf}]
        /\ upload[u].answer \in AllLeaves \cup {NoLeaf}
    BY <1>2 DEF UploadRec
  <1> QED BY <1>1, <1>2, <1>3, <1>4

\* A leaf is named by its upload, so that no two uploads store the same.
LEMMA LeafOfUpload ==
    ASSUME NEW u \in Uploads, NEW renamed \in BOOLEAN
    PROVE  /\ LeafOf(u, renamed) \in AllLeaves /\ LeafOf(u, renamed) # NoLeaf
           /\ LeafOf(u, renamed).of = u /\ ContentOf(LeafOf(u, renamed)) = ImageOf[u]
  BY AssetsAssumption DEF LeafOf, AllLeaves, ContentOf

\* Files are only added, so that what leads to one stays good.
LEMMA KeysStayGood ==
    ASSUME NEW kept, KeysGood(kept), leaves \subseteq leaves', misled \subseteq misled'
    PROVE  KeysGood(kept)'
  BY DEF KeysGood, ContentOf

LEMMA UploadStaysFit ==
    ASSUME NEW u, NEW r, UploadFits(u, r), leaves \subseteq leaves', shown \subseteq shown',
           misled \subseteq misled',
           \A leaf \in leaves' \ leaves : leaf.of # u
    PROVE  UploadFits(u, r)'
  <1>1. KeysGood(r.entries)'
    <2> PICK kept : kept = r.entries
      OBVIOUS
    <2> QED BY KeysStayGood DEF UploadFits
  <1>2. (r.pc \in {"touch", "set", "answered"} => HoldsImage(u, r.answer))'
    BY DEF UploadFits, HoldsImage, ContentOf
  <1>3. StoredBy(u) <=> StoredBy(u)'
    BY DEF StoredBy
  <1>4. Spared(u, r) => Spared(u, r)'
    BY <1>3 DEF Spared, ContentOf
  <1> QED BY <1>1, <1>2, <1>3, <1>4 DEF UploadFits

\* The list of the tree's files leads to every image the tree shows.
LEMMA EntriesLead ==
    ASSUME AssetsTypeOK, NEW kept \in EntriesOf(shown)
    PROVE  /\ KeysGood(kept) /\ kept \in [Images -> AllLeaves \cup {NoLeaf}]
           /\ \A i \in Images : (\E l \in shown : ContentOf(l) = i) => kept[i] # NoLeaf
  <1>1. shown \subseteq AllLeaves /\ shown \subseteq leaves /\ NoLeaf \notin AllLeaves
    BY AssetsAssumption DEF AssetsTypeOK, AllLeaves
  <1>2. kept \in [Images -> shown \cup {NoLeaf}]
    BY DEF EntriesOf
  <1>3. ASSUME NEW i \in Images
        PROVE  /\ kept[i] # NoLeaf => kept[i] \in leaves /\ ContentOf(kept[i]) = i
               /\ (\E l \in shown : ContentOf(l) = i) => kept[i] # NoLeaf
    <2> PICK held : held = {l \in shown : ContentOf(l) = i}
      OBVIOUS
    <2>1. IF held = {} THEN kept[i] = NoLeaf ELSE kept[i] \in held
      BY DEF EntriesOf
    <2> QED BY <1>1, <2>1
  <1> QED BY <1>1, <1>2, <1>3 DEF KeysGood

LEMMA AssetsInitInv ==
    ASSUME AssetsInit
    PROVE  AssetsInv
  <1> PICK earlier \in SUBSET Before :
          leaves = {LeafOf(u, FALSE) : u \in earlier} /\ shown = leaves /\ misled = {}
    BY DEF AssetsInit
  <1>1. earlier \subseteq Uploads /\ earlier \subseteq Before /\ IsFiniteSet(earlier)
    BY AssetsAssumption, FS_Subset, FS_EmptySet
  <1>2. leaves \subseteq AllLeaves
    BY <1>1, LeafOfUpload
  <1>3. NoKeys \in [Images -> AllLeaves \cup {NoLeaf}] /\ New \in UploadRec
    BY DEF NoKeys, New, UploadRec, UploadPlaces, Attempts
  <1>4. AssetsTypeOK
    BY <1>2, <1>3 DEF AssetsInit, AssetsTypeOK, UploadRec, UploadPlaces
  <1>5. KeysGood(NoKeys)
    BY DEF KeysGood, NoKeys
  <1>6. CacheFits
    BY <1>5 DEF CacheFits, AssetsInit
  <1>7. TreeFits
    <2> PICK f : f = [u \in earlier |-> LeafOf(u, FALSE)]
      OBVIOUS
    <2>1. f \in Surjection(earlier, leaves)
      BY DEF Surjection, Range
    <2>2. IsFiniteSet(shown)
      BY <1>1, <2>1, FS_Surjection
    <2> QED BY <2>2 DEF TreeFits
  <1>8. AllFit
    <2> SUFFICES ASSUME NEW u \in Uploads PROVE UploadFits(u, upload[u])
      BY DEF AllFit
    <2>1. upload[u] = New
      BY DEF AssetsInit
    <2>2. \A v \in earlier : LeafOf(v, FALSE).of = v /\ v \in Before
      BY <1>1, LeafOfUpload
    <2>3. u \notin Before => ~StoredBy(u)
      <3>1. \A leaf \in leaves : \E v \in earlier : leaf = LeafOf(v, FALSE)
        OBVIOUS
      <3> QED BY <2>2, <3>1 DEF StoredBy
    <2> QED BY <1>5, <2>1, <2>3 DEF UploadFits, New
  <1> QED BY <1>4, <1>6, <1>7, <1>8 DEF AssetsInv

(***************************************************************************)
(* A step of an upload that keeps its files: the others, the caches and    *)
(* the tree stay as they were.                                             *)
(***************************************************************************)
FilesKept == UNCHANGED <<leaves, shown, settings, misled>>

LEMMA StepOf ==
    ASSUME AssetsInv, NEW u \in Uploads, NEW r \in UploadRec, UNCHANGED <<leaves, shown, settings>>,
           misled \subseteq misled', misled' \subseteq Images, ~slow => misled' = {},
           upload' = [upload EXCEPT ![u] = r],
           {hashKey', indexKey'} \subseteq [Images -> AllLeaves \cup {NoLeaf}],
           KeysGood(hashKey'), KeysGood(indexKey'), UploadFits(u, r)'
    PROVE  AssetsInv'
  <1>1. upload \in [Uploads -> UploadRec]
    BY DEF AssetsInv, AssetsTypeOK, UploadRec, UploadPlaces
  <1>2. upload' \in [Uploads -> UploadRec]
    BY <1>1
  <1>3. leaves' = leaves /\ shown' = shown /\ driver' = driver /\ slow' = slow
    BY DEF settings
  <1>4. AssetsTypeOK'
    BY <1>2, <1>3 DEF AssetsInv, AssetsTypeOK, UploadRec, UploadPlaces
  <1>5. TreeFits' /\ CacheFits'
    BY <1>3 DEF AssetsInv, TreeFits, CacheFits, KeysGood
  <1>6. ASSUME NEW v \in Uploads PROVE UploadFits(v, upload[v])'
    <2>1. CASE v = u
      <3>1. upload'[v] = r
        BY <1>1, <2>1
      <3> QED BY <2>1, <3>1
    <2>2. CASE v # u
      <3> PICK w : w = upload[v]
        OBVIOUS
      <3>1. UploadFits(v, w)'
        BY <1>3, UploadStaysFit DEF AssetsInv, AllFit
      <3>2. upload'[v] = w
        BY <1>1, <2>2
      <3> QED BY <3>1, <3>2
    <2> QED BY <2>1, <2>2
  <1> QED BY <1>4, <1>5, <1>6 DEF AssetsInv, AllFit

LEMMA OwnStep ==
    ASSUME AssetsInv, NEW u \in Uploads, NEW r \in UploadRec, FilesKept,
           upload' = [upload EXCEPT ![u] = r],
           {hashKey', indexKey'} \subseteq [Images -> AllLeaves \cup {NoLeaf}],
           KeysGood(hashKey'), KeysGood(indexKey'), UploadFits(u, r)
    PROVE  AssetsInv'
  <1>1. leaves' = leaves /\ shown' = shown /\ misled' = misled /\ UNCHANGED settings
    BY DEF FilesKept
  <1>2. UploadFits(u, r)'
    BY <1>1, UploadStaysFit
  <1>3. misled' \subseteq Images /\ (~slow => misled' = {})
    BY <1>1 DEF AssetsInv, AssetsTypeOK, TreeFits
  <1> QED BY <1>1, <1>2, <1>3, StepOf

\* Where the caches stay as they are, it is enough to see to the upload.
LEMMA OwnStepAlone ==
    ASSUME AssetsInv, NEW u \in Uploads, NEW r \in UploadRec, FilesKept,
           upload' = [upload EXCEPT ![u] = r], hashKey' = hashKey, indexKey' = indexKey,
           UploadFits(u, r)
    PROVE  AssetsInv'
  BY OwnStep DEF AssetsInv, CacheFits, AssetsTypeOK

LEMMA StartKeepsAssets ==
    ASSUME AssetsInv, NEW u \in Uploads, StartUpload(u)
    PROVE  AssetsInv'
  <1> PICK late \in BOOLEAN : late = \E l \in shown : ContentOf(l) = ImageOf[u]
    OBVIOUS
  <1> PICK r : r = [upload[u] EXCEPT !.pc = "get", !.late = late]
    OBVIOUS
  <1>1. upload \in [Uploads -> UploadRec] /\ upload[u] \in UploadRec
    BY UploadTyped DEF AssetsInv
  <1>2. /\ r \in UploadRec /\ r.pc = "get" /\ r.entries = upload[u].entries /\ r.late = late
    BY <1>1 DEF UploadRec, UploadPlaces
  <1>3. upload' = [upload EXCEPT ![u] = r]
    BY <1>1 DEF StartUpload
  <1>4. upload[u].pc = "none" /\ u \notin Before /\ UploadFits(u, upload[u])
    BY DEF StartUpload, AssetsInv, AllFit
  <1>5. UploadFits(u, r)
    BY <1>2, <1>4 DEF UploadFits, Spared
  <1> QED BY <1>2, <1>3, <1>5, OwnStepAlone DEF StartUpload, FilesKept

\* A step that only moves the upload on, or gives it an answer.
LEMMA MoveKeepsAssets ==
    ASSUME AssetsInv, NEW u \in Uploads, NEW pc \in UploadPlaces, StepTo(u, pc), FilesKept,
           hashKey' = hashKey, indexKey' = indexKey,
           u \notin Before, pc \notin {"none", "replace", "inject"},
           pc \in {"touch", "set", "answered"} => HoldsImage(u, upload[u].answer),
           pc # "confirm", pc = "touch" => ~upload[u].late
    PROVE  AssetsInv'
  <1> PICK r : r = [upload[u] EXCEPT !.pc = pc]
    OBVIOUS
  <1>1. upload \in [Uploads -> UploadRec] /\ upload[u] \in UploadRec
    BY UploadTyped DEF AssetsInv
  <1>2. /\ r \in UploadRec /\ r.pc = pc /\ r.entries = upload[u].entries
        /\ r.answer = upload[u].answer /\ r.late = upload[u].late
    BY <1>1 DEF UploadRec
  <1>3. upload' = [upload EXCEPT ![u] = r]
    BY <1>1 DEF StepTo
  <1>4. UploadFits(u, upload[u])
    BY DEF AssetsInv, AllFit
  <1>5. UploadFits(u, r)
    BY <1>2, <1>4 DEF UploadFits, Spared
  <1> QED BY <1>2, <1>3, <1>5, OwnStepAlone

LEMMA AnswerKeepsAssets ==
    ASSUME AssetsInv, NEW u \in Uploads, u \notin Before, NEW leaf \in AllLeaves,
           NEW pc \in {"touch", "set", "answered"},
           pc = "touch" => ~upload[u].late,
           upload' = [upload EXCEPT ![u].pc = pc, ![u].answer = leaf],
           HoldsImage(u, leaf), FilesKept,
           {hashKey', indexKey'} \subseteq [Images -> AllLeaves \cup {NoLeaf}],
           KeysGood(hashKey'), KeysGood(indexKey')
    PROVE  AssetsInv'
  <1> PICK r : r = [upload[u] EXCEPT !.pc = pc, !.answer = leaf]
    OBVIOUS
  <1>1. upload \in [Uploads -> UploadRec] /\ upload[u] \in UploadRec
    BY UploadTyped DEF AssetsInv
  <1>2. /\ r \in UploadRec /\ r.pc = pc /\ r.entries = upload[u].entries
        /\ r.answer = leaf /\ r.late = upload[u].late
    BY <1>1 DEF UploadRec, UploadPlaces
  <1>3. upload' = [upload EXCEPT ![u] = r]
    BY <1>1
  <1>4. UploadFits(u, upload[u])
    BY DEF AssetsInv, AllFit
  <1>5. UploadFits(u, r)
    BY <1>2, <1>4 DEF UploadFits, Spared
  <1> QED BY <1>2, <1>3, <1>5, OwnStep

\* An upload under way is not one of the files that were there.
LEMMA UploadBegun ==
    ASSUME AssetsInv, NEW u \in Uploads, upload[u].pc # "none"
    PROVE  u \notin Before /\ UploadFits(u, upload[u])
  <1>1. UploadFits(u, upload[u])
    BY DEF AssetsInv, AllFit
  <1>2. u \notin Before
    BY <1>1 DEF UploadFits
  <1> QED BY <1>1, <1>2

\* What a cache holds for an image may be answered.
LEMMA KeptHolds ==
    ASSUME NEW u \in Uploads, NEW kept \in [Images -> AllLeaves \cup {NoLeaf}], KeysGood(kept),
           kept[ImageOf[u]] # NoLeaf
    PROVE  kept[ImageOf[u]] \in AllLeaves /\ HoldsImage(u, kept[ImageOf[u]])
  BY AssetsAssumption DEF KeysGood, HoldsImage

LEMMA GetKeepsAssets ==
    ASSUME AssetsInv, NEW u \in Uploads, Get(u)
    PROVE  AssetsInv'
  <1>1. FilesKept /\ hashKey' = hashKey /\ indexKey' = indexKey /\ upload[u].pc = "get" /\ upload[u].pc # "none"
    BY DEF Get, FilesKept
  <1>2. u \notin Before
    BY <1>1, UploadBegun
  <1>3. /\ {hashKey, indexKey} \subseteq [Images -> AllLeaves \cup {NoLeaf}]
        /\ KeysGood(hashKey) /\ KeysGood(indexKey)
    BY DEF AssetsInv, AssetsTypeOK, CacheFits
  <1>4. CASE hashKey[ImageOf[u]] # NoLeaf
    <2> PICK leaf : leaf = hashKey[ImageOf[u]]
      OBVIOUS
    <2>1. leaf \in AllLeaves /\ HoldsImage(u, leaf)
      BY <1>3, <1>4, KeptHolds
    <2>2. upload' = [upload EXCEPT ![u].pc = "answered", ![u].answer = leaf]
      BY <1>4 DEF Get, AnswerWith
    <2> QED BY <1>1, <1>2, <1>3, <2>1, <2>2, AnswerKeepsAssets
  <1>5. CASE hashKey[ImageOf[u]] = NoLeaf
    <2>1. StepTo(u, "getAll")
      BY <1>5 DEF Get
    <2> QED BY <1>1, <1>2, <2>1, MoveKeepsAssets DEF UploadPlaces
  <1> QED BY <1>4, <1>5

LEMMA GetAllKeepsAssets ==
    ASSUME AssetsInv, NEW u \in Uploads, GetAll(u)
    PROVE  AssetsInv'
  <1>1. FilesKept /\ hashKey' = hashKey /\ indexKey' = indexKey /\ upload[u].pc = "getAll" /\ upload[u].pc # "none"
    BY DEF GetAll, FilesKept
  <1>2. u \notin Before
    BY <1>1, UploadBegun
  <1>3. /\ {hashKey, indexKey} \subseteq [Images -> AllLeaves \cup {NoLeaf}]
        /\ KeysGood(hashKey) /\ KeysGood(indexKey)
    BY DEF AssetsInv, AssetsTypeOK, CacheFits
  <1>4. Index \in [Images -> AllLeaves \cup {NoLeaf}] /\ KeysGood(Index)
    BY <1>3 DEF Index
  <1>5. CASE Index[ImageOf[u]] # NoLeaf
    <2> PICK leaf : leaf = Index[ImageOf[u]]
      OBVIOUS
    <2>1. leaf \in AllLeaves /\ HoldsImage(u, leaf)
      BY <1>4, <1>5, KeptHolds
    <2>2. upload' = [upload EXCEPT ![u].pc = "set", ![u].answer = leaf]
      BY <1>5 DEF GetAll
    <2> QED BY <1>1, <1>2, <1>3, <2>1, <2>2, AnswerKeepsAssets
  <1>6. CASE Index[ImageOf[u]] = NoLeaf
    <2>1. StepTo(u, "list")
      BY <1>6 DEF GetAll
    <2> QED BY <1>1, <1>2, <2>1, MoveKeepsAssets DEF UploadPlaces
  <1> QED BY <1>5, <1>6

LEMMA ListKeepsAssets ==
    ASSUME AssetsInv, NEW u \in Uploads, List(u)
    PROVE  AssetsInv'
  <1> PICK kept \in EntriesOf(shown) :
        upload' = [upload EXCEPT ![u].pc = "replace", ![u].entries = kept]
    BY DEF List
  <1> PICK r : r = [upload[u] EXCEPT !.pc = "replace", !.entries = kept]
    OBVIOUS
  <1>1. FilesKept /\ hashKey' = hashKey /\ indexKey' = indexKey /\ upload[u].pc = "list" /\ upload[u].pc # "none"
    BY DEF List, FilesKept
  <1>2. u \notin Before /\ UploadFits(u, upload[u])
    BY <1>1, UploadBegun
  <1>3. /\ KeysGood(kept) /\ kept \in [Images -> AllLeaves \cup {NoLeaf}]
        /\ \A i \in Images : (\E l \in shown : ContentOf(l) = i) => kept[i] # NoLeaf
    BY EntriesLead DEF AssetsInv
  <1>4. upload \in [Uploads -> UploadRec] /\ upload[u] \in UploadRec /\ ImageOf[u] \in Images
    BY UploadTyped DEF AssetsInv
  <1>5. /\ r \in UploadRec /\ r.pc = "replace" /\ r.entries = kept /\ r.late = upload[u].late
    BY <1>3, <1>4 DEF UploadRec, UploadPlaces
  <1>6. upload' = [upload EXCEPT ![u] = r]
    BY <1>4
  <1>7. UploadFits(u, r)
    BY <1>1, <1>2, <1>3, <1>4, <1>5 DEF UploadFits, Spared
  <1> QED BY <1>1, <1>5, <1>6, <1>7, OwnStepAlone

LEMMA ReplaceKeepsAssets ==
    ASSUME AssetsInv, NEW u \in Uploads, Replace(u)
    PROVE  AssetsInv'
  <1> PICK kept : kept = upload[u].entries
    OBVIOUS
  <1>1. FilesKept /\ upload[u].pc = "replace" /\ upload[u].pc # "none"
    BY DEF Replace, FilesKept
  <1>2. u \notin Before /\ UploadFits(u, upload[u])
    BY <1>1, UploadBegun
  <1>3. /\ upload \in [Uploads -> UploadRec] /\ upload[u] \in UploadRec /\ ImageOf[u] \in Images
        /\ kept \in [Images -> AllLeaves \cup {NoLeaf}]
    BY UploadTyped DEF AssetsInv
  <1>4. KeysGood(kept) /\ (upload[u].late => kept[ImageOf[u]] # NoLeaf)
    BY <1>1, <1>2 DEF UploadFits, Spared
  <1>5. /\ {hashKey, indexKey} \subseteq [Images -> AllLeaves \cup {NoLeaf}]
        /\ KeysGood(hashKey) /\ KeysGood(indexKey)
    BY DEF AssetsInv, AssetsTypeOK, CacheFits
  <1>6. Overlaid(kept) \in [Images -> AllLeaves \cup {NoLeaf}] /\ KeysGood(Overlaid(kept))
    BY <1>3, <1>4, <1>5 DEF Overlaid, KeysGood
  <1>7. indexKey' \in [Images -> AllLeaves \cup {NoLeaf}] /\ KeysGood(indexKey')
    BY <1>3, <1>4, <1>5 DEF Replace
  <1>8. CASE /\ hashKey' = IF Shared THEN Overlaid(kept) ELSE kept
             /\ upload' = [upload EXCEPT ![u].pc = IF Found(u) = NoLeaf THEN "inject" ELSE "set",
                                         ![u].answer = Found(u)]
    <2>1. hashKey' \in [Images -> AllLeaves \cup {NoLeaf}] /\ KeysGood(hashKey')
      BY <1>3, <1>4, <1>6, <1>8
    <2>2. Found(u) = kept[ImageOf[u]]
      BY DEF Found
    <2>3. CASE Found(u) # NoLeaf
      <3> PICK leaf : leaf = Found(u)
        OBVIOUS
      <3>1. leaf \in AllLeaves /\ HoldsImage(u, leaf)
        BY <1>3, <1>4, <2>2, <2>3, KeptHolds
      <3>2. upload' = [upload EXCEPT ![u].pc = "set", ![u].answer = leaf]
        BY <1>8, <2>3
      <3> QED BY <1>1, <1>2, <1>7, <2>1, <3>1, <3>2, AnswerKeepsAssets
    <2>4. CASE Found(u) = NoLeaf
      <3> PICK r : r = [upload[u] EXCEPT !.pc = "inject", !.answer = NoLeaf]
        OBVIOUS
      <3>1. /\ r \in UploadRec /\ r.pc = "inject" /\ r.entries = kept /\ r.late = upload[u].late
        BY <1>3 DEF UploadRec, UploadPlaces
      <3>2. upload' = [upload EXCEPT ![u] = r]
        BY <1>3, <1>8, <2>4
      <3>3. UploadFits(u, r)
        BY <1>2, <1>4, <2>2, <2>4, <3>1 DEF UploadFits
      <3> QED BY <1>1, <1>7, <2>1, <3>1, <3>2, <3>3, OwnStep
    <2> QED BY <2>3, <2>4
  <1>9. CASE Throw(u) /\ UNCHANGED hashKey
    <2> PICK r : r = [upload[u] EXCEPT !.pc = "failed"]
      OBVIOUS
    <2>1. /\ r \in UploadRec /\ r.pc = "failed" /\ r.entries = kept /\ r.late = upload[u].late
      BY <1>3 DEF UploadRec, UploadPlaces
    <2>2. upload' = [upload EXCEPT ![u] = r]
      BY <1>3, <1>9 DEF Throw, StepTo
    <2>3. UploadFits(u, r)
      BY <1>2, <1>4, <2>1 DEF UploadFits, Spared
    <2> QED BY <1>1, <1>5, <1>7, <1>9, <2>1, <2>2, <2>3, OwnStep
  <1> QED BY <1>8, <1>9 DEF Replace

\* The file is stored, also by a call that throws.
LEMMA InjectKeepsAssets ==
    ASSUME AssetsInv, NEW u \in Uploads, Inject(u)
    PROVE  AssetsInv'
  <1> PICK renamed \in {FALSE, Renames} :
        /\ leaves' = leaves \cup {LeafOf(u, renamed)}
        /\ shown' = IF slow THEN shown ELSE shown \cup {LeafOf(u, renamed)}
    BY DEF Inject
  <1> PICK leaf : leaf = LeafOf(u, renamed)
    OBVIOUS
  <1> PICK pc \in {"confirm", "failed"} : StepTo(u, pc)
    BY DEF Inject, Throw
  <1> PICK r : r = [upload[u] EXCEPT !.pc = pc]
    OBVIOUS
  <1>1. /\ upload[u].pc = "inject" /\ upload[u].pc # "none"
        /\ hashKey' = hashKey /\ indexKey' = indexKey /\ driver' = driver /\ slow' = slow
        /\ misled' = misled
    BY DEF Inject, settings
  <1>2. u \notin Before /\ UploadFits(u, upload[u])
    BY <1>1, UploadBegun
  <1>3. leaf \in AllLeaves /\ leaf.of = u
    <2>1. renamed \in BOOLEAN
      BY AssetsAssumption
    <2> QED BY <2>1, LeafOfUpload
  <1>4. leaves' = leaves \cup {leaf} /\ shown' = IF slow THEN shown ELSE shown \cup {leaf}
    OBVIOUS
  <1>5. upload \in [Uploads -> UploadRec] /\ upload[u] \in UploadRec
    BY UploadTyped DEF AssetsInv
  <1>6. r \in UploadRec /\ r.pc = pc /\ r.entries = upload[u].entries /\ r.late = upload[u].late
    BY <1>5 DEF UploadRec, UploadPlaces
  <1>7. upload' = [upload EXCEPT ![u] = r]
    BY <1>5 DEF StepTo
  <1>8. AssetsTypeOK'
    <2>1. upload' \in [Uploads -> UploadRec]
      BY <1>5, <1>6, <1>7
    <2> QED BY <1>1, <1>3, <1>4, <2>1 DEF AssetsInv, AssetsTypeOK, UploadRec, UploadPlaces
  <1>9. TreeFits'
    <2>1. TreeFits
      BY DEF AssetsInv
    <2>2. IsFiniteSet(shown) /\ IsFiniteSet(shown \cup {leaf})
      BY <2>1, FS_AddElement DEF TreeFits
    <2> QED BY <1>1, <1>4, <2>1, <2>2 DEF TreeFits
  <1>10. CacheFits'
    <2>1. KeysGood(hashKey) /\ KeysGood(indexKey)
      BY DEF AssetsInv, CacheFits
    <2> QED BY <1>1, <1>4, <2>1 DEF CacheFits, KeysGood, ContentOf
  <1>11. ASSUME NEW v \in Uploads PROVE UploadFits(v, upload[v])'
    <2>1. CASE v = u
      <3>1. upload'[u] = r
        BY <1>5, <1>7
      <3>2. KeysGood(r.entries)'
        BY <1>1, <1>2, <1>4, <1>6 DEF UploadFits, KeysGood, ContentOf
      <3>3. StoredBy(u)'
        BY <1>3, <1>4 DEF StoredBy
      <3>4. ~r.late
        BY <1>1, <1>2, <1>6 DEF UploadFits, Spared
      <3>5. UploadFits(u, r)'
        BY <1>2, <1>6, <3>2, <3>3, <3>4 DEF UploadFits
      <3> QED BY <2>1, <3>1, <3>5
    <2>2. CASE v # u
      <3> PICK w : w = upload[v]
        OBVIOUS
      <3>1. UploadFits(v, w)
        BY DEF AssetsInv, AllFit
      <3>2. \A l \in leaves' \ leaves : l.of # v
        BY <1>3, <1>4, <2>2
      <3>3. UploadFits(v, w)'
        BY <1>1, <1>4, <3>1, <3>2, UploadStaysFit
      <3>4. upload'[v] = w
        BY <1>5, <1>7, <2>2
      <3> QED BY <3>3, <3>4
    <2> QED BY <2>1, <2>2
  <1> QED BY <1>8, <1>9, <1>10, <1>11 DEF AssetsInv, AllFit

LEMMA ShowKeepsAssets ==
    ASSUME AssetsInv, NEW leaf, Show(leaf)
    PROVE  AssetsInv'
  <1>1. /\ leaves' = leaves /\ shown' = shown \cup {leaf} /\ leaf \in leaves \ shown
        /\ upload' = upload /\ hashKey' = hashKey /\ indexKey' = indexKey
        /\ driver' = driver /\ slow' = slow /\ misled' = misled
    BY DEF Show, settings
  <1>2. AssetsTypeOK'
    BY <1>1 DEF AssetsInv, AssetsTypeOK
  <1>3. TreeFits'
    <2>1. TreeFits
      BY DEF AssetsInv
    <2>2. IsFiniteSet(shown')
      BY <1>1, <2>1, FS_AddElement DEF TreeFits
    <2> QED BY <1>1, <2>1, <2>2 DEF TreeFits
  <1>4. CacheFits'
    BY <1>1 DEF AssetsInv, CacheFits, KeysGood, ContentOf
  <1>5. ASSUME NEW v \in Uploads PROVE UploadFits(v, upload[v])'
    <2> PICK w : w = upload[v]
      OBVIOUS
    <2>1. UploadFits(v, w)
      BY DEF AssetsInv, AllFit
    <2>2. UploadFits(v, w)'
      BY <1>1, <2>1, UploadStaysFit
    <2> QED BY <1>1, <2>2
  <1> QED BY <1>2, <1>3, <1>4, <1>5 DEF AssetsInv, AllFit

\* What is taken for the file of this upload is its own, unless the tree shows
\* none of it, which a tree that is not late does.
LEMMA InjectedIsOwn ==
    ASSUME AssetsInv, NEW u \in Uploads, StoredBy(u), NEW leaf \in InjectedLeaf(u)
    PROVE  /\ leaf \in AllLeaves /\ leaf \in leaves
           /\ (\E l \in shown : l.of = u) => ContentOf(leaf) = ImageOf[u]
           /\ ~slow => \E l \in shown : l.of = u
  <1>1. shown \subseteq leaves /\ leaves \subseteq AllLeaves /\ TreeFits
    BY DEF AssetsInv, AssetsTypeOK
  <1>2. ~slow => \E l \in shown : l.of = u
    BY <1>1 DEF TreeFits, StoredBy
  <1>3. CASE leaf = LeafOf(u, FALSE) /\ leaf \in shown
    BY <1>1, <1>2, <1>3, LeafOfUpload
  <1>4. CASE Cardinality(shown) = 1 /\ leaf \in shown
    <2>1. shown = {leaf}
      BY <1>1, <1>4, FS_Singleton DEF TreeFits
    <2>2. (\E l \in shown : l.of = u) => ContentOf(leaf) = ImageOf[u]
      BY <2>1 DEF ContentOf
    <2> QED BY <1>1, <1>2, <2>1, <2>2
  <1> QED BY <1>3, <1>4 DEF InjectedLeaf

LEMMA ConfirmKeepsAssets ==
    ASSUME AssetsInv, NEW u \in Uploads, Confirm(u)
    PROVE  AssetsInv'
  <1>1. /\ UNCHANGED <<leaves, shown, settings>> /\ hashKey' = hashKey /\ indexKey' = indexKey
        /\ upload[u].pc = "confirm" /\ upload[u].pc # "none"
    BY DEF Confirm
  <1>2. u \notin Before /\ UploadFits(u, upload[u])
    BY <1>1, UploadBegun
  <1>3. StoredBy(u) /\ ~upload[u].late
    BY <1>1, <1>2 DEF UploadFits, Spared
  <1>4. upload \in [Uploads -> UploadRec] /\ upload[u] \in UploadRec /\ ImageOf[u] \in Images
    BY UploadTyped DEF AssetsInv
  <1>5. ASSUME NEW leaf \in InjectedLeaf(u),
               upload' = [upload EXCEPT ![u].pc = "touch", ![u].answer = leaf],
               misled' = IF \E l \in shown : l.of = u THEN misled ELSE misled \cup {ImageOf[u]}
        PROVE  AssetsInv'
    <2> PICK r : r = [upload[u] EXCEPT !.pc = "touch", !.answer = leaf]
      OBVIOUS
    <2>1. /\ leaf \in AllLeaves /\ leaf \in leaves
          /\ (\E l \in shown : l.of = u) => ContentOf(leaf) = ImageOf[u]
          /\ ~slow => \E l \in shown : l.of = u
      BY <1>3, InjectedIsOwn
    <2>2. misled \subseteq misled' /\ misled' \subseteq Images /\ (~slow => misled' = {})
      BY <1>4, <1>5, <2>1 DEF AssetsInv, AssetsTypeOK, TreeFits
    <2>3. /\ r \in UploadRec /\ r.pc = "touch" /\ r.entries = upload[u].entries
          /\ r.answer = leaf /\ r.late = upload[u].late
      BY <1>4, <2>1 DEF UploadRec, UploadPlaces
    <2>4. upload' = [upload EXCEPT ![u] = r]
      BY <1>4, <1>5
    <2>5. HoldsImage(u, leaf)'
      BY <1>1, <1>5, <2>1 DEF HoldsImage, ContentOf
    <2>6. KeysGood(r.entries)'
      <3> PICK kept : kept = r.entries
        OBVIOUS
      <3>1. KeysGood(kept)
        BY <1>2, <2>3 DEF UploadFits
      <3> QED BY <1>1, <2>2, <3>1, KeysStayGood
    <2>7. UploadFits(u, r)'
      BY <1>2, <1>3, <2>3, <2>5, <2>6 DEF UploadFits
    <2>8. /\ {hashKey', indexKey'} \subseteq [Images -> AllLeaves \cup {NoLeaf}]
          /\ KeysGood(hashKey') /\ KeysGood(indexKey')
      BY <1>1 DEF AssetsInv, AssetsTypeOK, CacheFits
    <2> QED BY <1>1, <2>2, <2>3, <2>4, <2>7, <2>8, StepOf
  <1>6. CASE Throw(u) /\ UNCHANGED misled
    <2>1. FilesKept
      BY <1>1, <1>6 DEF FilesKept
    <2> QED BY <1>1, <1>2, <1>6, <2>1, MoveKeepsAssets DEF Throw, UploadPlaces
  <1>7. CASE /\ upload[u].attempt # Attempts - 1 /\ UNCHANGED misled
             /\ upload' = [upload EXCEPT ![u].attempt = @ + 1]
    <2> PICK r : r = [upload[u] EXCEPT !.attempt = @ + 1]
      OBVIOUS
    <2>1. FilesKept
      BY <1>1, <1>7 DEF FilesKept
    <2>2. /\ r.pc = "confirm" /\ r.entries = upload[u].entries /\ r.late = upload[u].late
          /\ r \in UploadRec
      BY <1>1, <1>4, <1>7 DEF UploadRec, UploadPlaces, Attempts
    <2>3. upload' = [upload EXCEPT ![u] = r]
      BY <1>4, <1>7
    <2>4. UploadFits(u, r)
      BY <1>2, <1>3, <2>2 DEF UploadFits
    <2> QED BY <1>1, <2>1, <2>2, <2>3, <2>4, OwnStepAlone
  <1> QED BY <1>5, <1>6, <1>7 DEF Confirm

LEMMA TouchKeepsAssets ==
    ASSUME AssetsInv, NEW u \in Uploads, TouchNode(u)
    PROVE  AssetsInv'
  <1>1. /\ FilesKept /\ hashKey' = hashKey /\ indexKey' = indexKey /\ StepTo(u, "set")
        /\ upload[u].pc = "touch" /\ upload[u].pc # "none"
    BY DEF TouchNode, FilesKept
  <1>2. u \notin Before /\ UploadFits(u, upload[u])
    BY <1>1, UploadBegun
  <1>3. HoldsImage(u, upload[u].answer)
    BY <1>1, <1>2 DEF UploadFits
  <1> QED BY <1>1, <1>2, <1>3, MoveKeepsAssets DEF UploadPlaces

LEMMA RememberKeepsAssets ==
    ASSUME AssetsInv, NEW u \in Uploads, Remember(u)
    PROVE  AssetsInv'
  <1> PICK leaf : leaf = upload[u].answer
    OBVIOUS
  <1>1. /\ FilesKept /\ indexKey' = indexKey /\ hashKey' = [hashKey EXCEPT ![ImageOf[u]] = leaf]
        /\ upload' = [upload EXCEPT ![u].pc = "answered", ![u].answer = leaf]
        /\ upload[u].pc = "set" /\ upload[u].pc # "none"
    BY DEF Remember, AnswerWith, FilesKept
  <1>2. u \notin Before /\ UploadFits(u, upload[u])
    BY <1>1, UploadBegun
  <1>3. HoldsImage(u, leaf) /\ leaf \in AllLeaves /\ ImageOf[u] \in Images
    BY <1>1, <1>2, UploadTyped DEF UploadFits, HoldsImage, AssetsInv, AssetsTypeOK
  <1>4. /\ {hashKey, indexKey} \subseteq [Images -> AllLeaves \cup {NoLeaf}]
        /\ KeysGood(hashKey) /\ KeysGood(indexKey)
    BY DEF AssetsInv, AssetsTypeOK, CacheFits
  <1>5. /\ {hashKey', indexKey'} \subseteq [Images -> AllLeaves \cup {NoLeaf}]
        /\ KeysGood(hashKey') /\ KeysGood(indexKey')
    BY <1>1, <1>3, <1>4 DEF KeysGood, HoldsImage
  <1> QED BY <1>1, <1>2, <1>3, <1>5, AnswerKeepsAssets

LEMMA FailKeepsAssets ==
    ASSUME AssetsInv, NEW u \in Uploads, UploadFails(u)
    PROVE  AssetsInv'
  <1>1. /\ FilesKept /\ hashKey' = hashKey /\ indexKey' = indexKey /\ StepTo(u, "failed")
        /\ upload[u].pc # "none"
    BY DEF UploadFails, Throw, FilesKept
  <1>2. u \notin Before
    BY <1>1, UploadBegun
  <1> QED BY <1>1, <1>2, MoveKeepsAssets DEF UploadPlaces

\* What a cache forgets was good, and so is what is left.
LEMMA LapseKeepsAssets ==
    ASSUME AssetsInv, Lapse
    PROVE  AssetsInv'
  <1>1. /\ leaves' = leaves /\ shown' = shown /\ upload' = upload /\ driver' = driver /\ slow' = slow
        /\ misled' = misled
    BY DEF Lapse, settings
  <1>2. /\ {hashKey, indexKey} \subseteq [Images -> AllLeaves \cup {NoLeaf}]
        /\ KeysGood(hashKey) /\ KeysGood(indexKey)
    BY DEF AssetsInv, AssetsTypeOK, CacheFits
  <1>3. NoKeys \in [Images -> AllLeaves \cup {NoLeaf}] /\ KeysGood(NoKeys)
    BY DEF NoKeys, KeysGood
  <1>4. ASSUME NEW i \in Images, hashKey' = [hashKey EXCEPT ![i] = NoLeaf]
        PROVE  hashKey' \in [Images -> AllLeaves \cup {NoLeaf}] /\ KeysGood(hashKey')
    BY <1>2, <1>4 DEF KeysGood
  <1>5. /\ {hashKey', indexKey'} \subseteq [Images -> AllLeaves \cup {NoLeaf}]
        /\ KeysGood(hashKey') /\ KeysGood(indexKey')
    BY <1>2, <1>3, <1>4 DEF Lapse
  <1>6. AssetsTypeOK' /\ TreeFits'
    BY <1>1, <1>5 DEF AssetsInv, AssetsTypeOK, TreeFits
  <1>7. CacheFits'
    BY <1>1, <1>5 DEF CacheFits, KeysGood, ContentOf
  <1>8. AllFit'
    BY <1>1 DEF AssetsInv, AllFit, UploadFits, KeysGood, ContentOf, HoldsImage, StoredBy, Spared
  <1> QED BY <1>6, <1>7, <1>8 DEF AssetsInv

LEMMA AssetsStepInv ==
    ASSUME AssetsInv, [AssetsNext]_assetVars
    PROVE  AssetsInv'
  <1>1. ASSUME NEW u \in Uploads,
               \/ StartUpload(u) \/ Get(u) \/ GetAll(u) \/ List(u) \/ Replace(u)
               \/ Inject(u) \/ Confirm(u) \/ TouchNode(u) \/ Remember(u) \/ UploadFails(u)
        PROVE  AssetsInv'
    BY <1>1, StartKeepsAssets, GetKeepsAssets, GetAllKeepsAssets, ListKeepsAssets,
       ReplaceKeepsAssets, InjectKeepsAssets, ConfirmKeepsAssets, TouchKeepsAssets,
       RememberKeepsAssets, FailKeepsAssets
  <1>2. CASE UNCHANGED assetVars
    BY <1>2 DEF assetVars, AssetsInv, AssetsTypeOK, TreeFits, CacheFits, AllFit, UploadFits,
               KeysGood, ContentOf, HoldsImage, StoredBy, Spared
  <1> QED BY <1>1, <1>2, ShowKeepsAssets, LapseKeepsAssets DEF AssetsNext

LEMMA AssetsInvHolds ==
    ASSUME AssetsInv
    PROVE  UploadsHold
  <1>1. \A u \in Uploads : UploadFits(u, upload[u])
    BY DEF AssetsInv, AllFit
  <1>2. AnswerHoldsImage
    BY <1>1 DEF AnswerHoldsImage, UploadFits, HoldsImage, AssetsInv, TreeFits
  <1>3. NoSecondCopy
    BY <1>1 DEF NoSecondCopy, UploadFits, Spared, StoredBy
  <1> QED BY <1>2, <1>3 DEF UploadsHold

\* Every path an upload answers with leads to the image that was uploaded, but
\* for the images of which an upload took the only file of a late tree for its
\* own, and no image the document shows is stored again: for any number of
\* uploads and images, whatever overlaps, throws, is renamed, and is lost from
\* the caches.
THEOREM UploadsAreKept == AssetsSpec => []UploadsHold
  <1>1. AssetsInit => AssetsInv
    BY AssetsInitInv
  <1>2. AssetsInv /\ [AssetsNext]_assetVars => AssetsInv'
    BY AssetsStepInv
  <1>3. AssetsInv => UploadsHold
    BY AssetsInvHolds
  <1> QED BY <1>1, <1>2, <1>3, PTL DEF AssetsSpec

(***************************************************************************)
(* Signing in.                                                             *)
(***************************************************************************)
SignInPlaces == {"code", "own entry", "other's entry", "verified", "unknown", "unnamed", "user",
                 "redirected", "answered", "refused"}
SignInTypes ==
    /\ now \in Nat /\ signIn \in [SignIns -> SignInPlaces] /\ accounts \in [Identities -> Nat]
    /\ tickets \in [SignIns -> Nat] /\ redeemed \in [SignIns -> Nat]

\* A ticket that is there was not handed out, and there is none, handed out or
\* not, before the browser is sent away with it; a restart brings none back.
TicketFits(l) ==
    /\ redeemed[l] <= 1
    /\ tickets[l] # NoTicket => redeemed[l] = 0
    /\ ~SignInAt(l, "redirected") => redeemed[l] = 0 /\ tickets[l] = NoTicket

SignInInv ==
    /\ SignInTypes
    /\ \A i \in Identities : accounts[i] <= 1
    /\ \A l \in SignIns : TicketFits(l)

LEMMA SignInInitInv ==
    ASSUME SignInInit PROVE SignInInv
  BY DEF SignInInit, SignInInv, SignInTypes, SignInPlaces, TicketFits, NoTicket

\* A sign-in that moves on before it has a ticket.
LEMMA SignInMoves ==
    ASSUME SignInInv, NEW l \in SignIns, ~SignInAt(l, "redirected"), NEW pc \in SignInPlaces,
           SignInGo(l, pc), UNCHANGED <<now, tickets, redeemed>>,
           accounts' \in [Identities -> Nat], \A i \in Identities : accounts'[i] <= 1
    PROVE  SignInInv'
  <1>1. SignInTypes' /\ \A m \in SignIns : m # l => signIn'[m] = signIn[m]
    BY DEF SignInInv, SignInTypes, SignInGo
  <1>2. ASSUME NEW m \in SignIns PROVE TicketFits(m)'
    <2>1. TicketFits(m) /\ tickets'[m] = tickets[m] /\ redeemed'[m] = redeemed[m]
      BY DEF SignInInv
    <2>2. CASE m = l
      BY <2>1, <2>2 DEF TicketFits
    <2>3. CASE m # l
      BY <1>1, <2>1, <2>3 DEF TicketFits, SignInAt
    <2> QED BY <2>2, <2>3
  <1> QED BY <1>1, <1>2 DEF SignInInv

\* The unique index lets the account in once, whoever looked for it before.
LEMMA SaveKeepsSignIn ==
    ASSUME SignInInv, NEW l \in SignIns, SaveAccount(l)
    PROVE  SignInInv'
  <1>1. SignInAt(l, "unnamed") /\ ~SignInAt(l, "redirected") /\ UNCHANGED <<now, tickets, redeemed>>
    BY DEF SaveAccount, SignInAt
  <1>2. IdentityOf[l] \in Identities /\ accounts \in [Identities -> Nat]
    BY SignInAssumption DEF SignInInv, SignInTypes
  <1>3. CASE accounts[IdentityOf[l]] = 0 /\ InsertAccount(l) /\ SignInGo(l, "user")
    <2>1. /\ accounts' = [accounts EXCEPT ![IdentityOf[l]] = accounts[IdentityOf[l]] + 1]
          /\ accounts' \in [Identities -> Nat]
      BY <1>2, <1>3 DEF InsertAccount
    <2>2. \A i \in Identities : accounts'[i] <= 1
      BY <1>2, <1>3, <2>1 DEF SignInInv
    <2> QED BY <1>1, <1>3, <2>1, <2>2, SignInMoves DEF SignInPlaces
  <1>4. CASE SignInGo(l, "refused") /\ UNCHANGED accounts
    BY <1>1, <1>2, <1>4, SignInMoves DEF SignInInv, SignInPlaces
  <1> QED BY <1>3, <1>4 DEF SaveAccount

LEMMA CreateKeepsSignIn ==
    ASSUME SignInInv, NEW l \in SignIns, CreateTicket(l)
    PROVE  SignInInv'
  <1>1. /\ SignInAt(l, "user") /\ signIn' = [signIn EXCEPT ![l] = "redirected"]
        /\ tickets' = [tickets EXCEPT ![l] = now + TicketLife]
        /\ now' = now /\ accounts' = accounts /\ redeemed' = redeemed
    BY DEF CreateTicket, SignInGo
  <1>2. SignInTypes'
    <2>1. TicketLife \in Nat
      BY SignInAssumption
    <2>2. "redirected" \in SignInPlaces
      BY DEF SignInPlaces
    <2> QED BY <1>1, <2>1, <2>2 DEF SignInInv, SignInTypes
  <1>3. ASSUME NEW m \in SignIns PROVE TicketFits(m)'
    <2>1. TicketFits(m) /\ SignInTypes
      BY DEF SignInInv
    <2>2. CASE m = l
      <3>1. redeemed'[l] = 0 /\ signIn'[l] = "redirected"
        BY <1>1, <2>1, <2>2 DEF TicketFits, SignInAt, SignInTypes
      <3> QED BY <2>2, <3>1 DEF TicketFits, SignInAt
    <2>3. CASE m # l
      BY <1>1, <2>1, <2>3 DEF TicketFits, SignInAt, SignInTypes
    <2> QED BY <2>2, <2>3
  <1> QED BY <1>1, <1>2, <1>3 DEF SignInInv

\* Whoever presents the ticket, it is gone with the first answer.
LEMMA ConsumeKeepsSignIn ==
    ASSUME SignInInv, NEW l \in SignIns, Consume(l)
    PROVE  SignInInv'
  <1>1. /\ tickets' = [tickets EXCEPT ![l] = NoTicket]
        /\ redeemed' = [redeemed EXCEPT ![l] = IF TicketGood(l) THEN redeemed[l] + 1 ELSE redeemed[l]]
        /\ now' = now /\ signIn' = signIn /\ accounts' = accounts
    BY DEF Consume
  <1>2. SignInTypes'
    BY <1>1 DEF SignInInv, SignInTypes, NoTicket
  <1>3. ASSUME NEW m \in SignIns PROVE TicketFits(m)'
    <2>1. TicketFits(m) /\ SignInTypes
      BY DEF SignInInv
    <2>2. CASE m = l
      <3>1. /\ tickets'[l] = NoTicket
            /\ redeemed'[l] = IF TicketGood(l) THEN redeemed[l] + 1 ELSE redeemed[l]
        BY <1>1, <2>1 DEF SignInTypes
      <3>2. TicketGood(l) => redeemed[l] = 0 /\ SignInAt(l, "redirected")
        BY <2>1, <2>2 DEF TicketFits, TicketGood
      <3> QED BY <1>1, <2>1, <2>2, <3>1, <3>2 DEF TicketFits, SignInAt, SignInTypes
    <2>3. CASE m # l
      BY <1>1, <2>1, <2>3 DEF TicketFits, SignInAt, SignInTypes
    <2> QED BY <2>2, <2>3
  <1> QED BY <1>1, <1>2, <1>3 DEF SignInInv

LEMMA RebootKeepsSignIn ==
    ASSUME SignInInv, ServerReboots
    PROVE  SignInInv'
  <1>1. /\ tickets' = [l \in SignIns |-> NoTicket]
        /\ signIn' = [l \in SignIns |->
              IF SignInAt(l, "redirected") \/ SignInAt(l, "answered") THEN signIn[l] ELSE "refused"]
        /\ now' = now /\ accounts' = accounts /\ redeemed' = redeemed
    BY DEF ServerReboots
  <1>2. SignInTypes'
    BY <1>1 DEF SignInInv, SignInTypes, SignInPlaces, NoTicket
  <1>3. ASSUME NEW m \in SignIns PROVE TicketFits(m)'
    BY <1>1 DEF SignInInv, TicketFits, SignInAt
  <1> QED BY <1>1, <1>2, <1>3 DEF SignInInv

LEMMA ServerKeepsSignIn ==
    ASSUME SignInInv, SignInServer
    PROVE  SignInInv'
  <1>1. ASSUME NEW l \in SignIns,
               \/ ProviderRefuses(l) \/ FindAccount(l) \/ FindName(l) \/ Authorize(l)
               \/ FindUser(l) \/ VerifyUserPassword(l) \/ DirectoryFails(l) \/ AnswerTokens(l)
        PROVE  SignInInv'
    <2>1. /\ ~SignInAt(l, "redirected") /\ UNCHANGED <<now, accounts, tickets, redeemed>>
          /\ \E pc \in SignInPlaces : SignInGo(l, pc)
      <3>1. CASE ProviderRefuses(l) \/ FindAccount(l) \/ FindName(l) \/ Authorize(l)
        BY <3>1 DEF ProviderRefuses, FindAccount, FindName, Authorize, SignInAt, SignInPlaces
      <3>2. CASE FindUser(l)
        BY <3>2 DEF FindUser, SignInAt, SignInPlaces
      <3>3. CASE VerifyUserPassword(l) \/ DirectoryFails(l) \/ AnswerTokens(l)
        BY <3>3 DEF VerifyUserPassword, DirectoryFails, AnswerTokens, SignInAt, SignInPlaces
      <3> QED BY <1>1, <3>1, <3>2, <3>3
    <2> QED BY <2>1, SignInMoves DEF SignInInv, SignInTypes
  <1>2. CASE ClockTicks
    BY <1>2 DEF ClockTicks, SignInInv, SignInTypes, TicketFits, SignInAt
  <1> QED BY <1>1, <1>2, SaveKeepsSignIn, CreateKeepsSignIn, RebootKeepsSignIn DEF SignInServer

LEMMA QuietKeepsSignIn ==
    ASSUME SignInInv, UNCHANGED signInVars
    PROVE  SignInInv'
  BY DEF signInVars, SignInInv, SignInTypes, TicketFits, SignInAt

\* Of what a command does, only the exchange of a ticket reaches the sign-ins.
LEMMA CommandKeepsSignIn ==
    ASSUME SignInInv, NEW c \in Commands, RunCommand(c)
    PROVE  SignInInv'
  <1>1. CASE TicketExchanged(c)
    <2>1. TicketOf[c] \in SignIns /\ Consume(TicketOf[c])
      BY <1>1, CliAssumption DEF TicketExchanged
    <2> QED BY <2>1, ConsumeKeepsSignIn
  <1>2. CASE Start(c) \/ RefreshAnswered(c) \/ Unauthorized(c) \/ Called(c) \/ Exchanged(c)
    BY <1>2, QuietKeepsSignIn DEF Start, RefreshAnswered, Unauthorized, Called, Exchanged
  <1>3. CASE LoggedIn(c) \/ BrowserReturns(c) \/ CallbackTimeout(c) \/ LogOut(c) \/ SetKey(c) \/ RequestLost(c)
    BY <1>3, QuietKeepsSignIn
       DEF LoggedIn, BrowserReturns, CallbackTimeout, CliFails, LogOut, SetKey, RequestLost
  <1> QED BY <1>1, <1>2, <1>3 DEF RunCommand

\* However many first sign-ins of a person overlap, the person gets one account,
\* and a ticket gives out its tokens once, whichever pages, reloads and commands
\* present it, and whenever the server restarts: for any number of sign-ins,
\* identities and commands and any lifetimes.
THEOREM SignedInOnce == CliSpec => []OnceEach
  <1>1. CliInit => SignInInv
    BY SignInInitInv DEF CliInit
  <1>2. SignInInv /\ [CliNext]_cliVars => SignInInv'
    <2> SUFFICES ASSUME SignInInv, [CliNext]_cliVars PROVE SignInInv'
      OBVIOUS
    <2>1. CASE SignInServer
      BY <2>1, ServerKeepsSignIn
    <2>2. CASE \E l \in SignIns : WebExchange(l)
      BY <2>2, ConsumeKeepsSignIn DEF WebExchange
    <2>3. CASE \E c \in Commands : RunCommand(c)
      BY <2>3, CommandKeepsSignIn
    <2>4. CASE UNCHANGED cliVars
      BY <2>4, QuietKeepsSignIn DEF cliVars
    <2> QED BY <2>1, <2>2, <2>3, <2>4 DEF CliNext
  <1>3. SignInInv => OnceEach
    BY DEF SignInInv, TicketFits, OnceEach
  <1> QED BY <1>1, <1>2, <1>3, PTL DEF CliSpec

(***************************************************************************)
(* The commands of the client.                                             *)
(***************************************************************************)
CmdFields == {"pc", "read", "mine", "sent", "attempt", "alone"}
Idling == {"none", "done", "failed", "lost"}

\* A command that none overlaps is the only one, and the file is as it read it.
CommandsInv ==
    /\ DOMAIN stateFile = Profiles /\ DOMAIN cmd = Commands
    /\ \A c \in Commands : DOMAIN cmd[c] = CmdFields
    /\ \A c \in CommandsRunning :
          /\ DOMAIN cmd[c].read = Profiles
          /\ cmd[c].alone => CommandsRunning = {c} /\ stateFile = cmd[c].read

KeepsOthers ==
    \A c \in CommandsRunning : cmd[c].alone /\ cmd'[c].pc # cmd[c].pc =>
        /\ \A p \in Profiles \ {ProfileOf[c]} : stateFile'[p] = cmd[c].read[p]
        /\ cmd'[c].pc \in {"failed", "lost"} => stateFile' = cmd[c].read

LEMMA CliInitInv ==
    ASSUME CliInit PROVE CommandsInv
  <1>1. DOMAIN stateFile = Profiles
    BY CliAssumption DEF CliInit
  <1>2. DOMAIN cmd = Commands /\ \A c \in Commands : DOMAIN cmd[c] = CmdFields /\ cmd[c].pc = "none"
    BY DEF CliInit, NotStarted, CmdFields
  <1> QED BY <1>1, <1>2 DEF CommandsInv, CommandsRunning

\* A running command writes the file when it ends well, or not at all.
FileWritten(c, r) ==
    \/ stateFile' = stateFile
    \/ r.pc = "done" /\ \E profile : stateFile' = SaveProfile(c, profile)

LEMMA CommandSteps ==
    ASSUME CommandsInv, NEW c \in CommandsRunning, NEW r, DOMAIN r = CmdFields,
           r.read = cmd[c].read, r.alone = cmd[c].alone, cmd' = [cmd EXCEPT ![c] = r],
           r.pc # "none", FileWritten(c, r)
    PROVE  CommandsInv' /\ KeepsOthers
  <1>1. /\ c \in Commands /\ DOMAIN cmd = Commands /\ DOMAIN cmd' = Commands /\ cmd'[c] = r
        /\ \A d \in Commands : d # c => cmd'[d] = cmd[d]
    BY DEF CommandsInv, CommandsRunning
  <1>2. DOMAIN cmd[c].read = Profiles
    BY DEF CommandsInv
  <1>3. ASSUME NEW profile, stateFile' = SaveProfile(c, profile)
        PROVE  /\ DOMAIN stateFile' = Profiles
               /\ \A p \in Profiles \ {ProfileOf[c]} : stateFile'[p] = cmd[c].read[p]
    BY <1>2, <1>3 DEF SaveProfile
  <1>4. DOMAIN stateFile' = Profiles
    BY <1>3 DEF FileWritten, CommandsInv
  <1>5. CommandsRunning' \subseteq CommandsRunning /\ (r.pc \notin Idling <=> c \in CommandsRunning')
    BY <1>1 DEF CommandsRunning, Idling
  <1>6. \A d \in Commands : DOMAIN cmd'[d] = CmdFields
    BY <1>1 DEF CommandsInv
  <1>7. ASSUME NEW d \in CommandsRunning'
        PROVE  /\ DOMAIN cmd'[d].read = Profiles
               /\ cmd'[d].alone => CommandsRunning' = {d} /\ stateFile' = cmd'[d].read
    <2>1. d \in CommandsRunning /\ d \in Commands
      BY <1>5 DEF CommandsRunning
    <2>2. cmd'[d].read = cmd[d].read /\ cmd'[d].alone = cmd[d].alone
      BY <1>1, <2>1
    <2>3. DOMAIN cmd'[d].read = Profiles
      BY <2>1, <2>2 DEF CommandsInv
    <2>4. ASSUME cmd'[d].alone PROVE CommandsRunning' = {d} /\ stateFile' = cmd'[d].read
      <3>1. CommandsRunning = {d} /\ stateFile = cmd[d].read
        BY <2>1, <2>2, <2>4 DEF CommandsInv
      <3>2. d = c /\ r.pc # "done"
        BY <1>5, <3>1 DEF Idling
      <3> QED BY <1>5, <2>2, <3>1, <3>2 DEF FileWritten
    <2> QED BY <2>3, <2>4
  <1>8. KeepsOthers
    <2> SUFFICES ASSUME NEW d \in CommandsRunning, cmd[d].alone, cmd'[d].pc # cmd[d].pc
                 PROVE  /\ \A p \in Profiles \ {ProfileOf[d]} : stateFile'[p] = cmd[d].read[p]
                        /\ cmd'[d].pc \in {"failed", "lost"} => stateFile' = cmd[d].read
      BY DEF KeepsOthers
    <2>1. d = c /\ stateFile = cmd[c].read
      BY DEF CommandsInv
    <2>2. CASE stateFile' = stateFile
      BY <2>1, <2>2
    <2>3. CASE r.pc = "done" /\ \E profile : stateFile' = SaveProfile(c, profile)
      BY <1>1, <1>3, <2>1, <2>3
    <2> QED BY <2>2, <2>3 DEF FileWritten
  <1> QED BY <1>1, <1>4, <1>6, <1>7, <1>8 DEF CommandsInv

\* Most steps change the place of the command alone.
LEMMA CommandMoves ==
    ASSUME CommandsInv, NEW c \in Commands, NEW pc, pc # "none", cmd[c].pc \notin Idling,
           EndCommand(c, pc),
           \/ stateFile' = stateFile
           \/ pc = "done" /\ \E profile : stateFile' = SaveProfile(c, profile)
    PROVE  CommandsInv' /\ KeepsOthers
  <1> PICK r : r = [cmd[c] EXCEPT !.pc = pc]
    OBVIOUS
  <1>1. c \in CommandsRunning /\ DOMAIN cmd[c] = CmdFields /\ DOMAIN cmd = Commands
    BY DEF CommandsRunning, Idling, CommandsInv
  <1>2. DOMAIN r = CmdFields /\ r.pc = pc /\ r.read = cmd[c].read /\ r.alone = cmd[c].alone
    BY <1>1 DEF CmdFields
  <1>3. cmd' = [cmd EXCEPT ![c] = r]
    BY DEF EndCommand
  <1>4. FileWritten(c, r)
    BY <1>2 DEF FileWritten
  <1> QED BY <1>1, <1>2, <1>3, <1>4, CommandSteps

\* The server's tokens are inside the envelope, where the client does not look.
LEMMA NoTokensFound ==
    ASSUME NEW c PROVE ~HasTokens(RefreshReply(c))
  <1>1. \A body : DOMAIN SuccessResponse(body) = {"data"}
    BY DEF SuccessResponse
  <1>2. DOMAIN RefreshReply(c) \in {{"data"}, {"message"}}
    BY <1>1 DEF RefreshReply
  <1>3. "accessToken" \notin DOMAIN RefreshReply(c)
    BY <1>2
  <1> QED BY <1>3 DEF HasTokens

\* A command begins; whoever runs then is no longer alone, and nor is it.
LEMMA StartKeepsCommands ==
    ASSUME CommandsInv, NEW c \in Commands, Start(c)
    PROVE  CommandsInv' /\ KeepsOthers
  <1>1. cmd[c].pc = "none" /\ stateFile' = stateFile /\ c \notin CommandsRunning
    BY DEF Start, CmdAt, CommandsRunning
  <1> PICK first : first = [pc |-> FirstPlace(c, stateFile[ProfileOf[c]]), read |-> stateFile,
                            mine |-> stateFile[ProfileOf[c]],
                            sent |-> ProfileCredential(stateFile[ProfileOf[c]]), attempt |-> 1,
                            alone |-> CommandsRunning = {}]
    OBVIOUS
  <1>2. /\ DOMAIN first = CmdFields /\ first.read = stateFile
        /\ first.alone <=> CommandsRunning = {}
    BY DEF CmdFields
  <1>3. cmd' = [d \in Commands |->
                  IF d = c THEN first
                  ELSE IF d \in CommandsRunning THEN [cmd[d] EXCEPT !.alone = FALSE] ELSE cmd[d]]
    BY DEF Start
  <1>4. DOMAIN cmd' = Commands /\ cmd'[c] = first
    BY <1>3
  <1>5. ASSUME NEW d \in Commands, d # c, d \notin CommandsRunning PROVE cmd'[d] = cmd[d]
    BY <1>3, <1>5
  <1>6. ASSUME NEW d \in CommandsRunning
        PROVE  /\ DOMAIN cmd'[d] = CmdFields /\ cmd'[d].pc = cmd[d].pc
               /\ cmd'[d].read = cmd[d].read /\ cmd'[d].alone = FALSE
    <2>1. d \in Commands /\ d # c /\ DOMAIN cmd[d] = CmdFields
      BY <1>1 DEF CommandsRunning, CommandsInv
    <2>2. cmd'[d] = [cmd[d] EXCEPT !.alone = FALSE]
      BY <1>3, <2>1
    <2> QED BY <2>1, <2>2 DEF CmdFields
  <1>7. \A d \in Commands : DOMAIN cmd'[d] = CmdFields
    BY <1>2, <1>4, <1>5, <1>6 DEF CommandsInv
  <1>8. CommandsRunning' \subseteq CommandsRunning \cup {c}
    BY <1>5 DEF CommandsRunning
  <1>9. ASSUME NEW d \in CommandsRunning'
        PROVE  /\ DOMAIN cmd'[d].read = Profiles
               /\ cmd'[d].alone => CommandsRunning' = {d} /\ stateFile' = cmd'[d].read
    <2>1. CASE d = c
      <3>1. DOMAIN stateFile = Profiles
        BY DEF CommandsInv
      <3>2. cmd'[c].alone => CommandsRunning' = {c}
        BY <1>2, <1>4, <1>8, <1>9, <2>1
      <3> QED BY <1>1, <1>2, <1>4, <2>1, <3>1, <3>2
    <2>2. CASE d # c
      <3>1. d \in CommandsRunning
        BY <1>8, <2>2
      <3> QED BY <1>6, <3>1 DEF CommandsInv
    <2> QED BY <2>1, <2>2
  <1>10. KeepsOthers
    BY <1>6 DEF KeepsOthers
  <1> QED BY <1>1, <1>4, <1>7, <1>9, <1>10 DEF CommandsInv

LEMMA UnauthorizedKeepsCommands ==
    ASSUME CommandsInv, NEW c \in Commands, Unauthorized(c)
    PROVE  CommandsInv' /\ KeepsOthers
  <1> PICK pc \in {"refresh", "failed"} : cmd' = [cmd EXCEPT ![c].pc = pc, ![c].attempt = 2]
    BY DEF Unauthorized
  <1> PICK r : r = [cmd[c] EXCEPT !.pc = pc, !.attempt = 2]
    OBVIOUS
  <1>1. /\ c \in CommandsRunning /\ DOMAIN cmd[c] = CmdFields /\ DOMAIN cmd = Commands
        /\ stateFile' = stateFile
    BY DEF Unauthorized, CmdAt, CommandsRunning, CommandsInv
  <1>2. DOMAIN r = CmdFields /\ r.pc = pc /\ r.read = cmd[c].read /\ r.alone = cmd[c].alone
    BY <1>1 DEF CmdFields
  <1>3. cmd' = [cmd EXCEPT ![c] = r]
    BY <1>1
  <1>4. FileWritten(c, r)
    BY <1>1 DEF FileWritten
  <1> QED BY <1>1, <1>2, <1>3, <1>4, CommandSteps

LEMMA RefreshKeepsCommands ==
    ASSUME CommandsInv, NEW c \in Commands, RefreshAnswered(c)
    PROVE  CommandsInv' /\ KeepsOthers
  <1>1. cmd[c].pc \notin Idling
    BY DEF RefreshAnswered, CmdAt, Idling
  <1>2. /\ stateFile' = stateFile
        /\ cmd' = [cmd EXCEPT ![c] = [cmd[c] EXCEPT !.pc = "failed"]]
    BY NoTokensFound DEF RefreshAnswered
  <1>3. EndCommand(c, "failed")
    BY <1>2 DEF EndCommand
  <1> QED BY <1>1, <1>2, <1>3, CommandMoves

LEMMA CommandKeepsCommands ==
    ASSUME CommandsInv, NEW c \in Commands, RunCommand(c)
    PROVE  CommandsInv' /\ KeepsOthers
  <1>1. CASE \/ Called(c) \/ Exchanged(c) \/ LoggedIn(c)
    <2>1. cmd[c].pc \notin Idling /\ EndCommand(c, "done")
      BY <1>1 DEF Called, Exchanged, LoggedIn, CmdAt, Idling
    <2>2. stateFile' = stateFile \/ \E profile : stateFile' = SaveProfile(c, profile)
      BY <1>1 DEF Called, Exchanged, LoggedIn
    <2> QED BY <2>1, <2>2, CommandMoves
  <1>2. CASE LogOut(c) \/ SetKey(c)
    <2>1. cmd[c].pc \notin Idling /\ EndCommand(c, "done")
      BY <1>2 DEF LogOut, SetKey, CmdAt, Idling
    <2>2. \E profile : stateFile' = SaveProfile(c, profile)
      BY <1>2 DEF LogOut, SetKey
    <2> QED BY <2>1, <2>2, CommandMoves
  <1>3. CASE TicketExchanged(c)
    <2>1. cmd[c].pc \notin Idling
      BY <1>3 DEF TicketExchanged, CmdAt, Idling
    <2>2. \/ EndCommand(c, "done") /\ \E profile : stateFile' = SaveProfile(c, profile)
          \/ EndCommand(c, "failed") /\ stateFile' = stateFile
      BY <1>3 DEF TicketExchanged
    <2> QED BY <2>1, <2>2, CommandMoves
  <1>4. CASE BrowserReturns(c) \/ CallbackTimeout(c) \/ RequestLost(c)
    <2>1. cmd[c].pc \notin Idling /\ stateFile' = stateFile
      BY <1>4 DEF BrowserReturns, CallbackTimeout, RequestLost, CliFails, CmdAt, Idling
    <2>2. EndCommand(c, "exchange") \/ EndCommand(c, "failed") \/ EndCommand(c, "lost")
      BY <1>4 DEF BrowserReturns, CallbackTimeout, RequestLost, CliFails
    <2> QED BY <2>1, <2>2, CommandMoves
  <1> QED BY <1>1, <1>2, <1>3, <1>4, StartKeepsCommands, UnauthorizedKeepsCommands,
             RefreshKeepsCommands DEF RunCommand

LEMMA FileKeptKeepsCommands ==
    ASSUME CommandsInv, UNCHANGED <<stateFile, cmd>>
    PROVE  CommandsInv' /\ KeepsOthers
  BY DEF CommandsInv, CommandsRunning, KeepsOthers

\* A command that no other has overlapped leaves the other profiles of the file
\* alone, and its own where it fails: for any number of commands and profiles.
THEOREM CommandsKeepProfiles == CliSpec => AloneKeepsOthers
  <1>1. CliInit => CommandsInv
    BY CliInitInv
  <1>2. CommandsInv /\ [CliNext]_cliVars => CommandsInv' /\ KeepsOthers
    <2> SUFFICES ASSUME CommandsInv, [CliNext]_cliVars PROVE CommandsInv' /\ KeepsOthers
      OBVIOUS
    <2>1. CASE UNCHANGED <<stateFile, cmd>>
      BY <2>1, FileKeptKeepsCommands
    <2>2. CASE \E c \in Commands : RunCommand(c)
      BY <2>2, CommandKeepsCommands
    <2> QED BY <2>1, <2>2 DEF CliNext, cliVars
  <1>3. KeepsOthers => [\A c \in CommandsRunning : cmd[c].alone /\ cmd'[c].pc # cmd[c].pc =>
            /\ \A p \in Profiles \ {ProfileOf[c]} : stateFile'[p] = cmd[c].read[p]
            /\ cmd'[c].pc \in {"failed", "lost"} => stateFile' = cmd[c].read]_cliVars
    BY DEF KeepsOthers
  <1> QED BY <1>1, <1>2, <1>3, PTL DEF CliSpec, AloneKeepsOthers

(***************************************************************************)
(* Capability calls.  The steps a call may take, by what it asks for.      *)
(***************************************************************************)
TaskWrites == {"cancelled", "queued"}
SureSteps == {"unlink", "row", "scope", "taskBase", "taskByScope"}
LastSteps == {"make", "eraseNode", "eraseBase"}
UploadSteps == {"store", "aimBase", "aim", "make"}
EveryStep ==
    SureSteps \cup LastSteps \cup UploadSteps \cup TaskWrites \cup
    {"allowed", "matches", "entries", "bases", "eachBase", "base", "inside", "nodes", "node",
     "target", "rows", "eachTask", "taskByAllowed"}

StepFits(step, cap, about) ==
    /\ step \in EveryStep
    /\ cap = "search" => step \in {"allowed", "matches"}
    /\ cap = "upload" => step \in UploadSteps
    /\ step = "inside" => about \in Bases
    /\ step \in SureSteps \cup TaskWrites \cup {"taskByAllowed"} =>
          about \in Imported \/ (cap = "imports" /\ step = "scope")
    /\ step \in TaskWrites => cap \in {"cancel", "retry"}
    /\ step \in {"rows", "eachTask"} => cap = "imports"
    /\ step \in {"bases", "eachBase"} => cap = "bases"
    /\ step = "store" => cap = "upload"

\* In a list of steps those of the second kind have the first one before them.
After(s, first, then) ==
    \A i \in DOMAIN s : s[i] \in then => \E j \in DOMAIN s : j < i /\ s[j] = first

\* What follows a change of a task cannot fail, other changes come last, and
\* files are stored first.
Trailing(s) ==
    \A i, j \in DOMAIN s : i < j =>
        /\ s[i] \in TaskWrites => s[j] \in SureSteps
        /\ s[i] \notin LastSteps /\ s[j] # "store"

Fitting(s, cap, about) == s \in Seq(EveryStep) /\ \A i \in DOMAIN s : StepFits(s[i], cap, about)

\* What a step relies on was done before it.
NeedBase == {"taskByScope", "taskByAllowed"} \cup TaskWrites
NeedScope == {"taskByScope", "eachTask"} \cup TaskWrites
Ordered(s) ==
    /\ After(s, "row", TaskWrites) /\ After(s, "taskBase", NeedBase) /\ After(s, "scope", NeedScope)
    /\ After(s, "allowed", {"taskByAllowed"}) /\ After(s, "taskByScope", TaskWrites)
    /\ After(s, "cancelled", {"unlink"})
Planned(s, cap, about) == Fitting(s, cap, about) /\ Trailing(s) /\ Ordered(s)


(***************************************************************************)
(* What a call has read, and shows.                                        *)
(***************************************************************************)
CallFields == {"pc", "cap", "byKey", "who", "about", "todo", "allowed", "scope", "left", "half",
               "shown", "status"}
CallTyped ==
    /\ DOMAIN ask = CallFields /\ DOMAIN ask.who = {"person", "role"}
    /\ DOMAIN during = {"grants", "empty", "blind", "turns", "rows"} /\ during.turns \in Nat
    /\ during.blind \in BOOLEAN
    /\ during.rows = <<during.rows[1], during.rows[2], during.rows[3], during.rows[4]>>
    /\ DOMAIN taskState = Imported /\ baseRows \subseteq Bases

\* What was granted while the call ran is known.
GrantsKept ==
    /\ \A n \in Docs : access[n] \subseteq during.grants[n]
    /\ \A b \in Bases : DocsOf(b) = {} => b \in during.empty

\* Everything a call holds it could read at some moment.
Grounded(r) ==
    /\ r.allowed \cup r.scope \subseteq Docs /\ \A n \in r.allowed \cup r.scope : ReadOnce(n)
    /\ r.shown \subseteq Docs \cup Bases \cup Imported /\ \A item \in r.shown : WasReadable(item)
    /\ r.cap = "imports" => /\ r.left \cup r.half \subseteq Imported
                            /\ \A t \in r.half : InsideOnce(BaseOfTask(t))
    /\ r.cap = "bases" => r.left \subseteq Bases

\* Until the steps that need it have come, a base or a list was read, or will be.
Based(r) ==
    /\ After(r.todo, "taskBase", NeedBase) \/ InsideOnce(BaseOfTask(r.about))
    /\ r.scope # {} \/ during.blind \/ After(r.todo, "scope", NeedScope)
    /\ r.allowed # {} \/ during.blind \/ After(r.todo, "allowed", {"taskByAllowed"})

ShowInv == GrantsKept /\ Grounded(ask) /\ (ask.pc = "running" => Based(ask))

Fresh(r) == r.allowed = {} /\ r.scope = {} /\ r.half = {} /\ r.shown = {} /\ r.left = {}
Charted(r) == r.todo # <<>> /\ Fitting(r.todo, r.cap, r.about) /\ Trailing(r.todo)
RunInv ==
    /\ ask.pc \in {"none", "principal", "user"} => Fresh(ask)
    /\ ask.pc \in {"principal", "user"} => ask.cap \in Capabilities /\ ask.about \in Targets(ask.cap)
    /\ ask.pc = "running" => Charted(ask)

(***************************************************************************)
(* What a refused call leaves.                                             *)
(***************************************************************************)
Unchanged == accessRows = during.rows
\* The files of an upload are on disk, and nothing else is.
Staged(r) ==
    /\ r.cap = "upload"
    /\ access = during.rows[1] /\ baseRows = during.rows[2] /\ taskState = during.rows[3]
    /\ staged = during.rows[4] \cup r.half /\ r.half \cap during.rows[4] = {}
\* The task was changed by a call that found it, and finds it again.
Certain(r) ==
    /\ r.about \in Imported /\ r.cap \in {"cancel", "retry"}
    /\ \A i \in DOMAIN r.todo : r.todo[i] \in SureSteps
    /\ taskState[r.about] # "none" /\ CanAccessBase(BaseOfTask(r.about), r.who)
    /\ SeesTask(r.about, r.who, AllowedDocs(r.who)) /\ r.scope = AllowedDocs(r.who)
\* What a change of the task needs holds already, or will have been asked for.
Checked(r) ==
    /\ After(r.todo, "row", TaskWrites) \/ taskState[r.about] # "none"
    /\ After(r.todo, "taskBase", NeedBase) \/ CanAccessBase(BaseOfTask(r.about), r.who)
    /\ After(r.todo, "scope", NeedScope) \/ r.scope = AllowedDocs(r.who)
    /\ After(r.todo, "taskByScope", TaskWrites) \/ SeesTask(r.about, r.who, AllowedDocs(r.who))
    /\ After(r.todo, "cancelled", {"unlink"})
Honest(r) ==
    \/ Certain(r)
    \/ Unchanged /\ Checked(r) /\ (r.cap = "upload" => r.half = {})
    \/ Staged(r) /\ \A i \in DOMAIN r.todo : r.todo[i] # "store"
StagedFor(states) == {t \in Imported : states[t] = "pending"}
RefuseInv ==
    /\ ask.pc = "none" => staged = StagedFor(taskState)
    /\ ask.pc # "none" /\ during.turns = 0 => during.rows[4] = StagedFor(during.rows[3])
    /\ ask.pc \in {"principal", "user", "refused"} /\ during.turns = 0 => Unchanged
    /\ ask.pc = "unstage" /\ during.turns = 0 => Staged(ask)
    /\ ask.pc = "running" /\ during.turns = 0 => Honest(ask)

CallInv == CallTyped /\ ShowInv /\ RunInv /\ RefuseInv

\* A list without the steps that rely on others, or one part after another.
LEMMA NothingBefore ==
    ASSUME NEW s, NEW first, NEW then, \A i \in DOMAIN s : s[i] \notin then
    PROVE  After(s, first, then)
  BY DEF After

LEMMA BothParts ==
    ASSUME NEW s \in Seq(EveryStep), NEW t \in Seq(EveryStep), NEW st, st = s \o t
    PROVE  /\ st \in Seq(EveryStep) /\ Len(st) = Len(s) + Len(t) /\ Len(s) \in Nat /\ Len(t) \in Nat
           /\ DOMAIN st = 1..Len(st) /\ DOMAIN s = 1..Len(s) /\ DOMAIN t = 1..Len(t)
           /\ \A i \in 1..Len(s) : st[i] = s[i]
           /\ \A i \in 1..Len(t) : st[i + Len(s)] = t[i]
  OBVIOUS

LEMMA OneAfterAnother ==
    ASSUME NEW s \in Seq(EveryStep), NEW t \in Seq(EveryStep), NEW first, NEW then,
           After(s, first, then), After(t, first, then) \/ \E k \in DOMAIN s : s[k] = first
    PROVE  After(s \o t, first, then)
  <1> PICK st : st = s \o t
    OBVIOUS
  <1>1. /\ st \in Seq(EveryStep) /\ Len(st) = Len(s) + Len(t) /\ Len(s) \in Nat /\ Len(t) \in Nat
        /\ DOMAIN st = 1..Len(st) /\ DOMAIN s = 1..Len(s) /\ DOMAIN t = 1..Len(t)
        /\ \A i \in 1..Len(s) : st[i] = s[i]
        /\ \A i \in 1..Len(t) : st[i + Len(s)] = t[i]
    BY BothParts
  <1>2. ASSUME NEW i \in DOMAIN st, st[i] \in then
        PROVE  \E j \in DOMAIN st : j < i /\ st[j] = first
    <2>1. CASE i <= Len(s)
      <3>1. i \in DOMAIN s /\ s[i] \in then
        BY <1>1, <1>2, <2>1
      <3>2. PICK j \in DOMAIN s : j < i /\ s[j] = first
        BY <3>1 DEF After
      <3> QED BY <1>1, <3>2
    <2>2. CASE i > Len(s)
      <3>1. CASE \E k \in DOMAIN s : s[k] = first
        BY <1>1, <2>2, <3>1
      <3>2. CASE After(t, first, then)
        <4> PICK m : m = i - Len(s)
          OBVIOUS
        <4>1. m \in DOMAIN t /\ t[m] \in then
          BY <1>1, <1>2, <2>2
        <4>2. PICK j \in DOMAIN t : j < m /\ t[j] = first
          BY <3>2, <4>1 DEF After
        <4>3. j + Len(s) \in DOMAIN st /\ j + Len(s) < i /\ st[j + Len(s)] = first
          BY <1>1, <1>2, <2>2, <4>2
        <4> QED BY <4>3
      <3> QED BY <3>1, <3>2
    <2> QED BY <1>1, <2>1, <2>2
  <1> QED BY <1>2 DEF After

LEMMA PartOfBoth ==
    ASSUME NEW s \in Seq(EveryStep), NEW t \in Seq(EveryStep), NEW i \in DOMAIN (s \o t)
    PROVE  \/ \E j \in DOMAIN s : (s \o t)[i] = s[j]
           \/ \E j \in DOMAIN t : (s \o t)[i] = t[j]
  <1>1. /\ Len(s) \in Nat /\ Len(t) \in Nat /\ i \in 1..(Len(s) + Len(t))
        /\ DOMAIN s = 1..Len(s) /\ DOMAIN t = 1..Len(t)
    OBVIOUS
  <1>2. CASE i <= Len(s)
    BY <1>1, <1>2
  <1>3. CASE i > Len(s)
    <2>1. i - Len(s) \in DOMAIN t /\ (s \o t)[i] = t[i - Len(s)]
      BY <1>1, <1>3
    <2> QED BY <2>1
  <1> QED BY <1>1, <1>2, <1>3

LEMMA FittingBoth ==
    ASSUME NEW s, NEW t, NEW cap, NEW about, Fitting(s, cap, about), Fitting(t, cap, about)
    PROVE  Fitting(s \o t, cap, about)
  <1>1. s \in Seq(EveryStep) /\ t \in Seq(EveryStep) /\ s \o t \in Seq(EveryStep)
    BY DEF Fitting
  <1> QED BY <1>1 DEF Fitting

LEMMA TrailingBoth ==
    ASSUME NEW s \in Seq(EveryStep), NEW t \in Seq(EveryStep), Trailing(s), Trailing(t),
           \A i \in DOMAIN s : s[i] \notin LastSteps, \A i \in DOMAIN t : t[i] # "store",
           \/ \A i \in DOMAIN s : s[i] \notin TaskWrites
           \/ \A i \in DOMAIN t : t[i] \in SureSteps
    PROVE  Trailing(s \o t)
  <1> PICK st : st = s \o t
    OBVIOUS
  <1>1. /\ st \in Seq(EveryStep) /\ Len(st) = Len(s) + Len(t) /\ Len(s) \in Nat /\ Len(t) \in Nat
        /\ DOMAIN st = 1..Len(st) /\ DOMAIN s = 1..Len(s) /\ DOMAIN t = 1..Len(t)
        /\ \A i \in 1..Len(s) : st[i] = s[i]
        /\ \A i \in DOMAIN st : i > Len(s) => i - Len(s) \in DOMAIN t /\ st[i] = t[i - Len(s)]
    OBVIOUS
  <1>2. ASSUME NEW i \in DOMAIN st, NEW j \in DOMAIN st, i < j
        PROVE  /\ st[i] \in TaskWrites => st[j] \in SureSteps
               /\ st[i] \notin LastSteps /\ st[j] # "store"
    <2>1. CASE j <= Len(s)
      <3>1. i \in DOMAIN s /\ j \in DOMAIN s /\ st[i] = s[i] /\ st[j] = s[j]
        BY <1>1, <1>2, <2>1
      <3> QED BY <1>2, <3>1 DEF Trailing
    <2>2. CASE i <= Len(s) /\ j > Len(s)
      <3>1. i \in DOMAIN s /\ st[i] = s[i] /\ j - Len(s) \in DOMAIN t /\ st[j] = t[j - Len(s)]
        BY <1>1, <1>2, <2>2
      <3> QED BY <3>1
    <2>3. CASE i > Len(s)
      <3> PICK k : k = i - Len(s)
        OBVIOUS
      <3> PICK m : m = j - Len(s)
        OBVIOUS
      <3>1. k \in DOMAIN t /\ m \in DOMAIN t /\ k < m /\ st[i] = t[k] /\ st[j] = t[m]
        BY <1>1, <1>2, <2>3
      <3> QED BY <3>1 DEF Trailing
    <2> QED BY <1>1, <1>2, <2>1, <2>2, <2>3
  <1> QED BY <1>2 DEF Trailing

TaskCaps == DOMAIN TaskSteps \cup {"status"}

\* The steps that find a task, alone and where the gateway checks it too.
LEMMA FindTaskPlanned ==
    ASSUME NEW cap \in TaskCaps, NEW about \in Imported
    PROVE  /\ Planned(FindTask, cap, about) /\ FindTask \in Seq(EveryStep)
           /\ \A i \in DOMAIN FindTask : FindTask[i] \in SureSteps /\ FindTask[i] # "unlink"
           /\ \A step \in SureSteps \ {"unlink"} : \E i \in DOMAIN FindTask : FindTask[i] = step
  <1>1. cap \notin {"search", "upload"}
    BY DEF TaskCaps, TaskSteps
  <1>2. /\ FindTask \in Seq(EveryStep) /\ DOMAIN FindTask = 1..4 /\ FindTask[1] = "row"
        /\ FindTask[2] = "scope" /\ FindTask[3] = "taskBase" /\ FindTask[4] = "taskByScope"
    BY DEF FindTask, EveryStep, SureSteps
  <1>3. \A i \in DOMAIN FindTask : FindTask[i] \in {"row", "scope", "taskBase", "taskByScope"}
    BY <1>2
  <1>4. Fitting(FindTask, cap, about)
    BY <1>1, <1>2, <1>3 DEF Fitting, StepFits, EveryStep, SureSteps, TaskWrites
  <1>5. Trailing(FindTask)
    BY <1>3 DEF Trailing, SureSteps, TaskWrites, LastSteps
  <1>6. Ordered(FindTask)
    BY <1>2, <1>3 DEF Ordered, After, NeedBase, NeedScope, TaskWrites
  <1> QED BY <1>2, <1>3, <1>4, <1>5, <1>6 DEF Planned, SureSteps

LEMMA VisibleTaskPlanned ==
    ASSUME NEW cap \in TaskCaps, NEW about \in Imported
    PROVE  /\ Planned(VisibleTask, cap, about) /\ VisibleTask \in Seq(EveryStep)
           /\ \A i \in DOMAIN VisibleTask :
                 VisibleTask[i] \in (SureSteps \cup {"allowed", "taskByAllowed"}) \ {"unlink"}
  <1>1. cap \notin {"search", "upload"}
    BY DEF TaskCaps, TaskSteps
  <1>3. /\ VisibleTask \in Seq(EveryStep) /\ DOMAIN VisibleTask = 1..7 /\ VisibleTask[1] = "allowed"
        /\ VisibleTask[2] = "row" /\ VisibleTask[3] = "scope" /\ VisibleTask[4] = "taskBase"
        /\ VisibleTask[5] = "taskByScope" /\ VisibleTask[6] = "taskBase"
        /\ VisibleTask[7] = "taskByAllowed"
    BY DEF VisibleTask, EveryStep, SureSteps
  <1>4. \A i \in DOMAIN VisibleTask :
          VisibleTask[i] \in {"row", "scope", "taskBase", "taskByScope", "allowed", "taskByAllowed"}
    BY <1>3
  <1>5. Fitting(VisibleTask, cap, about)
    BY <1>1, <1>3, <1>4 DEF Fitting, StepFits, EveryStep, SureSteps, TaskWrites
  <1>6. Trailing(VisibleTask)
    BY <1>4 DEF Trailing, SureSteps, TaskWrites, LastSteps
  <1>7. Ordered(VisibleTask)
    BY <1>3, <1>4 DEF Ordered, After, NeedBase, NeedScope, TaskWrites
  <1> QED BY <1>3, <1>4, <1>5, <1>6, <1>7 DEF Planned, SureSteps

\* A task is found twice, changed, and found again.
LEMMA ChangePlanned ==
    ASSUME NEW cap \in {"cancel", "retry"}, NEW about \in Imported,
           NEW write \in Seq(EveryStep), Fitting(write, cap, about), Trailing(write),
           \A i \in DOMAIN write : write[i] \in TaskWrites \cup {"unlink"},
           After(write, "cancelled", {"unlink"})
    PROVE  Planned(VisibleTask \o FindTask \o write \o FindTask, cap, about)
  <1> PICK v : v = VisibleTask \o FindTask
    OBVIOUS
  <1> PICK w : w = v \o write
    OBVIOUS
  <1>1. cap \in TaskCaps
    BY DEF TaskCaps, TaskSteps
  <1>2. /\ Planned(VisibleTask, cap, about) /\ VisibleTask \in Seq(EveryStep)
        /\ \A i \in DOMAIN VisibleTask :
              VisibleTask[i] \in (SureSteps \cup {"allowed", "taskByAllowed"}) \ {"unlink"}
    BY <1>1, VisibleTaskPlanned
  <1>3. /\ Planned(FindTask, cap, about) /\ FindTask \in Seq(EveryStep)
        /\ \A i \in DOMAIN FindTask : FindTask[i] \in SureSteps /\ FindTask[i] # "unlink"
        /\ \A step \in SureSteps \ {"unlink"} : \E i \in DOMAIN FindTask : FindTask[i] = step
    BY <1>1, FindTaskPlanned
  <1>4. /\ v \in Seq(EveryStep) /\ Fitting(v, cap, about)
        /\ \A i \in DOMAIN v : v[i] \in (SureSteps \cup {"allowed", "taskByAllowed"}) \ {"unlink"}
    <2>1. v \in Seq(EveryStep) /\ Fitting(v, cap, about)
      BY <1>2, <1>3, FittingBoth DEF Planned
    <2>2. \A i \in DOMAIN v : v[i] \in (SureSteps \cup {"allowed", "taskByAllowed"}) \ {"unlink"}
      BY <1>2, <1>3, PartOfBoth
    <2> QED BY <2>1, <2>2
  <1>5. \A step \in SureSteps \ {"unlink"} : \E i \in DOMAIN v : v[i] = step
    <2> TAKE step \in SureSteps \ {"unlink"}
    <2>1. PICK k \in DOMAIN FindTask : FindTask[k] = step
      BY <1>3
    <2>2. Len(VisibleTask) + k \in DOMAIN v /\ v[Len(VisibleTask) + k] = step
      BY <1>2, <1>3, <2>1
    <2> QED BY <2>2
  <1>6. Trailing(v)
    <2>1. \A i \in DOMAIN VisibleTask : VisibleTask[i] \notin LastSteps \cup TaskWrites
      BY <1>2 DEF LastSteps, TaskWrites, SureSteps
    <2>2. \A i \in DOMAIN FindTask : FindTask[i] # "store"
      BY <1>3 DEF SureSteps
    <2> QED BY <1>2, <1>3, <2>1, <2>2, TrailingBoth DEF Planned
  <1>7. Ordered(v)
    BY <1>2, <1>3, OneAfterAnother DEF Planned, Ordered
  <1>8. /\ w \in Seq(EveryStep) /\ Fitting(w, cap, about)
        /\ \A i \in DOMAIN w : w[i] \notin LastSteps \cup {"store"}
    <2>1. w \in Seq(EveryStep) /\ Fitting(w, cap, about)
      BY <1>4, FittingBoth
    <2>2. \A i \in DOMAIN w : w[i] \in SureSteps \cup {"allowed", "taskByAllowed"} \cup TaskWrites
      BY <1>4 DEF SureSteps
    <2> QED BY <2>1, <2>2 DEF SureSteps, LastSteps, TaskWrites
  <1>9. Trailing(w)
    <2>1. \A i \in DOMAIN v : v[i] \notin LastSteps \cup TaskWrites
      BY <1>4 DEF LastSteps, TaskWrites, SureSteps
    <2>2. \A i \in DOMAIN write : write[i] # "store"
      BY DEF TaskWrites
    <2> QED BY <1>4, <1>6, <2>1, <2>2, TrailingBoth
  <1>10. /\ After(w, "row", TaskWrites) /\ After(w, "taskBase", NeedBase)
         /\ After(w, "scope", NeedScope) /\ After(w, "taskByScope", TaskWrites)
    BY <1>4, <1>5, <1>7, OneAfterAnother DEF Ordered, SureSteps
  <1>11. After(w, "allowed", {"taskByAllowed"}) /\ After(w, "cancelled", {"unlink"})
    <2>1. After(write, "allowed", {"taskByAllowed"})
      BY NothingBefore DEF TaskWrites
    <2> QED BY <1>4, <1>7, <2>1, OneAfterAnother DEF Ordered
  <1>12. Trailing(w \o FindTask)
    <2>1. \A i \in DOMAIN FindTask : FindTask[i] # "store" /\ FindTask[i] \in SureSteps
      BY <1>3 DEF SureSteps
    <2> QED BY <1>3, <1>8, <1>9, <2>1, TrailingBoth DEF Planned
  <1>13. Ordered(w \o FindTask)
    BY <1>3, <1>8, <1>10, <1>11, OneAfterAnother DEF Planned, Ordered
  <1>14. Fitting(w \o FindTask, cap, about)
    BY <1>3, <1>8, FittingBoth DEF Planned
  <1> QED BY <1>12, <1>13, <1>14 DEF Planned

\* What the targets are of the calls that name a base or a task.
LEMMA KnownTargets ==
    ASSUME NEW cap
    PROVE  /\ cap \in {"cancel", "retry", "events", "status"} => Targets(cap) = Imported
           /\ cap \in {"base", "dropBase", "nodes"} => Targets(cap) = Bases
  <1>1. /\ DOMAIN TaskSteps = {"cancel", "retry", "events"}
        /\ DOMAIN ResourceSteps = {"search", "grep", "list", "tree"}
    BY DEF TaskSteps, ResourceSteps
  <1> PICK tasks : tasks = DOMAIN TaskSteps \cup {"status"}
    OBVIOUS
  <1> PICK places : places = DOMAIN ResourceSteps \cup {"create", "upload"}
    OBVIOUS
  <1>2. Targets(cap) = CASE cap \in tasks -> Imported
                         [] cap \in {"bases", "imports", "guide"} -> {"all"}
                         [] cap \in {"base", "dropBase", "nodes"} -> Bases
                         [] cap \in places -> Docs \cup Bases
                         [] OTHER -> Docs
    BY DEF Targets
  <1>3. /\ tasks = {"cancel", "retry", "events", "status"}
        /\ places = {"search", "grep", "list", "tree", "create", "upload"}
    BY <1>1
  <1>4. ASSUME cap \in {"cancel", "retry", "events", "status"} PROVE Targets(cap) = Imported
    <2>1. /\ cap \in tasks /\ cap \notin {"bases", "imports", "guide"}
          /\ cap \notin {"base", "dropBase", "nodes"} /\ cap \notin places
      BY <1>3, <1>4
    <2> QED BY <1>2, <2>1
  <1>5. ASSUME cap \in {"base", "dropBase", "nodes"} PROVE Targets(cap) = Bases
    <2>1. /\ cap \notin tasks /\ cap \notin {"bases", "imports", "guide"} /\ cap \notin places
      BY <1>3, <1>5
    <2> QED BY <1>2, <1>5, <2>1
  <1> QED BY <1>4, <1>5

\* Lists none of whose steps relies on another one.
PlainSteps ==
    {"allowed", "matches", "entries", "bases", "eachBase", "base", "inside", "nodes", "node",
     "target", "aimBase", "aim", "make", "store", "eraseNode", "eraseBase"}

LEMMA PlainPlanned ==
    ASSUME NEW s \in Seq(PlainSteps), NEW cap, NEW about,
           cap = "search" => \A i \in DOMAIN s : s[i] \in {"allowed", "matches"},
           cap = "upload" => \A i \in DOMAIN s : s[i] \in UploadSteps,
           about \in Bases \/ \A i \in DOMAIN s : s[i] # "inside",
           cap = "bases" \/ \A i \in DOMAIN s : s[i] \notin {"bases", "eachBase"},
           cap = "upload" \/ \A i \in DOMAIN s : s[i] # "store",
           \A i, j \in DOMAIN s : i < j => s[i] \notin LastSteps /\ s[j] # "store"
    PROVE  Planned(s, cap, about)
  <1>1. \A i \in DOMAIN s : s[i] \in PlainSteps
    OBVIOUS
  <1>2. PlainSteps \subseteq EveryStep
    BY DEF PlainSteps, EveryStep, SureSteps, LastSteps, UploadSteps
  <1>3. s \in Seq(EveryStep)
    BY <1>2
  <1>4. \A i \in DOMAIN s : StepFits(s[i], cap, about)
    BY <1>1, <1>2 DEF StepFits, PlainSteps, SureSteps, TaskWrites
  <1>5. Trailing(s)
    BY <1>1 DEF Trailing, PlainSteps, TaskWrites
  <1>6. \A i \in DOMAIN s : s[i] \notin NeedBase \cup NeedScope \cup TaskWrites \cup {"unlink", "taskByAllowed"}
    BY <1>1 DEF PlainSteps, NeedBase, NeedScope, TaskWrites
  <1>7. Ordered(s)
    BY <1>6, NothingBefore DEF Ordered
  <1> QED BY <1>3, <1>4, <1>5, <1>7 DEF Planned, Fitting

LEMMA OneStep ==
    ASSUME NEW step \in PlainSteps, NEW cap, NEW about, cap \notin {"search", "upload", "bases"},
           step \notin {"inside", "store", "bases", "eachBase"}
    PROVE  Planned(<<step>>, cap, about)
  <1> PICK s : s = <<step>>
    OBVIOUS
  <1>1. s \in Seq(PlainSteps) /\ DOMAIN s = 1..1 /\ s[1] = step
    OBVIOUS
  <1>2. \A i \in DOMAIN s : s[i] = step /\ i = 1
    BY <1>1
  <1>3. \A i, j \in DOMAIN s : i < j => s[i] \notin LastSteps /\ s[j] # "store"
    BY <1>1, <1>2
  <1>4. \A i \in DOMAIN s : s[i] \notin {"inside", "store", "bases", "eachBase"}
    BY <1>2
  <1> QED BY <1>1, <1>3, <1>4, PlainPlanned

LEMMA TwoSteps ==
    ASSUME NEW step \in PlainSteps, NEW next \in PlainSteps, NEW cap, NEW about,
           cap = "search" => step = "allowed" /\ next = "matches", cap # "upload",
           cap = "bases" \/ (step \notin {"bases", "eachBase"} /\ next \notin {"bases", "eachBase"}),
           about \in Bases \/ (step # "inside" /\ next # "inside"),
           step \notin LastSteps \cup {"store"}, next # "store"
    PROVE  Planned(<<step, next>>, cap, about)
  <1> PICK s : s = <<step, next>>
    OBVIOUS
  <1>1. s \in Seq(PlainSteps) /\ DOMAIN s = 1..2 /\ s[1] = step /\ s[2] = next
    OBVIOUS
  <1>2. \A i \in DOMAIN s : (s[i] = step /\ i = 1) \/ (s[i] = next /\ i = 2)
    BY <1>1
  <1>3. \A i, j \in DOMAIN s : i < j => s[i] \notin LastSteps /\ s[j] # "store"
    BY <1>1, <1>2
  <1>4. cap = "search" => \A i \in DOMAIN s : s[i] \in {"allowed", "matches"}
    BY <1>2
  <1>5. about \in Bases \/ \A i \in DOMAIN s : s[i] # "inside"
    BY <1>2
  <1>6. cap = "bases" \/ \A i \in DOMAIN s : s[i] \notin {"bases", "eachBase"}
    BY <1>2
  <1>7. \A i \in DOMAIN s : s[i] # "store"
    BY <1>2
  <1> QED BY <1>1, <1>3, <1>4, <1>5, <1>6, <1>7, PlainPlanned

LEMMA ThreeSteps ==
    ASSUME NEW step \in PlainSteps, NEW next \in PlainSteps, NEW last \in PlainSteps,
           NEW cap, NEW about, cap \notin {"search", "upload"}, about \in Bases,
           {step, next, last} \cap {"store", "bases", "eachBase"} = {},
           step \notin LastSteps, next \notin LastSteps
    PROVE  Planned(<<step, next, last>>, cap, about)
  <1> PICK s : s = <<step, next, last>>
    OBVIOUS
  <1>1. s \in Seq(PlainSteps) /\ DOMAIN s = 1..3 /\ s[1] = step /\ s[2] = next /\ s[3] = last
    OBVIOUS
  <1>2. \A i \in DOMAIN s : (s[i] = step /\ i = 1) \/ (s[i] = next /\ i = 2) \/ (s[i] = last /\ i = 3)
    BY <1>1
  <1>3. \A i, j \in DOMAIN s : i < j => s[i] \notin LastSteps /\ s[j] # "store"
    <2>1. last # "store" /\ next # "store" /\ step # "store"
      OBVIOUS
    <2>2. \A i \in DOMAIN s : s[i] # "store"
      BY <1>2, <2>1
    <2>3. \A i, j \in DOMAIN s : i < j => i # 3
      BY <1>1
    <2>4. \A i \in DOMAIN s : i # 3 => s[i] \in {step, next}
      BY <1>1
    <2> QED BY <2>2, <2>3, <2>4
  <1> QED BY <1>1, <1>2, <1>3, PlainPlanned

LEMMA ResourcePlanned ==
    ASSUME NEW cap \in DOMAIN ResourceSteps, NEW about
    PROVE  Planned(ResourceSteps[cap], cap, about)
  <1>1. cap \in {"search", "grep", "list", "tree"}
    BY DEF ResourceSteps
  <1>2. {"allowed", "matches", "entries"} \subseteq PlainSteps \ LastSteps
    BY DEF PlainSteps, LastSteps
  <1>3. CASE cap \in {"search", "grep"}
    <2>1. ResourceSteps[cap] = <<"allowed", "matches">>
      BY <1>3 DEF ResourceSteps
    <2>2. Planned(<<"allowed", "matches">>, cap, about)
      BY <1>1, <1>2, TwoSteps
    <2> QED BY <2>1, <2>2
  <1>4. CASE cap \in {"list", "tree"}
    <2>1. ResourceSteps[cap] = <<"allowed", "entries">>
      BY <1>4 DEF ResourceSteps
    <2>2. Planned(<<"allowed", "entries">>, cap, about)
      BY <1>2, <1>4, TwoSteps
    <2> QED BY <2>1, <2>2
  <1> QED BY <1>1, <1>3, <1>4

LEMMA BasePlanned ==
    ASSUME NEW cap \in DOMAIN BaseSteps, NEW about \in Targets(cap)
    PROVE  Planned(BaseSteps[cap], cap, about)
  <1>1. cap \in {"bases", "base", "dropBase"} /\ (cap # "bases" => about \in Bases)
    BY KnownTargets DEF BaseSteps
  <1>2. {"bases", "eachBase", "base", "inside"} \subseteq PlainSteps \ LastSteps /\ "eraseBase" \in PlainSteps
    BY DEF PlainSteps, LastSteps
  <1>3. CASE cap = "bases"
    <2>1. BaseSteps[cap] = <<"bases", "eachBase">>
      BY <1>3 DEF BaseSteps
    <2>2. Planned(<<"bases", "eachBase">>, cap, about)
      BY <1>2, <1>3, TwoSteps
    <2> QED BY <2>1, <2>2
  <1>4. CASE cap = "base"
    <2>1. BaseSteps[cap] = <<"base", "inside">>
      BY <1>4 DEF BaseSteps
    <2>2. Planned(<<"base", "inside">>, cap, about)
      BY <1>1, <1>2, <1>4, TwoSteps
    <2> QED BY <2>1, <2>2
  <1>5. CASE cap = "dropBase"
    <2>1. BaseSteps[cap] = <<"base", "inside", "eraseBase">>
      BY <1>5 DEF BaseSteps
    <2>2. Planned(<<"base", "inside", "eraseBase">>, cap, about)
      BY <1>1, <1>2, <1>5, ThreeSteps
    <2> QED BY <2>1, <2>2
  <1> QED BY <1>1, <1>3, <1>4, <1>5

LEMMA TreePlanned ==
    ASSUME NEW cap \in DOMAIN TreeSteps, NEW about \in Targets(cap)
    PROVE  Planned(TreeSteps[cap], cap, about)
  <1>1. cap \in {"nodes", "node", "dropNode"} /\ (cap = "nodes" => about \in Bases)
    BY KnownTargets DEF TreeSteps
  <1>2. {"base", "inside", "nodes", "node"} \subseteq PlainSteps \ LastSteps /\ "eraseNode" \in PlainSteps
    BY DEF PlainSteps, LastSteps
  <1>3. CASE cap = "nodes"
    <2>1. TreeSteps[cap] = <<"base", "inside", "nodes">>
      BY <1>3 DEF TreeSteps
    <2>2. Planned(<<"base", "inside", "nodes">>, cap, about)
      BY <1>1, <1>2, <1>3, ThreeSteps
    <2> QED BY <2>1, <2>2
  <1>4. CASE cap = "node"
    <2>1. TreeSteps[cap] = <<"node">>
      BY <1>4 DEF TreeSteps
    <2>2. Planned(<<"node">>, cap, about)
      BY <1>2, <1>4, OneStep
    <2> QED BY <2>1, <2>2
  <1>5. CASE cap = "dropNode"
    <2>1. TreeSteps[cap] = <<"node", "eraseNode">>
      BY <1>5 DEF TreeSteps
    <2>2. Planned(<<"node", "eraseNode">>, cap, about)
      BY <1>2, <1>5, TwoSteps
    <2> QED BY <2>1, <2>2
  <1> QED BY <1>1, <1>3, <1>4, <1>5

LEMMA FourSteps ==
    ASSUME NEW step \in {"target", "store"}, NEW cap, NEW about,
           IF step = "store" THEN cap = "upload" ELSE cap = "create"
    PROVE  Planned(<<step, "aimBase", "aim", "make">>, cap, about)
  <1> PICK s : s = <<step, "aimBase", "aim", "make">>
    OBVIOUS
  <1>1. /\ s \in Seq(PlainSteps) /\ DOMAIN s = 1..4 /\ s[1] = step /\ s[2] = "aimBase"
        /\ s[3] = "aim" /\ s[4] = "make"
    BY DEF PlainSteps
  <1>2. \A i \in DOMAIN s : /\ s[i] \in {step, "aimBase", "aim", "make"}
                            /\ s[i] = "make" => i = 4
                            /\ s[i] = step => i = 1
    BY <1>1
  <1>3. \A i, j \in DOMAIN s : i < j => s[i] \notin LastSteps /\ s[j] # "store"
    BY <1>1, <1>2 DEF LastSteps
  <1> QED BY <1>1, <1>2, <1>3, PlainPlanned DEF UploadSteps

LEMMA ImportPlanned ==
    ASSUME NEW cap \in DOMAIN ImportSteps, NEW about \in Targets(cap)
    PROVE  Planned(ImportSteps[cap], cap, about)
  <1>1. cap \in {"create", "upload", "status", "imports"}
    BY DEF ImportSteps
  <1>2. CASE cap = "create"
    <2>1. ImportSteps[cap] = <<"target", "aimBase", "aim", "make">>
      BY <1>2 DEF ImportSteps
    <2>2. Planned(<<"target", "aimBase", "aim", "make">>, cap, about)
      BY <1>2, FourSteps
    <2> QED BY <2>1, <2>2
  <1>3. CASE cap = "upload"
    <2>1. ImportSteps[cap] = <<"store", "aimBase", "aim", "make">>
      BY <1>3 DEF ImportSteps
    <2>2. Planned(<<"store", "aimBase", "aim", "make">>, cap, about)
      BY <1>3, FourSteps
    <2> QED BY <2>1, <2>2
  <1>4. CASE cap = "imports"
    <2> PICK s : s = <<"rows", "scope", "eachTask">>
      OBVIOUS
    <2>1. /\ s \in Seq(EveryStep) /\ DOMAIN s = 1..3 /\ s[1] = "rows" /\ s[2] = "scope" /\ s[3] = "eachTask"
      BY DEF EveryStep, SureSteps
    <2>2. \A i \in DOMAIN s : s[i] \in {"rows", "scope", "eachTask"}
      BY <2>1
    <2>3. Fitting(s, cap, about)
      BY <1>4, <2>1, <2>2 DEF Fitting, StepFits, SureSteps, TaskWrites
    <2>4. Trailing(s)
      BY <2>2 DEF Trailing, LastSteps, TaskWrites
    <2>5. Ordered(s)
      BY <2>1, <2>2 DEF Ordered, After, NeedBase, NeedScope, TaskWrites
    <2>6. ImportSteps[cap] = s
      BY <1>4 DEF ImportSteps
    <2> QED BY <2>3, <2>4, <2>5, <2>6 DEF Planned
  <1>5. CASE cap = "status"
    <2>1. cap \in TaskCaps /\ about \in Imported /\ ImportSteps[cap] = VisibleTask
      BY <1>5, KnownTargets DEF ImportSteps, TaskCaps
    <2> QED BY <2>1, VisibleTaskPlanned
  <1> QED BY <1>1, <1>2, <1>3, <1>4, <1>5

LEMMA TaskPlanned ==
    ASSUME NEW cap \in DOMAIN TaskSteps, NEW about \in Targets(cap)
    PROVE  Planned(TaskSteps[cap], cap, about)
  <1> PICK s : s = TaskSteps[cap]
    OBVIOUS
  <1>1. cap \in {"cancel", "retry", "events"} /\ about \in Imported
    BY KnownTargets DEF TaskSteps
  <1>2. CASE cap = "events"
    <2>1. cap \in TaskCaps /\ s = VisibleTask
      BY <1>2 DEF TaskSteps, TaskCaps
    <2> QED BY <1>1, <2>1, VisibleTaskPlanned
  <1>3. CASE cap = "cancel"
    <2> PICK write : write = <<"cancelled", "unlink">>
      OBVIOUS
    <2>1. s = VisibleTask \o FindTask \o write \o FindTask
      BY <1>3 DEF TaskSteps
    <2>2. /\ write \in Seq(EveryStep) /\ DOMAIN write = 1..2
          /\ write[1] = "cancelled" /\ write[2] = "unlink"
      BY DEF EveryStep, SureSteps, TaskWrites
    <2>3. \A i \in DOMAIN write : write[i] \in TaskWrites \cup {"unlink"}
      BY <2>2 DEF TaskWrites
    <2>4. Fitting(write, cap, about)
      BY <1>1, <1>3, <2>2, <2>3 DEF Fitting, StepFits, SureSteps, TaskWrites
    <2>5. Trailing(write) /\ After(write, "cancelled", {"unlink"})
      BY <2>2 DEF Trailing, After, LastSteps, SureSteps, TaskWrites
    <2> QED BY <1>1, <1>3, <2>1, <2>2, <2>3, <2>4, <2>5, ChangePlanned
  <1>4. CASE cap = "retry"
    <2> PICK write : write = <<"queued">>
      OBVIOUS
    <2>1. s = VisibleTask \o FindTask \o write \o FindTask
      BY <1>4 DEF TaskSteps
    <2>2. write \in Seq(EveryStep) /\ DOMAIN write = 1..1 /\ write[1] = "queued"
      BY DEF EveryStep, TaskWrites
    <2>3. \A i \in DOMAIN write : write[i] \in TaskWrites \cup {"unlink"}
      BY <2>2 DEF TaskWrites
    <2>4. Fitting(write, cap, about)
      BY <1>1, <1>4, <2>2, <2>3 DEF Fitting, StepFits, SureSteps, TaskWrites
    <2>5. Trailing(write) /\ After(write, "cancelled", {"unlink"})
      BY <2>2 DEF Trailing, After, LastSteps, SureSteps, TaskWrites
    <2> QED BY <1>1, <1>4, <2>1, <2>2, <2>3, <2>4, <2>5, ChangePlanned
  <1> QED BY <1>1, <1>2, <1>3, <1>4

LEMMA DocumentPlanned ==
    ASSUME NEW cap \in DOMAIN DocumentSteps, NEW about
    PROVE  Planned(DocumentSteps[cap], cap, about)
  <1>1. cap \in {"index", "rebuild", "draft", "guide"}
    BY DEF DocumentSteps
  <1>2. CASE cap = "guide"
    <2> PICK s : s = DocumentSteps[cap]
      OBVIOUS
    <2>1. s = <<>>
      BY <1>2 DEF DocumentSteps
    <2>2. s \in Seq(PlainSteps) /\ DOMAIN s = {}
      BY <2>1
    <2> QED BY <1>2, <2>2, PlainPlanned
  <1>3. CASE cap \in {"index", "rebuild", "draft"}
    <2>1. DocumentSteps[cap] = <<"node">>
      BY <1>3 DEF DocumentSteps
    <2>2. Planned(<<"node">>, cap, about)
      <3>1. "node" \in PlainSteps
        BY DEF PlainSteps
      <3> QED BY <1>3, <3>1, OneStep
    <2> QED BY <2>1, <2>2
  <1> QED BY <1>1, <1>2, <1>3

\* The lists of steps of all capabilities are well planned.
LEMMA StepsPlanned ==
    ASSUME NEW cap \in Capabilities, NEW about \in Targets(cap)
    PROVE  Planned(StepsOf(cap), cap, about)
  <1>1. PICK contracts \in Contracts : cap \in DOMAIN contracts
    BY DEF Capabilities
  <1>2. \E table \in StepTables : cap \in DOMAIN table
    BY <1>1 DEF Contracts, StepTables, ResourceContracts, BaseContracts, TreeContracts, ImportContracts,
       TaskContracts, DocumentContracts, ResourceSteps, BaseSteps, TreeSteps, ImportSteps, TaskSteps,
       DocumentSteps
  <1> PICK table : table = CHOOSE t \in StepTables : cap \in DOMAIN t
    OBVIOUS
  <1>3. table \in StepTables /\ cap \in DOMAIN table
    BY <1>2
  <1>4. StepsOf(cap) = table[cap]
    BY DEF StepsOf
  <1> QED BY <1>3, <1>4, ResourcePlanned, BasePlanned, TreePlanned, ImportPlanned, TaskPlanned,
             DocumentPlanned DEF StepTables

(***************************************************************************)
(* One step of the list.                                                   *)
(***************************************************************************)
LEMMA TailPlan ==
    ASSUME NEW s \in Seq(EveryStep), s # <<>>
    PROVE  /\ Tail(s) \in Seq(EveryStep) /\ Len(s) \in Nat \ {0} /\ Len(Tail(s)) = Len(s) - 1
           /\ 1 \in DOMAIN s /\ s[1] = Head(s) /\ (Len(s) # 1 => Tail(s) # <<>>)
           /\ \A i \in DOMAIN Tail(s) : i + 1 \in DOMAIN s /\ Tail(s)[i] = s[i + 1] /\ 1 < i + 1
           /\ \A i \in DOMAIN s : i # 1 => i - 1 \in DOMAIN Tail(s) /\ Tail(s)[i - 1] = s[i]
  <1>1. Len(s) \in Nat \ {0} /\ DOMAIN s = 1..Len(s) /\ s[1] = Head(s)
    OBVIOUS
  <1>2. /\ Tail(s) \in Seq(EveryStep) /\ Len(Tail(s)) = Len(s) - 1
        /\ \A i \in 1..(Len(s) - 1) : Tail(s)[i] = s[i + 1]
    BY <1>1
  <1>3. DOMAIN Tail(s) = 1..(Len(s) - 1)
    BY <1>2
  <1>4. Len(s) # 1 => Tail(s) # <<>>
    BY <1>1, <1>2
  <1>5. ASSUME NEW i \in DOMAIN s, i # 1
        PROVE  i - 1 \in DOMAIN Tail(s) /\ Tail(s)[i - 1] = s[i]
    <2> PICK j : j = i - 1
      OBVIOUS
    <2>1. j \in 1..(Len(s) - 1) /\ j + 1 = i
      BY <1>1, <1>5
    <2>2. Tail(s)[j] = s[j + 1]
      BY <1>2, <2>1
    <2> QED BY <1>3, <2>1, <2>2
  <1> QED BY <1>1, <1>2, <1>3, <1>4, <1>5

LEMMA TailAfter ==
    ASSUME NEW s \in Seq(EveryStep), s # <<>>, NEW first, NEW then, After(s, first, then)
    PROVE  /\ Head(s) \notin then
           /\ Head(s) # first => After(Tail(s), first, then)
  <1>1. Head(s) \notin then
    <2>1. 1 \in DOMAIN s /\ s[1] = Head(s) /\ DOMAIN s \subseteq Nat \ {0}
      BY TailPlan
    <2> QED BY <2>1 DEF After
  <1>2. ASSUME Head(s) # first, NEW i \in DOMAIN Tail(s), Tail(s)[i] \in then
        PROVE  \E j \in DOMAIN Tail(s) : j < i /\ Tail(s)[j] = first
    <2> PICK k : k = i + 1
      OBVIOUS
    <2>1. k \in DOMAIN s /\ s[k] \in then
      BY <1>2, TailPlan
    <2>2. PICK j \in DOMAIN s : j < k /\ s[j] = first
      BY <2>1 DEF After
    <2>3. j # 1
      BY <1>2, <2>2, TailPlan
    <2>4. j - 1 \in DOMAIN Tail(s) /\ Tail(s)[j - 1] = first
      BY <2>2, <2>3, TailPlan
    <2>5. i \in Nat /\ j \in Nat /\ j - 1 < i
      BY <2>2, TailPlan
    <2> QED BY <2>4, <2>5
  <1> QED BY <1>1, <1>2 DEF After

LEMMA TailCharted ==
    ASSUME NEW s \in Seq(EveryStep), s # <<>>, NEW cap, NEW about, Fitting(s, cap, about), Trailing(s)
    PROVE  /\ Fitting(Tail(s), cap, about) /\ Trailing(Tail(s)) /\ StepFits(Head(s), cap, about)
           /\ Head(s) \in LastSteps => Len(s) = 1
           /\ \A i \in DOMAIN Tail(s) :
                 Tail(s)[i] # "store" /\ (Head(s) \in TaskWrites => Tail(s)[i] \in SureSteps)
  <1> PICK t : t = Tail(s)
    OBVIOUS
  <1>1. /\ t \in Seq(EveryStep) /\ Len(s) \in Nat \ {0} /\ 1 \in DOMAIN s /\ s[1] = Head(s)
        /\ \A i \in DOMAIN t : i + 1 \in DOMAIN s /\ t[i] = s[i + 1] /\ 1 < i + 1
    BY TailPlan
  <1>2. StepFits(Head(s), cap, about)
    BY <1>1 DEF Fitting
  <1>3. Fitting(t, cap, about)
    BY <1>1 DEF Fitting
  <1>4. Trailing(t)
    <2>1. ASSUME NEW i \in DOMAIN t, NEW j \in DOMAIN t, i < j
          PROVE  (t[i] \in TaskWrites => t[j] \in SureSteps) /\ t[i] \notin LastSteps /\ t[j] # "store"
      <3>1. i + 1 < j + 1
        BY <1>1, <2>1
      <3> PICK k : k = i + 1
        OBVIOUS
      <3> PICK m : m = j + 1
        OBVIOUS
      <3>2. k \in DOMAIN s /\ m \in DOMAIN s /\ k < m /\ t[i] = s[k] /\ t[j] = s[m]
        BY <1>1, <3>1
      <3> QED BY <3>2 DEF Trailing
    <2> QED BY <2>1 DEF Trailing
  <1>5. ASSUME NEW i \in DOMAIN t
        PROVE  t[i] # "store" /\ (Head(s) \in TaskWrites => t[i] \in SureSteps)
    <2> PICK k : k = i + 1
      OBVIOUS
    <2>1. k \in DOMAIN s /\ 1 < k /\ t[i] = s[k]
      BY <1>1
    <2> QED BY <1>1, <2>1 DEF Trailing
  <1>6. ASSUME Head(s) \in LastSteps PROVE Len(s) = 1
    <2>1. \A i \in DOMAIN s : ~ (1 < i)
      BY <1>1, <1>6 DEF Trailing
    <2>2. DOMAIN s = 1..Len(s)
      OBVIOUS
    <2>3. PICK n \in Nat : n = Len(s) /\ n # 0
      BY <1>1
    <2>4. 2 \notin 1..n
      BY <2>1, <2>2, <2>3
    <2>5. n = 1
      BY <2>4, <2>3
    <2> QED BY <2>3, <2>5
  <1> QED BY <1>2, <1>3, <1>4, <1>5, <1>6

(***************************************************************************)
(* What was witnessed stays so.                                            *)
(***************************************************************************)
LEMMA WitnessedFields ==
    ASSUME CallTyped, NEW k \in Nat, Witnessed(k)
    PROVE  /\ DOMAIN during' = {"grants", "empty", "blind", "turns", "rows"}
           /\ during'.grants = [n \in Docs |-> during.grants[n] \cup access'[n]]
           /\ during'.empty = during.empty \cup {b \in Bases : DocsOf(b)' = {}}
           /\ (during.blind => during'.blind) /\ (AllowedDocs(Reader(ask))' = {} => during'.blind)
           /\ during'.turns = during.turns + k /\ during'.turns \in Nat /\ during'.rows = during.rows
           /\ during'.turns = 0 => during.turns = 0 /\ k = 0
  <1>1. DOMAIN during = {"grants", "empty", "blind", "turns", "rows"} /\ during.turns \in Nat
    BY DEF CallTyped
  <1>2. /\ DOMAIN during' = {"grants", "empty", "blind", "turns", "rows"}
        /\ during'.grants = [n \in Docs |-> during.grants[n] \cup access'[n]]
        /\ during'.rows = during.rows
    BY <1>1 DEF Witnessed
  <1>3. during'.empty = during.empty \cup {b \in Bases : DocsOf(b)' = {}}
    BY <1>1 DEF Witnessed
  <1>4. during'.turns = during.turns + k
    BY <1>1 DEF Witnessed
  <1>5. (during.blind => during'.blind) /\ (AllowedDocs(Reader(ask))' = {} => during'.blind)
    <2> PICK none : none = (AllowedDocs(Reader(ask))' = {})
      OBVIOUS
    <2>1. during'.blind = (during.blind \/ none)
      BY <1>1 DEF Witnessed
    <2> QED BY <2>1
  <1> QED BY <1>1, <1>2, <1>3, <1>4, <1>5

LEMMA WitnessedGrants ==
    ASSUME CallTyped, NEW k \in Nat, Witnessed(k)
    PROVE  GrantsKept'
  <1> PICK there : there = [b \in Bases |-> DocsOf(b)']
    OBVIOUS
  <1>1. /\ during'.grants = [n \in Docs |-> during.grants[n] \cup access'[n]]
        /\ during'.empty = during.empty \cup {b \in Bases : DocsOf(b)' = {}}
    BY WitnessedFields
  <1>2. \A n \in Docs : access'[n] \subseteq during'.grants[n]
    BY <1>1
  <1>3. \A b \in Bases : DocsOf(b)' = {} => b \in during'.empty
    BY <1>1
  <1> QED BY <1>2, <1>3 DEF GrantsKept

LEMMA WitnessedStays ==
    ASSUME CallTyped, NEW k \in Nat, Witnessed(k), Reader(ask)' = Reader(ask)
    PROVE  /\ \A n \in Docs : ReadOnce(n) => ReadOnce(n)'
           /\ \A b : InsideOnce(b) => InsideOnce(b)'
           /\ \A item \in Docs \cup Bases \cup Imported : WasReadable(item) => WasReadable(item)'
  <1>1. /\ during'.grants = [n \in Docs |-> during.grants[n] \cup access'[n]]
        /\ during'.empty = during.empty \cup {b \in Bases : DocsOf(b)' = {}}
        /\ during.blind => during'.blind
    BY WitnessedFields
  <1>2. ASSUME NEW n \in Docs, ReadOnce(n) PROVE ReadOnce(n)'
    BY <1>1, <1>2 DEF ReadOnce
  <1>3. ASSUME NEW b, InsideOnce(b) PROVE InsideOnce(b)'
    BY <1>1, <1>2, <1>3 DEF InsideOnce
  <1>4. ASSUME NEW t \in Imported, SeenOnce(t) PROVE SeenOnce(t)'
    <2>1. BaseOfTask(t)' = BaseOfTask(t)
      BY DEF BaseOfTask
    <2> QED BY <1>1, <1>2, <1>3, <1>4, <2>1 DEF SeenOnce
  <1>5. \A item \in Docs \cup Bases \cup Imported : WasReadable(item) => WasReadable(item)'
    BY <1>2, <1>3, <1>4 DEF WasReadable
  <1> QED BY <1>2, <1>3, <1>5

SameCall(r) ==
    /\ DOMAIN r = CallFields /\ r.who = ask.who /\ r.cap = ask.cap /\ r.about = ask.about
SameData(r, q) ==
    /\ q.allowed = r.allowed /\ q.scope = r.scope /\ q.left = r.left /\ q.half = r.half
    /\ q.shown = r.shown

LEMMA ResumedFields ==
    ASSUME NEW r, DOMAIN r = CallFields
    PROVE  /\ DOMAIN Resumed(r) = CallFields /\ Resumed(r).todo = Tail(r.todo)
           /\ Resumed(r).pc = IF Len(r.todo) = 1 THEN "answered" ELSE "running"
           /\ Resumed(r).who = r.who /\ Resumed(r).cap = r.cap /\ Resumed(r).about = r.about
           /\ SameData(r, Resumed(r))
  BY DEF Resumed, CallFields, SameData

LEMMA GroundedStays ==
    ASSUME CallTyped, NEW r, Grounded(r), NEW k \in Nat, Witnessed(k), Reader(ask)' = Reader(ask),
           SameData(r, ask'), ask'.cap = r.cap
    PROVE  Grounded(ask)'
  <1>1. /\ \A n \in Docs : ReadOnce(n) => ReadOnce(n)'
        /\ \A b : InsideOnce(b) => InsideOnce(b)'
        /\ \A item \in Docs \cup Bases \cup Imported : WasReadable(item) => WasReadable(item)'
    BY WitnessedStays
  <1>2. \A t : BaseOfTask(t)' = BaseOfTask(t)
    BY DEF BaseOfTask
  <1>3. /\ ask'.allowed \cup ask'.scope \subseteq Docs
        /\ \A n \in ask'.allowed \cup ask'.scope : ReadOnce(n)'
    BY <1>1 DEF Grounded, SameData
  <1>4. /\ ask'.shown \subseteq Docs \cup Bases \cup Imported
        /\ \A item \in ask'.shown : WasReadable(item)'
    BY <1>1 DEF Grounded, SameData
  <1>5. ask'.cap = "imports" => /\ ask'.left \cup ask'.half \subseteq Imported
                                /\ \A t \in ask'.half : InsideOnce(BaseOfTask(t))'
    BY <1>1, <1>2 DEF Grounded, SameData
  <1>6. ask'.cap = "bases" => ask'.left \subseteq Bases
    BY DEF Grounded, SameData
  <1> QED BY <1>3, <1>4, <1>5, <1>6 DEF Grounded

LEMMA TypedStays ==
    ASSUME CallTyped, NEW k \in Nat, Witnessed(k), DOMAIN ask' = CallFields,
           DOMAIN ask'.who = {"person", "role"}, DOMAIN taskState' = DOMAIN taskState,
           baseRows' \subseteq baseRows
    PROVE  CallTyped'
  <1>1. /\ DOMAIN during' = {"grants", "empty", "blind", "turns", "rows"}
        /\ during'.turns \in Nat /\ during'.rows = during.rows
    BY WitnessedFields
  <1>2. during'.blind \in BOOLEAN
    <2> PICK none : none = (AllowedDocs(Reader(ask))' = {})
      OBVIOUS
    <2>1. during'.blind = (during.blind \/ none)
      BY DEF Witnessed, CallTyped
    <2> QED BY <2>1
  <1> QED BY <1>1, <1>2 DEF CallTyped

\* A step of the list is done.
LEMMA CallGoesOn ==
    ASSUME CallInv, NEW step, Running(step), NEW r, SameCall(r), r.todo = ask.todo, ask' = Resumed(r),
           Witness, DOMAIN taskState' = DOMAIN taskState, baseRows' \subseteq baseRows, Grounded(r),
           step = "taskBase" => InsideOnce(BaseOfTask(ask.about)),
           IF step = "scope" THEN r.scope = {} => during'.blind ELSE r.scope = ask.scope,
           IF step = "allowed" THEN r.allowed = {} => during'.blind ELSE r.allowed = ask.allowed
    PROVE  CallTyped' /\ ShowInv' /\ RunInv'
  <1>1. /\ DOMAIN ask' = CallFields /\ ask'.todo = Tail(ask.todo) /\ SameData(r, ask')
        /\ ask'.pc = (IF Len(ask.todo) = 1 THEN "answered" ELSE "running")
        /\ ask'.who = ask.who /\ ask'.cap = ask.cap /\ ask'.about = ask.about
    BY ResumedFields DEF SameCall
  <1>2. CallTyped /\ Witnessed(0) /\ 0 \in Nat
    BY DEF CallInv, Witness
  <1>3. Reader(ask)' = Reader(ask)
    BY <1>1 DEF Reader
  <1>4. CallTyped'
    BY <1>1, <1>2, TypedStays DEF CallTyped
  <1>5. Grounded(ask)' /\ GrantsKept'
    BY <1>1, <1>2, <1>3, GroundedStays, WitnessedGrants DEF SameCall
  <1>6. /\ Head(ask.todo) = step /\ ask.pc = "running" /\ ask.todo # <<>> /\ ask.todo \in Seq(EveryStep)
        /\ Fitting(ask.todo, ask.cap, ask.about) /\ Trailing(ask.todo) /\ Based(ask)
    BY DEF CallInv, RunInv, Charted, Running, ShowInv, Fitting
  <1>7. ask'.pc = "running" => Charted(ask)'
    <2>1. Fitting(ask'.todo, ask.cap, ask.about) /\ Trailing(ask'.todo)
      BY <1>1, <1>6, TailCharted
    <2>2. Len(ask.todo) # 1 => ask'.todo # <<>>
      BY <1>1, <1>6, TailPlan
    <2> QED BY <1>1, <2>1, <2>2 DEF Charted
  <1>8. Based(ask)'
    <2>1. After(ask'.todo, "taskBase", NeedBase) \/ InsideOnce(BaseOfTask(ask.about))
      BY <1>1, <1>6, TailAfter DEF Based
    <2>2. \A b : InsideOnce(b) => InsideOnce(b)'
      BY <1>2, <1>3, WitnessedStays
    <2>3. BaseOfTask(ask.about)' = BaseOfTask(ask.about)
      BY <1>1 DEF BaseOfTask
    <2>4. during.blind => during'.blind
      BY <1>2, WitnessedFields
    <2>5. ask'.scope # {} \/ during'.blind \/ After(ask'.todo, "scope", NeedScope)
      <3>1. ask'.scope = r.scope
        BY <1>1 DEF SameData
      <3>2. CASE step = "scope"
        BY <3>1, <3>2
      <3>3. CASE step # "scope"
        <4>1. ask.scope # {} \/ during.blind \/ After(ask.todo, "scope", NeedScope)
          BY <1>6 DEF Based
        <4>2. After(ask.todo, "scope", NeedScope) => After(ask'.todo, "scope", NeedScope)
          BY <1>1, <1>6, <3>3, TailAfter
        <4> QED BY <2>4, <3>1, <3>3, <4>1, <4>2
      <3> QED BY <3>2, <3>3
    <2>6. ask'.allowed # {} \/ during'.blind \/ After(ask'.todo, "allowed", {"taskByAllowed"})
      <3>1. ask'.allowed = r.allowed
        BY <1>1 DEF SameData
      <3>2. CASE step = "allowed"
        BY <3>1, <3>2
      <3>3. CASE step # "allowed"
        <4>1. ask.allowed # {} \/ during.blind \/ After(ask.todo, "allowed", {"taskByAllowed"})
          BY <1>6 DEF Based
        <4>2. After(ask.todo, "allowed", {"taskByAllowed"}) => After(ask'.todo, "allowed", {"taskByAllowed"})
          BY <1>1, <1>6, <3>3, TailAfter
        <4> QED BY <2>4, <3>1, <3>3, <4>1, <4>2
      <3> QED BY <3>2, <3>3
    <2> QED BY <1>1, <2>1, <2>2, <2>3, <2>5, <2>6 DEF Based
  <1> QED BY <1>1, <1>4, <1>5, <1>7, <1>8 DEF ShowInv, RunInv

(***************************************************************************)
(* What a refused call leaves: steps that only read.                       *)
(***************************************************************************)
LEMMA ReadsKeep ==
    ASSUME access' = access, ask'.who = ask.who, ask'.about = ask.about
    PROVE  /\ AllowedDocs(ask.who)' = AllowedDocs(ask.who)
           /\ CanAccessBase(BaseOfTask(ask.about), ask.who)' <=> CanAccessBase(BaseOfTask(ask.about), ask.who)
           /\ SeesTask(ask.about, ask.who, AllowedDocs(ask.who))'
                 <=> SeesTask(ask.about, ask.who, AllowedDocs(ask.who))
  <1>1. AllowedDocs(ask.who)' = AllowedDocs(ask.who)
    BY DEF AllowedDocs, DocsThere, CanRead
  <1>2. CanAccessBase(BaseOfTask(ask.about), ask.who)' <=> CanAccessBase(BaseOfTask(ask.about), ask.who)
    BY DEF CanAccessBase, DocsOf, DocsThere, CanRead, BaseOfTask
  <1>3. SeesTask(ask.about, ask.who, AllowedDocs(ask.who))'
           <=> SeesTask(ask.about, ask.who, AllowedDocs(ask.who))
    BY <1>1 DEF SeesTask, DocsThere, CanRead
  <1> QED BY <1>1, <1>2, <1>3

LEMMA ResumeRefuse ==
    ASSUME CallInv, NEW step, Running(step), NEW r, SameCall(r), r.todo = ask.todo, ask' = Resumed(r),
           OnlyReads, step \notin TaskWrites, r.half = ask.half \/ ask.cap # "upload",
           step = "row" => taskState[ask.about] # "none",
           step = "taskBase" => CanAccessBase(BaseOfTask(ask.about), ask.who),
           r.scope = (IF step = "scope" THEN AllowedDocs(ask.who) ELSE ask.scope),
           step = "taskByScope" => SeesTask(ask.about, ask.who, ask.scope)
    PROVE  RefuseInv'
  <1>1. /\ DOMAIN ask' = CallFields /\ ask'.todo = Tail(ask.todo) /\ SameData(r, ask')
        /\ ask'.pc = (IF Len(ask.todo) = 1 THEN "answered" ELSE "running")
        /\ ask'.who = ask.who /\ ask'.cap = ask.cap /\ ask'.about = ask.about
    BY ResumedFields DEF SameCall
  <1>2. CallTyped /\ Witnessed(0) /\ 0 \in Nat /\ RefuseInv
    BY DEF CallInv, OnlyReads, Witness
  <1>3. /\ access' = access /\ baseRows' = baseRows /\ taskState' = taskState /\ staged' = staged
        /\ accessRows' = accessRows
    BY DEF OnlyReads, accessRows
  <1>4. during'.rows = during.rows /\ (during'.turns = 0 => during.turns = 0)
    BY <1>2, WitnessedFields
  <1>5. /\ Head(ask.todo) = step /\ ask.pc = "running" /\ ask.todo # <<>> /\ ask.todo \in Seq(EveryStep)
        /\ Fitting(ask.todo, ask.cap, ask.about) /\ Trailing(ask.todo)
    BY DEF CallInv, RunInv, Charted, Running, Fitting
  <1>6. \A i \in DOMAIN ask'.todo : i + 1 \in DOMAIN ask.todo /\ ask'.todo[i] = ask.todo[i + 1]
    BY <1>1, <1>5, TailPlan
  <1>7. ask'.scope = r.scope /\ ask'.half = r.half
    BY <1>1 DEF SameData
  <1>8. ASSUME during'.turns = 0, Certain(ask) PROVE Certain(ask)'
    <2>1. \A i \in DOMAIN ask'.todo : ask'.todo[i] \in SureSteps
      BY <1>6, <1>8 DEF Certain
    <2>2. ask'.scope = AllowedDocs(ask.who)
      BY <1>7, <1>8 DEF Certain
    <2> QED BY <1>1, <1>3, <1>8, <2>1, <2>2, ReadsKeep DEF Certain
  <1>9. ASSUME during'.turns = 0, Unchanged /\ Checked(ask), ask.cap = "upload" => ask.half = {}
        PROVE  Honest(ask)'
    <2>1. Unchanged'
      BY <1>3, <1>4, <1>9 DEF Unchanged
    <2>2. After(ask'.todo, "row", TaskWrites) \/ taskState[ask.about] # "none"
      BY <1>1, <1>5, <1>9, TailAfter DEF Checked
    <2>3. After(ask'.todo, "taskBase", NeedBase) \/ CanAccessBase(BaseOfTask(ask.about), ask.who)
      BY <1>1, <1>5, <1>9, TailAfter DEF Checked
    <2>4. After(ask'.todo, "scope", NeedScope) \/ ask'.scope = AllowedDocs(ask.who)
      BY <1>1, <1>5, <1>7, <1>9, TailAfter DEF Checked
    <2>5. After(ask'.todo, "taskByScope", TaskWrites) \/ SeesTask(ask.about, ask.who, AllowedDocs(ask.who))
      <3>1. CASE step = "taskByScope"
        <4>1. ~ After(ask.todo, "scope", NeedScope)
          BY <1>5, <3>1, TailAfter DEF NeedScope
        <4>2. ask.scope = AllowedDocs(ask.who)
          BY <1>9, <4>1 DEF Checked
        <4> QED BY <3>1, <4>2
      <3>2. CASE step # "taskByScope"
        BY <1>1, <1>5, <1>9, <3>2, TailAfter DEF Checked
      <3> QED BY <3>1, <3>2
    <2>6. After(ask'.todo, "cancelled", {"unlink"})
      <3>1. step # "cancelled"
        BY DEF TaskWrites
      <3> QED BY <1>1, <1>5, <1>9, <3>1, TailAfter DEF Checked
    <2>7. Checked(ask)'
      BY <1>1, <1>3, <2>2, <2>3, <2>4, <2>5, <2>6, ReadsKeep DEF Checked
    <2> QED BY <1>1, <1>7, <1>9, <2>1, <2>7 DEF Honest
  <1>10. ASSUME during'.turns = 0, Staged(ask), \A i \in DOMAIN ask.todo : ask.todo[i] # "store"
         PROVE  Honest(ask)'
    <2>1. ask'.half = ask.half
      BY <1>7, <1>10 DEF Staged
    <2>2. Staged(ask)'
      BY <1>1, <1>3, <1>4, <1>10, <2>1 DEF Staged
    <2> QED BY <1>6, <1>10, <2>2 DEF Honest
  <1>11. ask'.pc = "running" /\ during'.turns = 0 => Honest(ask)'
    <2>1. during'.turns = 0 => Honest(ask)
      BY <1>2, <1>4, <1>5 DEF RefuseInv
    <2> QED BY <1>8, <1>9, <1>10, <2>1 DEF Honest
  <1>12. during'.turns = 0 => during'.rows[4] = StagedFor(during'.rows[3])
    BY <1>2, <1>4, <1>5 DEF RefuseInv
  <1> QED BY <1>1, <1>11, <1>12 DEF RefuseInv, StagedFor

(***************************************************************************)
(* A call that is refused, or fails.                                       *)
(***************************************************************************)
LEMMA ConcludedFields ==
    ASSUME CallTyped, NEW how, ask' = Concluded(how)
    PROVE  /\ DOMAIN ask' = CallFields /\ SameData(ask, ask') /\ ask'.who = ask.who
           /\ ask'.cap = ask.cap /\ ask'.about = ask.about
           /\ ask'.pc = IF ask.cap = "upload" /\ ask.half # {} THEN "unstage" ELSE how
           /\ ask'.half = ask.half
  BY DEF CallTyped, CallFields, Concluded, SameData

LEMMA ConcludedShows ==
    ASSUME CallTyped, ShowInv, NEW how \in {"refused", "failed"}, ask' = Concluded(how), OnlyReads
    PROVE  CallTyped' /\ ShowInv' /\ RunInv'
  <1>1. /\ DOMAIN ask' = CallFields /\ SameData(ask, ask') /\ ask'.who = ask.who
        /\ ask'.cap = ask.cap /\ ask'.about = ask.about /\ ask'.pc \in {"unstage", "refused", "failed"}
    BY ConcludedFields
  <1>2. Witnessed(0) /\ 0 \in Nat /\ Reader(ask)' = Reader(ask)
    BY <1>1 DEF OnlyReads, Witness, Reader
  <1>3. DOMAIN taskState' = DOMAIN taskState /\ baseRows' \subseteq baseRows
    BY DEF OnlyReads, accessRows
  <1>4. CallTyped'
    BY <1>1, <1>2, <1>3, TypedStays DEF CallTyped
  <1>5. Grounded(ask)' /\ GrantsKept'
    BY <1>1, <1>2, GroundedStays, WitnessedGrants DEF ShowInv
  <1> QED BY <1>1, <1>4, <1>5 DEF ShowInv, RunInv

LEMMA CallConcludes ==
    ASSUME CallInv, ask.pc = "running", NEW how \in {"refused", "failed"}, ask' = Concluded(how), OnlyReads,
           how = "refused" /\ during.turns = 0 => ~Certain(ask)
    PROVE  CallInv'
  <1>1. CallTyped' /\ ShowInv' /\ RunInv'
    BY ConcludedShows DEF CallInv
  <1>2. /\ ask'.pc = (IF ask.cap = "upload" /\ ask.half # {} THEN "unstage" ELSE how)
        /\ ask'.cap = ask.cap /\ ask'.half = ask.half
    BY ConcludedFields DEF CallInv
  <1>3. /\ access' = access /\ baseRows' = baseRows /\ taskState' = taskState /\ staged' = staged
        /\ accessRows' = accessRows
    BY DEF OnlyReads, accessRows
  <1>4. during'.rows = during.rows /\ (during'.turns = 0 => during.turns = 0)
    BY WitnessedFields DEF CallInv, OnlyReads, Witness
  <1>5. during.turns = 0 => Honest(ask) /\ during.rows[4] = StagedFor(during.rows[3])
    BY DEF CallInv, RefuseInv
  <1>6. ASSUME during'.turns = 0, ask'.pc = "refused" PROVE Unchanged'
    <2>1. how = "refused" /\ (ask.cap = "upload" => ask.half = {})
      BY <1>2, <1>6
    <2>2. CASE Unchanged
      BY <1>3, <1>4, <2>2 DEF Unchanged
    <2>3. CASE Staged(ask)
      <3>1. staged = during.rows[4]
        BY <2>1, <2>3 DEF Staged
      <3>2. accessRows = during.rows
        BY <2>3, <3>1 DEF Staged, accessRows, CallInv, CallTyped
      <3> QED BY <1>3, <1>4, <3>2 DEF Unchanged
    <2> QED BY <1>4, <1>5, <1>6, <2>1, <2>2, <2>3 DEF Honest
  <1>7. ASSUME during'.turns = 0, ask'.pc = "unstage" PROVE Staged(ask)'
    <2>1. ask.cap = "upload" /\ ask.half # {}
      BY <1>2, <1>7
    <2>2. Staged(ask)
      BY <1>4, <1>5, <1>7, <2>1 DEF Honest, Certain
    <2> QED BY <1>2, <1>3, <1>4, <2>2 DEF Staged
  <1>8. ask'.pc \in {"unstage", "refused", "failed"}
    BY <1>2
  <1>9. during'.turns = 0 => during'.rows[4] = StagedFor(during'.rows[3])
    BY <1>4, <1>5
  <1>10. RefuseInv'
    BY <1>6, <1>7, <1>8, <1>9 DEF RefuseInv, StagedFor
  <1> QED BY <1>1, <1>10 DEF CallInv

\* A step that a call does not fail at in the end of a change.
LEMMA RefusedEarly ==
    ASSUME CallInv, NEW step, Running(step), step \notin SureSteps, CallRefused, OnlyReads
    PROVE  CallInv'
  <1>1. ask.todo # <<>> /\ ask.todo \in Seq(EveryStep) /\ Head(ask.todo) = step /\ ask.pc = "running"
    BY DEF CallInv, RunInv, Charted, Running, Fitting
  <1>2. 1 \in DOMAIN ask.todo /\ ask.todo[1] = step
    BY <1>1, TailPlan
  <1>3. ~Certain(ask)
    BY <1>2 DEF Certain
  <1> QED BY <1>1, <1>3, CallConcludes DEF CallRefused

LEMMA CallFailsHolds ==
    ASSUME CallInv, CallFails
    PROVE  CallInv'
  BY CallConcludes DEF CallFails

LEMMA CredentialEnds ==
    ASSUME CallInv, CredentialRefused
    PROVE  CallInv'
  <1>1. ask.pc = "principal" /\ ask' = Concluded("refused") /\ OnlyReads /\ Fresh(ask)
    BY DEF CredentialRefused, CallRefused, CallInv, RunInv
  <1>2. CallTyped' /\ ShowInv' /\ RunInv'
    BY <1>1, ConcludedShows DEF CallInv
  <1>3. ask'.pc = "refused"
    BY <1>1, ConcludedFields DEF CallInv, Fresh
  <1>4. accessRows' = accessRows
    BY <1>1 DEF OnlyReads, accessRows
  <1>5. during'.rows = during.rows /\ (during'.turns = 0 => during.turns = 0)
    BY <1>1, WitnessedFields DEF CallInv, OnlyReads, Witness
  <1>6. during.turns = 0 => Unchanged /\ during.rows[4] = StagedFor(during.rows[3])
    BY <1>1 DEF CallInv, RefuseInv
  <1>7. RefuseInv'
    BY <1>3, <1>4, <1>5, <1>6 DEF RefuseInv, Unchanged, StagedFor
  <1> QED BY <1>2, <1>7 DEF CallInv

(***************************************************************************)
(* What a call reads, its caller may read.                                 *)
(***************************************************************************)
LEMMA RunningCall ==
    ASSUME CallInv, NEW step, Running(step)
    PROVE  /\ ask.pc = "running" /\ ask.todo # <<>> /\ ask.todo \in Seq(EveryStep) /\ Head(ask.todo) = step
           /\ StepFits(step, ask.cap, ask.about) /\ Grounded(ask) /\ Based(ask) /\ GrantsKept
           /\ ask.cap # "search" => Reader(ask) = ask.who
           /\ step \notin {"allowed", "matches"} => Reader(ask) = ask.who
           /\ DOMAIN ask = CallFields
  <1>1. /\ ask.pc = "running" /\ ask.todo # <<>> /\ ask.todo \in Seq(EveryStep) /\ Head(ask.todo) = step
        /\ Grounded(ask) /\ Based(ask) /\ GrantsKept /\ DOMAIN ask = CallFields
        /\ Fitting(ask.todo, ask.cap, ask.about) /\ Trailing(ask.todo)
    BY DEF CallInv, RunInv, ShowInv, Charted, Running, Fitting, CallTyped
  <1>2. StepFits(step, ask.cap, ask.about)
    BY <1>1, TailCharted
  <1>3. ask.cap # "search" => Reader(ask) = ask.who
    BY DEF Reader
  <1> QED BY <1>1, <1>2, <1>3 DEF StepFits

LEMMA CanReadOnce ==
    ASSUME GrantsKept
    PROVE  /\ \A n \in Docs : CanRead(n, Reader(ask)) => ReadOnce(n)
           /\ AllowedDocs(Reader(ask)) \subseteq Docs /\ \A n \in AllowedDocs(Reader(ask)) : ReadOnce(n)
           /\ \A b \in Bases : CanAccessBase(b, Reader(ask)) => InsideOnce(b)
  <1>1. ASSUME NEW n \in Docs, CanRead(n, Reader(ask)) PROVE ReadOnce(n)
    <2> PICK who : who = Reader(ask)
      OBVIOUS
    <2>1. access[n] \cap {"public", who.role, who.person} # {} /\ access[n] \subseteq during.grants[n]
      BY <1>1 DEF CanRead, GrantsKept
    <2> QED BY <2>1 DEF ReadOnce
  <1>2. AllowedDocs(Reader(ask)) \subseteq Docs /\ \A n \in AllowedDocs(Reader(ask)) : ReadOnce(n)
    BY <1>1 DEF AllowedDocs, DocsThere
  <1>3. ASSUME NEW b \in Bases, CanAccessBase(b, Reader(ask)) PROVE InsideOnce(b)
    <2>1. CASE DocsOf(b) = {}
      BY <2>1 DEF GrantsKept, InsideOnce
    <2>2. CASE \E n \in DocsOf(b) : CanRead(n, Reader(ask))
      BY <1>1, <2>2 DEF DocsOf, DocsThere, InsideOnce
    <2> QED BY <1>3, <2>1, <2>2 DEF CanAccessBase
  <1> QED BY <1>1, <1>2, <1>3

LEMMA TaskPlaces ==
    ASSUME NEW t \in Imported
    PROVE  /\ AimOf[t] \in Docs \cup Bases /\ BaseOfTask(t) \in Bases /\ t \notin Docs \cup Bases
           /\ t \in MadeBy => AimOf[t] \in Docs
  BY AccessAssumption DEF BaseOfTask, Bases

LEMMA SeesTaskOnce ==
    ASSUME GrantsKept, NEW t \in Imported, NEW S \in SUBSET Docs, \A n \in S : ReadOnce(n),
           S = {} => during.blind, InsideOnce(BaseOfTask(t)), SeesTask(t, Reader(ask), S)
    PROVE  WasReadable(t)
  <1>1. SeenOnce(t)
    <2>1. CASE t \in MadeBy
      BY <2>1, CanReadOnce, TaskPlaces DEF SeesTask, SeenOnce
    <2>2. CASE t \notin MadeBy /\ AimOf[t] \in Bases
      BY <2>2 DEF SeenOnce
    <2>3. CASE t \notin MadeBy /\ S = {}
      BY <2>3 DEF SeenOnce
    <2>4. CASE t \notin MadeBy /\ AimOf[t] \in Docs /\ S # {}
      <3>1. PICK n \in S : LiesIn(n, AimOf[t]) \/ LiesIn(AimOf[t], n)
        BY <2>4 DEF SeesTask, Touches
      <3>2. n = AimOf[t]
        BY <2>4, <3>1, AccessAssumption DEF LiesIn, Bases
      <3> QED BY <2>4, <3>2 DEF SeenOnce
    <2> QED BY <2>1, <2>2, <2>3, <2>4, TaskPlaces
  <1> QED BY <1>1, TaskPlaces DEF WasReadable

\* A read that finds what it asks for.
LEMMA ReadStep ==
    ASSUME CallInv, NEW step, Running(step), step \notin TaskWrites, NEW r, SameCall(r),
           r.todo = ask.todo, ask' = Resumed(r), OnlyReads, Grounded(r), r.half = ask.half,
           step = "row" => taskState[ask.about] # "none",
           step = "taskBase" => CanAccessBase(BaseOfTask(ask.about), ask.who),
           r.scope = (IF step = "scope" THEN AllowedDocs(ask.who) ELSE ask.scope),
           r.allowed = (IF step = "allowed" THEN AllowedDocs(Reader(ask)) ELSE ask.allowed),
           step = "taskByScope" => SeesTask(ask.about, ask.who, ask.scope)
    PROVE  CallInv'
  <1>1. RefuseInv'
    BY ResumeRefuse
  <1>2. /\ StepFits(step, ask.cap, ask.about) /\ GrantsKept
        /\ step \notin {"allowed", "matches"} => Reader(ask) = ask.who
    BY RunningCall
  <1>3. step = "taskBase" => InsideOnce(BaseOfTask(ask.about))
    BY <1>2, CanReadOnce, TaskPlaces DEF StepFits, SureSteps
  <1>4. AllowedDocs(Reader(ask))' = AllowedDocs(Reader(ask))
    <2>1. ask'.who = ask.who /\ ask'.cap = ask.cap
      BY ResumedFields DEF SameCall
    <2>2. Reader(ask)' = Reader(ask) /\ access' = access
      BY <2>1 DEF Reader, OnlyReads, accessRows
    <2> QED BY <2>2 DEF AllowedDocs, DocsThere, CanRead
  <1>5. AllowedDocs(Reader(ask)) = {} => during'.blind
    BY <1>4, WitnessedFields DEF CallInv, OnlyReads, Witness
  <1>6. DOMAIN taskState' = DOMAIN taskState /\ baseRows' \subseteq baseRows /\ Witness
    BY DEF OnlyReads, accessRows
  <1>7. CallTyped' /\ ShowInv' /\ RunInv'
    BY <1>2, <1>3, <1>5, <1>6, CallGoesOn
  <1> QED BY <1>1, <1>7 DEF CallInv

\* A read that only goes on.
LEMMA PassStep ==
    ASSUME CallInv, NEW step, Running(step), step \notin TaskWrites \cup {"row", "scope", "allowed", "taskByScope"},
           Onward, OnlyReads, step = "taskBase" => CanAccessBase(BaseOfTask(ask.about), ask.who)
    PROVE  CallInv'
  <1>1. SameCall(ask) /\ Grounded(ask)
    BY RunningCall DEF SameCall
  <1> QED BY <1>1, ReadStep DEF Onward

(***************************************************************************)
(* The reading steps of each handler.                                      *)
(***************************************************************************)
LEMMA GetAllowedHolds ==
    ASSUME CallInv, GetAllowedUris
    PROVE  CallInv'
  <1>1. Running("allowed") /\ OnlyReads
    BY DEF GetAllowedUris
  <1>2. Grounded(ask) /\ GrantsKept /\ DOMAIN ask = CallFields
    BY <1>1, RunningCall
  <1>3. ASSUME ~CallRefused
        PROVE  \E r : /\ SameCall(r) /\ r.todo = ask.todo /\ r.half = ask.half /\ r.scope = ask.scope
                      /\ r.allowed = AllowedDocs(Reader(ask)) /\ Grounded(r) /\ ask' = Resumed(r)
    <2> PICK allowed : allowed = AllowedDocs(Reader(ask))
      OBVIOUS
    <2> PICK r : r = [ask EXCEPT !.allowed = allowed]
      OBVIOUS
    <2>1. ask' = Resumed(r)
      BY <1>3 DEF GetAllowedUris
    <2>2. /\ SameCall(r) /\ r.todo = ask.todo /\ r.half = ask.half /\ r.scope = ask.scope
          /\ r.allowed = allowed /\ r.shown = ask.shown /\ r.left = ask.left
      BY <1>2 DEF SameCall, CallFields
    <2>3. Grounded(r)
      BY <1>2, <2>2, CanReadOnce DEF Grounded, SameCall
    <2> QED BY <2>1, <2>2, <2>3
  <1>4. CASE CallRefused
    BY <1>1, <1>4, RefusedEarly DEF SureSteps
  <1>5. CASE ~CallRefused
    BY <1>1, <1>3, <1>5, ReadStep DEF TaskWrites
  <1> QED BY <1>4, <1>5

\* A read shows something new, and keeps the rest.
LEMMA ShowStep ==
    ASSUME CallInv, NEW step, Running(step), step \notin TaskWrites \cup {"row", "scope", "allowed", "taskBase"},
           NEW seen, seen \subseteq Docs \cup Bases \cup Imported, \A item \in seen : WasReadable(item),
           ask' = Resumed([ask EXCEPT !.shown = seen]), OnlyReads,
           step = "taskByScope" => SeesTask(ask.about, ask.who, ask.scope)
    PROVE  CallInv'
  <1> PICK r : r = [ask EXCEPT !.shown = seen]
    OBVIOUS
  <1>1. ask' = Resumed(r)
    OBVIOUS
  <1>2. Grounded(ask) /\ DOMAIN ask = CallFields
    BY RunningCall
  <1>3. /\ SameCall(r) /\ r.todo = ask.todo /\ r.half = ask.half /\ r.scope = ask.scope
        /\ r.allowed = ask.allowed /\ r.shown = seen /\ r.left = ask.left
    BY <1>2 DEF SameCall, CallFields
  <1>4. Grounded(r)
    BY <1>2, <1>3 DEF Grounded, SameCall
  <1> QED BY <1>1, <1>3, <1>4, ReadStep

LEMMA MatchesHolds ==
    ASSUME CallInv, Matches
    PROVE  CallInv'
  <1>1. PICK found \in SUBSET Docs :
           ask' = Resumed([ask EXCEPT !.shown = {n \in found : MatchedVisible(n, ask.allowed, ask.about)}])
    BY DEF Matches
  <1>2. Running("matches") /\ OnlyReads
    BY DEF Matches
  <1> PICK seen : seen = {n \in found : MatchedVisible(n, ask.allowed, ask.about)}
    OBVIOUS
  <1>3. ASSUME NEW n \in seen PROVE n \in Docs /\ WasReadable(n)
    <2>1. n \in Docs /\ MatchedVisible(n, ask.allowed, ask.about)
      OBVIOUS
    <2>2. PICK m \in ask.allowed : LiesIn(n, m)
      BY <2>1 DEF MatchedVisible
    <2>3. m \in Docs /\ ReadOnce(m)
      BY <1>2, RunningCall DEF Grounded
    <2>4. n = m
      BY <2>1, <2>2, <2>3, AccessAssumption DEF LiesIn, Bases
    <2> QED BY <2>3, <2>4 DEF WasReadable
  <1>4. seen \subseteq Docs \cup Bases \cup Imported /\ \A item \in seen : WasReadable(item)
    BY <1>3
  <1>5. ask' = Resumed([ask EXCEPT !.shown = seen])
    BY <1>1
  <1> QED BY <1>2, <1>4, <1>5, ShowStep DEF TaskWrites

LEMMA EntriesHolds ==
    ASSUME CallInv, Entries
    PROVE  CallInv'
  <1>1. PICK found \in SUBSET (Docs \cup Bases) :
           ask' = Resumed([ask EXCEPT !.shown = {uri \in found : ListedVisible(uri, ask.allowed)}])
    BY DEF Entries
  <1>2. Running("entries") /\ OnlyReads
    BY DEF Entries
  <1> PICK seen : seen = {uri \in found : ListedVisible(uri, ask.allowed)}
    OBVIOUS
  <1>3. ASSUME NEW uri \in seen PROVE uri \in Docs \cup Bases /\ WasReadable(uri)
    <2>1. uri \in Docs \cup Bases /\ ListedVisible(uri, ask.allowed)
      OBVIOUS
    <2>2. PICK m \in ask.allowed : LiesIn(m, uri) \/ LiesIn(uri, m)
      BY <2>1 DEF ListedVisible, Touches
    <2>3. m \in Docs /\ ReadOnce(m)
      BY <1>2, RunningCall DEF Grounded
    <2>4. Docs \cap Bases = {}
      BY AccessAssumption
    <2>5. CASE uri \in Docs
      <3>1. uri = m
        BY <2>2, <2>3, <2>4, <2>5 DEF LiesIn, Bases
      <3> QED BY <2>3, <3>1 DEF WasReadable
    <2>6. CASE uri \in Bases
      <3>1. BaseOf[m] = uri /\ uri \notin Docs
        BY <2>2, <2>3, <2>4, <2>6 DEF LiesIn
      <3>2. InsideOnce(uri)
        BY <2>3, <3>1 DEF InsideOnce
      <3> QED BY <2>6, <3>1, <3>2 DEF WasReadable
    <2> QED BY <2>1, <2>5, <2>6
  <1>4. seen \subseteq Docs \cup Bases \cup Imported /\ \A item \in seen : WasReadable(item)
    BY <1>3
  <1>5. ask' = Resumed([ask EXCEPT !.shown = seen])
    BY <1>1
  <1> QED BY <1>2, <1>4, <1>5, ShowStep DEF TaskWrites

LEMMA ListBasesHolds ==
    ASSUME CallInv, ListBases
    PROVE  CallInv'
  <1>1. Running("bases") /\ OnlyReads
    BY DEF ListBases
  <1>2. PICK r : /\ SameCall(r) /\ r.todo = ask.todo /\ r.half = ask.half /\ r.scope = ask.scope
                 /\ r.allowed = ask.allowed /\ Grounded(r) /\ ask' = Resumed(r)
    <2>1. Grounded(ask) /\ DOMAIN ask = CallFields /\ StepFits("bases", ask.cap, ask.about)
      BY <1>1, RunningCall
    <2> PICK r : r = [ask EXCEPT !.left = baseRows]
      OBVIOUS
    <2>2. /\ SameCall(r) /\ r.todo = ask.todo /\ r.half = ask.half /\ r.scope = ask.scope
          /\ r.allowed = ask.allowed /\ r.shown = ask.shown /\ r.left = baseRows
      BY <2>1 DEF SameCall, CallFields
    <2>3. baseRows \subseteq Bases /\ ask.cap = "bases"
      BY <2>1 DEF CallInv, CallTyped, StepFits
    <2>4. Grounded(r)
      BY <2>1, <2>2, <2>3 DEF Grounded, SameCall
    <2>5. ask' = Resumed(r)
      BY DEF ListBases
    <2> QED BY <2>2, <2>4, <2>5
  <1> QED BY <1>1, <1>2, ReadStep DEF TaskWrites

LEMMA FindBaseHolds ==
    ASSUME CallInv, FindAskedBase
    PROVE  CallInv'
  <1>1. Running("base") /\ OnlyReads /\ (Onward \/ CallRefused)
    BY DEF FindAskedBase, OnlyIf
  <1> QED BY <1>1, RefusedEarly, PassStep DEF TaskWrites, SureSteps

LEMMA InsideBaseHolds ==
    ASSUME CallInv, InsideBase
    PROVE  CallInv'
  <1>1. /\ Running("inside") /\ OnlyReads
        /\ \/ CanAccessBase(ask.about, ask.who) /\ ask' = Resumed([ask EXCEPT !.shown = {ask.about}])
           \/ CallRefused
    BY DEF InsideBase
  <1>2. CASE CallRefused
    BY <1>1, <1>2, RefusedEarly DEF SureSteps
  <1>3. CASE CanAccessBase(ask.about, ask.who) /\ ask' = Resumed([ask EXCEPT !.shown = {ask.about}])
    <2>1. ask.about \in Bases /\ Reader(ask) = ask.who /\ GrantsKept
      BY <1>1, RunningCall DEF StepFits
    <2>2. WasReadable(ask.about)
      BY <1>3, <2>1, CanReadOnce, AccessAssumption DEF WasReadable
    <2> PICK seen : seen = {ask.about}
      OBVIOUS
    <2>3. seen \subseteq Docs \cup Bases \cup Imported /\ \A item \in seen : WasReadable(item)
      BY <2>1, <2>2
    <2> QED BY <1>1, <1>3, <2>3, ShowStep DEF TaskWrites
  <1> QED BY <1>1, <1>2, <1>3

LEMMA ListNodesHolds ==
    ASSUME CallInv, ListNodes
    PROVE  CallInv'
  <1> PICK seen : seen = {n \in DocsOf(ask.about) : CanRead(n, ask.who)}
    OBVIOUS
  <1>1. Running("nodes") /\ OnlyReads /\ ask' = Resumed([ask EXCEPT !.shown = seen])
    BY DEF ListNodes
  <1>2. Reader(ask) = ask.who /\ GrantsKept
    BY <1>1, RunningCall
  <1>3. ASSUME NEW n \in seen PROVE n \in Docs /\ WasReadable(n)
    <2>1. n \in Docs /\ CanRead(n, ask.who)
      BY DEF DocsOf, DocsThere
    <2> QED BY <1>2, <2>1, CanReadOnce DEF WasReadable
  <1> QED BY <1>1, <1>3, ShowStep DEF TaskWrites

LEMMA FindNodeHolds ==
    ASSUME CallInv, FindNode
    PROVE  CallInv'
  <1>1. /\ Running("node") /\ OnlyReads
        /\ \/ ask.about \in AllowedDocs(ask.who) /\ ask' = Resumed([ask EXCEPT !.shown = {ask.about}])
           \/ CallRefused
    BY DEF FindNode
  <1>2. CASE CallRefused
    BY <1>1, <1>2, RefusedEarly DEF SureSteps
  <1>3. CASE ask.about \in AllowedDocs(ask.who) /\ ask' = Resumed([ask EXCEPT !.shown = {ask.about}])
    <2>1. Reader(ask) = ask.who /\ GrantsKept
      BY <1>1, RunningCall
    <2>2. ask.about \in Docs /\ WasReadable(ask.about)
      BY <1>3, <2>1, CanReadOnce DEF WasReadable
    <2> PICK seen : seen = {ask.about}
      OBVIOUS
    <2>3. seen \subseteq Docs \cup Bases \cup Imported /\ \A item \in seen : WasReadable(item)
      BY <2>2
    <2> QED BY <1>1, <1>3, <2>3, ShowStep DEF TaskWrites
  <1> QED BY <1>1, <1>2, <1>3

\* Of a call that found its task and changed it: it finds it again.
LEMMA RefusedSurely ==
    ASSUME CallInv, NEW step, Running(step), CallRefused, OnlyReads,
           \/ taskState[ask.about] = "none"
           \/ ~CanAccessBase(BaseOfTask(ask.about), ask.who)
           \/ ~SeesTask(ask.about, ask.who, ask.scope)
    PROVE  CallInv'
  <1>1. ~Certain(ask)
    BY DEF Certain
  <1> QED BY <1>1, CallConcludes DEF CallRefused, Running

LEMMA FindRowHolds ==
    ASSUME CallInv, FindTaskRow
    PROVE  CallInv'
  <1>1. Running("row") /\ OnlyReads
    BY DEF FindTaskRow
  <1>2. CASE taskState[ask.about] = "none"
    BY <1>1, <1>2, RefusedSurely DEF FindTaskRow
  <1>3. CASE taskState[ask.about] # "none"
    <2>1. PICK r : /\ SameCall(r) /\ r.todo = ask.todo /\ r.half = ask.half /\ r.scope = ask.scope
                   /\ r.allowed = ask.allowed /\ Grounded(r) /\ ask' = Resumed(r)
      <3>1. Grounded(ask) /\ DOMAIN ask = CallFields
        BY <1>1, RunningCall
      <3> PICK r : r = [ask EXCEPT !.status = taskState[ask.about]]
        OBVIOUS
      <3>2. /\ SameCall(r) /\ r.todo = ask.todo /\ r.half = ask.half /\ r.scope = ask.scope
            /\ r.allowed = ask.allowed /\ r.shown = ask.shown /\ r.left = ask.left
        BY <3>1 DEF SameCall, CallFields
      <3>3. Grounded(r)
        BY <3>1, <3>2 DEF Grounded, SameCall
      <3>4. ask' = Resumed(r)
        BY <1>3 DEF FindTaskRow
      <3> QED BY <3>2, <3>3, <3>4
    <2> QED BY <1>1, <1>3, <2>1, ReadStep DEF TaskWrites
  <1> QED BY <1>2, <1>3

LEMMA ReadScopeHolds ==
    ASSUME CallInv, ReadScope
    PROVE  CallInv'
  <1>1. Running("scope") /\ OnlyReads
    BY DEF ReadScope
  <1>2. PICK r : /\ SameCall(r) /\ r.todo = ask.todo /\ r.half = ask.half /\ r.scope = AllowedDocs(ask.who)
                 /\ r.allowed = ask.allowed /\ Grounded(r) /\ ask' = Resumed(r)
    <2>1. Grounded(ask) /\ DOMAIN ask = CallFields /\ Reader(ask) = ask.who /\ GrantsKept
      BY <1>1, RunningCall
    <2> PICK scope : scope = AllowedDocs(ask.who)
      OBVIOUS
    <2> PICK r : r = [ask EXCEPT !.scope = scope]
      OBVIOUS
    <2>2. /\ SameCall(r) /\ r.todo = ask.todo /\ r.half = ask.half /\ r.scope = scope
          /\ r.allowed = ask.allowed /\ r.shown = ask.shown /\ r.left = ask.left
      BY <2>1 DEF SameCall, CallFields
    <2>3. Grounded(r)
      BY <2>1, <2>2, CanReadOnce DEF Grounded, SameCall
    <2>4. ask' = Resumed(r)
      BY DEF ReadScope
    <2> QED BY <2>2, <2>3, <2>4
  <1> QED BY <1>1, <1>2, ReadStep DEF TaskWrites

LEMMA TaskBaseHolds ==
    ASSUME CallInv, TaskBase
    PROVE  CallInv'
  <1>1. Running("taskBase") /\ OnlyReads
    BY DEF TaskBase
  <1>2. CASE CanAccessBase(BaseOfTask(ask.about), ask.who)
    BY <1>1, <1>2, PassStep DEF TaskBase, OnlyIf, TaskWrites
  <1>3. CASE ~CanAccessBase(BaseOfTask(ask.about), ask.who)
    BY <1>1, <1>3, RefusedSurely DEF TaskBase, OnlyIf
  <1> QED BY <1>2, <1>3

\* The service's own reading, or the one of the gateway, shows the task.
LEMMA CheckedTask ==
    ASSUME CallInv, NEW step \in {"taskByScope", "taskByAllowed"}, Running(step),
           SeesTask(ask.about, ask.who, IF step = "taskByScope" THEN ask.scope ELSE ask.allowed),
           ask' = Resumed([ask EXCEPT !.shown = {ask.about}]), OnlyReads
    PROVE  CallInv'
  <1> PICK S : S = (IF step = "taskByScope" THEN ask.scope ELSE ask.allowed)
    OBVIOUS
  <1>1. /\ Reader(ask) = ask.who /\ GrantsKept /\ Grounded(ask) /\ Based(ask)
        /\ ask.todo # <<>> /\ ask.todo \in Seq(EveryStep) /\ Head(ask.todo) = step
        /\ StepFits(step, ask.cap, ask.about)
    BY RunningCall
  <1>2. ask.about \in Imported
    BY <1>1 DEF StepFits, SureSteps
  <1>3. S \subseteq Docs /\ \A n \in S : ReadOnce(n)
    BY <1>1 DEF Grounded
  <1>4. InsideOnce(BaseOfTask(ask.about))
    BY <1>1, TailAfter DEF Based, NeedBase
  <1>5. S = {} => during.blind
    BY <1>1, TailAfter DEF Based, NeedScope
  <1>6. WasReadable(ask.about)
    BY <1>1, <1>2, <1>3, <1>4, <1>5, SeesTaskOnce
  <1> PICK seen : seen = {ask.about}
    OBVIOUS
  <1>7. seen \subseteq Docs \cup Bases \cup Imported /\ \A item \in seen : WasReadable(item)
    BY <1>2, <1>6
  <1> QED BY <1>7, ShowStep DEF TaskWrites

LEMMA CheckByScopeHolds ==
    ASSUME CallInv, CheckTask("taskByScope", ask.scope)
    PROVE  CallInv'
  <1>1. Running("taskByScope") /\ OnlyReads
    BY DEF CheckTask
  <1>2. CASE SeesTask(ask.about, ask.who, ask.scope)
    BY <1>1, <1>2, CheckedTask DEF CheckTask
  <1>3. CASE ~SeesTask(ask.about, ask.who, ask.scope)
    BY <1>1, <1>3, RefusedSurely DEF CheckTask
  <1> QED BY <1>2, <1>3

LEMMA CheckByAllowedHolds ==
    ASSUME CallInv, CheckTask("taskByAllowed", ask.allowed)
    PROVE  CallInv'
  <1>1. Running("taskByAllowed") /\ OnlyReads
    BY DEF CheckTask
  <1>2. CASE SeesTask(ask.about, ask.who, ask.allowed)
    BY <1>1, <1>2, CheckedTask DEF CheckTask
  <1>3. CASE ~SeesTask(ask.about, ask.who, ask.allowed)
    BY <1>1, <1>3, RefusedEarly DEF CheckTask, SureSteps
  <1> QED BY <1>2, <1>3

LEMMA ListTasksHolds ==
    ASSUME CallInv, ListTasks
    PROVE  CallInv'
  <1>1. Running("rows") /\ OnlyReads
    BY DEF ListTasks
  <1>2. PICK r : /\ SameCall(r) /\ r.todo = ask.todo /\ r.half = ask.half /\ r.scope = ask.scope
                 /\ r.allowed = ask.allowed /\ Grounded(r) /\ ask' = Resumed(r)
    <2>1. Grounded(ask) /\ DOMAIN ask = CallFields /\ StepFits("rows", ask.cap, ask.about)
      BY <1>1, RunningCall
    <2> PICK left : left = {t \in Imported : taskState[t] # "none"}
      OBVIOUS
    <2> PICK r : r = [ask EXCEPT !.left = left]
      OBVIOUS
    <2>2. /\ SameCall(r) /\ r.todo = ask.todo /\ r.half = ask.half /\ r.scope = ask.scope
          /\ r.allowed = ask.allowed /\ r.shown = ask.shown /\ r.left = left
      BY <2>1 DEF SameCall, CallFields
    <2>3. left \subseteq Imported /\ ask.cap = "imports"
      BY <2>1 DEF StepFits
    <2>4. Grounded(r)
      BY <2>1, <2>2, <2>3 DEF Grounded, SameCall
    <2>5. ask' = Resumed(r)
      BY DEF ListTasks
    <2> QED BY <2>2, <2>4, <2>5
  <1> QED BY <1>1, <1>2, ReadStep DEF TaskWrites

(***************************************************************************)
(* Steps that a call stays at, or puts another one in the place of.        *)
(***************************************************************************)
KeepsOrder(s, q) ==
    /\ After(s, "row", TaskWrites) => After(q, "row", TaskWrites)
    /\ After(s, "taskBase", NeedBase) => After(q, "taskBase", NeedBase)
    /\ After(s, "scope", NeedScope) => After(q, "scope", NeedScope)
    /\ After(s, "allowed", {"taskByAllowed"}) => After(q, "allowed", {"taskByAllowed"})
    /\ After(s, "taskByScope", TaskWrites) => After(q, "taskByScope", TaskWrites)
    /\ After(s, "cancelled", {"unlink"}) => After(q, "cancelled", {"unlink"})

LEMMA WaitStep ==
    ASSUME CallInv, NEW step, Running(step), step \notin SureSteps \cup UploadSteps, NEW r, SameCall(r),
           r.pc = "running", ask' = r, OnlyReads, Grounded(r), Charted(r), KeepsOrder(ask.todo, r.todo),
           r.scope = ask.scope, r.allowed = ask.allowed
    PROVE  CallInv'
  <1>1. /\ DOMAIN ask' = CallFields /\ ask'.who = ask.who /\ ask'.cap = ask.cap
        /\ ask'.about = ask.about /\ SameData(r, ask') /\ ask'.cap = r.cap
    BY DEF SameCall, SameData
  <1>2. CallTyped /\ Witnessed(0) /\ 0 \in Nat /\ Reader(ask)' = Reader(ask)
    BY <1>1 DEF CallInv, OnlyReads, Witness, Reader
  <1>3. /\ access' = access /\ baseRows' = baseRows /\ taskState' = taskState /\ staged' = staged
        /\ accessRows' = accessRows
    BY DEF OnlyReads, accessRows
  <1>4. CallTyped'
    BY <1>1, <1>2, <1>3, TypedStays DEF CallTyped
  <1>5. Grounded(ask)' /\ GrantsKept'
    BY <1>1, <1>2, GroundedStays, WitnessedGrants
  <1>6. RunInv'
    BY <1>1 DEF RunInv, Charted
  <1>7. Based(ask)'
    <2>1. \A b : InsideOnce(b) => InsideOnce(b)'
      BY <1>2, WitnessedStays
    <2>2. BaseOfTask(ask.about)' = BaseOfTask(ask.about)
      BY <1>1 DEF BaseOfTask
    <2>3. during.blind => during'.blind
      BY <1>2, WitnessedFields
    <2>4. Based(ask)
      BY RunningCall
    <2> QED BY <1>1, <2>1, <2>2, <2>3, <2>4 DEF Based, KeepsOrder
  <1>8. during'.rows = during.rows /\ (during'.turns = 0 => during.turns = 0)
    BY <1>2, WitnessedFields
  <1>9. /\ ask.todo # <<>> /\ ask.todo \in Seq(EveryStep) /\ Head(ask.todo) = step /\ ask.pc = "running"
        /\ StepFits(step, ask.cap, ask.about)
    BY RunningCall
  <1>10. ASSUME during.turns = 0 PROVE Unchanged /\ Checked(ask) /\ during.rows[4] = StagedFor(during.rows[3])
    <2>1. ~Certain(ask)
      BY <1>9, TailPlan DEF Certain
    <2>2. ~Staged(ask)
      BY <1>9 DEF Staged, StepFits
    <2> QED BY <1>9, <1>10, <2>1, <2>2 DEF CallInv, RefuseInv, Honest
  <1>11. ASSUME during'.turns = 0 PROVE Honest(ask)'
    <2>1. Unchanged'
      BY <1>3, <1>8, <1>10, <1>11 DEF Unchanged
    <2>2. Checked(ask)'
      BY <1>1, <1>3, <1>8, <1>10, <1>11, ReadsKeep DEF Checked, KeepsOrder
    <2>3. ask'.cap # "upload"
      BY <1>1, <1>9 DEF StepFits
    <2> QED BY <2>1, <2>2, <2>3 DEF Honest
  <1>12. RefuseInv'
    BY <1>8, <1>10, <1>11 DEF RefuseInv, StagedFor
  <1> QED BY <1>4, <1>5, <1>6, <1>7, <1>12 DEF CallInv, ShowInv

LEMMA StaysCharted ==
    ASSUME CallInv, ask.pc = "running", NEW r, SameCall(r), r.todo = ask.todo
    PROVE  Charted(r) /\ KeepsOrder(ask.todo, r.todo)
  BY DEF CallInv, RunInv, Charted, SameCall, KeepsOrder

LEMMA EachBaseHolds ==
    ASSUME CallInv, EachBase
    PROVE  CallInv'
  <1>1. Running("eachBase") /\ OnlyReads
    BY DEF EachBase
  <1>2. /\ Grounded(ask) /\ GrantsKept /\ Reader(ask) = ask.who /\ DOMAIN ask = CallFields
        /\ StepFits("eachBase", ask.cap, ask.about) /\ ask.pc = "running"
    BY <1>1, RunningCall
  <1>3. CASE ask.left = {}
    BY <1>1, <1>3, PassStep DEF EachBase, TaskWrites
  <1>4. CASE ask.left # {}
    <2>1. \E r : /\ SameCall(r) /\ r.todo = ask.todo /\ r.half = ask.half /\ r.scope = ask.scope
                 /\ r.allowed = ask.allowed /\ r.pc = "running" /\ Grounded(r)
                 /\ ask' = Resumed(r) \/ ask' = r
      <3>1. PICK b \in ask.left :
               LET seen == [ask EXCEPT !.left = @ \ {b},
                               !.shown = @ \cup (IF CanAccessBase(b, ask.who) THEN {b} ELSE {})]
               IN ask' = IF ask.left = {b} THEN Resumed(seen) ELSE seen
        BY <1>4 DEF EachBase
      <3> PICK new : new = (IF CanAccessBase(b, ask.who) THEN {b} ELSE {})
        OBVIOUS
      <3> PICK r : r = [ask EXCEPT !.left = @ \ {b}, !.shown = @ \cup new]
        OBVIOUS
      <3>2. ask' = Resumed(r) \/ ask' = r
        BY <3>1
      <3>3. /\ SameCall(r) /\ r.todo = ask.todo /\ r.half = ask.half /\ r.scope = ask.scope
            /\ r.allowed = ask.allowed /\ r.pc = "running"
            /\ r.shown = ask.shown \cup new /\ r.left = ask.left \ {b}
        BY <1>2 DEF SameCall, CallFields
      <3>4. b \in Bases /\ (CanAccessBase(b, ask.who) => WasReadable(b))
        BY <1>2, CanReadOnce, AccessAssumption DEF StepFits, Grounded, WasReadable
      <3>5. Grounded(r)
        BY <1>2, <3>3, <3>4 DEF Grounded, SameCall
      <3> QED BY <3>2, <3>3, <3>5
    <2>2. PICK r : /\ SameCall(r) /\ r.todo = ask.todo /\ r.half = ask.half /\ r.scope = ask.scope
                   /\ r.allowed = ask.allowed /\ r.pc = "running" /\ Grounded(r)
                   /\ ask' = Resumed(r) \/ ask' = r
      BY <2>1
    <2>3. CASE ask' = Resumed(r)
      BY <1>1, <2>2, <2>3, ReadStep DEF TaskWrites
    <2>4. CASE ask' = r
      BY <1>1, <1>2, <2>2, <2>4, WaitStep, StaysCharted DEF SureSteps, UploadSteps
    <2> QED BY <2>2, <2>3, <2>4
  <1> QED BY <1>3, <1>4

LEMMA EachTaskHolds ==
    ASSUME CallInv, EachTask
    PROVE  CallInv'
  <1>1. Running("eachTask") /\ OnlyReads
    BY DEF EachTask
  <1>2. /\ Grounded(ask) /\ Based(ask) /\ GrantsKept /\ Reader(ask) = ask.who /\ DOMAIN ask = CallFields
        /\ StepFits("eachTask", ask.cap, ask.about) /\ ask.pc = "running"
        /\ ask.todo # <<>> /\ ask.todo \in Seq(EveryStep) /\ Head(ask.todo) = "eachTask"
    BY <1>1, RunningCall
  <1>3. ask.left \cup ask.half \subseteq Imported /\ \A t \in ask.half : InsideOnce(BaseOfTask(t))
    BY <1>2 DEF Grounded, StepFits
  <1>4. CASE Onward
    BY <1>1, <1>4, PassStep DEF TaskWrites
  <1>5. ASSUME NEW t \in ask.left,
               ask' = [ask EXCEPT !.left = @ \ {t},
                          !.half = @ \cup (IF CanAccessBase(BaseOfTask(t), ask.who) THEN {t} ELSE {})]
        PROVE  \E r : /\ SameCall(r) /\ r.todo = ask.todo /\ r.pc = "running" /\ r.scope = ask.scope
                      /\ r.allowed = ask.allowed /\ Grounded(r) /\ ask' = r
    <2> PICK new : new = (IF CanAccessBase(BaseOfTask(t), ask.who) THEN {t} ELSE {})
      OBVIOUS
    <2> PICK r : r = [ask EXCEPT !.left = @ \ {t}, !.half = @ \cup new]
      OBVIOUS
    <2>1. ask' = r
      BY <1>5
    <2>2. /\ SameCall(r) /\ r.todo = ask.todo /\ r.scope = ask.scope /\ r.allowed = ask.allowed
          /\ r.pc = "running" /\ r.shown = ask.shown /\ r.half = ask.half \cup new
          /\ r.left = ask.left \ {t} /\ r.cap = ask.cap
      BY <1>2 DEF SameCall, CallFields
    <2>3. CanAccessBase(BaseOfTask(t), ask.who) => InsideOnce(BaseOfTask(t))
      BY <1>2, <1>3, CanReadOnce, TaskPlaces
    <2>4. r.left \cup r.half \subseteq Imported /\ \A u \in r.half : InsideOnce(BaseOfTask(u))
      BY <1>3, <2>2, <2>3
    <2>5. ask.cap # "bases"
      BY <1>2 DEF StepFits
    <2>6. Grounded(r)
      BY <1>2, <2>2, <2>4, <2>5 DEF Grounded
    <2> QED BY <2>1, <2>2, <2>6
  <1>6. ASSUME NEW t \in ask.half,
               ask' = [ask EXCEPT !.half = @ \ {t},
                          !.shown = @ \cup (IF SeesTask(t, ask.who, ask.scope) THEN {t} ELSE {})]
        PROVE  \E r : /\ SameCall(r) /\ r.todo = ask.todo /\ r.pc = "running" /\ r.scope = ask.scope
                      /\ r.allowed = ask.allowed /\ Grounded(r) /\ ask' = r
    <2> PICK new : new = (IF SeesTask(t, ask.who, ask.scope) THEN {t} ELSE {})
      OBVIOUS
    <2> PICK r : r = [ask EXCEPT !.half = @ \ {t}, !.shown = @ \cup new]
      OBVIOUS
    <2>1. ask' = r
      BY <1>6
    <2>2. /\ SameCall(r) /\ r.todo = ask.todo /\ r.scope = ask.scope /\ r.allowed = ask.allowed
          /\ r.pc = "running" /\ r.shown = ask.shown \cup new /\ r.half = ask.half \ {t}
          /\ r.left = ask.left /\ r.cap = ask.cap
      BY <1>2 DEF SameCall, CallFields
    <2>3. ask.scope \subseteq Docs /\ \A n \in ask.scope : ReadOnce(n)
      BY <1>2 DEF Grounded
    <2>4. ask.scope = {} => during.blind
      BY <1>2, TailAfter DEF Based, NeedScope
    <2>5. t \in Imported /\ (SeesTask(t, ask.who, ask.scope) => WasReadable(t))
      BY <1>2, <1>3, <2>3, <2>4, SeesTaskOnce
    <2>6. r.shown \subseteq Docs \cup Bases \cup Imported /\ \A item \in r.shown : WasReadable(item)
      BY <1>2, <2>2, <2>5 DEF Grounded
    <2>7. ask.cap # "bases"
      BY <1>2 DEF StepFits
    <2>8. Grounded(r)
      BY <1>2, <1>3, <2>2, <2>6, <2>7 DEF Grounded
    <2> QED BY <2>1, <2>2, <2>8
  <1>7. CASE \E r : /\ SameCall(r) /\ r.todo = ask.todo /\ r.pc = "running" /\ r.scope = ask.scope
                    /\ r.allowed = ask.allowed /\ Grounded(r) /\ ask' = r
    <2>1. PICK r : /\ SameCall(r) /\ r.todo = ask.todo /\ r.pc = "running" /\ r.scope = ask.scope
                   /\ r.allowed = ask.allowed /\ Grounded(r) /\ ask' = r
      BY <1>7
    <2> QED BY <1>1, <1>2, <2>1, WaitStep, StaysCharted DEF SureSteps, UploadSteps
  <1> QED BY <1>4, <1>5, <1>6, <1>7 DEF EachTask

LEMMA HeadReplaced ==
    ASSUME NEW s \in Seq(EveryStep), s # <<>>, NEW new \in EveryStep
    PROVE  /\ <<new>> \o Tail(s) \in Seq(EveryStep) /\ <<new>> \o Tail(s) # <<>>
           /\ DOMAIN (<<new>> \o Tail(s)) = DOMAIN s /\ (<<new>> \o Tail(s))[1] = new
           /\ \A i \in DOMAIN s : i # 1 => (<<new>> \o Tail(s))[i] = s[i]
  <1> PICK t : t = Tail(s)
    OBVIOUS
  <1>1. /\ t \in Seq(EveryStep) /\ Len(s) \in Nat \ {0} /\ Len(t) = Len(s) - 1 /\ DOMAIN s = 1..Len(s)
        /\ \A i \in DOMAIN s : i # 1 => i - 1 \in DOMAIN t /\ t[i - 1] = s[i]
    BY TailPlan
  <1> PICK q : q = <<new>> \o t
    OBVIOUS
  <1>2. /\ q \in Seq(EveryStep) /\ Len(q) = 1 + Len(t) /\ q[1] = new
        /\ \A i \in DOMAIN t : q[i + 1] = t[i]
    BY <1>1
  <1>3. DOMAIN q = 1..Len(q) /\ Len(q) = Len(s)
    BY <1>1, <1>2
  <1>4. q # <<>>
    BY <1>1, <1>3
  <1>5. ASSUME NEW i \in DOMAIN s, i # 1 PROVE q[i] = s[i]
    <2>1. i - 1 \in DOMAIN t /\ t[i - 1] = s[i] /\ i \in Nat
      BY <1>1, <1>5
    <2> PICK j : j = i - 1
      OBVIOUS
    <2>2. q[j + 1] = t[j] /\ j + 1 = i
      BY <1>2, <2>1
    <2> QED BY <2>1, <2>2
  <1> QED BY <1>1, <1>2, <1>3, <1>4, <1>5

LEMMA AfterReplaced ==
    ASSUME NEW s \in Seq(EveryStep), s # <<>>, NEW new \in EveryStep, NEW first, NEW then,
           Head(s) # first, new \notin then, After(s, first, then)
    PROVE  After(<<new>> \o Tail(s), first, then)
  <1> PICK q : q = <<new>> \o Tail(s)
    OBVIOUS
  <1>1. DOMAIN q = DOMAIN s /\ q[1] = new /\ \A i \in DOMAIN s : i # 1 => q[i] = s[i]
    BY HeadReplaced
  <1>2. s[1] = Head(s)
    BY TailPlan
  <1>3. ASSUME NEW i \in DOMAIN q, q[i] \in then PROVE \E j \in DOMAIN q : j < i /\ q[j] = first
    <2>1. i \in DOMAIN s /\ i # 1 /\ s[i] \in then
      BY <1>1, <1>3
    <2>2. PICK j \in DOMAIN s : j < i /\ s[j] = first
      BY <2>1 DEF After
    <2> QED BY <1>1, <1>2, <2>2
  <1> QED BY <1>3 DEF After

LEMMA FindTargetHolds ==
    ASSUME CallInv, FindTarget
    PROVE  CallInv'
  <1>1. Running("target") /\ OnlyReads
    BY DEF FindTarget
  <1>2. /\ Grounded(ask) /\ DOMAIN ask = CallFields /\ StepFits("target", ask.cap, ask.about)
        /\ ask.pc = "running" /\ ask.todo # <<>> /\ ask.todo \in Seq(EveryStep) /\ Head(ask.todo) = "target"
    BY <1>1, RunningCall
  <1>3. CASE Onward
    BY <1>1, <1>3, PassStep DEF TaskWrites
  <1>4. CASE CallRefused
    BY <1>1, <1>4, RefusedEarly DEF SureSteps
  <1>5. ASSUME ask.about \in baseRows, ask' = [ask EXCEPT !.todo = <<"inside">> \o Tail(@)]
        PROVE  CallInv'
    <2>1. ask.about \in Bases /\ "inside" \in EveryStep
      BY <1>5 DEF CallInv, CallTyped, EveryStep
    <2>2. \E r : /\ SameCall(r) /\ r.todo = <<"inside">> \o Tail(ask.todo) /\ r.pc = "running"
                 /\ r.scope = ask.scope /\ r.allowed = ask.allowed /\ Grounded(r) /\ ask' = r
      <3> PICK q : q = <<"inside">> \o Tail(ask.todo)
        OBVIOUS
      <3> PICK r : r = [ask EXCEPT !.todo = q]
        OBVIOUS
      <3>1. /\ SameCall(r) /\ r.todo = q /\ r.pc = "running" /\ r.scope = ask.scope
            /\ r.allowed = ask.allowed /\ r.left = ask.left /\ r.half = ask.half /\ r.shown = ask.shown
        BY <1>2 DEF SameCall, CallFields
      <3>2. Grounded(r)
        BY <1>2, <3>1 DEF Grounded, SameCall
      <3> QED BY <1>5, <3>1, <3>2
    <2>3. PICK r : /\ SameCall(r) /\ r.todo = <<"inside">> \o Tail(ask.todo) /\ r.pc = "running"
                   /\ r.scope = ask.scope /\ r.allowed = ask.allowed /\ Grounded(r) /\ ask' = r
      BY <2>2
    <2>4. KeepsOrder(ask.todo, r.todo)
      BY <1>2, <2>1, <2>3, AfterReplaced DEF KeepsOrder, TaskWrites, NeedBase, NeedScope
    <2>5. Fitting(ask.todo, ask.cap, ask.about) /\ Trailing(ask.todo)
      BY <1>2 DEF CallInv, RunInv, Charted
    <2>6. /\ r.todo \in Seq(EveryStep) /\ r.todo # <<>> /\ DOMAIN r.todo = DOMAIN ask.todo
          /\ r.todo[1] = "inside" /\ \A i \in DOMAIN ask.todo : i # 1 => r.todo[i] = ask.todo[i]
      BY <1>2, <2>1, <2>3, HeadReplaced
    <2>7. StepFits("inside", ask.cap, ask.about)
      BY <1>2, <2>1 DEF StepFits, UploadSteps, SureSteps, TaskWrites
    <2>8. \A i \in DOMAIN r.todo : StepFits(r.todo[i], ask.cap, ask.about)
      BY <2>5, <2>6, <2>7 DEF Fitting
    <2>9. Trailing(r.todo)
      <3>1. \A i \in DOMAIN r.todo : r.todo[i] \in {"inside", ask.todo[i]} /\ (i # 1 => r.todo[i] = ask.todo[i])
        BY <2>6
      <3>2. DOMAIN ask.todo = 1..Len(ask.todo) /\ Len(ask.todo) \in Nat
        BY <1>2
      <3>3. \A i, j \in DOMAIN r.todo : i < j => j # 1
        BY <2>6, <3>2
      <3> QED BY <2>5, <2>6, <3>1, <3>3 DEF Trailing, TaskWrites, LastSteps
    <2>10. Charted(r)
      BY <2>3, <2>6, <2>8, <2>9 DEF Charted, Fitting, SameCall
    <2> QED BY <1>1, <2>3, <2>4, <2>10, WaitStep DEF SureSteps, UploadSteps
  <1> QED BY <1>3, <1>4, <1>5 DEF FindTarget, OnlyIf

LEMMA AimHolds ==
    ASSUME CallInv, AimBase \/ Aim
    PROVE  CallInv'
  <1>1. CASE AimBase
    <2>1. Running("aimBase") /\ OnlyReads /\ (Onward \/ CallRefused)
      BY <1>1 DEF AimBase, OnlyIf
    <2> QED BY <2>1, RefusedEarly, PassStep DEF TaskWrites, SureSteps
  <1>2. CASE Aim
    <2>1. Running("aim") /\ OnlyReads /\ (Onward \/ CallRefused)
      BY <1>2 DEF Aim, OnlyIf
    <2> QED BY <2>1, RefusedEarly, PassStep DEF TaskWrites, SureSteps
  <1> QED BY <1>1, <1>2

(***************************************************************************)
(* Steps that change something.                                            *)
(***************************************************************************)
LEMMA WriteStep ==
    ASSUME CallInv, NEW step, Running(step), step \notin {"scope", "allowed", "taskBase"}, Onward, Witness,
           DOMAIN taskState' = DOMAIN taskState, baseRows' \subseteq baseRows
    PROVE  /\ CallTyped' /\ ShowInv' /\ RunInv'
           /\ ask'.todo = Tail(ask.todo) /\ ask'.pc = (IF Len(ask.todo) = 1 THEN "answered" ELSE "running")
           /\ ask'.who = ask.who /\ ask'.cap = ask.cap /\ ask'.about = ask.about /\ SameData(ask, ask')
           /\ during'.rows = during.rows /\ (during'.turns = 0 => during.turns = 0)
           /\ during'.turns = 0 => during'.rows[4] = StagedFor(during'.rows[3])
  <1>1. SameCall(ask) /\ Grounded(ask) /\ DOMAIN ask = CallFields
    BY RunningCall DEF SameCall
  <1>2. ask' = Resumed(ask)
    BY DEF Onward
  <1>3. CallTyped' /\ ShowInv' /\ RunInv'
    BY <1>1, <1>2, CallGoesOn
  <1>4. during'.rows = during.rows /\ (during'.turns = 0 => during.turns = 0)
    BY WitnessedFields DEF CallInv, Witness
  <1>5. during'.turns = 0 => during'.rows[4] = StagedFor(during'.rows[3])
    BY <1>4 DEF CallInv, RefuseInv, Running
  <1> QED BY <1>1, <1>2, <1>3, <1>4, <1>5, ResumedFields

\* What comes last is not followed by a refusal.
LEMMA LastStep ==
    ASSUME CallInv, NEW step \in LastSteps, Running(step), Onward, Witness,
           DOMAIN taskState' = DOMAIN taskState, baseRows' \subseteq baseRows
    PROVE  CallInv'
  <1>1. /\ CallTyped' /\ ShowInv' /\ RunInv'
        /\ ask'.pc = (IF Len(ask.todo) = 1 THEN "answered" ELSE "running")
        /\ during'.turns = 0 => during'.rows[4] = StagedFor(during'.rows[3])
    BY WriteStep DEF LastSteps
  <1>2. Len(ask.todo) = 1
    <2>1. Fitting(ask.todo, ask.cap, ask.about) /\ Trailing(ask.todo)
      BY DEF CallInv, RunInv, Charted, Running
    <2> QED BY <2>1, RunningCall, TailCharted
  <1>3. RefuseInv'
    BY <1>1, <1>2 DEF RefuseInv, StagedFor
  <1> QED BY <1>1, <1>3 DEF CallInv

LEMMA MakeTaskHolds ==
    ASSUME CallInv, MakeTask
    PROVE  CallInv'
  <1>1. Running("make") /\ Onward /\ Witness /\ baseRows' = baseRows
    BY DEF MakeTask
  <1>2. DOMAIN taskState' = DOMAIN taskState
    <2>1. PICK t \in Imported : taskState' = [taskState EXCEPT ![t] = "pending"]
      BY DEF MakeTask
    <2> QED BY <2>1
  <1> QED BY <1>1, <1>2, LastStep DEF LastSteps

LEMMA EraseHolds ==
    ASSUME CallInv, EraseNode \/ EraseBase
    PROVE  CallInv'
  <1>1. CASE EraseNode
    <2>1. Running("eraseNode") /\ ((CallRefused /\ OnlyReads) \/ (Onward /\ Witness))
      BY <1>1 DEF EraseNode
    <2>2. CASE CallRefused /\ OnlyReads
      BY <2>1, <2>2, RefusedEarly DEF SureSteps
    <2>3. CASE Onward /\ Witness
      <3>1. taskState' = taskState /\ baseRows' = baseRows
        BY <1>1 DEF EraseNode, OnlyReads, accessRows
      <3> QED BY <2>1, <2>3, <3>1, LastStep DEF LastSteps
    <2> QED BY <2>1, <2>2, <2>3
  <1>2. CASE EraseBase
    <2>1. Running("eraseBase") /\ ((CallRefused /\ OnlyReads) \/ (Onward /\ Witness))
      BY <1>2 DEF EraseBase
    <2>2. CASE CallRefused /\ OnlyReads
      BY <2>1, <2>2, RefusedEarly DEF SureSteps
    <2>3. CASE Onward /\ Witness
      <3>1. taskState' = taskState /\ baseRows' \subseteq baseRows
        BY <1>2 DEF EraseBase, OnlyReads, accessRows
      <3> QED BY <2>1, <2>3, <3>1, LastStep DEF LastSteps
    <2> QED BY <2>1, <2>2, <2>3
  <1> QED BY <1>1, <1>2

LEMMA SetTaskHolds ==
    ASSUME CallInv, NEW step \in TaskWrites, Running(step), NEW state \in TaskStates \ {"none"}, SetTask(state)
    PROVE  CallInv'
  <1>1. /\ taskState' = [taskState EXCEPT ![ask.about] = IF @ = "none" THEN @ ELSE state]
        /\ Onward /\ access' = access /\ baseRows' = baseRows /\ staged' = staged /\ Witness
    BY DEF SetTask
  <1>2. DOMAIN taskState' = DOMAIN taskState
    BY <1>1
  <1>3. /\ CallTyped' /\ ShowInv' /\ RunInv' /\ ask'.todo = Tail(ask.todo)
        /\ ask'.pc = (IF Len(ask.todo) = 1 THEN "answered" ELSE "running")
        /\ ask'.who = ask.who /\ ask'.cap = ask.cap /\ ask'.about = ask.about /\ SameData(ask, ask')
        /\ during'.turns = 0 => during.turns = 0
        /\ during'.turns = 0 => during'.rows[4] = StagedFor(during'.rows[3])
    BY <1>1, <1>2, WriteStep DEF TaskWrites
  <1>4. /\ ask.todo # <<>> /\ ask.todo \in Seq(EveryStep) /\ Head(ask.todo) = step /\ ask.pc = "running"
        /\ StepFits(step, ask.cap, ask.about)
    BY RunningCall
  <1>5. ask.about \in Imported /\ ask.cap \in {"cancel", "retry"}
    BY <1>4 DEF StepFits
  <1>6. ASSUME during.turns = 0
        PROVE  /\ taskState[ask.about] # "none" /\ CanAccessBase(BaseOfTask(ask.about), ask.who)
               /\ SeesTask(ask.about, ask.who, AllowedDocs(ask.who)) /\ ask.scope = AllowedDocs(ask.who)
    <2>1. ~Staged(ask)
      BY <1>5 DEF Staged
    <2>2. ~Certain(ask)
      <3>1. step \notin SureSteps
        BY DEF TaskWrites, SureSteps
      <3> QED BY <1>4, <3>1, TailPlan DEF Certain
    <2>3. Checked(ask)
      BY <1>4, <1>6, <2>1, <2>2 DEF CallInv, RefuseInv, Honest
    <2> QED BY <1>4, <2>3, TailAfter DEF Checked, NeedBase, NeedScope
  <1>7. taskState[ask.about] # "none" => taskState'[ask.about] # "none"
    BY <1>1, <1>5 DEF CallInv, CallTyped
  <1>8. \A i \in DOMAIN ask'.todo : ask'.todo[i] \in SureSteps
    <2>1. Fitting(ask.todo, ask.cap, ask.about) /\ Trailing(ask.todo)
      BY <1>4 DEF CallInv, RunInv, Charted
    <2> QED BY <1>3, <1>4, <2>1, TailCharted
  <1>9. during'.turns = 0 => Certain(ask)'
    <2>1. ask'.scope = ask.scope
      BY <1>3 DEF SameData
    <2> QED BY <1>1, <1>3, <1>5, <1>6, <1>7, <1>8, <2>1, ReadsKeep DEF Certain
  <1>10. RefuseInv'
    BY <1>3, <1>9 DEF RefuseInv, StagedFor, Honest
  <1> QED BY <1>3, <1>10 DEF CallInv

LEMMA ChangeTaskHolds ==
    ASSUME CallInv, CancelPending \/ RetryFailed
    PROVE  CallInv'
  <1>1. CASE CancelPending
    <2>1. Running("cancelled") /\ ((CallRefused /\ OnlyReads) \/ SetTask("cancelled"))
      BY <1>1 DEF CancelPending
    <2> QED BY <2>1, RefusedEarly, SetTaskHolds DEF TaskWrites, SureSteps, TaskStates
  <1>2. CASE RetryFailed
    <2>1. Running("queued")
      BY <1>2 DEF RetryFailed
    <2>2. (CallRefused /\ OnlyReads) \/ \E state \in {"pending", "done", "running"} : SetTask(state)
      BY <1>2 DEF RetryFailed
    <2> QED BY <2>1, <2>2, RefusedEarly, SetTaskHolds DEF TaskWrites, SureSteps, TaskStates
  <1> QED BY <1>1, <1>2

LEMMA UnlinkHolds ==
    ASSUME CallInv, UnlinkFile
    PROVE  CallInv'
  <1>1. /\ Running("unlink") /\ Onward /\ Witness
        /\ access' = access /\ baseRows' = baseRows /\ taskState' = taskState
    BY DEF UnlinkFile
  <1>2. /\ CallTyped' /\ ShowInv' /\ RunInv' /\ ask'.todo = Tail(ask.todo)
        /\ ask'.pc = (IF Len(ask.todo) = 1 THEN "answered" ELSE "running")
        /\ ask'.who = ask.who /\ ask'.cap = ask.cap /\ ask'.about = ask.about /\ SameData(ask, ask')
        /\ during'.turns = 0 => during.turns = 0
        /\ during'.turns = 0 => during'.rows[4] = StagedFor(during'.rows[3])
    BY <1>1, WriteStep
  <1>3. /\ ask.todo # <<>> /\ ask.todo \in Seq(EveryStep) /\ Head(ask.todo) = "unlink"
        /\ ask.pc = "running" /\ StepFits("unlink", ask.cap, ask.about)
    BY <1>1, RunningCall
  <1>4. ASSUME during.turns = 0 PROVE Certain(ask)
    <2>1. ~Checked(ask)
      BY <1>3, TailAfter DEF Checked
    <2>2. ~Staged(ask)
      BY <1>3 DEF Staged, StepFits, UploadSteps
    <2> QED BY <1>3, <1>4, <2>1, <2>2 DEF CallInv, RefuseInv, Honest
  <1>5. \A i \in DOMAIN ask'.todo : i + 1 \in DOMAIN ask.todo /\ ask'.todo[i] = ask.todo[i + 1]
    BY <1>2, <1>3, TailPlan
  <1>6. during'.turns = 0 => Certain(ask)'
    <2>1. ask'.scope = ask.scope
      BY <1>2 DEF SameData
    <2> QED BY <1>1, <1>2, <1>4, <1>5, <2>1, ReadsKeep DEF Certain
  <1>7. RefuseInv'
    BY <1>2, <1>6 DEF RefuseInv, StagedFor, Honest
  <1> QED BY <1>2, <1>7 DEF CallInv

LEMMA StoreHolds ==
    ASSUME CallInv, StoreFiles
    PROVE  CallInv'
  <1>1. PICK t \in Imported : /\ TaskFits(t, ask.about) /\ staged' = staged \cup {t}
                              /\ ask' = Resumed([ask EXCEPT !.half = {t}])
    BY DEF StoreFiles
  <1>2. Running("store") /\ access' = access /\ baseRows' = baseRows /\ taskState' = taskState /\ Witness
    BY DEF StoreFiles
  <1>3. /\ ask.todo # <<>> /\ ask.todo \in Seq(EveryStep) /\ Head(ask.todo) = "store"
        /\ ask.pc = "running" /\ Grounded(ask) /\ DOMAIN ask = CallFields /\ ask.cap = "upload"
    BY <1>2, RunningCall DEF StepFits
  <1>4. PICK r : /\ SameCall(r) /\ r.todo = ask.todo /\ r.half = {t} /\ r.scope = ask.scope
                 /\ r.allowed = ask.allowed /\ Grounded(r) /\ ask' = Resumed(r)
    <2> PICK files : files = {t}
      OBVIOUS
    <2> PICK r : r = [ask EXCEPT !.half = files]
      OBVIOUS
    <2>1. /\ SameCall(r) /\ r.todo = ask.todo /\ r.half = files /\ r.scope = ask.scope
          /\ r.allowed = ask.allowed /\ r.shown = ask.shown /\ r.left = ask.left
      BY <1>3 DEF SameCall, CallFields
    <2>2. Grounded(r)
      BY <1>3, <2>1 DEF Grounded, SameCall
    <2>3. ask' = Resumed(r)
      BY <1>1
    <2> QED BY <2>1, <2>2, <2>3
  <1>5. CallTyped' /\ ShowInv' /\ RunInv'
    BY <1>2, <1>4, CallGoesOn
  <1>6. /\ ask'.todo = Tail(ask.todo) /\ ask'.half = {t} /\ ask'.cap = "upload"
        /\ ask'.pc \in {"answered", "running"}
    BY <1>3, <1>4, ResumedFields DEF SameCall, SameData
  <1>7. during'.rows = during.rows /\ (during'.turns = 0 => during.turns = 0)
    BY <1>2, WitnessedFields DEF CallInv, Witness
  <1>8. ASSUME during.turns = 0 PROVE Unchanged /\ during.rows[4] = StagedFor(during.rows[3])
    <2>1. 1 \in DOMAIN ask.todo /\ ask.todo[1] = "store"
      BY <1>3, TailPlan
    <2>2. ~Certain(ask)
      BY <1>3 DEF Certain
    <2> QED BY <1>3, <1>8, <2>1, <2>2 DEF CallInv, RefuseInv, Honest
  <1>9. ASSUME during'.turns = 0 PROVE Staged(ask)'
    <2>1. /\ during.rows[1] = access /\ during.rows[2] = baseRows /\ during.rows[3] = taskState
          /\ during.rows[4] = staged
      BY <1>7, <1>8, <1>9 DEF Unchanged, accessRows
    <2>2. t \notin staged
      BY <1>1, <1>7, <1>8, <1>9, <2>1 DEF TaskFits, StagedFor
    <2> QED BY <1>1, <1>2, <1>6, <1>7, <2>1, <2>2 DEF Staged
  <1>10. \A i \in DOMAIN ask'.todo : ask'.todo[i] # "store"
    <2>1. Fitting(ask.todo, ask.cap, ask.about) /\ Trailing(ask.todo)
      BY <1>3 DEF CallInv, RunInv, Charted
    <2> QED BY <1>3, <1>6, <2>1, TailCharted
  <1>11. RefuseInv'
    BY <1>6, <1>7, <1>8, <1>9, <1>10 DEF RefuseInv, StagedFor, Honest
  <1> QED BY <1>5, <1>11 DEF CallInv

LEMMA UnstageHolds ==
    ASSUME CallInv, UnstageFiles
    PROVE  CallInv'
  <1>1. /\ ask.pc = "unstage" /\ staged' = staged \ ask.half /\ Witnessed(0) /\ 0 \in Nat
        /\ access' = access /\ baseRows' = baseRows /\ taskState' = taskState
    BY DEF UnstageFiles, Witness
  <1>2. /\ DOMAIN ask' = CallFields /\ ask'.who = ask.who /\ ask'.cap = ask.cap
        /\ ask'.about = ask.about /\ SameData(ask, ask') /\ ask'.pc = "refused"
    BY DEF UnstageFiles, CallInv, CallTyped, CallFields, SameData
  <1>3. CallTyped'
    BY <1>1, <1>2, TypedStays DEF CallInv, CallTyped
  <1>4. Grounded(ask)' /\ GrantsKept'
    <2>1. Reader(ask)' = Reader(ask)
      BY <1>2 DEF Reader
    <2> QED BY <1>1, <1>2, <2>1, GroundedStays, WitnessedGrants DEF CallInv, ShowInv
  <1>5. during'.rows = during.rows /\ (during'.turns = 0 => during.turns = 0)
    BY <1>1, WitnessedFields DEF CallInv
  <1>6. during.turns = 0 => Staged(ask) /\ during.rows[4] = StagedFor(during.rows[3])
    BY <1>1 DEF CallInv, RefuseInv
  <1>7. ASSUME during'.turns = 0 PROVE Unchanged'
    <2>1. /\ access' = during.rows[1] /\ baseRows' = during.rows[2] /\ taskState' = during.rows[3]
          /\ staged' = during.rows[4]
      BY <1>1, <1>5, <1>6, <1>7 DEF Staged
    <2>2. accessRows' = during.rows
      BY <2>1 DEF accessRows, CallInv, CallTyped
    <2> QED BY <1>5, <2>2 DEF Unchanged
  <1>8. RefuseInv'
    BY <1>2, <1>5, <1>6, <1>7 DEF RefuseInv, StagedFor
  <1>9. ShowInv' /\ RunInv'
    BY <1>2, <1>4 DEF ShowInv, RunInv
  <1> QED BY <1>3, <1>8, <1>9 DEF CallInv

(***************************************************************************)
(* Before a call runs, and what others do.                                 *)
(***************************************************************************)
LEMMA FreshGrounded ==
    ASSUME NEW r, Fresh(r)
    PROVE  Grounded(r)
  BY DEF Fresh, Grounded

LEMMA AskHolds ==
    ASSUME CallInv, AskCapability
    PROVE  CallInv'
  <1>1. PICK p \in Persons, cap \in Capabilities, byKey \in BOOLEAN, role \in RoleNames :
           \E about \in Targets(cap) :
              /\ ask' = [NoCall EXCEPT !.pc = "principal", !.cap = cap, !.byKey = byKey, !.about = about,
                            !.who = [person |-> p, role |-> IF byKey THEN roleOf[p] ELSE role]]
              /\ during' = Nothing
    BY DEF AskCapability
  <1>2. PICK about \in Targets(cap) :
              /\ ask' = [NoCall EXCEPT !.pc = "principal", !.cap = cap, !.byKey = byKey, !.about = about,
                            !.who = [person |-> p, role |-> IF byKey THEN roleOf[p] ELSE role]]
              /\ during' = Nothing
    BY <1>1
  <1>3. /\ access' = access /\ baseRows' = baseRows /\ taskState' = taskState /\ staged' = staged
        /\ accessRows' = accessRows /\ ask.pc = "none"
    BY DEF AskCapability, accessRows
  <1> PICK who : who = [person |-> p, role |-> IF byKey THEN roleOf[p] ELSE role]
    OBVIOUS
  <1>4. DOMAIN who = {"person", "role"}
    OBVIOUS
  <1>5. /\ DOMAIN ask' = CallFields /\ ask'.pc = "principal" /\ ask'.cap = cap /\ ask'.about = about
        /\ ask'.who = who /\ Fresh(ask)'
    BY <1>2 DEF NoCall, CallFields, Fresh
  <1> PICK blank : blank = {b \in Bases : DocsOf(b) = {}}
    OBVIOUS
  <1>6. /\ DOMAIN during' = {"grants", "empty", "blind", "turns", "rows"} /\ during'.turns = 0
        /\ during'.blind = FALSE /\ during'.grants = access /\ during'.empty = blank
        /\ during'.rows = accessRows
    BY <1>2 DEF Nothing
  <1>7. CallTyped'
    <2>1. during'.rows = <<during'.rows[1], during'.rows[2], during'.rows[3], during'.rows[4]>>
      BY <1>6 DEF accessRows
    <2>2. during'.blind \in BOOLEAN
      BY <1>6, Zenon
    <2>3. during'.turns \in Nat
      BY <1>6
    <2> QED BY <1>3, <1>4, <1>5, <1>6, <2>1, <2>2, <2>3 DEF CallInv, CallTyped
  <1>8. GrantsKept'
    BY <1>3, <1>6 DEF GrantsKept, DocsOf, DocsThere
  <1>9. Grounded(ask)'
    BY <1>5 DEF Fresh, Grounded
  <1>10. staged = StagedFor(taskState)
    BY <1>3 DEF CallInv, RefuseInv
  <1>11. RefuseInv'
    BY <1>3, <1>5, <1>6, <1>10 DEF RefuseInv, Unchanged, accessRows, StagedFor
  <1>12. ShowInv' /\ RunInv'
    BY <1>5, <1>8, <1>9 DEF ShowInv, RunInv
  <1> QED BY <1>7, <1>11, <1>12 DEF CallInv

LEMMA FindKeyHolds ==
    ASSUME CallInv, FindKey
    PROVE  CallInv'
  <1>1. ask.pc = "principal" /\ ask' = [ask EXCEPT !.pc = "user"] /\ Witnessed(0) /\ 0 \in Nat
    BY DEF FindKey, OnlyReads, Witness
  <1>2. accessRows' = accessRows /\ taskState' = taskState /\ baseRows' = baseRows
    BY DEF FindKey, OnlyReads, accessRows
  <1>3. /\ DOMAIN ask' = CallFields /\ ask'.pc = "user" /\ ask'.who = ask.who /\ ask'.cap = ask.cap
        /\ ask'.about = ask.about /\ SameData(ask, ask')
    BY <1>1 DEF CallInv, CallTyped, CallFields, SameData
  <1>4. CallTyped' /\ GrantsKept'
    BY <1>1, <1>2, <1>3, TypedStays, WitnessedGrants DEF CallInv, CallTyped
  <1>5. Fresh(ask)' /\ ask.cap \in Capabilities /\ ask.about \in Targets(ask.cap)
    BY <1>1, <1>3 DEF CallInv, RunInv, Fresh, SameData
  <1>6. ShowInv' /\ RunInv'
    BY <1>3, <1>4, <1>5 DEF ShowInv, RunInv, Fresh, Grounded
  <1>7. during'.rows = during.rows /\ (during'.turns = 0 => during.turns = 0)
    BY <1>1, WitnessedFields DEF CallInv
  <1>8. during.turns = 0 => Unchanged /\ during.rows[4] = StagedFor(during.rows[3])
    BY <1>1 DEF CallInv, RefuseInv
  <1>9. RefuseInv'
    BY <1>2, <1>3, <1>7, <1>8 DEF RefuseInv, Unchanged, StagedFor
  <1> QED BY <1>4, <1>6, <1>9 DEF CallInv

LEMMA AuthorizeHolds ==
    ASSUME CallInv, AuthorizeCall
    PROVE  CallInv'
  <1> PICK role : role = (IF ask.byKey THEN roleOf[ask.who.person] ELSE ask.who.role)
    OBVIOUS
  <1> PICK steps : steps = StepsOf(ask.cap)
    OBVIOUS
  <1>1. /\ ask.pc \in {"principal", "user"} /\ Witnessed(0) /\ 0 \in Nat /\ accessRows' = accessRows
        /\ access' = access /\ taskState' = taskState /\ baseRows' = baseRows /\ staged' = staged
    BY DEF AuthorizeCall, OnlyReads, Witness, accessRows
  <1>2. ask' = [ask EXCEPT !.who.role = role, !.todo = steps,
                   !.pc = IF ~Authorized(ask.cap, role) THEN "refused"
                          ELSE IF steps = <<>> THEN "answered" ELSE "running"]
    BY DEF AuthorizeCall
  <1>3. /\ DOMAIN ask' = CallFields /\ DOMAIN ask'.who = {"person", "role"} /\ ask'.cap = ask.cap
        /\ ask'.about = ask.about /\ ask'.todo = steps /\ SameData(ask, ask')
        /\ ask'.pc \in {"refused", "answered", "running"} /\ (ask'.pc = "running" => steps # <<>>)
    <2>1. PICK pc : /\ pc \in {"refused", "answered", "running"} /\ (pc = "running" => steps # <<>>)
                    /\ ask' = [ask EXCEPT !.who.role = role, !.todo = steps, !.pc = pc]
      <3>1. CASE ~Authorized(ask.cap, role)
        BY <1>2, <3>1, Zenon
      <3>2. CASE Authorized(ask.cap, role) /\ steps = <<>>
        BY <1>2, <3>2, Zenon
      <3>3. CASE Authorized(ask.cap, role) /\ steps # <<>>
        BY <1>2, <3>3, Zenon
      <3> QED BY <3>1, <3>2, <3>3
    <2>2. DOMAIN ask = CallFields /\ DOMAIN ask.who = {"person", "role"}
      BY DEF CallInv, CallTyped
    <2> QED BY <2>1, <2>2 DEF CallFields, SameData
  <1>4. CallTyped' /\ GrantsKept'
    BY <1>1, <1>3, TypedStays, WitnessedGrants DEF CallInv
  <1>5. Fresh(ask)' /\ ask.cap \in Capabilities /\ ask.about \in Targets(ask.cap)
    BY <1>1, <1>3 DEF CallInv, RunInv, Fresh, SameData
  <1>6. Planned(steps, ask.cap, ask.about)
    BY <1>5, StepsPlanned
  <1>7. ask'.pc = "running" => Based(ask)' /\ Charted(ask)' /\ Checked(ask)'
    BY <1>3, <1>6 DEF Planned, Ordered, Based, Charted, Checked
  <1>8. ShowInv' /\ RunInv'
    BY <1>3, <1>4, <1>5, <1>7 DEF ShowInv, RunInv, Fresh, Grounded
  <1>9. during'.rows = during.rows /\ (during'.turns = 0 => during.turns = 0)
    BY <1>1, WitnessedFields DEF CallInv
  <1>10. during.turns = 0 => Unchanged /\ during.rows[4] = StagedFor(during.rows[3])
    BY <1>1 DEF CallInv, RefuseInv
  <1>11. RefuseInv'
    BY <1>1, <1>3, <1>5, <1>7, <1>9, <1>10 DEF RefuseInv, Unchanged, StagedFor, Honest, Fresh
  <1> QED BY <1>4, <1>8, <1>11 DEF CallInv

LEMMA OthersHold ==
    ASSUME CallInv, OthersChange
    PROVE  CallInv'
  <1>1. ask' = ask /\ Witnessed(1) /\ 1 \in Nat /\ ask.pc # "none" /\ baseRows' = baseRows
    BY DEF OthersChange
  <1>2. DOMAIN taskState' = DOMAIN taskState
    BY DEF OthersChange
  <1>3. CallTyped' /\ GrantsKept' /\ Reader(ask)' = Reader(ask)
    BY <1>1, <1>2, TypedStays, WitnessedGrants DEF CallInv, CallTyped, Reader
  <1>4. Grounded(ask)'
    BY <1>1, <1>3, GroundedStays DEF CallInv, ShowInv, SameData
  <1>5. ask.pc = "running" => Based(ask)'
    <2>1. \A b : InsideOnce(b) => InsideOnce(b)'
      BY <1>1, <1>3, WitnessedStays DEF CallInv
    <2>2. BaseOfTask(ask.about)' = BaseOfTask(ask.about)
      BY <1>1 DEF BaseOfTask
    <2>3. during.blind => during'.blind
      BY <1>1, WitnessedFields DEF CallInv
    <2> QED BY <1>1, <2>1, <2>2, <2>3 DEF Based, CallInv, ShowInv
  <1>6. RunInv'
    BY <1>1 DEF CallInv, RunInv, Fresh, Charted
  <1>7. during'.turns # 0
    <2>1. during'.turns = during.turns + 1
      BY <1>1, WitnessedFields DEF CallInv
    <2>2. PICK n \in Nat : n = during.turns
      BY DEF CallInv, CallTyped
    <2> QED BY <2>1, <2>2
  <1>8. RefuseInv'
    BY <1>1, <1>7 DEF RefuseInv
  <1> QED BY <1>1, <1>3, <1>4, <1>5, <1>6, <1>8 DEF CallInv, ShowInv

LEMMA NothingHolds ==
    ASSUME CallInv, UNCHANGED <<accessRows, ask, during>>
    PROVE  CallInv'
  <1>1. /\ access' = access /\ baseRows' = baseRows /\ taskState' = taskState /\ staged' = staged
        /\ ask' = ask /\ during' = during
    BY DEF accessRows
  <1>2. CallTyped' /\ RunInv'
    BY <1>1 DEF CallInv, CallTyped, RunInv, Fresh, Charted
  <1>3. /\ \A n : ReadOnce(n)' <=> ReadOnce(n)
        /\ \A b : InsideOnce(b)' <=> InsideOnce(b)
        /\ \A t : BaseOfTask(t)' = BaseOfTask(t)
    BY <1>1 DEF ReadOnce, InsideOnce, BaseOfTask, Reader
  <1>4. \A item : WasReadable(item)' <=> WasReadable(item)
    BY <1>1, <1>3 DEF WasReadable, SeenOnce
  <1>5. Grounded(ask)'
    BY <1>1, <1>3, <1>4 DEF CallInv, ShowInv, Grounded
  <1>6. GrantsKept'
    BY <1>1 DEF CallInv, ShowInv, GrantsKept, DocsOf, DocsThere
  <1>7. ask.pc = "running" => Based(ask)'
    BY <1>1, <1>3 DEF CallInv, ShowInv, Based
  <1>8. Honest(ask)' <=> Honest(ask)
    <2>1. Certain(ask)' <=> Certain(ask)
      BY <1>1, ReadsKeep DEF Certain
    <2>2. Checked(ask)' <=> Checked(ask)
      BY <1>1, ReadsKeep DEF Checked
    <2>3. (Unchanged' <=> Unchanged) /\ (Staged(ask)' <=> Staged(ask))
      BY <1>1 DEF Unchanged, Staged, accessRows
    <2> QED BY <1>1, <2>1, <2>2, <2>3 DEF Honest
  <1>9. RefuseInv'
    BY <1>1, <1>8 DEF CallInv, RefuseInv, Unchanged, Staged, accessRows, StagedFor
  <1> QED BY <1>1, <1>2, <1>5, <1>6, <1>7, <1>9 DEF CallInv, ShowInv

LEMMA CallStarts ==
    ASSUME AccessInit
    PROVE  CallInv
  <1>1. /\ ask = NoCall /\ during = Nothing /\ baseRows = Bases
        /\ DOMAIN taskState = Imported /\ staged = StagedFor(taskState)
    BY AccessAssumption DEF AccessInit, StagedFor
  <1>2. DOMAIN ask = CallFields /\ DOMAIN ask.who = {"person", "role"} /\ ask.pc = "none" /\ Fresh(ask)
    BY <1>1 DEF NoCall, Stranger, CallFields, Fresh
  <1> PICK blank : blank = {b \in Bases : DocsOf(b) = {}}
    OBVIOUS
  <1>3. /\ DOMAIN during = {"grants", "empty", "blind", "turns", "rows"} /\ during.turns = 0
        /\ during.blind = FALSE /\ during.grants = access /\ during.empty = blank
        /\ during.rows = accessRows
    BY <1>1 DEF Nothing
  <1>4. CallTyped
    <2>1. during.rows = <<during.rows[1], during.rows[2], during.rows[3], during.rows[4]>>
      BY <1>3 DEF accessRows
    <2>2. during.blind \in BOOLEAN
      BY <1>3, Zenon
    <2>3. during.turns \in Nat
      BY <1>3
    <2> QED BY <1>1, <1>2, <1>3, <2>1, <2>2, <2>3 DEF CallTyped
  <1>5. GrantsKept /\ Grounded(ask)
    BY <1>2, <1>3, FreshGrounded DEF GrantsKept
  <1> QED BY <1>1, <1>2, <1>4, <1>5 DEF CallInv, ShowInv, RunInv, RefuseInv

LEMMA CallStep ==
    ASSUME CallInv, [AccessNext]_accessVars
    PROVE  CallInv'
  <1>1. CASE UNCHANGED accessVars
    BY <1>1, NothingHolds DEF accessVars, accessRows
  <1>2. ASSUME NEW p \in Persons, SaveKey(p) PROVE CallInv'
    BY <1>2, NothingHolds DEF SaveKey
  <1>3. CASE AskCapability \/ FindKey \/ CredentialRefused \/ AuthorizeCall \/ OthersChange
    BY <1>3, AskHolds, FindKeyHolds, CredentialEnds, AuthorizeHolds, OthersHold
  <1>4. CASE GetAllowedUris \/ Matches \/ Entries \/ ListBases \/ EachBase \/ FindAskedBase
    BY <1>4, GetAllowedHolds, MatchesHolds, EntriesHolds, ListBasesHolds, EachBaseHolds, FindBaseHolds
  <1>5. CASE InsideBase \/ ListNodes \/ FindNode \/ FindTaskRow \/ ReadScope \/ TaskBase
    BY <1>5, InsideBaseHolds, ListNodesHolds, FindNodeHolds, FindRowHolds, ReadScopeHolds, TaskBaseHolds
  <1>6. CASE \/ ListTasks \/ EachTask
             \/ CheckTask("taskByScope", ask.scope) \/ CheckTask("taskByAllowed", ask.allowed)
    BY <1>6, ListTasksHolds, EachTaskHolds, CheckByScopeHolds, CheckByAllowedHolds
  <1>7. CASE FindTarget \/ StoreFiles \/ AimBase \/ Aim \/ MakeTask \/ UnstageFiles
    BY <1>7, FindTargetHolds, StoreHolds, AimHolds, MakeTaskHolds, UnstageHolds
  <1>8. CASE CancelPending \/ UnlinkFile \/ RetryFailed \/ EraseNode \/ EraseBase \/ CallFails
    BY <1>8, ChangeTaskHolds, UnlinkHolds, EraseHolds, CallFailsHolds
  <1> QED BY <1>1, <1>2, <1>3, <1>4, <1>5, <1>6, <1>7, <1>8 DEF AccessNext

LEMMA CallInvHolds == AccessSpec => []CallInv
  <1>1. AccessInit => CallInv
    BY CallStarts
  <1>2. CallInv /\ [AccessNext]_accessVars => CallInv'
    BY CallStep
  <1> QED BY <1>1, <1>2, PTL DEF AccessSpec

\* Whatever the lists, roles and tasks are, and whatever others do to them while
\* a call awaits, the call shows nothing that its caller could not read at some
\* moment of it; and one that is refused, when nobody changed anything, leaves
\* every row and every file as they were (capability-gateway.service.ts).
THEOREM CallsKeepAccess == AccessSpec => []AccessHolds
  <1>1. CallInv => AccessHolds
    BY DEF CallInv, ShowInv, Grounded, RefuseInv, Unchanged, AccessHolds, ShownWasReadable, RefusedDidNothing
  <1> QED BY <1>1, CallInvHolds, PTL

(***************************************************************************)
(* The files of imports.  A file that is whole is not older than its       *)
(* upload, an archive in hand not older than its run began it, so that the *)
(* sweep's cutoff passes them only when the retention has; and what is on  *)
(* the disk without an owner was counted among the strays when its owner   *)
(* ended.                                                                  *)
(***************************************************************************)
Ways == {"api", "cli"}
BatchRec == [pc : {"none", "writing", "stored", "undo", "created", "failed"}, next : Nat, since : Nat]
FetchRec == [pc : {"idle", "api", "cli", "stream", "document", "name", "read", "send", "inject",
                   "injected", "done", "failed"},
             try : 1 .. MaxTries, way : Ways, address : Nat, answered : Nat, since : Nat,
             named : BOOLEAN, injected : Nat, lost : Nat]
SweepRec == [pc : {"off", "list", "entries", "empty"}, cutoff : Nat, at : Folders \cup {UploadRoot, ArchiveDir},
             todo : SUBSET Folders, files : SUBSET (UploadFiles \cup Archives), into : SUBSET Batches]
DiskTyped ==
    /\ diskTime \in Nat \ {0} /\ onDisk \in [UploadFiles \cup Archives -> Nat]
    /\ batch \in [Batches -> BatchRec] /\ fetch \in [Fetches -> FetchRec] /\ sweep \in SweepRec

\* A file of an upload that a local run has done with.
ReadOut(file) == \E f \in Fetches : SourceOf[f] = "local" /\ UploadOf[f] = file /\ FetchAt(f, "done")
\* What is there between the first file and the retention's end.
Lasts(b, file) == (onDisk[file] # 0 /\ onDisk[file] >= batch[b].since) \/ b \in hollowed \/ ReadOut(file)
Young(since) == diskTime < since + Retention
BatchHolds(b) ==
    /\ batch[b].since <= diskTime /\ (BatchAt(b, "none") => batch[b].next = 1)
    /\ BatchAt(b, "writing") => batch[b].next \in 1 .. FilesIn[b] /\ batch[b].since > 0
    /\ batch[b].pc \in {"stored", "created"} => batch[b].next > FilesIn[b] /\ batch[b].since > 0
    /\ \A file \in FilesOf(b) : onDisk[file] # 0 /\ file \notin strays =>
          file[2] < batch[b].next /\ ~BatchAt(b, "failed")
    /\ batch[b].pc \in {"writing", "stored", "created"} /\ Young(batch[b].since) =>
          \A file \in FilesOf(b) : file[2] < batch[b].next => Lasts(b, file)

Untaken(pc) == pc \in {"api", "cli", "stream", "document", "name", "read", "send", "inject"}
\* Where a run may be, and how often its source was taken by then.
RunFits(f, r) ==
    /\ r.since <= diskTime
    /\ (r.pc \in {"api", "cli", "stream"} => SourceOf[f] = "git")
    /\ (r.pc = "read" => SourceOf[f] = "local") /\ (r.pc = "document" => SourceOf[f] = "document")
    /\ r.injected <= r.lost + 1 /\ (Untaken(r.pc) => r.injected <= r.lost)
    /\ r.pc \in {"injected", "done"} /\ SourceOf[f] # "other" => r.injected >= 1
FetchHolds(f) ==
    /\ RunFits(f, fetch[f]) /\ (InHand(f) => fetch[f].since > 0)
    /\ \A try \in 1 .. MaxTries, way \in Ways :
          onDisk[<<f, try, way>>] # 0 /\ <<f, try, way>> \notin strays =>
              InHand(f) /\ <<f, try, way>> = ArchiveOf(f)
    /\ InHand(f) /\ Young(fetch[f].since) => onDisk[ArchiveOf(f)] >= fetch[f].since

\* The sweep is behind the clock by the retention.
SweepHolds == sweep.cutoff = 0 \/ sweep.cutoff + Retention <= diskTime
DiskInv ==
    /\ DiskTyped /\ SweepHolds
    /\ \A b \in Batches : BatchHolds(b)
    /\ \A f \in Fetches : FetchHolds(f)

\* A directory has those above it, a file its directory; and what is below a
\* directory that was found empty came there since.
TreeHolds ==
    /\ dirs \subseteq Folders /\ \A d \in dirs : UpFrom(d) \subseteq dirs
    /\ \A b \in Batches : \A file \in FilesOf(b) : onDisk[file] # 0 => b \in dirs
CameInto(s) ==
    s.pc = "empty" =>
        /\ s.at \in Folders
        /\ \A b \in Batches : \A file \in FilesOf(b) : s.at \in UpFrom(b) /\ onDisk[file] # 0 => b \in s.into
TreeInv == TreeHolds /\ CameInto(sweep)

LEMMA DiskConstants ==
    /\ Retention \in Nat /\ Retention > 0 /\ MaxTries \in Nat /\ MaxTries > 0
    /\ \A b \in Batches : FilesIn[b] \in Nat /\ FilesIn[b] > 0
    /\ ArchiveDir \notin Folders
    /\ \A f \in Fetches : SourceOf[f] \in SourceKinds /\ AddressesOf[f] \in Nat
  BY ImportFilesAssumption

\* Three levels below the root, and UpFrom goes up them.
LEMMA FolderPaths ==
    ASSUME NEW d \in Folders
    PROVE  /\ InDir[d] \in Folders \cup {UploadRoot} /\ InDir[InDir[d]] \in Folders \cup {UploadRoot}
           /\ InDir[InDir[InDir[d]]] = UploadRoot /\ InDir[UploadRoot] = UploadRoot /\ UploadRoot \notin Folders
  BY ImportFilesAssumption DEF Folders
LEMMA UpFromIs ==
    ASSUME NEW d \in Folders
    PROVE  d \in UpFrom(d) /\ UpFrom(d) \subseteq Folders /\ \A e \in UpFrom(d) : UpFrom(e) \subseteq UpFrom(d)
  BY FolderPaths DEF UpFrom

\* Whose file it is can be read off it.
LEMMA UploadFileIs ==
    ASSUME NEW b \in Batches, NEW file \in FilesOf(b)
    PROVE  /\ file \in UploadFiles /\ file[1] = b /\ file[2] \in 1 .. FilesIn[b] /\ file = <<b, file[2]>>
           /\ \A f, try, way : file # <<f, try, way>>
  BY DEF FilesOf, UploadFiles
LEMMA UploadFileOf ==
    ASSUME NEW file \in UploadFiles
    PROVE  \E b \in Batches : file \in FilesOf(b)
  BY DEF FilesOf, UploadFiles
LEMMA ArchiveIs ==
    ASSUME NEW f \in Fetches, NEW try \in 1 .. MaxTries, NEW way \in Ways
    PROVE  <<f, try, way>> \in Archives
  BY DEF Archives, Ways
LEMMA OwnArchive ==
    ASSUME DiskTyped, NEW f \in Fetches
    PROVE  /\ ArchiveOf(f) \in Archives /\ fetch[f].try \in 1 .. MaxTries /\ fetch[f].way \in Ways
           /\ ArchiveOf(f) = <<f, fetch[f].try, fetch[f].way>>
  <1>1. fetch[f].try \in 1 .. MaxTries /\ fetch[f].way \in Ways
    BY DEF DiskTyped, FetchRec
  <1> QED BY <1>1, ArchiveIs DEF ArchiveOf

LEMMA FilesApart ==
    ASSUME NEW b \in Batches, NEW c \in Batches, NEW file \in FilesOf(b), file \in FilesOf(c)
    PROVE  b = c
  BY UploadFileIs

LEMMA DiskInitHolds == ASSUME DiskInit PROVE DiskInv
  <1>1. NotUploaded \in BatchRec /\ NotUploaded.pc = "none" /\ NotUploaded.next = 1 /\ NotUploaded.since = 0
    BY DEF NotUploaded, BatchRec
  <1>2. /\ NotFetched \in FetchRec /\ NotFetched.pc = "idle" /\ NotFetched.injected = 0
        /\ NotFetched.lost = 0 /\ NotFetched.since = 0
    BY DiskConstants DEF NotFetched, FetchRec, Ways
  <1>3. NoSweep \in SweepRec /\ NoSweep.cutoff = 0 /\ NoSweep.pc = "off"
    BY DEF NoSweep, SweepRec
  <1>4. DiskTyped /\ SweepHolds
    BY <1>1, <1>2, <1>3 DEF DiskInit, DiskTyped, SweepHolds
  <1>5. ASSUME NEW b \in Batches PROVE BatchHolds(b)
    <2>1. \A file \in FilesOf(b) : onDisk[file] = 0
      BY UploadFileIs DEF DiskInit
    <2> QED BY <1>1, <2>1 DEF DiskInit, BatchHolds, BatchAt
  <1>6. ASSUME NEW f \in Fetches PROVE FetchHolds(f)
    <2>1. \A try \in 1 .. MaxTries, way \in Ways : onDisk[<<f, try, way>>] = 0
      BY ArchiveIs DEF DiskInit
    <2>2. fetch[f] = NotFetched
      BY DEF DiskInit
    <2> QED BY <1>2, <2>1, <2>2 DEF DiskInit, FetchHolds, RunFits, FetchAt, InHand, Untaken
  <1> QED BY <1>4, <1>5, <1>6 DEF DiskInv

(***************************************************************************)
(* What a step leaves alone.  A file may go from under an upload or a run  *)
(* that no longer counts on it.                                            *)
(***************************************************************************)
SameFile(file) == onDisk'[file] = onDisk[file] /\ (file \in strays => file \in strays')
BatchRests(b) ==
    /\ batch'[b] = batch[b]
    /\ \A file \in FilesOf(b) :
          \/ SameFile(file)
          \/ onDisk'[file] = 0 /\ \/ ~(onDisk[file] # 0 /\ onDisk[file] >= batch[b].since)
                                  \/ ~(diskTime' < batch[b].since + Retention)
                                  \/ b \in hollowed' \/ ReadOut(file)'
FetchRests(f) ==
    /\ fetch'[f] = fetch[f]
    /\ \A try \in 1 .. MaxTries, way \in Ways :
          \/ SameFile(<<f, try, way>>)
          \/ /\ onDisk'[<<f, try, way>>] = 0
             /\ \/ ~(onDisk[<<f, try, way>>] # 0 /\ onDisk[<<f, try, way>>] >= fetch[f].since)
                \/ ~(diskTime' < fetch[f].since + Retention)
TimeGoesOn == diskTime' >= diskTime /\ hollowed \subseteq hollowed'

LEMMA BatchKept ==
    ASSUME DiskInv, DiskTyped', NEW b \in Batches, BatchRests(b), TimeGoesOn,
           \A file \in FilesOf(b) : ReadOut(file) => ReadOut(file)'
    PROVE  BatchHolds(b)'
  <1>1. BatchHolds(b) /\ batch[b] \in BatchRec /\ diskTime \in Nat /\ diskTime' \in Nat /\ diskTime' >= diskTime
        /\ hollowed \subseteq hollowed' /\ batch'[b] = batch[b] /\ Retention \in Nat /\ batch[b].since \in Nat
    BY DiskConstants DEF DiskInv, DiskTyped, BatchRests, TimeGoesOn, BatchRec
  <1>2. ASSUME NEW file \in FilesOf(b)
        PROVE  onDisk[file] \in Nat /\ onDisk'[file] \in Nat
    BY <1>2, UploadFileIs DEF DiskInv, DiskTyped
  <1>3. ASSUME NEW file \in FilesOf(b), onDisk'[file] # 0, file \notin strays'
        PROVE  file[2] < batch'[b].next /\ ~BatchAt(b, "failed")'
    <2>1. onDisk[file] # 0 /\ file \notin strays
      BY <1>3 DEF BatchRests, SameFile
    <2> QED BY <1>1, <2>1 DEF BatchHolds, BatchAt
  <1>4. ASSUME batch[b].pc \in {"writing", "stored", "created"}, Young(batch[b].since)',
               NEW file \in FilesOf(b), file[2] < batch[b].next
        PROVE  Lasts(b, file)'
    <2>1. Young(batch[b].since) /\ diskTime' < batch[b].since + Retention
      BY <1>1, <1>4 DEF Young
    <2>2. Lasts(b, file)
      BY <1>1, <1>4, <2>1 DEF BatchHolds
    <2>3. \/ SameFile(file)
          \/ ~(onDisk[file] # 0 /\ onDisk[file] >= batch[b].since)
          \/ b \in hollowed' \/ ReadOut(file)'
      BY <2>1 DEF BatchRests
    <2>4. CASE SameFile(file)
      BY <1>1, <2>2, <2>4 DEF Lasts, SameFile
    <2> QED BY <1>1, <2>2, <2>3, <2>4 DEF Lasts
  <1>5. batch'[b].since <= diskTime' /\ (BatchAt(b, "none") => batch[b].next = 1)
        /\ (BatchAt(b, "writing") => batch[b].next \in 1 .. FilesIn[b] /\ batch[b].since > 0)
        /\ (batch[b].pc \in {"stored", "created"} => batch[b].next > FilesIn[b] /\ batch[b].since > 0)
    BY <1>1 DEF BatchHolds
  <1> QED BY <1>1, <1>3, <1>4, <1>5 DEF BatchHolds, BatchAt

LEMMA FetchKept ==
    ASSUME DiskInv, DiskTyped', NEW f \in Fetches, FetchRests(f), TimeGoesOn
    PROVE  FetchHolds(f)'
  <1>1. FetchHolds(f) /\ fetch[f] \in FetchRec /\ diskTime \in Nat /\ diskTime' \in Nat /\ diskTime' >= diskTime
        /\ fetch'[f] = fetch[f] /\ Retention \in Nat /\ fetch[f].since \in Nat
    BY DiskConstants DEF DiskInv, DiskTyped, FetchRests, TimeGoesOn, FetchRec
  <1>2. ArchiveOf(f)' = ArchiveOf(f) /\ InHand(f)' = InHand(f)
    BY <1>1 DEF ArchiveOf, InHand
  <1>3. ASSUME NEW try \in 1 .. MaxTries, NEW way \in Ways,
               onDisk'[<<f, try, way>>] # 0, <<f, try, way>> \notin strays'
        PROVE  InHand(f)' /\ <<f, try, way>> = ArchiveOf(f)'
    <2>1. onDisk[<<f, try, way>>] # 0 /\ <<f, try, way>> \notin strays
      BY <1>3 DEF FetchRests, SameFile
    <2> QED BY <1>1, <1>2, <2>1 DEF FetchHolds
  <1>4. ASSUME InHand(f), Young(fetch[f].since)'
        PROVE  onDisk'[ArchiveOf(f)] >= fetch[f].since
    <2>1. Young(fetch[f].since) /\ diskTime' < fetch[f].since + Retention
      BY <1>1, <1>4 DEF Young
    <2>2. onDisk[ArchiveOf(f)] >= fetch[f].since /\ onDisk[ArchiveOf(f)] \in Nat
      BY <1>1, <1>4, <2>1, OwnArchive DEF FetchHolds, DiskInv, DiskTyped
    <2>3. SameFile(ArchiveOf(f))
      <3>1. onDisk[ArchiveOf(f)] # 0
        BY <1>1, <1>4, <2>2 DEF FetchHolds
      <3> QED BY <1>1, <2>1, <2>2, <3>1, OwnArchive DEF FetchRests, DiskInv
    <2> QED BY <2>2, <2>3 DEF SameFile
  <1>5. RunFits(f, fetch[f])' /\ (InHand(f)' => fetch'[f].since > 0)
    BY <1>1, <1>2 DEF FetchHolds, RunFits
  <1>7. InHand(f)' /\ Young(fetch[f].since)' => onDisk'[ArchiveOf(f)'] >= fetch'[f].since
    BY <1>1, <1>2, <1>4
  <1> QED BY <1>3, <1>5, <1>7 DEF FetchHolds

\* An upload moves neither the sweep's place nor its cutoff.
SweepKeepsPace == sweep' \in SweepRec /\ sweep'.cutoff = sweep.cutoff
LEMMA PaceKept ==
    ASSUME DiskInv, NEW b \in Batches, sweep' = sweep \/ MeetsSweep(b)
    PROVE  SweepKeepsPace
  <1>1. sweep \in SweepRec
    BY DEF DiskInv, DiskTyped
  <1>2. CASE sweep' = sweep
    BY <1>1, <1>2 DEF SweepKeepsPace
  <1>3. CASE sweep' = [sweep EXCEPT !.into = sweep.into \cup {b}]
    BY <1>1, <1>3 DEF SweepKeepsPace, SweepRec
  <1> QED BY <1>2, <1>3 DEF MeetsSweep

LEMMA OneBatchSteps ==
    ASSUME DiskInv, NEW b \in Batches, NEW r \in BatchRec, batch' = [batch EXCEPT ![b] = r],
           UNCHANGED <<diskTime, fetch, hollowed>>, SweepKeepsPace,
           onDisk' \in [UploadFiles \cup Archives -> Nat], strays \subseteq strays',
           \A file \in UploadFiles \cup Archives : file \notin FilesOf(b) => onDisk'[file] = onDisk[file],
           BatchHolds(b)'
    PROVE  DiskInv'
  <1>1. DiskTyped' /\ SweepHolds' /\ TimeGoesOn
    BY DEF DiskInv, DiskTyped, SweepHolds, TimeGoesOn, SweepKeepsPace
  <1>2. ASSUME NEW c \in Batches, c # b PROVE BatchHolds(c)'
    <2>1. \A file \in FilesOf(c) : onDisk'[file] = onDisk[file]
      BY <1>2, UploadFileIs, FilesApart
    <2>2. BatchRests(c)
      BY <1>2, <2>1 DEF BatchRests, SameFile, DiskInv, DiskTyped
    <2>3. \A file \in FilesOf(c) : ReadOut(file) => ReadOut(file)'
      BY DEF ReadOut, FetchAt
    <2> QED BY <1>1, <2>2, <2>3, BatchKept
  <1>3. ASSUME NEW f \in Fetches PROVE FetchHolds(f)'
    <2>1. ASSUME NEW try \in 1 .. MaxTries, NEW way \in Ways PROVE SameFile(<<f, try, way>>)
      <3>1. <<f, try, way>> \notin FilesOf(b)
        BY UploadFileIs
      <3> QED BY <3>1, ArchiveIs DEF SameFile
    <2>2. FetchRests(f)
      BY <2>1 DEF FetchRests
    <2> QED BY <1>1, <2>2, FetchKept
  <1> QED BY <1>1, <1>2, <1>3 DEF DiskInv

LEMMA OneFetchSteps ==
    ASSUME DiskInv, NEW f \in Fetches, NEW r \in FetchRec, fetch' = [fetch EXCEPT ![f] = r], OnlyFetches,
           onDisk' \in [UploadFiles \cup Archives -> Nat], strays \subseteq strays',
           \A file \in UploadFiles : onDisk'[file] = onDisk[file] \/ (onDisk'[file] = 0 /\ ReadOut(file)'),
           \A g \in Fetches, try \in 1 .. MaxTries, way \in Ways :
               g # f => onDisk'[<<g, try, way>>] = onDisk[<<g, try, way>>],
           FetchAt(f, "done") => r.pc = "done",
           FetchHolds(f)'
    PROVE  DiskInv'
  <1>1. DiskTyped' /\ SweepHolds' /\ TimeGoesOn
    BY DEF DiskInv, DiskTyped, SweepHolds, TimeGoesOn, OnlyFetches
  <1>2. ASSUME NEW b \in Batches PROVE BatchHolds(b)'
    <2>1. BatchRests(b)
      BY UploadFileIs DEF BatchRests, SameFile, OnlyFetches
    <2>2. ASSUME NEW file, ReadOut(file) PROVE ReadOut(file)'
      <3>1. PICK g \in Fetches : SourceOf[g] = "local" /\ UploadOf[g] = file /\ FetchAt(g, "done")
        BY <2>2 DEF ReadOut
      <3>2. FetchAt(g, "done")'
        BY <3>1 DEF FetchAt, DiskInv, DiskTyped
      <3> QED BY <3>1, <3>2 DEF ReadOut
    <2> QED BY <1>1, <2>1, <2>2, BatchKept
  <1>3. ASSUME NEW g \in Fetches, g # f PROVE FetchHolds(g)'
    <2>1. FetchRests(g)
      BY <1>3 DEF FetchRests, SameFile, DiskInv, DiskTyped
    <2> QED BY <1>1, <2>1, FetchKept
  <1> QED BY <1>1, <1>2, <1>3 DEF DiskInv

\* A run that goes on without touching the disk.
HandOf(f, r) == IsGit(f) /\ r.pc \in {"stream", "name", "send"}
LEMMA RunGoesOn ==
    ASSUME DiskInv, NEW f \in Fetches, NEW r \in FetchRec, fetch' = [fetch EXCEPT ![f] = r],
           OnlyFetches, KeepsDisk, RunFits(f, r), FetchAt(f, "done") => r.pc = "done",
           HandOf(f, r) <=> InHand(f),
           InHand(f) => r.try = fetch[f].try /\ r.way = fetch[f].way /\ r.since = fetch[f].since
    PROVE  DiskInv'
  <1>1. fetch'[f] = r /\ onDisk' = onDisk /\ strays' = strays /\ diskTime' = diskTime /\ FetchHolds(f)
    BY DEF DiskInv, DiskTyped, KeepsDisk, OnlyFetches
  <1>2. InHand(f)' <=> HandOf(f, r)
    BY <1>1 DEF InHand, HandOf
  <1>3. InHand(f) => ArchiveOf(f)' = ArchiveOf(f)
    BY <1>1 DEF ArchiveOf
  <1>4. RunFits(f, fetch[f])'
    BY <1>1 DEF RunFits
  <1>5. FetchHolds(f)'
    BY <1>1, <1>2, <1>3, <1>4 DEF FetchHolds, Young
  <1> QED BY <1>1, <1>5, OneFetchSteps DEF DiskInv, DiskTyped

LEMMA RunTyped ==
    ASSUME DiskInv, NEW f \in Fetches
    PROVE  /\ fetch[f] \in FetchRec /\ RunFits(f, fetch[f]) /\ SourceOf[f] \in SourceKinds
           /\ diskTime \in Nat /\ diskTime > 0 /\ fetch \in [Fetches -> FetchRec]
  BY DiskConstants DEF DiskInv, DiskTyped, FetchHolds

\* One place on, with nothing else of the run changed.
LEMMA PlaceGoesOn ==
    ASSUME DiskInv, NEW f \in Fetches, NEW pc \in {"name", "send", "failed", "done", "inject"},
           FetchGoto(f, pc), KeepsDisk, OnlyFetches, ~FetchAt(f, "done"),
           IsGit(f) => (pc \in {"name", "send"} <=> InHand(f)),
           pc \in {"name", "send", "inject"} => Untaken(fetch[f].pc),
           pc = "done" => FetchAt(f, "injected")
    PROVE  DiskInv'
  <1> PICK r : r = [fetch[f] EXCEPT !.pc = pc]
    OBVIOUS
  <1>1. /\ r \in FetchRec /\ r.pc = pc /\ r.try = fetch[f].try /\ r.way = fetch[f].way
        /\ r.since = fetch[f].since /\ r.injected = fetch[f].injected /\ r.lost = fetch[f].lost
    BY RunTyped DEF FetchRec
  <1>2. fetch' = [fetch EXCEPT ![f] = r]
    BY DEF FetchGoto
  <1>3. RunFits(f, r)
    BY <1>1, RunTyped DEF RunFits, Untaken, FetchAt
  <1>4. HandOf(f, r) <=> InHand(f)
    BY <1>1 DEF HandOf, InHand
  <1> QED BY <1>1, <1>2, <1>3, <1>4, RunGoesOn

LEMMA BeginKeepsDisk == ASSUME DiskInv, NEW f \in Fetches, BeginFetch(f) PROVE DiskInv'
  <1> PICK r : r = [fetch[f] EXCEPT !.pc = FirstFetchPlace(f), !.way = "api", !.answered = 0,
                       !.address = IF SourceOf[f] = "address" THEN 1 ELSE 0, !.injected = 0, !.lost = 0]
    OBVIOUS
  <1>1. /\ FirstFetchPlace(f) \in {"api", "document", "read", "inject", "injected"}
        /\ FirstFetchPlace(f) = "api" => SourceOf[f] = "git"
        /\ FirstFetchPlace(f) = "read" => SourceOf[f] = "local"
        /\ FirstFetchPlace(f) = "document" => SourceOf[f] = "document"
        /\ FirstFetchPlace(f) = "injected" => SourceOf[f] = "other"
    BY RunTyped DEF FirstFetchPlace, SourceKinds
  <1>2. /\ r \in FetchRec /\ r.pc = FirstFetchPlace(f) /\ r.since = fetch[f].since
        /\ r.injected = 0 /\ r.lost = 0
    BY <1>1, RunTyped DEF FetchRec, Ways
  <1>3. fetch' = [fetch EXCEPT ![f] = r] /\ FetchAt(f, "idle") /\ KeepsDisk /\ OnlyFetches
    BY DEF BeginFetch
  <1>4. RunFits(f, r)
    BY <1>1, <1>2, RunTyped DEF RunFits
  <1>5. ~InHand(f) /\ ~HandOf(f, r) /\ ~FetchAt(f, "done")
    BY <1>1, <1>2, <1>3 DEF InHand, HandOf, FetchAt
  <1> QED BY <1>2, <1>3, <1>4, <1>5, RunGoesOn

LEMMA AgainKeepsDisk == ASSUME DiskInv, NEW f \in Fetches, FetchAgain(f) PROVE DiskInv'
  <1> PICK r : r = [fetch[f] EXCEPT !.pc = "idle", !.try = fetch[f].try + 1]
    OBVIOUS
  <1>1. /\ r \in FetchRec /\ r.pc = "idle" /\ r.since = fetch[f].since
        /\ r.injected = fetch[f].injected /\ r.lost = fetch[f].lost
    BY RunTyped, DiskConstants DEF FetchRec, FetchAgain
  <1>2. fetch' = [fetch EXCEPT ![f] = r] /\ FetchAt(f, "failed") /\ KeepsDisk /\ OnlyFetches
    BY DEF FetchAgain
  <1>3. RunFits(f, r)
    BY <1>1, RunTyped DEF RunFits, Untaken
  <1>4. ~InHand(f) /\ ~HandOf(f, r) /\ ~FetchAt(f, "done")
    BY <1>1, <1>2 DEF InHand, HandOf, FetchAt
  <1> QED BY <1>1, <1>2, <1>3, <1>4, RunGoesOn

\* The next way is not in hand yet.
LEMMA NextWayIs ==
    ASSUME DiskInv, NEW f \in Fetches, fetch[f].pc \in {"api", "cli", "stream"}, NextWay(f)
    PROVE  \E r \in FetchRec : /\ fetch' = [fetch EXCEPT ![f] = r] /\ RunFits(f, r)
                               /\ r.pc \in {"cli", "inject"} /\ r.since = fetch[f].since
  <1> PICK r : r = IF fetch[f].way = "api" THEN [fetch[f] EXCEPT !.pc = "cli", !.way = "cli"]
                   ELSE [fetch[f] EXCEPT !.pc = "inject", !.address = 1]
    OBVIOUS
  <1>1. /\ r \in FetchRec /\ r.pc \in {"cli", "inject"} /\ r.since = fetch[f].since
        /\ r.injected = fetch[f].injected /\ r.lost = fetch[f].lost
    BY RunTyped DEF FetchRec, Ways
  <1>2. fetch' = [fetch EXCEPT ![f] = r]
    BY DEF NextWay
  <1>3. RunFits(f, r)
    BY <1>1, RunTyped DEF RunFits, Untaken
  <1> QED BY <1>1, <1>2, <1>3

LEMMA RefusedKeepsDisk == ASSUME DiskInv, NEW f \in Fetches, WayRefused(f) PROVE DiskInv'
  <1>1. (FetchAt(f, "api") \/ FetchAt(f, "cli")) /\ NextWay(f) /\ KeepsDisk /\ OnlyFetches
    BY DEF WayRefused
  <1>2. fetch[f].pc \in {"api", "cli", "stream"} /\ ~InHand(f) /\ ~FetchAt(f, "done")
    BY <1>1 DEF FetchAt, InHand
  <1>3. PICK r \in FetchRec : /\ fetch' = [fetch EXCEPT ![f] = r] /\ RunFits(f, r)
                              /\ r.pc \in {"cli", "inject"} /\ r.since = fetch[f].since
    BY <1>1, <1>2, NextWayIs
  <1>4. ~HandOf(f, r)
    BY <1>3 DEF HandOf
  <1> QED BY <1>1, <1>2, <1>3, <1>4, RunGoesOn

LEMMA AnswersKeepDisk == ASSUME DiskInv, NEW f \in Fetches, DocumentAnswers(f) PROVE DiskInv'
  <1> PICK n, pc : n = fetch[f].answered + 1 /\ pc = IF fetch[f].answered = 2 THEN "name" ELSE fetch[f].pc
    OBVIOUS
  <1> PICK r : r = [fetch[f] EXCEPT !.answered = n, !.pc = pc]
    OBVIOUS
  <1>1. /\ FetchAt(f, "document") /\ fetch[f].pc = "document" /\ KeepsDisk /\ OnlyFetches
        /\ fetch' = [fetch EXCEPT ![f] = r] /\ SourceOf[f] = "document"
    BY RunTyped DEF DocumentAnswers, FetchAt, RunFits
  <1>2. /\ r \in FetchRec /\ r.pc \in {"name", "document"} /\ r.since = fetch[f].since
        /\ r.injected = fetch[f].injected /\ r.lost = fetch[f].lost
    <2>1. n \in Nat /\ pc \in {"name", "document"}
      BY <1>1, RunTyped DEF FetchRec
    <2> QED BY <2>1, RunTyped DEF FetchRec
  <1>3. RunFits(f, r) /\ ~InHand(f) /\ ~HandOf(f, r) /\ ~FetchAt(f, "done")
    BY <1>1, <1>2, RunTyped DEF RunFits, Untaken, InHand, HandOf, IsGit, FetchAt
  <1> QED BY <1>1, <1>2, <1>3, RunGoesOn

LEMMA RememberKeepsDisk == ASSUME DiskInv, NEW f \in Fetches, RememberName(f) PROVE DiskInv'
  <1> PICK r : r = [fetch[f] EXCEPT !.pc = "send", !.named = TRUE]
    OBVIOUS
  <1>1. /\ FetchAt(f, "name") /\ fetch[f].pc = "name" /\ KeepsDisk /\ OnlyFetches
        /\ fetch' = [fetch EXCEPT ![f] = r]
    BY DEF RememberName, FetchAt
  <1>2. /\ r \in FetchRec /\ r.pc = "send" /\ r.since = fetch[f].since
        /\ r.try = fetch[f].try /\ r.way = fetch[f].way
        /\ r.injected = fetch[f].injected /\ r.lost = fetch[f].lost
    BY <1>1, RunTyped DEF FetchRec
  <1>3. RunFits(f, r) /\ (HandOf(f, r) <=> InHand(f)) /\ ~FetchAt(f, "done")
    BY <1>1, <1>2, RunTyped DEF RunFits, Untaken, InHand, HandOf, FetchAt
  <1> QED BY <1>1, <1>2, <1>3, RunGoesOn

\* An attempt refused, unheard, or taken.
LEMMA AttemptEnds ==
    ASSUME DiskInv, NEW f \in Fetches, FetchAt(f, "inject"), KeepsDisk, OnlyFetches,
           NEW r \in FetchRec, r.pc \in {"injected", "inject", "failed"}, r.since = fetch[f].since,
           r.injected <= r.lost + 1, r.pc # "injected" => r.injected <= r.lost,
           r.pc = "injected" => r.injected >= 1, fetch' = [fetch EXCEPT ![f] = r]
    PROVE  DiskInv'
  <1>1. RunFits(f, r) /\ ~InHand(f) /\ ~HandOf(f, r) /\ ~FetchAt(f, "done")
    BY RunTyped DEF RunFits, Untaken, InHand, HandOf, FetchAt
  <1> QED BY <1>1, RunGoesOn
LEMMA TakenUnheard ==
    ASSUME DiskInv, NEW f \in Fetches, FetchAt(f, "inject"), KeepsDisk, OnlyFetches,
           NEW next \in FetchRec, next.pc \in {"inject", "failed"}, next.since = fetch[f].since,
           next.injected <= next.lost,
           fetch' = [fetch EXCEPT ![f] = [next EXCEPT !.injected = next.injected + 1, !.lost = next.lost + 1]]
    PROVE  DiskInv'
  <1> PICK n, m : n = next.injected + 1 /\ m = next.lost + 1
    OBVIOUS
  <1>1. n \in Nat /\ m \in Nat /\ n <= m
    BY DEF FetchRec
  <1> PICK r : r = [next EXCEPT !.injected = n, !.lost = m]
    OBVIOUS
  <1>2. r \in FetchRec /\ r.pc = next.pc /\ r.since = next.since /\ r.injected = n /\ r.lost = m
    BY <1>1 DEF FetchRec
  <1>3. r.injected <= r.lost /\ r.injected <= r.lost + 1 /\ fetch' = [fetch EXCEPT ![f] = r]
    BY <1>1, <1>2
  <1> QED BY <1>2, <1>3, AttemptEnds

LEMMA InjectKeepsDisk == ASSUME DiskInv, NEW f \in Fetches, InjectFetched(f) PROVE DiskInv'
  <1> PICK pc, at : /\ pc = IF fetch[f].address \in Addresses(f) \ {AddressesOf[f]} THEN "inject" ELSE "failed"
                    /\ at = IF fetch[f].address \in Addresses(f) \ {AddressesOf[f]}
                            THEN fetch[f].address + 1 ELSE fetch[f].address
    OBVIOUS
  <1> PICK next : next = [fetch[f] EXCEPT !.pc = pc, !.address = at]
    OBVIOUS
  <1> PICK n : n = fetch[f].injected + 1
    OBVIOUS
  <1>1. FetchAt(f, "inject") /\ fetch[f].pc = "inject" /\ KeepsDisk /\ OnlyFetches
    BY DEF InjectFetched, FetchAt
  <1>2. /\ fetch[f].injected <= fetch[f].lost /\ fetch[f].injected \in Nat /\ fetch[f].lost \in Nat
        /\ n \in Nat /\ at \in Nat /\ pc \in {"inject", "failed"}
    BY <1>1, RunTyped DEF RunFits, Untaken, FetchRec
  <1>3. /\ next \in FetchRec /\ next.pc = pc /\ next.since = fetch[f].since
        /\ next.injected = fetch[f].injected /\ next.lost = fetch[f].lost
    BY <1>2, RunTyped DEF FetchRec
  <1>4. \/ fetch' = [fetch EXCEPT ![f] = [fetch[f] EXCEPT !.pc = "injected", !.injected = n]]
        \/ fetch' = [fetch EXCEPT ![f] = next]
        \/ fetch' = [fetch EXCEPT ![f] = [next EXCEPT !.injected = next.injected + 1, !.lost = next.lost + 1]]
    BY Zenon DEF InjectFetched
  <1>6. CASE fetch' = [fetch EXCEPT ![f] = [fetch[f] EXCEPT !.pc = "injected", !.injected = n]]
    <2> PICK r : r = [fetch[f] EXCEPT !.pc = "injected", !.injected = n]
      OBVIOUS
    <2>1. /\ r \in FetchRec /\ r.pc = "injected" /\ r.since = fetch[f].since
          /\ r.injected = n /\ r.lost = fetch[f].lost
      BY <1>2, RunTyped DEF FetchRec
    <2>2. r.injected <= r.lost + 1 /\ r.injected >= 1
      BY <1>2, <2>1
    <2> QED BY <1>1, AttemptEnds, <1>6, <2>1, <2>2
  <1>7. CASE fetch' = [fetch EXCEPT ![f] = next]
    <2>1. next.pc \in {"injected", "inject", "failed"} /\ next.pc # "injected"
      BY <1>2, <1>3
    <2>2. next.injected <= next.lost /\ next.injected <= next.lost + 1
      BY <1>2, <1>3
    <2> QED BY <1>3, <1>1, AttemptEnds, <1>7, <2>1, <2>2
  <1>8. CASE fetch' = [fetch EXCEPT ![f] = [next EXCEPT !.injected = next.injected + 1, !.lost = next.lost + 1]]
    <2>1. next.pc \in {"inject", "failed"} /\ next.injected <= next.lost
      BY <1>2, <1>3
    <2> QED BY <1>1, <1>3, <1>8, <2>1, TakenUnheard
  <1> QED BY <1>4, <1>6, <1>7, <1>8

LEMMA ArchiveWritten ==
    ASSUME DiskInv, NEW f \in Fetches, NEW x \in Nat, onDisk' = [onDisk EXCEPT ![ArchiveOf(f)] = x]
    PROVE  /\ onDisk' \in [UploadFiles \cup Archives -> Nat] /\ onDisk'[ArchiveOf(f)] = x
           /\ \A file \in UploadFiles : onDisk'[file] = onDisk[file]
           /\ \A g \in Fetches, try \in 1 .. MaxTries, way \in Ways :
                  <<g, try, way>> # ArchiveOf(f) => onDisk'[<<g, try, way>>] = onDisk[<<g, try, way>>]
           /\ \A g \in Fetches, try \in 1 .. MaxTries, way \in Ways :
                  g # f => onDisk'[<<g, try, way>>] = onDisk[<<g, try, way>>]
  <1>1. ArchiveOf(f) \in Archives /\ ArchiveOf(f) = <<f, fetch[f].try, fetch[f].way>>
        /\ onDisk \in [UploadFiles \cup Archives -> Nat]
    BY OwnArchive DEF DiskInv, DiskTyped
  <1>2. onDisk' \in [UploadFiles \cup Archives -> Nat] /\ onDisk'[ArchiveOf(f)] = x
    BY <1>1
  <1>3. ASSUME NEW file \in UploadFiles PROVE onDisk'[file] = onDisk[file]
    BY <1>1, <1>3, UploadFileOf, UploadFileIs
  <1>4. ASSUME NEW g \in Fetches, NEW try \in 1 .. MaxTries, NEW way \in Ways, <<g, try, way>> # ArchiveOf(f)
        PROVE  onDisk'[<<g, try, way>>] = onDisk[<<g, try, way>>]
    <2>1. <<g, try, way>> \in UploadFiles \cup Archives
      BY ArchiveIs
    <2> QED BY <1>1, <1>4, <2>1
  <1>5. \A g \in Fetches, try \in 1 .. MaxTries, way \in Ways : g # f => <<g, try, way>> # ArchiveOf(f)
    BY <1>1
  <1> QED BY <1>2, <1>3, <1>4, <1>5

LEMMA OpenKeepsDisk == ASSUME DiskInv, NEW f \in Fetches, OpenArchive(f) PROVE DiskInv'
  <1> PICK r : r = [fetch[f] EXCEPT !.pc = "stream", !.since = diskTime]
    OBVIOUS
  <1>1. /\ r \in FetchRec /\ r.pc = "stream" /\ r.since = diskTime /\ r.try = fetch[f].try
        /\ r.way = fetch[f].way /\ r.injected = fetch[f].injected /\ r.lost = fetch[f].lost
    BY RunTyped DEF FetchRec
  <1>2. /\ fetch' = [fetch EXCEPT ![f] = r] /\ (FetchAt(f, "api") \/ FetchAt(f, "cli")) /\ OnlyFetches
        /\ onDisk' = [onDisk EXCEPT ![ArchiveOf(f)] = diskTime] /\ strays' = strays
    BY RunTyped DEF OpenArchive
  <1>3. /\ fetch'[f] = r /\ FetchHolds(f) /\ ~InHand(f) /\ ~FetchAt(f, "done") /\ diskTime' = diskTime
        /\ Untaken(fetch[f].pc) /\ diskTime \in Nat /\ diskTime > 0 /\ ArchiveOf(f)' = ArchiveOf(f)
    BY <1>1, <1>2, RunTyped DEF DiskInv, FetchAt, InHand, Untaken, OnlyFetches, ArchiveOf
  <1>4. \A try \in 1 .. MaxTries, way \in Ways :
           onDisk'[<<f, try, way>>] # 0 /\ <<f, try, way>> \notin strays' => <<f, try, way>> = ArchiveOf(f)
    BY <1>2, <1>3, ArchiveWritten DEF FetchHolds
  <1>5. RunFits(f, fetch[f])' /\ IsGit(f)
    BY <1>1, <1>2, <1>3, RunTyped DEF RunFits, Untaken, FetchAt, IsGit
  <1>6. onDisk'[ArchiveOf(f)] = diskTime
    BY <1>2, <1>3, ArchiveWritten
  <1>7. FetchHolds(f)'
    BY <1>1, <1>3, <1>4, <1>5, <1>6 DEF FetchHolds, InHand, IsGit
  <1> QED BY <1>1, <1>2, <1>3, <1>7, ArchiveWritten, OneFetchSteps

LEMMA ChunkKeepsDisk == ASSUME DiskInv, NEW f \in Fetches, ArchiveChunk(f) PROVE DiskInv'
  <1>1. /\ fetch' = fetch /\ strays' = strays /\ OnlyFetches /\ FetchAt(f, "stream")
        /\ onDisk' = [onDisk EXCEPT ![ArchiveOf(f)] = diskTime]
    BY DEF ArchiveChunk
  <1>2. /\ fetch[f] \in FetchRec /\ fetch' = [fetch EXCEPT ![f] = fetch[f]] /\ fetch'[f] = fetch[f]
        /\ FetchHolds(f) /\ RunFits(f, fetch[f]) /\ ~FetchAt(f, "done") /\ InHand(f)
        /\ diskTime \in Nat /\ diskTime' = diskTime /\ ArchiveOf(f)' = ArchiveOf(f) /\ InHand(f)'
    BY <1>1, RunTyped DEF DiskInv, FetchAt, OnlyFetches, RunFits, InHand, IsGit, ArchiveOf
  <1>3. \A try \in 1 .. MaxTries, way \in Ways :
           onDisk'[<<f, try, way>>] # 0 /\ <<f, try, way>> \notin strays' => <<f, try, way>> = ArchiveOf(f)
    BY <1>1, <1>2, ArchiveWritten DEF FetchHolds
  <1>4. RunFits(f, fetch[f])' /\ fetch[f].since > 0 /\ fetch[f].since <= diskTime
    BY <1>2 DEF RunFits, FetchHolds
  <1>5. onDisk'[ArchiveOf(f)] = diskTime
    BY <1>1, <1>2, ArchiveWritten
  <1>6. FetchHolds(f)'
    BY <1>2, <1>3, <1>4, <1>5 DEF FetchHolds
  <1> QED BY <1>1, <1>2, <1>6, ArchiveWritten, OneFetchSteps

\* An archive that is given up goes, and the run has none.
LEMMA ArchiveGivenUp ==
    ASSUME DiskInv, NEW f \in Fetches, NEW r \in FetchRec, fetch' = [fetch EXCEPT ![f] = r],
           OnlyFetches, strays' = strays, onDisk' = [onDisk EXCEPT ![ArchiveOf(f)] = 0],
           RunFits(f, r), ~HandOf(f, r), ~FetchAt(f, "done")
    PROVE  DiskInv'
  <1>0. 0 \in Nat
    OBVIOUS
  <1>7. /\ onDisk' \in [UploadFiles \cup Archives -> Nat] /\ onDisk'[ArchiveOf(f)] = 0
        /\ \A file \in UploadFiles : onDisk'[file] = onDisk[file]
        /\ \A g \in Fetches, try \in 1 .. MaxTries, way \in Ways :
               <<g, try, way>> # ArchiveOf(f) => onDisk'[<<g, try, way>>] = onDisk[<<g, try, way>>]
        /\ \A g \in Fetches, try \in 1 .. MaxTries, way \in Ways :
               g # f => onDisk'[<<g, try, way>>] = onDisk[<<g, try, way>>]
    BY <1>0, ArchiveWritten, Zenon
  <1>1. fetch'[f] = r /\ FetchHolds(f) /\ diskTime' = diskTime
    BY RunTyped DEF DiskInv, OnlyFetches
  <1>2. ~InHand(f)'
    BY <1>1 DEF InHand, HandOf
  <1>3. ASSUME NEW try \in 1 .. MaxTries, NEW way \in Ways, onDisk'[<<f, try, way>>] # 0
        PROVE  <<f, try, way>> \in strays'
    <2>1. /\ onDisk'[ArchiveOf(f)] = 0
          /\ <<f, try, way>> # ArchiveOf(f) => onDisk'[<<f, try, way>>] = onDisk[<<f, try, way>>]
      BY <1>7
    <2>2. <<f, try, way>> # ArchiveOf(f) /\ onDisk[<<f, try, way>>] # 0
      BY <1>3, <2>1
    <2> QED BY <1>1, <2>2 DEF FetchHolds
  <1>4. RunFits(f, fetch[f])'
    BY <1>1 DEF RunFits
  <1>5. FetchHolds(f)'
    BY <1>2, <1>3, <1>4 DEF FetchHolds
  <1> QED BY <1>5, <1>7, OneFetchSteps

LEMMA BreaksKeepDisk == ASSUME DiskInv, NEW f \in Fetches, ArchiveBreaks(f) PROVE DiskInv'
  <1>1. /\ FetchAt(f, "stream") /\ NextWay(f) /\ OnlyFetches /\ strays' = strays
        /\ onDisk' = [onDisk EXCEPT ![ArchiveOf(f)] = 0]
    BY DEF ArchiveBreaks
  <1>2. fetch[f].pc \in {"api", "cli", "stream"} /\ ~FetchAt(f, "done")
    BY <1>1 DEF FetchAt
  <1>3. PICK r \in FetchRec : /\ fetch' = [fetch EXCEPT ![f] = r] /\ RunFits(f, r)
                              /\ r.pc \in {"cli", "inject"} /\ r.since = fetch[f].since
    BY <1>1, <1>2, NextWayIs
  <1>4. ~HandOf(f, r)
    BY <1>3 DEF HandOf
  <1> QED BY <1>1, <1>2, <1>3, <1>4, ArchiveGivenUp

LEMMA SendKeepsDisk == ASSUME DiskInv, NEW f \in Fetches, SendTempFile(f) PROVE DiskInv'
  <1>1. /\ FetchAt(f, "send") /\ OnlyFetches /\ strays' = strays
        /\ onDisk' = IF IsGit(f) THEN [onDisk EXCEPT ![ArchiveOf(f)] = 0] ELSE onDisk
        /\ \E pc \in {"inject", "failed"} : FetchGoto(f, pc)
    BY DEF SendTempFile
  <1>2. PICK pc \in {"inject", "failed"} : FetchGoto(f, pc)
    BY <1>1
  <1>3. Untaken(fetch[f].pc) /\ ~FetchAt(f, "done") /\ (IsGit(f) => InHand(f))
    BY <1>1 DEF Untaken, FetchAt, InHand
  <1>4. CASE IsGit(f)
    <2> PICK r : r = [fetch[f] EXCEPT !.pc = pc]
      OBVIOUS
    <2>1. /\ r \in FetchRec /\ r.pc = pc /\ r.since = fetch[f].since
          /\ r.injected = fetch[f].injected /\ r.lost = fetch[f].lost
      BY RunTyped DEF FetchRec
    <2>2. fetch' = [fetch EXCEPT ![f] = r] /\ ~HandOf(f, r)
      BY <1>2, <2>1 DEF FetchGoto, HandOf
    <2>3. RunFits(f, r)
      BY <1>3, <2>1, RunTyped DEF RunFits, Untaken
    <2>4. onDisk' = [onDisk EXCEPT ![ArchiveOf(f)] = 0]
      BY <1>1, <1>4
    <2> QED BY <1>1, <1>3, <2>1, <2>2, <2>3, <2>4, ArchiveGivenUp
  <1>5. CASE ~IsGit(f)
    <2>1. KeepsDisk
      BY <1>1, <1>5 DEF KeepsDisk
    <2> QED BY <1>1, <1>2, <1>3, <1>5, <2>1, PlaceGoesOn
  <1> QED BY <1>4, <1>5
LEMMA EndsKeepDisk ==
    ASSUME DiskInv, NEW f \in Fetches, ArchiveEnds(f) \/ DocumentRefused(f) \/ ReadUpload(f) \/ FinishThrows(f)
    PROVE  DiskInv'
  <1>1. CASE ArchiveEnds(f)
    <2>1. FetchAt(f, "stream") /\ FetchGoto(f, "name") /\ KeepsDisk /\ OnlyFetches
      BY <1>1 DEF ArchiveEnds
    <2>2. Untaken(fetch[f].pc) /\ ~FetchAt(f, "done") /\ (IsGit(f) => InHand(f))
      BY <2>1 DEF Untaken, FetchAt, InHand
    <2> QED BY <2>1, <2>2, PlaceGoesOn
  <1>2. CASE DocumentRefused(f)
    <2>1. FetchAt(f, "document") /\ FetchGoto(f, "failed") /\ KeepsDisk /\ OnlyFetches
      BY <1>2 DEF DocumentRefused
    <2>2. ~FetchAt(f, "done") /\ ~InHand(f)
      BY <2>1 DEF FetchAt, InHand
    <2> QED BY <2>1, <2>2, PlaceGoesOn
  <1>3. CASE ReadUpload(f)
    <2>1. PICK pc \in {"send", "failed"} : FetchGoto(f, pc)
      BY <1>3 DEF ReadUpload
    <2>2. FetchAt(f, "read") /\ KeepsDisk /\ OnlyFetches /\ SourceOf[f] = "local"
      BY <1>3, RunTyped DEF ReadUpload, FetchAt, RunFits
    <2>3. Untaken(fetch[f].pc) /\ ~FetchAt(f, "done") /\ ~IsGit(f)
      BY <2>2 DEF Untaken, FetchAt, IsGit
    <2> QED BY <2>1, <2>2, <2>3, PlaceGoesOn
  <1>4. CASE FinishThrows(f)
    <2>1. FetchAt(f, "injected") /\ FetchGoto(f, "failed") /\ KeepsDisk /\ OnlyFetches
      BY <1>4 DEF FinishThrows
    <2>2. ~FetchAt(f, "done") /\ ~InHand(f)
      BY <2>1 DEF FetchAt, InHand
    <2> QED BY <2>1, <2>2, PlaceGoesOn
  <1> QED BY <1>1, <1>2, <1>3, <1>4

\* A run that ends leaves what it had in hand among the strays.
LEMMA RunEnds ==
    ASSUME DiskInv, NEW f \in Fetches, NEW pc \in {"failed", "done"}, FetchGoto(f, pc), OnlyFetches,
           ~FetchAt(f, "done"), pc = "done" => FetchAt(f, "injected"),
           onDisk' \in [UploadFiles \cup Archives -> Nat], strays \subseteq strays',
           \A file \in UploadFiles : onDisk'[file] = onDisk[file] \/ (onDisk'[file] = 0 /\ ReadOut(file)'),
           \A file \in Archives : onDisk'[file] = onDisk[file],
           InHand(f) => onDisk[ArchiveOf(f)] = 0 \/ ArchiveOf(f) \in strays'
    PROVE  DiskInv'
  <1> PICK r : r = [fetch[f] EXCEPT !.pc = pc]
    OBVIOUS
  <1>1. /\ r \in FetchRec /\ r.pc = pc /\ r.since = fetch[f].since
        /\ r.injected = fetch[f].injected /\ r.lost = fetch[f].lost
    BY RunTyped DEF FetchRec
  <1>2. fetch' = [fetch EXCEPT ![f] = r] /\ fetch'[f] = r /\ FetchHolds(f) /\ diskTime' = diskTime
    BY RunTyped DEF FetchGoto, DiskInv, OnlyFetches
  <1>3. ~InHand(f)' /\ RunFits(f, r)
    BY <1>1, <1>2, RunTyped DEF InHand, RunFits, Untaken, FetchAt
  <1>4. ASSUME NEW try \in 1 .. MaxTries, NEW way \in Ways, onDisk'[<<f, try, way>>] # 0
        PROVE  <<f, try, way>> \in strays'
    <2>1. onDisk[<<f, try, way>>] # 0
      BY <1>4, ArchiveIs
    <2> QED BY <1>2, <2>1 DEF FetchHolds
  <1>5. RunFits(f, fetch[f])'
    BY <1>2, <1>3 DEF RunFits
  <1>6. FetchHolds(f)'
    BY <1>3, <1>4, <1>5 DEF FetchHolds
  <1>7. \A g \in Fetches, try \in 1 .. MaxTries, way \in Ways :
           g # f => onDisk'[<<g, try, way>>] = onDisk[<<g, try, way>>]
    BY ArchiveIs
  <1> QED BY <1>1, <1>2, <1>6, <1>7, OneFetchSteps

LEMMA LostKeepsDisk == ASSUME DiskInv, NEW f \in Fetches, NameLost(f) PROVE DiskInv'
  <1>1. /\ FetchAt(f, "name") /\ FetchGoto(f, "failed") /\ OnlyFetches /\ onDisk' = onDisk
        /\ strays' = IF IsGit(f) /\ onDisk[ArchiveOf(f)] # 0 THEN strays \cup {ArchiveOf(f)} ELSE strays
    BY DEF NameLost
  <1>2. ~FetchAt(f, "done") /\ (InHand(f) => onDisk[ArchiveOf(f)] = 0 \/ ArchiveOf(f) \in strays')
    BY <1>1 DEF FetchAt, InHand
  <1>3. strays \subseteq strays'
    BY <1>1
  <1>4. onDisk' \in [UploadFiles \cup Archives -> Nat]
    BY <1>1 DEF DiskInv, DiskTyped
  <1> QED BY <1>1, <1>2, <1>3, <1>4, RunEnds

LEMMA FinishKeepsDisk == ASSUME DiskInv, NEW f \in Fetches, FinishFetch(f) PROVE DiskInv'
  <1>1. FetchAt(f, "injected") /\ FetchGoto(f, "done") /\ OnlyFetches /\ ~FetchAt(f, "done") /\ ~InHand(f)
    BY DEF FinishFetch, FetchAt, InHand
  <1>2. onDisk \in [UploadFiles \cup Archives -> Nat]
    BY DEF DiskInv, DiskTyped
  <1>3. CASE KeepsDisk
    BY <1>1, <1>2, <1>3, RunEnds DEF KeepsDisk
  <1>4. CASE SourceOf[f] = "local" /\ strays' = strays \cup {UploadOf[f]} /\ onDisk' = onDisk
    BY <1>1, <1>2, <1>4, RunEnds
  <1>5. CASE SourceOf[f] = "local" /\ onDisk' = [onDisk EXCEPT ![UploadOf[f]] = 0] /\ strays' = strays
    <2>1. UploadOf[f] \in UploadFiles
      BY <1>5, ImportFilesAssumption
    <2>2. FetchAt(f, "done")'
      BY <1>1, RunTyped DEF FetchGoto, FetchAt
    <2>3. ReadOut(UploadOf[f])'
      BY <1>5, <2>2 DEF ReadOut
    <2>4. /\ onDisk' \in [UploadFiles \cup Archives -> Nat]
          /\ \A file \in UploadFiles : onDisk'[file] = onDisk[file] \/ (onDisk'[file] = 0 /\ ReadOut(file)')
      BY <1>2, <1>5, <2>1, <2>3
    <2>5. UploadOf[f] \notin Archives
      BY <2>1, UploadFileOf, UploadFileIs DEF Archives
    <2> QED BY <1>1, <1>2, <1>5, <2>4, <2>5, RunEnds
  <1> QED BY <1>3, <1>4, <1>5 DEF FinishFetch, KeepsDisk

LEMMA FetchingKeepsDisk == ASSUME DiskInv, NEW f \in Fetches, Fetching(f) PROVE DiskInv'
  BY BeginKeepsDisk, AgainKeepsDisk, RefusedKeepsDisk, OpenKeepsDisk, ChunkKeepsDisk, EndsKeepDisk,
     BreaksKeepDisk, AnswersKeepDisk, RememberKeepsDisk, LostKeepsDisk, SendKeepsDisk,
     InjectKeepsDisk, FinishKeepsDisk DEF Fetching
LEMMA BatchTyped ==
    ASSUME DiskInv, NEW b \in Batches
    PROVE  /\ batch[b] \in BatchRec /\ BatchHolds(b) /\ FilesIn[b] \in Nat /\ FilesIn[b] > 0
           /\ diskTime \in Nat /\ diskTime > 0 /\ batch \in [Batches -> BatchRec]
           /\ onDisk \in [UploadFiles \cup Archives -> Nat]
  BY DiskConstants DEF DiskInv, DiskTyped

\* A step of an upload: where it is, and what is on the disk by then.
LEMMA UploadGoesOn ==
    ASSUME DiskInv, NEW b \in Batches, NEW r \in BatchRec, batch' = [batch EXCEPT ![b] = r],
           UNCHANGED <<diskTime, fetch, hollowed>>, SweepKeepsPace,
           onDisk' \in [UploadFiles \cup Archives -> Nat], strays \subseteq strays',
           \A file \in UploadFiles \cup Archives : file \notin FilesOf(b) => onDisk'[file] = onDisk[file],
           r.pc # "none", r.since <= diskTime,
           r.pc = "writing" => r.next \in 1 .. FilesIn[b] /\ r.since > 0,
           r.pc \in {"stored", "created"} => r.next > FilesIn[b] /\ r.since > 0,
           \A file \in FilesOf(b) : onDisk'[file] # 0 /\ file \notin strays' => file[2] < r.next /\ r.pc # "failed",
           r.pc \in {"writing", "stored", "created"} /\ Young(r.since) =>
               \A file \in FilesOf(b) : file[2] < r.next =>
                   (onDisk'[file] # 0 /\ onDisk'[file] >= r.since) \/ b \in hollowed \/ ReadOut(file)
    PROVE  DiskInv'
  <1>1. batch'[b] = r /\ diskTime' = diskTime /\ hollowed' = hollowed /\ fetch' = fetch
    BY BatchTyped
  <1>2. \A file : ReadOut(file)' <=> ReadOut(file)
    BY <1>1 DEF ReadOut, FetchAt
  <1>3. BatchHolds(b)'
    BY <1>1, <1>2 DEF BatchHolds, BatchAt, Young, Lasts
  <1> QED BY <1>3, OneBatchSteps

LEMMA SaveKeepsDisk == ASSUME DiskInv, NEW b \in Batches, SaveFiles(b) PROVE DiskInv'
  <1> PICK r : r = [pc |-> "writing", next |-> 1, since |-> diskTime]
    OBVIOUS
  <1>1. r \in BatchRec /\ r.pc = "writing" /\ r.next = 1 /\ r.since = diskTime
    BY BatchTyped DEF BatchRec
  <1>2. /\ batch' = [batch EXCEPT ![b] = r] /\ batch[b].pc = "none" /\ onDisk' = onDisk /\ strays' = strays
        /\ UNCHANGED <<diskTime, fetch, hollowed>> /\ SweepKeepsPace
    BY PaceKept DEF SaveFiles, BatchAt
  <1>3. ASSUME NEW file \in FilesOf(b)
        PROVE  ~(file[2] < 1) /\ (onDisk[file] # 0 => file \in strays)
    BY <1>2, <1>3, BatchTyped, UploadFileIs DEF BatchHolds, BatchAt
  <1>4. onDisk' \in [UploadFiles \cup Archives -> Nat] /\ strays \subseteq strays'
    BY <1>2, BatchTyped
  <1>5. diskTime \in Nat /\ diskTime > 0 /\ FilesIn[b] \in Nat /\ FilesIn[b] > 0
    BY DiskConstants DEF DiskInv, DiskTyped
  <1>6. r.since <= diskTime /\ 1 \in 1 .. FilesIn[b] /\ r.since > 0
    BY <1>1, <1>5
  <1> QED BY <1>1, <1>2, <1>3, <1>4, <1>6, UploadGoesOn

\* A file of its own that an upload writes.
LEMMA UploadWritten ==
    ASSUME DiskInv, NEW b \in Batches, BatchAt(b, "writing"),
           onDisk' = [onDisk EXCEPT ![<<b, batch[b].next>>] = diskTime]
    PROVE  /\ onDisk' \in [UploadFiles \cup Archives -> Nat]
           /\ \A file \in UploadFiles \cup Archives : file \notin FilesOf(b) => onDisk'[file] = onDisk[file]
           /\ \A file \in FilesOf(b) : onDisk'[file] = IF file[2] = batch[b].next THEN diskTime ELSE onDisk[file]
  <1>1. batch[b].next \in 1 .. FilesIn[b]
    BY BatchTyped DEF BatchHolds
  <1>2. <<b, batch[b].next>> \in FilesOf(b)
    BY <1>1 DEF FilesOf
  <1>3. <<b, batch[b].next>> \in UploadFiles
    BY <1>2, UploadFileIs
  <1>4. ASSUME NEW file \in FilesOf(b)
        PROVE  onDisk'[file] = IF file[2] = batch[b].next THEN diskTime ELSE onDisk[file]
    <2>1. file = <<b, file[2]>> /\ file \in UploadFiles
      BY <1>4, UploadFileIs
    <2>2. CASE file[2] = batch[b].next
      BY <1>3, <2>1, <2>2, BatchTyped
    <2>3. CASE file[2] # batch[b].next
      <3>1. file # <<b, batch[b].next>>
        BY <2>1, <2>3
      <3> QED BY <2>1, <2>3, <3>1, BatchTyped
    <2> QED BY <2>2, <2>3
  <1> QED BY <1>2, <1>3, <1>4, BatchTyped

LEMMA WrittenLast ==
    ASSUME DiskInv, NEW b \in Batches, BatchAt(b, "writing"), Young(batch[b].since),
           onDisk' = [onDisk EXCEPT ![<<b, batch[b].next>>] = diskTime],
           NEW file \in FilesOf(b), file[2] < batch[b].next + 1
    PROVE  (onDisk'[file] # 0 /\ onDisk'[file] >= batch[b].since) \/ b \in hollowed \/ ReadOut(file)
  <1>1. /\ batch[b].next \in Nat /\ batch[b].since <= diskTime /\ batch[b].since \in Nat
        /\ diskTime \in Nat /\ diskTime > 0 /\ file[2] \in Nat
    BY BatchTyped, UploadFileIs DEF BatchRec, BatchHolds
  <1>2. onDisk'[file] = IF file[2] = batch[b].next THEN diskTime ELSE onDisk[file]
    BY UploadWritten
  <1>3. CASE file[2] = batch[b].next
    BY <1>1, <1>2, <1>3
  <1>4. CASE file[2] # batch[b].next
    <2>1. file[2] < batch[b].next /\ onDisk'[file] = onDisk[file]
      BY <1>1, <1>2, <1>4
    <2>2. Lasts(b, file)
      BY <2>1, BatchTyped DEF BatchHolds, BatchAt
    <2> QED BY <2>1, <2>2 DEF Lasts
  <1> QED BY <1>3, <1>4

LEMMA WriteKeepsDisk == ASSUME DiskInv, NEW b \in Batches, WriteFile(b) PROVE DiskInv'
  <1> PICK n, pc : n = batch[b].next + 1 /\ pc = IF batch[b].next = FilesIn[b] THEN "stored" ELSE "writing"
    OBVIOUS
  <1> PICK r : r = [batch[b] EXCEPT !.next = n, !.pc = pc]
    OBVIOUS
  <1>1. /\ BatchAt(b, "writing") /\ batch[b].pc = "writing" /\ strays' = strays
        /\ onDisk' = [onDisk EXCEPT ![<<b, batch[b].next>>] = diskTime]
        /\ batch' = [batch EXCEPT ![b] = r] /\ UNCHANGED <<diskTime, fetch, hollowed>> /\ SweepKeepsPace
    BY PaceKept DEF WriteFile, BatchAt
  <1>2. /\ batch[b].next \in 1 .. FilesIn[b] /\ batch[b].since > 0 /\ batch[b].since <= diskTime
        /\ batch[b].since \in Nat /\ n \in Nat /\ pc \in {"stored", "writing"}
    BY <1>1, BatchTyped DEF BatchHolds, BatchAt, BatchRec
  <1>3. r \in BatchRec /\ r.pc = pc /\ r.next = n /\ r.since = batch[b].since
    BY <1>2, BatchTyped DEF BatchRec
  <1>4. /\ pc = "writing" => n \in 1 .. FilesIn[b]
        /\ pc = "stored" => n > FilesIn[b]
    BY <1>2, BatchTyped
  <1>5. ASSUME NEW file \in FilesOf(b), onDisk'[file] # 0, file \notin strays' PROVE file[2] < n
    BY <1>1, <1>2, <1>5, UploadWritten, BatchTyped, UploadFileIs DEF BatchHolds
  <1>6. ASSUME Young(r.since), NEW file \in FilesOf(b), file[2] < n
        PROVE  (onDisk'[file] # 0 /\ onDisk'[file] >= r.since) \/ b \in hollowed \/ ReadOut(file)
    <2>1. Young(batch[b].since) /\ file[2] < batch[b].next + 1
      BY <1>3, <1>6
    <2> QED BY <1>1, <1>3, <2>1, WrittenLast
  <1>7. r.pc # "none" /\ r.pc # "failed" /\ r.since <= diskTime /\ strays \subseteq strays'
    BY <1>1, <1>2, <1>3
  <1>8. /\ onDisk' \in [UploadFiles \cup Archives -> Nat]
        /\ \A file \in UploadFiles \cup Archives : file \notin FilesOf(b) => onDisk'[file] = onDisk[file]
    BY <1>1, UploadWritten
  <1>9. /\ r.pc = "writing" => r.next \in 1 .. FilesIn[b] /\ r.since > 0
        /\ r.pc \in {"stored", "created"} => r.next > FilesIn[b] /\ r.since > 0
    BY <1>2, <1>3, <1>4
  <1>10. \A file \in FilesOf(b) : onDisk'[file] # 0 /\ file \notin strays' => file[2] < r.next /\ r.pc # "failed"
    BY <1>3, <1>5, <1>7
  <1>11. Young(r.since) => \A file \in FilesOf(b) : file[2] < r.next =>
            (onDisk'[file] # 0 /\ onDisk'[file] >= r.since) \/ b \in hollowed \/ ReadOut(file)
    BY <1>3, <1>6
  <1>12. /\ r \in BatchRec /\ batch' = [batch EXCEPT ![b] = r]
         /\ UNCHANGED <<diskTime, fetch, hollowed>> /\ SweepKeepsPace
    BY <1>1, <1>3
  <1> QED BY <1>7, <1>8, <1>9, <1>10, <1>11, <1>12, UploadGoesOn
\* An upload that leaves "writing" or "stored" otherwise: only its place changes.
LEMMA UploadTurns ==
    ASSUME DiskInv, NEW b \in Batches, NEW pc \in {"undo", "created"}, BatchGoto(b, pc),
           pc = "created" => BatchAt(b, "stored"), batch[b].pc \in {"writing", "stored"},
           UNCHANGED <<diskTime, fetch, hollowed>>, SweepKeepsPace,
           onDisk' \in [UploadFiles \cup Archives -> Nat], strays \subseteq strays',
           \A file \in UploadFiles \cup Archives : file \notin FilesOf(b) => onDisk'[file] = onDisk[file],
           \A file \in FilesOf(b) :
               (onDisk'[file] = onDisk[file]) \/ (pc = "undo" /\ file \in strays')
    PROVE  DiskInv'
  <1> PICK r : r = [batch[b] EXCEPT !.pc = pc]
    OBVIOUS
  <1>1. /\ r \in BatchRec /\ r.pc = pc /\ r.next = batch[b].next /\ r.since = batch[b].since
    BY BatchTyped DEF BatchRec
  <1>2. batch' = [batch EXCEPT ![b] = r] /\ r.pc # "none" /\ r.pc # "failed"
    BY <1>1 DEF BatchGoto
  <1>3. /\ r.since <= diskTime /\ r.pc # "writing"
        /\ r.pc \in {"stored", "created"} => r.next > FilesIn[b] /\ r.since > 0
    BY <1>1, BatchTyped DEF BatchHolds, BatchAt
  <1>4. ASSUME NEW file \in FilesOf(b), onDisk'[file] # 0, file \notin strays' PROVE file[2] < r.next
    BY <1>1, <1>4, BatchTyped DEF BatchHolds
  <1>5. ASSUME r.pc \in {"stored", "created"}, Young(r.since), NEW file \in FilesOf(b), file[2] < r.next
        PROVE  (onDisk'[file] # 0 /\ onDisk'[file] >= r.since) \/ b \in hollowed \/ ReadOut(file)
    <2>1. Lasts(b, file) /\ onDisk'[file] = onDisk[file]
      BY <1>1, <1>5, BatchTyped DEF BatchHolds, BatchAt
    <2> QED BY <1>1, <2>1 DEF Lasts
  <1>6. \A file \in FilesOf(b) : onDisk'[file] # 0 /\ file \notin strays' => file[2] < r.next /\ r.pc # "failed"
    BY <1>2, <1>4
  <1>7. r.pc \in {"writing", "stored", "created"} /\ Young(r.since) =>
           \A file \in FilesOf(b) : file[2] < r.next =>
               (onDisk'[file] # 0 /\ onDisk'[file] >= r.since) \/ b \in hollowed \/ ReadOut(file)
    BY <1>3, <1>5
  <1> QED BY <1>1, <1>2, <1>3, <1>6, <1>7, UploadGoesOn

LEMMA FailsKeepsDisk == ASSUME DiskInv, NEW b \in Batches, WriteFails(b) PROVE DiskInv'
  <1>1. /\ BatchAt(b, "writing") /\ BatchGoto(b, "undo") /\ batch[b].pc = "writing"
        /\ UNCHANGED <<diskTime, fetch, hollowed>> /\ SweepKeepsPace
    BY PaceKept DEF WriteFails, BatchAt
  <1>2. CASE UNCHANGED <<onDisk, strays>>
    BY <1>1, <1>2, BatchTyped, UploadTurns
  <1>3. CASE /\ onDisk' = [onDisk EXCEPT ![<<b, batch[b].next>>] = diskTime]
             /\ strays' = strays \cup {<<b, batch[b].next>>}
    <2>1. ASSUME NEW file \in FilesOf(b) PROVE onDisk'[file] = onDisk[file] \/ file \in strays'
      <3>1. onDisk'[file] = IF file[2] = batch[b].next THEN diskTime ELSE onDisk[file]
        BY <1>1, <1>3, UploadWritten
      <3>2. file = <<b, file[2]>>
        BY UploadFileIs
      <3> QED BY <1>3, <3>1, <3>2
    <2>2. /\ onDisk' \in [UploadFiles \cup Archives -> Nat]
          /\ \A file \in UploadFiles \cup Archives : file \notin FilesOf(b) => onDisk'[file] = onDisk[file]
      BY <1>1, <1>3, UploadWritten
    <2> QED BY <1>1, <1>3, <2>1, <2>2, UploadTurns
  <1> QED BY <1>2, <1>3 DEF WriteFails

LEMMA CreateKeepsDisk == ASSUME DiskInv, NEW b \in Batches, CreateTasks(b) PROVE DiskInv'
  <1>1. PICK pc \in {"undo", "created"} : BatchGoto(b, pc)
    BY DEF CreateTasks
  <1>2. /\ BatchAt(b, "stored") /\ batch[b].pc = "stored" /\ onDisk' = onDisk /\ strays' = strays
        /\ UNCHANGED <<diskTime, fetch, hollowed>> /\ SweepKeepsPace
    BY PaceKept DEF CreateTasks, BatchAt
  <1> QED BY <1>1, <1>2, BatchTyped, UploadTurns

LEMMA UndoKeepsDisk == ASSUME DiskInv, NEW b \in Batches, UndoFiles(b) PROVE DiskInv'
  <1> PICK r : r = [batch[b] EXCEPT !.pc = "failed"]
    OBVIOUS
  <1>1. r \in BatchRec /\ r.pc = "failed" /\ r.next = batch[b].next /\ r.since = batch[b].since
    BY BatchTyped DEF BatchRec
  <1>2. /\ batch' = [batch EXCEPT ![b] = r] /\ UNCHANGED <<diskTime, fetch, hollowed>> /\ SweepKeepsPace
        /\ r.since <= diskTime
    BY <1>1, BatchTyped, PaceKept DEF UndoFiles, BatchGoto, BatchHolds
  <1> PICK stored : stored = {file \in FilesOf(b) : file[2] < batch[b].next}
    OBVIOUS
  <1>3. PICK kept \in SUBSET stored :
           /\ onDisk' = [file \in DOMAIN onDisk |-> IF file \in stored \ kept THEN 0 ELSE onDisk[file]]
           /\ strays' = strays \cup kept
    BY DEF UndoFiles
  <1>4. /\ onDisk' \in [UploadFiles \cup Archives -> Nat] /\ strays \subseteq strays'
        /\ \A file \in UploadFiles \cup Archives :
               onDisk'[file] = IF file \in stored \ kept THEN 0 ELSE onDisk[file]
    BY <1>3, BatchTyped
  <1>5. \A file \in UploadFiles \cup Archives : file \notin FilesOf(b) => onDisk'[file] = onDisk[file]
    BY <1>4
  <1>6. ASSUME NEW file \in FilesOf(b), onDisk'[file] # 0, file \notin strays' PROVE FALSE
    <2>1. file \notin stored /\ onDisk[file] # 0 /\ file \notin strays
      BY <1>3, <1>4, <1>6, UploadFileIs
    <2>2. file[2] < batch[b].next
      BY <2>1, BatchTyped DEF BatchHolds
    <2> QED BY <2>1, <2>2
  <1> QED BY <1>1, <1>2, <1>4, <1>5, <1>6, UploadGoesOn

LEMMA ParentsKeepDisk == ASSUME DiskInv, NEW b \in Batches, MakeParents(b) PROVE DiskInv'
  <1>1. UNCHANGED <<diskTime, onDisk, batch, fetch, sweep, strays, hollowed>>
    BY DEF MakeParents
  <1>2. DiskTyped' /\ SweepHolds' /\ TimeGoesOn
    BY <1>1 DEF DiskInv, DiskTyped, SweepHolds, TimeGoesOn
  <1>3. (\A c \in Batches : BatchRests(c)) /\ \A f \in Fetches : FetchRests(f)
    BY <1>1 DEF BatchRests, FetchRests, SameFile
  <1>4. \A file : ReadOut(file) => ReadOut(file)'
    BY <1>1 DEF ReadOut, FetchAt
  <1> QED BY <1>2, <1>3, <1>4, BatchKept, FetchKept DEF DiskInv

LEMMA UploadingKeepsDisk == ASSUME DiskInv, NEW b \in Batches, Uploading(b) PROVE DiskInv'
  BY ParentsKeepDisk, SaveKeepsDisk, WriteKeepsDisk, FailsKeepsDisk, CreateKeepsDisk, UndoKeepsDisk DEF Uploading
(***************************************************************************)
(* The retention, the clock and restarts.                                  *)
(***************************************************************************)
LEMMA NobodySteps ==
    ASSUME DiskInv, DiskTyped', SweepHolds', TimeGoesOn, fetch' = fetch,
           \A b \in Batches : BatchRests(b), \A f \in Fetches : FetchRests(f)
    PROVE  DiskInv'
  <1>1. \A file : ReadOut(file)' <=> ReadOut(file)
    BY DEF ReadOut, FetchAt
  <1> QED BY <1>1, BatchKept, FetchKept DEF DiskInv

LEMMA SweepTyped ==
    ASSUME DiskInv
    PROVE  /\ sweep \in SweepRec /\ SweepHolds /\ diskTime \in Nat /\ diskTime > 0
           /\ onDisk \in [UploadFiles \cup Archives -> Nat] /\ Retention \in Nat /\ Retention > 0
           /\ ArchiveDir \notin Folders
  BY DiskConstants DEF DiskInv, DiskTyped

LEMMA SweepOnlySteps ==
    ASSUME DiskInv, sweep' \in SweepRec, sweep'.cutoff \in {0, sweep.cutoff}, SweepChangesNothing
    PROVE  DiskInv'
  <1>1. DiskTyped' /\ TimeGoesOn /\ fetch' = fetch /\ batch' = batch /\ UNCHANGED <<onDisk, strays, hollowed>>
    BY DEF DiskInv, DiskTyped, SweepAlone, TimeGoesOn, SweepChangesNothing
  <1>2. (\A b \in Batches : BatchRests(b)) /\ \A f \in Fetches : FetchRests(f)
    BY <1>1 DEF BatchRests, FetchRests, SameFile
  <1>3. SweepHolds'
    BY SweepTyped DEF SweepHolds, SweepChangesNothing, SweepAlone
  <1> QED BY <1>1, <1>2, <1>3, NobodySteps

LEMMA NoSweepTyped == NoSweep \in SweepRec /\ NoSweep.cutoff = 0 /\ NoSweep.pc = "off"
  BY DEF NoSweep, SweepRec

LEMMA StartsKeepsDisk == ASSUME DiskInv, SweepStarts PROVE DiskInv'
  <1> PICK cutoff : cutoff = IF diskTime > Retention THEN diskTime - Retention ELSE 0
    OBVIOUS
  <1>1. cutoff \in Nat /\ (cutoff = 0 \/ cutoff + Retention <= diskTime)
    BY SweepTyped
  <1>2. /\ sweep' = [NoSweep EXCEPT !.pc = "list", !.at = UploadRoot, !.cutoff = cutoff]
        /\ UNCHANGED <<onDisk, strays, hollowed, diskTime, batch, fetch>>
    BY DEF SweepStarts, SweepChangesNothing, SweepAlone
  <1>3. sweep' \in SweepRec /\ sweep'.cutoff = cutoff
    BY <1>1, <1>2, NoSweepTyped DEF SweepRec
  <1>4. DiskTyped' /\ SweepHolds' /\ TimeGoesOn
    BY <1>1, <1>2, <1>3, SweepTyped DEF SweepHolds, DiskInv, DiskTyped, TimeGoesOn
  <1>5. (\A b \in Batches : BatchRests(b)) /\ \A f \in Fetches : FetchRests(f)
    BY <1>2 DEF BatchRests, FetchRests, SameFile
  <1> QED BY <1>2, <1>4, <1>5, NobodySteps

LEMMA GoesUp ==
    ASSUME DiskInv, SweepGoesUp
    PROVE  /\ sweep' \in SweepRec /\ sweep'.cutoff \in {0, sweep.cutoff}
           /\ sweep'.pc \in {"off", "list", "entries"}
  <1> PICK above : above = InDir[sweep.at]
    OBVIOUS
  <1>1. CASE sweep' = NoSweep
    BY <1>1, NoSweepTyped
  <1>2. CASE sweep' = [sweep EXCEPT !.pc = "list", !.at = ArchiveDir]
    BY <1>2, SweepTyped DEF SweepRec
  <1>3. CASE sweep.at \notin {UploadRoot, ArchiveDir} /\ sweep' = [sweep EXCEPT !.pc = "entries", !.at = above]
    <2>1. above \in Folders \cup {UploadRoot, ArchiveDir}
      BY <1>3, SweepTyped, FolderPaths DEF SweepRec
    <2> QED BY <1>3, <2>1, SweepTyped DEF SweepRec
  <1> QED BY <1>1, <1>2, <1>3 DEF SweepGoesUp

LEMMA ListsKeepDisk == ASSUME DiskInv, SweepLists PROVE DiskInv' /\ sweep'.pc # "empty"
  <1>1. CASE SweepGoesUp
    BY <1>1, GoesUp, SweepOnlySteps DEF SweepLists
  <1>2. ASSUME NEW todo \in SUBSET Folders, NEW files \in SUBSET (UploadFiles \cup Archives),
               sweep' = [sweep EXCEPT !.pc = "entries", !.todo = todo, !.files = files]
        PROVE  DiskInv' /\ sweep'.pc # "empty"
    <2>1. sweep' \in SweepRec /\ sweep'.cutoff = sweep.cutoff /\ sweep'.pc = "entries"
      BY <1>2, SweepTyped DEF SweepRec
    <2> QED BY <2>1, SweepOnlySteps DEF SweepLists
  <1>3. CASE sweep' = [sweep EXCEPT !.pc = "entries", !.todo = sweep.todo \cup (DirsIn(sweep.at) \cap dirs),
                                    !.files = OnDiskIn(FilesUnder(sweep.at))]
    <2>1. sweep.todo \cup (DirsIn(sweep.at) \cap dirs) \in SUBSET Folders
      BY SweepTyped DEF SweepRec, DirsIn
    <2>2. OnDiskIn(FilesUnder(sweep.at)) \in SUBSET (UploadFiles \cup Archives)
      BY UploadFileIs DEF OnDiskIn, FilesUnder
    <2> QED BY <1>2, <1>3, <2>1, <2>2
  <1> QED BY <1>1, <1>3 DEF SweepLists

LEMMA EntersKeepsDisk == ASSUME DiskInv, SweepEnters PROVE DiskInv' /\ sweep'.pc # "empty"
  <1>1. PICK d \in sweep.todo : sweep' = [sweep EXCEPT !.pc = "list", !.at = d, !.todo = sweep.todo \ {d}]
    BY DEF SweepEnters
  <1>2. sweep.todo \subseteq Folders /\ d \in Folders
    BY SweepTyped DEF SweepRec
  <1>3. sweep' \in SweepRec /\ sweep'.cutoff = sweep.cutoff /\ sweep'.pc = "list"
    BY <1>1, <1>2, SweepTyped DEF SweepRec
  <1> QED BY <1>3, SweepOnlySteps DEF SweepEnters

LEMMA ThrowsKeepsDisk == ASSUME DiskInv, SweepThrows PROVE DiskInv' /\ sweep'.pc # "empty"
  BY NoSweepTyped, SweepOnlySteps DEF SweepThrows

LEMMA LooksKeepDisk == ASSUME DiskInv, SweepLooks PROVE DiskInv'
  <1>1. CASE SweepGoesUp
    BY <1>1, GoesUp, SweepOnlySteps DEF SweepLooks
  <1>2. ASSUME NEW into \in SUBSET Batches, sweep' = [sweep EXCEPT !.pc = "empty", !.into = into]
        PROVE  DiskInv'
    <2>1. sweep' \in SweepRec /\ sweep'.cutoff = sweep.cutoff
      BY <1>2, SweepTyped DEF SweepRec
    <2> QED BY <2>1, SweepOnlySteps DEF SweepLooks
  <1>3. {} \in SUBSET Batches /\ {b \in Batches : sweep.at \in UpFrom(b)} \in SUBSET Batches
    OBVIOUS
  <1> QED BY <1>1, <1>2, <1>3 DEF SweepLooks
\* A file that the sweep takes is older than the retention.
LEMMA OldFile ==
    ASSUME DiskInv, NEW x \in Nat, x <= sweep.cutoff, NEW since \in Nat
    PROVE  ~(x # 0 /\ x >= since) \/ ~(diskTime < since + Retention)
  <1>1. sweep.cutoff \in Nat /\ (sweep.cutoff = 0 \/ sweep.cutoff + Retention <= diskTime)
    BY SweepTyped DEF SweepRec, SweepHolds
  <1> QED BY <1>1, SweepTyped

LEMMA FileKeepsDisk == ASSUME DiskInv, SweepFile PROVE DiskInv' /\ sweep'.pc # "empty"
  <1>1. PICK file \in sweep.files :
           /\ sweep' = [sweep EXCEPT !.files = sweep.files \ {file}] /\ sweep.pc = "entries"
           /\ \/ /\ onDisk[file] <= sweep.cutoff
                 /\ onDisk' = [onDisk EXCEPT ![file] = 0] /\ strays' = strays \ {file}
              \/ KeepsDisk
    BY DEF SweepFile
  <1>2. /\ diskTime' = diskTime /\ batch' = batch /\ fetch' = fetch /\ hollowed' = hollowed
        /\ file \in UploadFiles \cup Archives /\ sweep.files \ {file} \subseteq UploadFiles \cup Archives
    BY SweepTyped DEF SweepFile, SweepAlone, SweepRec
  <1>3. /\ sweep' \in SweepRec /\ sweep'.pc = sweep.pc /\ sweep'.cutoff = sweep.cutoff /\ sweep'.at = sweep.at
    BY <1>1, <1>2, SweepTyped DEF SweepRec
  <1>4. SweepHolds' /\ TimeGoesOn
    BY <1>2, <1>3, SweepTyped DEF SweepHolds, TimeGoesOn
  <1>5. onDisk' \in [UploadFiles \cup Archives -> Nat]
    BY <1>1, SweepTyped DEF KeepsDisk
  <1>6. DiskTyped'
    BY <1>2, <1>3, <1>5 DEF DiskInv, DiskTyped
  <1>7. ASSUME NEW other \in UploadFiles \cup Archives
        PROVE  SameFile(other) \/ (onDisk'[other] = 0 /\ onDisk[other] <= sweep.cutoff)
    <2>1. CASE KeepsDisk
      BY <2>1 DEF KeepsDisk, SameFile
    <2>2. CASE other = file
      BY <1>1, <2>1, <2>2, SweepTyped
    <2>3. CASE other # file
      BY <1>1, <2>1, <2>3, SweepTyped DEF SameFile
    <2> QED BY <2>2, <2>3
  <1>8. ASSUME NEW b \in Batches PROVE BatchRests(b)
    <2>1. ASSUME NEW other \in FilesOf(b), onDisk'[other] = 0, onDisk[other] <= sweep.cutoff
          PROVE  ~(onDisk[other] # 0 /\ onDisk[other] >= batch[b].since) \/ ~(diskTime < batch[b].since + Retention)
      <3>1. onDisk[other] \in Nat /\ batch[b].since \in Nat
        BY UploadFileIs, BatchTyped DEF BatchRec
      <3> QED BY <2>1, <3>1, OldFile
    <2>2. \A other \in FilesOf(b) : SameFile(other) \/ (onDisk'[other] = 0 /\ onDisk[other] <= sweep.cutoff)
      BY <1>7, UploadFileIs
    <2> QED BY <1>2, <2>1, <2>2 DEF BatchRests
  <1>9. ASSUME NEW f \in Fetches PROVE FetchRests(f)
    <2>1. ASSUME NEW other \in Archives, onDisk'[other] = 0, onDisk[other] <= sweep.cutoff
          PROVE  ~(onDisk[other] # 0 /\ onDisk[other] >= fetch[f].since) \/ ~(diskTime < fetch[f].since + Retention)
      <3>1. onDisk[other] \in Nat /\ fetch[f].since \in Nat
        BY SweepTyped, RunTyped DEF FetchRec
      <3> QED BY <2>1, <3>1, OldFile
    <2>2. ASSUME NEW try \in 1 .. MaxTries, NEW way \in Ways
          PROVE  \/ SameFile(<<f, try, way>>)
                 \/ /\ onDisk'[<<f, try, way>>] = 0
                    /\ \/ ~(onDisk[<<f, try, way>>] # 0 /\ onDisk[<<f, try, way>>] >= fetch[f].since)
                       \/ ~(diskTime < fetch[f].since + Retention)
      BY <1>7, <2>1, ArchiveIs
    <2> QED BY <1>2, <2>2 DEF FetchRests
  <1> QED BY <1>1, <1>2, <1>3, <1>4, <1>6, <1>8, <1>9, NobodySteps

\* What is removed with a directory found empty came into it since.
LEMMA LostCameInto ==
    ASSUME DiskInv, TreeInv, sweep.pc = "empty", NEW b \in Batches, NEW file \in FilesOf(b),
           file \in OnDiskIn(UNION {FilesUnder(d) : d \in DirsBelow(sweep.at)})
    PROVE  b \in sweep.into
  <1>1. PICK d \in dirs : sweep.at \in UpFrom(d) /\ file \in FilesUnder(d) /\ onDisk[file] # 0
    BY DEF OnDiskIn, DirsBelow
  <1>2. d = b
    <2>1. d \in Folders /\ d # ArchiveDir
      BY <1>1, DiskConstants DEF TreeInv, TreeHolds
    <2> QED BY <1>1, <2>1, FilesApart DEF FilesUnder
  <1> QED BY <1>1, <1>2 DEF TreeInv, CameInto

LEMMA RemovesKeepsDisk == ASSUME DiskInv, TreeInv, SweepRemoves PROVE DiskInv' /\ sweep'.pc # "empty"
  <1> PICK below : below = OnDiskIn(UNION {FilesUnder(d) : d \in DirsBelow(sweep.at)})
    OBVIOUS
  <1>1. PICK lost \in SUBSET below :
           /\ onDisk' = [file \in DOMAIN onDisk |-> IF file \in lost THEN 0 ELSE onDisk[file]]
           /\ strays' = strays \ lost /\ sweep.pc = "empty"
           /\ hollowed' = hollowed \cup {b \in sweep.into : FilesOf(b) \cap lost # {}}
           /\ sweep' = NoSweep \/ SweepGoesUp
           /\ diskTime' = diskTime /\ batch' = batch /\ fetch' = fetch
    BY DEF SweepRemoves, SweepAlone
  <1>2. sweep' \in SweepRec /\ sweep'.pc # "empty" /\ sweep'.cutoff \in {0, sweep.cutoff}
    BY <1>1, NoSweepTyped, GoesUp
  <1>3. SweepHolds' /\ TimeGoesOn
    BY <1>1, <1>2, SweepTyped DEF SweepHolds, TimeGoesOn
  <1>4. /\ onDisk' \in [UploadFiles \cup Archives -> Nat]
        /\ \A file \in UploadFiles \cup Archives : onDisk'[file] = IF file \in lost THEN 0 ELSE onDisk[file]
    BY <1>1, SweepTyped
  <1>5. DiskTyped'
    BY <1>1, <1>2, <1>4 DEF DiskInv, DiskTyped
  <1>6. ASSUME NEW file \in UploadFiles \cup Archives, file \notin lost PROVE SameFile(file)
    BY <1>1, <1>4, <1>6 DEF SameFile
  <1>7. ASSUME NEW b \in Batches PROVE BatchRests(b)
    <2>1. ASSUME NEW file \in FilesOf(b), file \in lost PROVE b \in hollowed' /\ onDisk'[file] = 0
      <3>1. b \in sweep.into
        BY <1>1, <2>1, LostCameInto
      <3> QED BY <1>1, <1>4, <2>1, <3>1, UploadFileIs
    <2> QED BY <1>1, <1>6, <2>1, UploadFileIs DEF BatchRests
  <1>8. ASSUME NEW f \in Fetches PROVE FetchRests(f)
    <2>1. ASSUME NEW try \in 1 .. MaxTries, NEW way \in Ways PROVE SameFile(<<f, try, way>>)
      <3>1. <<f, try, way>> \notin lost
        <4>1. ASSUME NEW d \in dirs, <<f, try, way>> \in FilesUnder(d) PROVE FALSE
          BY <4>1, UploadFileIs, DiskConstants DEF FilesUnder, TreeInv, TreeHolds
        <4> QED BY <1>1, <4>1 DEF OnDiskIn, DirsBelow
      <3> QED BY <1>6, <3>1, ArchiveIs
    <2> QED BY <1>1, <2>1 DEF FetchRests
  <1> QED BY <1>1, <1>2, <1>3, <1>5, <1>7, <1>8, NobodySteps

LEMMA SweepingKeepsDisk == ASSUME DiskInv, TreeInv, Sweeping PROVE DiskInv'
  BY StartsKeepsDisk, ListsKeepDisk, EntersKeepsDisk, FileKeepsDisk, ThrowsKeepsDisk, LooksKeepDisk,
     RemovesKeepsDisk DEF Sweeping

\* A step that moves the clock alone, or nothing.
LEMMA TickKeepsDisk ==
    ASSUME DiskInv, diskTime' \in {diskTime, diskTime + 1},
           UNCHANGED <<onDisk, batch, fetch, sweep, strays, hollowed>>
    PROVE  DiskInv'
  <1>1. diskTime \in Nat /\ diskTime' \in Nat /\ diskTime' >= diskTime /\ diskTime' # 0
    BY SweepTyped
  <1>2. DiskTyped' /\ TimeGoesOn
    BY <1>1 DEF DiskInv, DiskTyped, TimeGoesOn
  <1>3. sweep.cutoff \in Nat
    BY SweepTyped DEF SweepRec
  <1>4. SweepHolds'
    BY <1>1, <1>3, SweepTyped DEF SweepHolds
  <1>5. (\A b \in Batches : BatchRests(b)) /\ \A f \in Fetches : FetchRests(f)
    BY DEF BatchRests, FetchRests, SameFile
  <1> QED BY <1>2, <1>4, <1>5, NobodySteps
LEMMA RunQueued ==
    ASSUME NEW run \in FetchRec, run.try < MaxTries
    PROVE  LET r == [run EXCEPT !.pc = "idle", !.try = run.try + 1] IN
           /\ r \in FetchRec /\ r.pc = "idle" /\ r.since = run.since
           /\ r.injected = run.injected /\ r.lost = run.lost
  <1> PICK n : n = run.try + 1
    OBVIOUS
  <1>1. n \in 1 .. MaxTries
    BY DiskConstants DEF FetchRec
  <1> PICK r : r = [run EXCEPT !.pc = "idle", !.try = n]
    OBVIOUS
  <1>2. /\ r \in FetchRec /\ r.pc = "idle" /\ r.since = run.since
        /\ r.injected = run.injected /\ r.lost = run.lost
    BY <1>1 DEF FetchRec
  <1> QED BY <1>2

LEMMA CrashKeepsDisk == ASSUME DiskInv, DiskCrash PROVE DiskInv'
  <1>1. /\ diskTime' = diskTime /\ onDisk' = onDisk /\ hollowed' = hollowed /\ strays \subseteq strays'
        /\ sweep' = NoSweep /\ onDisk \in [UploadFiles \cup Archives -> Nat]
    BY SweepTyped DEF DiskCrash
  <1>2. NoSweep \in SweepRec /\ NoSweep.cutoff = 0 /\ NoSweep.pc = "off"
    BY DEF NoSweep, SweepRec
  <1>3. ASSUME NEW f \in Fetches, fetch[f].pc \notin Resting
        PROVE  /\ fetch'[f] \in FetchRec /\ fetch'[f].pc = "idle" /\ fetch'[f].since = fetch[f].since
               /\ fetch'[f].injected = fetch[f].injected /\ fetch'[f].lost = fetch[f].lost
    <2>1. fetch[f] \in FetchRec /\ fetch[f].try < MaxTries
      BY <1>3, RunTyped DEF DiskCrash
    <2>2. fetch'[f] = [fetch[f] EXCEPT !.pc = "idle", !.try = fetch[f].try + 1]
      BY <1>3 DEF DiskCrash
    <2> QED BY <2>1, <2>2, RunQueued
  <1>4. ASSUME NEW f \in Fetches, fetch[f].pc \in Resting PROVE fetch'[f] = fetch[f]
    BY <1>4 DEF DiskCrash
  <1>5. fetch' \in [Fetches -> FetchRec]
    <2>1. DOMAIN fetch' = Fetches /\ fetch' = [f \in Fetches |-> fetch'[f]]
      BY DEF DiskCrash
    <2> QED BY <1>3, <1>4, <2>1, RunTyped
  <1>6. ASSUME NEW b \in Batches, batch[b].pc \in {"writing", "stored", "undo"}
        PROVE  /\ batch'[b] \in BatchRec /\ batch'[b].pc = "failed" /\ batch'[b].since = batch[b].since
    BY <1>6, BatchTyped DEF DiskCrash, BatchRec
  <1>7. ASSUME NEW b \in Batches, batch[b].pc \notin {"writing", "stored", "undo"} PROVE batch'[b] = batch[b]
    BY <1>7 DEF DiskCrash
  <1>8. batch' \in [Batches -> BatchRec]
    <2>1. DOMAIN batch' = Batches /\ batch' = [b \in Batches |-> batch'[b]]
      BY DEF DiskCrash
    <2> QED BY <1>6, <1>7, <2>1, BatchTyped
  <1>9. DiskTyped' /\ SweepHolds' /\ TimeGoesOn
    BY <1>1, <1>2, <1>5, <1>8, SweepTyped DEF DiskInv, DiskTyped, SweepHolds, TimeGoesOn
  <1>10. ASSUME NEW b \in Batches PROVE BatchHolds(b)'
    <2>1. CASE batch[b].pc \in {"writing", "stored", "undo"}
      <3>1. \A file \in FilesOf(b) : onDisk[file] # 0 => file \in strays'
        BY <1>1, <2>1, UploadFileIs DEF DiskCrash
      <3>2. batch'[b].pc = "failed" /\ batch'[b].since <= diskTime'
        BY <1>1, <1>6, <2>1, BatchTyped DEF BatchHolds
      <3> QED BY <1>1, <3>1, <3>2 DEF BatchHolds, BatchAt
    <2>2. CASE batch[b].pc \notin {"writing", "stored", "undo"}
      <3>1. BatchRests(b)
        BY <1>1, <1>7, <2>2 DEF BatchRests, SameFile
      <3>2. ASSUME NEW file, ReadOut(file) PROVE ReadOut(file)'
        <4>1. PICK f \in Fetches : SourceOf[f] = "local" /\ UploadOf[f] = file /\ fetch[f].pc = "done"
          BY <3>2 DEF ReadOut, FetchAt
        <4>2. fetch'[f].pc = "done"
          BY <1>4, <4>1 DEF Resting
        <4> QED BY <4>1, <4>2 DEF ReadOut, FetchAt
      <3> QED BY <1>9, <3>1, <3>2, BatchKept
    <2> QED BY <2>1, <2>2
  <1>11. ASSUME NEW f \in Fetches PROVE FetchHolds(f)'
    <2>1. CASE fetch[f].pc \in Resting
      <3>1. FetchRests(f)
        BY <1>1, <1>4, <2>1 DEF FetchRests, SameFile
      <3> QED BY <1>9, <3>1, FetchKept
    <2>2. CASE fetch[f].pc \notin Resting
      <3>1. ~InHand(f)'
        BY <1>3, <2>2 DEF InHand
      <3>2. ASSUME NEW try \in 1 .. MaxTries, NEW way \in Ways,
                   onDisk'[<<f, try, way>>] # 0, <<f, try, way>> \notin strays'
            PROVE  FALSE
        <4>1. InHand(f) /\ <<f, try, way>> = ArchiveOf(f)
          BY <1>1, <3>2 DEF DiskInv, FetchHolds
        <4>2. <<f, try, way>> \in DOMAIN onDisk /\ onDisk[<<f, try, way>>] # 0
          BY <1>1, <3>2, ArchiveIs
        <4> QED BY <3>2, <4>1, <4>2 DEF DiskCrash
      <3>3. RunFits(f, fetch[f])'
        BY <1>1, <1>3, <2>2, RunTyped DEF RunFits, Untaken, Resting, FetchRec
      <3> QED BY <3>1, <3>2, <3>3 DEF FetchHolds
    <2> QED BY <2>1, <2>2
  <1> QED BY <1>9, <1>10, <1>11 DEF DiskInv

(***************************************************************************)
(* The directories.                                                        *)
(***************************************************************************)
\* No file comes, and the sweep has found nothing empty that it had not before.
LEMMA TreeKept ==
    ASSUME TreeInv, dirs' = dirs, sweep' = sweep \/ sweep'.pc # "empty",
           \A b \in Batches : \A file \in FilesOf(b) : onDisk'[file] # 0 => onDisk[file] # 0
    PROVE  TreeInv'
  <1>1. TreeHolds'
    BY DEF TreeInv, TreeHolds
  <1>2. CameInto(sweep)'
    BY DEF TreeInv, CameInto
  <1> QED BY <1>1, <1>2 DEF TreeInv

\* Directories come with those above them, and nothing else happens.
LEMMA TreeGrows ==
    ASSUME TreeInv, NEW d \in Folders, dirs' = dirs \cup UpFrom(d), UNCHANGED <<onDisk, sweep>>
    PROVE  TreeInv'
  <1>1. TreeHolds'
    BY UpFromIs DEF TreeInv, TreeHolds
  <1>2. CameInto(sweep)'
    BY DEF TreeInv, CameInto
  <1> QED BY <1>1, <1>2 DEF TreeInv

\* A file that an upload writes is below the directories its path names.
LEMMA TreeWritten ==
    ASSUME DiskInv, TreeInv, NEW b \in Batches, BatchAt(b, "writing"), b \in dirs, MeetsSweep(b), dirs' = dirs,
           onDisk' = [onDisk EXCEPT ![<<b, batch[b].next>>] = diskTime]
    PROVE  TreeInv'
  <1>1. ASSUME NEW c \in Batches, NEW file \in FilesOf(c), c # b PROVE onDisk'[file] = onDisk[file]
    BY <1>1, UploadWritten, UploadFileIs, FilesApart
  <1>2. TreeHolds'
    BY <1>1 DEF TreeInv, TreeHolds
  <1>3. ASSUME sweep'.pc = "empty"
        PROVE  /\ sweep'.at \in Folders /\ sweep.into \subseteq sweep'.into /\ sweep'.at = sweep.at
               /\ sweep.pc = "empty" /\ (sweep.at \in UpFrom(b) => b \in sweep'.into)
    <2>1. sweep \in SweepRec
      BY SweepTyped
    <2>2. CASE sweep.pc = "empty" /\ sweep.at \in UpFrom(b)
      <3>1. sweep' = [sweep EXCEPT !.into = sweep.into \cup {b}]
        BY <2>2 DEF MeetsSweep
      <3>2. sweep'.into = sweep.into \cup {b} /\ sweep'.at = sweep.at
        BY <2>1, <3>1 DEF SweepRec
      <3> QED BY <2>2, <3>2 DEF TreeInv, CameInto
    <2>3. CASE ~(sweep.pc = "empty" /\ sweep.at \in UpFrom(b))
      BY <1>3, <2>3 DEF MeetsSweep, TreeInv, CameInto
    <2> QED BY <2>2, <2>3
  <1>4. ASSUME sweep'.pc = "empty", NEW c \in Batches, NEW file \in FilesOf(c),
               sweep'.at \in UpFrom(c), onDisk'[file] # 0
        PROVE  c \in sweep'.into
    BY <1>1, <1>3, <1>4 DEF TreeInv, CameInto
  <1>5. CameInto(sweep)'
    BY <1>3, <1>4 DEF CameInto
  <1> QED BY <1>2, <1>5 DEF TreeInv

LEMMA UploadingKeepsTree == ASSUME DiskInv, TreeInv, NEW b \in Batches, Uploading(b) PROVE TreeInv'
  <1>1. CASE MakeParents(b)
    <2>1. InDir[b] \in Folders
      BY ImportFilesAssumption DEF Folders
    <2>2. UpFrom(InDir[b]) \subseteq Folders
      BY <2>1, UpFromIs
    <2>3. PICK d \in UpFrom(InDir[b]) : dirs' = dirs \cup UpFrom(d)
      BY <1>1 DEF MakeParents
    <2> QED BY <1>1, <2>2, <2>3, TreeGrows DEF MakeParents
  <1>2. CASE SaveFiles(b)
    BY <1>2, TreeGrows DEF SaveFiles, Folders
  <1>3. CASE WriteFile(b)
    BY <1>3, TreeWritten DEF WriteFile
  <1>4. CASE WriteFails(b)
    <2>1. CASE UNCHANGED <<onDisk, strays, sweep>>
      BY <1>4, <2>1, TreeKept DEF WriteFails
    <2> QED BY <1>4, <2>1, TreeWritten DEF WriteFails
  <1>5. CASE CreateTasks(b)
    BY <1>5, TreeKept DEF CreateTasks
  <1>6. CASE UndoFiles(b)
    <2>1. PICK gone : onDisk' = [file \in DOMAIN onDisk |-> IF file \in gone THEN 0 ELSE onDisk[file]]
      BY <1>6 DEF UndoFiles
    <2>2. \A c \in Batches : \A file \in FilesOf(c) : onDisk'[file] # 0 => onDisk[file] # 0
      BY <2>1, SweepTyped, UploadFileIs
    <2> QED BY <1>6, <2>2, TreeKept DEF UndoFiles
  <1> QED BY <1>1, <1>2, <1>3, <1>4, <1>5, <1>6 DEF Uploading

\* A run writes archives only.
LEMMA FetchingKeepsTree == ASSUME DiskInv, TreeInv, NEW f \in Fetches, Fetching(f) PROVE TreeInv'
  <1>1. \/ onDisk' = onDisk
        \/ onDisk' = [onDisk EXCEPT ![ArchiveOf(f)] = diskTime]
        \/ \E file : onDisk' = [onDisk EXCEPT ![file] = 0]
    BY DEF Fetching, BeginFetch, FetchAgain, WayRefused, OpenArchive, ArchiveChunk, ArchiveEnds, ArchiveBreaks,
           DocumentAnswers, DocumentRefused, RememberName, NameLost, ReadUpload, SendTempFile, InjectFetched,
           FinishFetch, FinishThrows, KeepsDisk
  <1>2. OnlyFetches
    BY DEF Fetching, BeginFetch, FetchAgain, WayRefused, OpenArchive, ArchiveChunk, ArchiveEnds, ArchiveBreaks,
           DocumentAnswers, DocumentRefused, RememberName, NameLost, ReadUpload, SendTempFile, InjectFetched,
           FinishFetch, FinishThrows
  <1>3. ASSUME NEW b \in Batches, NEW file \in FilesOf(b), onDisk'[file] # 0 PROVE onDisk[file] # 0
    <2>1. file \in UploadFiles /\ file # ArchiveOf(f)
      BY UploadFileIs, OwnArchive DEF DiskInv
    <2> QED BY <1>1, <1>3, <2>1, SweepTyped
  <1> QED BY <1>2, <1>3, TreeKept DEF OnlyFetches

LEMMA StepsKeepTree ==
    ASSUME TreeInv, UNCHANGED <<onDisk, dirs>>, sweep' = sweep \/ sweep'.pc # "empty"
    PROVE  TreeInv'
  BY TreeKept

\* A directory that is bare has no file below it, however deep.
LEMMA BareHoldsNothing ==
    ASSUME TreeInv, NEW d \in Folders, Bare(d), NEW b \in Batches, NEW file \in FilesOf(b), onDisk[file] # 0
    PROVE  d \notin UpFrom(b)
  <1>1. b \in dirs /\ UpFrom(b) \subseteq dirs /\ b \in Folders /\ InDir[b] \in Folders
    BY ImportFilesAssumption DEF TreeInv, TreeHolds, Folders
  <1>2. d # b
    BY DiskConstants DEF Bare, OnDiskIn, FilesUnder
  <1>3. d # InDir[b]
    BY <1>1 DEF Bare, DirsIn
  <1>4. d # InDir[InDir[b]]
    <2>1. InDir[b] \in dirs
      BY <1>1, FolderPaths DEF UpFrom
    <2> QED BY <1>1, <2>1 DEF Bare, DirsIn
  <1> QED BY <1>2, <1>3, <1>4 DEF UpFrom

LEMMA LooksKeepTree == ASSUME DiskInv, TreeInv, SweepLooks PROVE TreeInv'
  <1>1. UNCHANGED <<onDisk, dirs>>
    BY DEF SweepLooks, SweepChangesNothing
  <1>2. CASE SweepGoesUp
    BY <1>1, <1>2, GoesUp, StepsKeepTree
  <1>3. ASSUME NEW into \in SUBSET Batches, sweep' = [sweep EXCEPT !.pc = "empty", !.into = into],
               sweep.at \in Folders,
               \A b \in Batches : \A file \in FilesOf(b) : sweep.at \in UpFrom(b) /\ onDisk[file] # 0 => b \in into
        PROVE  TreeInv'
    <2>1. sweep'.at = sweep.at /\ sweep'.into = into
      BY <1>3, SweepTyped DEF SweepRec
    <2>2. TreeHolds'
      BY <1>1 DEF TreeInv, TreeHolds
    <2>3. CameInto(sweep)'
      BY <1>1, <1>3, <2>1 DEF CameInto
    <2> QED BY <2>2, <2>3 DEF TreeInv
  <1>4. CASE sweep.at \in Folders /\ Bare(sweep.at) /\ sweep' = [sweep EXCEPT !.pc = "empty", !.into = {}]
    <2> PICK into \in SUBSET Batches : into = {}
      OBVIOUS
    <2>1. \A b \in Batches : \A file \in FilesOf(b) : sweep.at \in UpFrom(b) /\ onDisk[file] # 0 => b \in into
      BY <1>4, BareHoldsNothing
    <2>2. sweep' = [sweep EXCEPT !.pc = "empty", !.into = into]
      BY <1>4
    <2> QED BY <1>3, <1>4, <2>1, <2>2
  <1>5. CASE /\ sweep.at \in Folders
             /\ sweep' = [sweep EXCEPT !.pc = "empty", !.into = {b \in Batches : sweep.at \in UpFrom(b)}]
    BY <1>3, <1>5
  <1> QED BY <1>2, <1>4, <1>5 DEF SweepLooks

LEMMA RemovesKeepTree == ASSUME DiskInv, TreeInv, SweepRemoves PROVE TreeInv'
  <1>1. PICK gone \in SUBSET DirsBelow(sweep.at),
             lost \in SUBSET OnDiskIn(UNION {FilesUnder(d) : d \in DirsBelow(sweep.at)}) :
           /\ \A d \in gone : DirsBelow(d) \subseteq gone /\ OnDiskIn(FilesUnder(d)) \subseteq lost
           /\ dirs' = dirs \ gone
           /\ onDisk' = [file \in DOMAIN onDisk |-> IF file \in lost THEN 0 ELSE onDisk[file]]
    BY DEF SweepRemoves
  <1>2. ASSUME NEW d \in dirs', NEW e \in UpFrom(d) PROVE e \in dirs'
    BY <1>1 DEF TreeInv, TreeHolds, DirsBelow
  <1>3. ASSUME NEW b \in Batches, NEW file \in FilesOf(b), onDisk'[file] # 0 PROVE b \in dirs'
    <2>1. onDisk[file] # 0 /\ file \notin lost
      BY <1>1, <1>3, SweepTyped, UploadFileIs
    <2>2. b \notin gone
      BY <1>1, <2>1, ImportFilesAssumption DEF OnDiskIn, FilesUnder, Folders
    <2> QED BY <1>1, <2>1, <2>2 DEF TreeInv, TreeHolds
  <1>4. TreeHolds'
    BY <1>1, <1>2, <1>3 DEF TreeInv, TreeHolds
  <1>5. CameInto(sweep)'
    BY RemovesKeepsDisk DEF CameInto
  <1> QED BY <1>4, <1>5 DEF TreeInv

LEMMA SweepingKeepsTree == ASSUME DiskInv, TreeInv, Sweeping PROVE TreeInv'
  <1>1. CASE SweepStarts
    <2>1. sweep'.pc # "empty"
      BY <1>1 DEF SweepStarts, NoSweep
    <2> QED BY <1>1, <2>1, StepsKeepTree DEF SweepStarts, SweepChangesNothing
  <1>2. CASE SweepLists
    BY <1>2, ListsKeepDisk, StepsKeepTree DEF SweepLists, SweepChangesNothing
  <1>3. CASE SweepEnters
    BY <1>3, EntersKeepsDisk, StepsKeepTree DEF SweepEnters, SweepChangesNothing
  <1>4. CASE SweepThrows
    BY <1>4, ThrowsKeepsDisk, StepsKeepTree DEF SweepThrows, SweepChangesNothing
  <1>5. CASE SweepFile
    <2>1. onDisk' = onDisk \/ \E file : onDisk' = [onDisk EXCEPT ![file] = 0]
      BY <1>5 DEF SweepFile, KeepsDisk
    <2>2. \A b \in Batches : \A file \in FilesOf(b) : onDisk'[file] # 0 => onDisk[file] # 0
      BY <2>1, SweepTyped, UploadFileIs
    <2> QED BY <1>5, <2>2, FileKeepsDisk, TreeKept DEF SweepFile
  <1> QED BY <1>1, <1>2, <1>3, <1>4, <1>5, LooksKeepTree, RemovesKeepTree DEF Sweeping

LEMMA DiskStepKeeps == ASSUME DiskInv, TreeInv, [DiskNext]_diskVars PROVE DiskInv' /\ TreeInv'
  <1>1. CASE DiskNext
    <2>1. CASE DiskTick
      BY <2>1, TickKeepsDisk, StepsKeepTree DEF DiskTick
    <2>2. CASE DiskCrash
      BY <2>2, CrashKeepsDisk, StepsKeepTree, NoSweepTyped DEF DiskCrash
    <2> QED BY <1>1, <2>1, <2>2, UploadingKeepsDisk, FetchingKeepsDisk, SweepingKeepsDisk,
               UploadingKeepsTree, FetchingKeepsTree, SweepingKeepsTree DEF DiskNext
  <1>2. CASE UNCHANGED diskVars
    BY <1>2, TickKeepsDisk, StepsKeepTree DEF diskVars
  <1> QED BY <1>1, <1>2

LEMMA DiskInvGives == ASSUME DiskInv PROVE FilesHold
  <1>1. ArchivesOwned /\ RefusedLeavesNothing
    BY DEF DiskInv, FetchHolds, BatchHolds, ArchivesOwned, RefusedLeavesNothing, Ways
  <1>2. ASSUME NEW b \in Batches, BatchAt(b, "created"), diskTime < batch[b].since + Retention,
               NEW file \in FilesOf(b)
        PROVE  onDisk[file] # 0 \/ b \in hollowed \/ ReadOut(file)
    <2>1. file[2] < batch[b].next
      BY <1>2, BatchTyped, UploadFileIs DEF BatchHolds, BatchAt, BatchRec
    <2>2. Lasts(b, file)
      BY <1>2, <2>1, BatchTyped DEF BatchHolds, BatchAt, Young
    <2> QED BY <2>2 DEF Lasts
  <1>3. ASSUME NEW f \in Fetches, InHand(f), diskTime < fetch[f].since + Retention
        PROVE  onDisk[ArchiveOf(f)] # 0
    <2>1. fetch[f].since > 0 /\ onDisk[ArchiveOf(f)] >= fetch[f].since
      BY <1>3 DEF DiskInv, FetchHolds, Young
    <2>2. fetch[f].since \in Nat
      BY RunTyped DEF FetchRec
    <2> QED BY <2>1, <2>2
  <1>4. FilesLast
    BY <1>2, <1>3 DEF FilesLast, ReadOut
  <1>5. DoneWasTaken
    BY RunTyped DEF DoneWasTaken, RunFits, FetchAt
  <1> QED BY <1>1, <1>4, <1>5 DEF FilesHold

\* An archive on disk belongs to a run that writes or sends it, or was left by
\* a restart or a lost name; an upload that was refused leaves only what could
\* not be removed; what a run has yet to read stays until the retention has
\* passed; and what is done was taken, twice only if an answer was lost.
THEOREM FilesAreKept == DiskSpec => []FilesHold
  <1>1. DiskInit => DiskInv /\ TreeInv
    <2>1. ASSUME DiskInit PROVE TreeInv
      <3>1. \A b \in Batches : \A file \in FilesOf(b) : onDisk[file] = 0
        BY <2>1, UploadFileIs DEF DiskInit
      <3>2. sweep.pc # "empty" /\ dirs = {}
        BY <2>1 DEF DiskInit, NoSweep
      <3> QED BY <3>1, <3>2 DEF TreeInv, TreeHolds, CameInto
    <2> QED BY <2>1, DiskInitHolds
  <1>2. DiskInv /\ TreeInv /\ [DiskNext]_diskVars => (DiskInv /\ TreeInv)'
    BY DiskStepKeeps
  <1>3. DiskInv /\ TreeInv => FilesHold
    BY DiskInvGives
  <1> QED BY <1>1, <1>2, <1>3, PTL DEF DiskSpec
==============================================================================
