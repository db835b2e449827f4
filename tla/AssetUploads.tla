----------------------------- MODULE AssetUploads -----------------------------
(***************************************************************************)
(* Uploads of images to one document (DocumentService.uploadAsset): the    *)
(* hash of the image is looked up in the cache of the document, then in    *)
(* the images OpenViking holds, and only then is the image stored, found   *)
(* again in the resource tree, and remembered under its hash.              *)
(*                                                                         *)
(* The images of one call are uploaded together, and calls overlap.  An    *)
(* image stands for its content and its hash.  OpenViking may store a file *)
(* under another name, and may show it in the tree later than it answers.  *)
(***************************************************************************)
EXTENDS Naturals, FiniteSets

CONSTANTS
    Uploads,      \* files uploaded, each once
    Images,       \* contents
    ImageOf,      \* the content of each file
    Before,       \* those of them whose files may be in the document already
    Drivers,      \* the caches: memory, redis
    Renames,      \* OpenViking may store a file under another name
    NoLeaf

VARIABLES
    leaves,       \* files in the assets directory of OpenViking
    shown,        \* those the resource tree shows
    hashKey,      \* the cache: the leaf of a hash
    indexKey,     \* Redis alone: the list written by replaceAll
    upload,       \* the calls of uploadAsset
    driver,       \* the cache in use
    slow,         \* the tree may show a file after it was stored
    misled        \* images of which an upload took another's file for its own

assetVars == <<leaves, shown, hashKey, indexKey, upload, driver, slow, misled>>
settings == <<driver, slow>>

ASSUME AssetsAssumption ==
    /\ ImageOf \in [Uploads -> Images]
    /\ Before \subseteq Uploads /\ Drivers \subseteq {"memory", "redis"}
    /\ Renames \in BOOLEAN
    /\ IsFiniteSet(Uploads) /\ NoLeaf \notin [of : Uploads, renamed : BOOLEAN]

\* A file as it is named by its upload (createAssetFileName is unique), or not.
LeafOf(u, renamed) == [of |-> u, renamed |-> renamed]
AllLeaves == [of : Uploads, renamed : BOOLEAN]
ContentOf(leaf) == ImageOf[leaf.of]

Attempts == 3
NoKeys == [i \in Images |-> NoLeaf]
New == [pc |-> "none", entries |-> NoKeys, attempt |-> 0, answer |-> NoLeaf, late |-> FALSE]

StepTo(u, pc) == upload' = [upload EXCEPT ![u].pc = pc]
AnswerWith(u, leaf) == upload' = [upload EXCEPT ![u].pc = "answered", ![u].answer = leaf]
Throw(u) == StepTo(u, "failed")

\* The entries a list of leaves makes; of two leaves with one hash either may
\* be the one that is kept.
EntriesOf(seen) ==
    {keys \in [Images -> seen \cup {NoLeaf}] :
        \A i \in Images : LET held == {l \in seen : ContentOf(l) = i} IN
            IF held = {} THEN keys[i] = NoLeaf ELSE keys[i] \in held}

(***************************************************************************)
(* uploadAsset, await by await.                                            *)
(***************************************************************************)
\* late: the tree already shows the image (an observation of the model).
StartUpload(u) ==
    /\ upload[u].pc = "none" /\ u \notin Before
    /\ upload' = [upload EXCEPT ![u].pc = "get",
                                ![u].late = \E l \in shown : ContentOf(l) = ImageOf[u]]
    /\ UNCHANGED <<leaves, shown, hashKey, indexKey, settings, misled>>

Get(u) ==
    /\ upload[u].pc = "get"
    /\ IF hashKey[ImageOf[u]] # NoLeaf THEN AnswerWith(u, hashKey[ImageOf[u]]) ELSE StepTo(u, "getAll")
    /\ UNCHANGED <<leaves, shown, hashKey, indexKey, settings, misled>>

\* findDuplicateAssetByHash: the cached list may know the image.
Shared == driver = "redis"
Index == IF Shared THEN indexKey ELSE hashKey
GetAll(u) ==
    /\ upload[u].pc = "getAll"
    /\ IF Index[ImageOf[u]] # NoLeaf
       THEN upload' = [upload EXCEPT ![u].pc = "set", ![u].answer = Index[ImageOf[u]]]
       ELSE StepTo(u, "list")
    /\ UNCHANGED <<leaves, shown, hashKey, indexKey, settings, misled>>

\* buildAssetDedupEntries: the tree, then every file of it.
List(u) ==
    /\ upload[u].pc = "list"
    /\ \E keys \in EntriesOf(shown) :
          upload' = [upload EXCEPT ![u].pc = "replace", ![u].entries = keys]
    /\ UNCHANGED <<leaves, shown, hashKey, indexKey, settings, misled>>

\* replaceAll: the process's map is replaced; Redis gets the list, and then the
\* hash keys of its entries, unless that throws.
Found(u) == upload[u].entries[ImageOf[u]]
Overlaid(keys) == [i \in Images |-> IF keys[i] = NoLeaf THEN hashKey[i] ELSE keys[i]]
Replace(u) ==
    /\ upload[u].pc = "replace"
    /\ indexKey' = IF Shared THEN upload[u].entries ELSE indexKey
    /\ \/ /\ hashKey' = IF Shared THEN Overlaid(upload[u].entries) ELSE upload[u].entries
          /\ upload' = [upload EXCEPT ![u].pc = IF Found(u) = NoLeaf THEN "inject" ELSE "set",
                                      ![u].answer = Found(u)]
       \/ Shared /\ Throw(u) /\ UNCHANGED hashKey
    /\ UNCHANGED <<leaves, shown, settings, misled>>

\* The temporary file and the injection; a call that throws may have stored
\* the file all the same.
Inject(u) ==
    /\ upload[u].pc = "inject"
    /\ \E renamed \in {FALSE, Renames} :
          /\ leaves' = leaves \cup {LeafOf(u, renamed)}
          /\ shown' = IF slow THEN shown ELSE shown \cup {LeafOf(u, renamed)}
    /\ StepTo(u, "confirm") \/ Throw(u)
    /\ UNCHANGED <<hashKey, indexKey, settings, misled>>

Show(leaf) ==
    /\ leaf \in leaves \ shown
    /\ shown' = shown \cup {leaf}
    /\ UNCHANGED <<leaves, hashKey, indexKey, upload, settings, misled>>

\* findOpenVikingInjectedLeaf: the file by its name, or else the only one.
InjectedLeafAny(u) == LET mine == {l \in shown : l = LeafOf(u, FALSE)} IN  \* or else any
    IF mine # {} THEN mine ELSE shown
InjectedLeaf(u) == LET mine == {l \in shown : l = LeafOf(u, FALSE)} IN
    IF mine # {} THEN mine ELSE IF Cardinality(shown) = 1 THEN shown ELSE {}

\* resolveInjectedAssetUri: up to three looks at the tree.  The only file it
\* shows counts, also while its own is not there to be seen.
Confirm(u) ==
    /\ upload[u].pc = "confirm"
    /\ \/ /\ \E leaf \in InjectedLeaf(u) :
                upload' = [upload EXCEPT ![u].pc = "touch", ![u].answer = leaf]
          /\ misled' = IF \E l \in shown : l.of = u THEN misled ELSE misled \cup {ImageOf[u]}
       \/ /\ InjectedLeaf(u) = {}
          /\ IF upload[u].attempt = Attempts - 1 THEN Throw(u)
             ELSE upload' = [upload EXCEPT ![u].attempt = @ + 1]
          /\ UNCHANGED misled
    /\ UNCHANGED <<leaves, shown, hashKey, indexKey, settings>>

TouchNode(u) ==
    /\ upload[u].pc = "touch"
    /\ StepTo(u, "set")
    /\ UNCHANGED <<leaves, shown, hashKey, indexKey, settings, misled>>

Remember(u) ==
    /\ upload[u].pc = "set"
    /\ hashKey' = [hashKey EXCEPT ![ImageOf[u]] = upload[u].answer]
    /\ AnswerWith(u, upload[u].answer)
    /\ UNCHANGED <<leaves, shown, indexKey, settings, misled>>

\* Any await may throw, and the call with it.
UploadFails(u) ==
    /\ upload[u].pc \in {"get", "getAll", "list", "replace", "inject", "confirm", "touch", "set"}
    /\ Throw(u)
    /\ UNCHANGED <<leaves, shown, hashKey, indexKey, settings, misled>>

\* The TTL, a restart: the process's map goes as a whole, Redis's keys one by one.
Lapse ==
    /\ \/ hashKey' = NoKeys /\ indexKey' = indexKey /\ hashKey # NoKeys
       \/ /\ Shared /\ indexKey # NoKeys
          /\ indexKey' = NoKeys /\ hashKey' = hashKey
       \/ /\ Shared
          /\ \E i \in Images : hashKey[i] # NoLeaf /\ hashKey' = [hashKey EXCEPT ![i] = NoLeaf]
          /\ UNCHANGED indexKey
    /\ UNCHANGED <<leaves, shown, upload, settings, misled>>

(***************************************************************************)
(* The specification.                                                      *)
(***************************************************************************)
AssetsInit ==
    /\ driver \in Drivers /\ slow \in BOOLEAN
    /\ \E earlier \in SUBSET Before : leaves = {LeafOf(u, FALSE) : u \in earlier}
    /\ shown = leaves /\ misled = {}
    /\ hashKey = NoKeys /\ indexKey = NoKeys
    /\ upload = [u \in Uploads |-> New]

AssetsNext ==
    \/ \E u \in Uploads :
          \/ StartUpload(u) \/ Get(u) \/ GetAll(u) \/ List(u) \/ Replace(u)
          \/ Inject(u) \/ Confirm(u) \/ TouchNode(u) \/ Remember(u) \/ UploadFails(u)
    \/ \E leaf \in AllLeaves : Show(leaf)
    \/ Lapse

AssetsSpec == AssetsInit /\ [][AssetsNext]_assetVars

(***************************************************************************)
(* Properties.                                                             *)
(***************************************************************************)
AssetsTypeOK ==
    /\ shown \subseteq leaves /\ leaves \subseteq AllLeaves
    /\ {hashKey, indexKey} \subseteq [Images -> AllLeaves \cup {NoLeaf}]
    /\ driver \in Drivers /\ slow \in BOOLEAN /\ misled \subseteq Images
    /\ upload \in [Uploads ->
         [pc : {"none", "get", "getAll", "list", "replace", "inject", "confirm", "touch",
                "set", "answered", "failed"},
          entries : [Images -> AllLeaves \cup {NoLeaf}], attempt : 0..Attempts - 1,
          answer : AllLeaves \cup {NoLeaf}, late : BOOLEAN]]

\* The path an upload answers with leads to a file of the document, and to the
\* image that was uploaded, whoever uploads at the same time and whatever the
\* cache has gone through.  The exception are the images of which an upload
\* looked for its file when the tree did not show that yet but one other file,
\* and took this for it: that upload, and those that the cache then answers,
\* may be given another image, and no others.  Where the tree is not late there
\* is no exception.
AnswerHoldsImage ==
    /\ \A u \in Uploads : upload[u].pc = "answered" =>
          /\ upload[u].answer \in leaves
          /\ ContentOf(upload[u].answer) = ImageOf[u] \/ ImageOf[u] \in misled
    /\ misled # {} => slow

\* An image the document already shows is not stored again: not after the upload
\* that stored it has failed, nor after the cache has lost it or been replaced.
NoSecondCopy ==
    \A u \in Uploads : upload[u].late => \A leaf \in leaves : leaf.of # u

\* The two promises of an upload.
UploadsHold == AnswerHoldsImage /\ NoSecondCopy
=============================================================================
