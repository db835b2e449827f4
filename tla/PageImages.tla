------------------------------ MODULE PageImages ------------------------------
(***************************************************************************)
(* The images of the document editor: a file that is inserted is made      *)
(* smaller and uploaded; an image that is shown is asked for, as the       *)
(* browser cannot send the token by itself, and shown by an object URL.    *)
(* The page keeps one object URL per path and frees all of them when the   *)
(* editor is left.                                                         *)
(***************************************************************************)
EXTENDS Naturals, FiniteSets, Functions

CONSTANTS
    AssetPaths,    \* the paths of the document's images
    MaxViews,      \* bound on the calls of resolveFileUrl for each path
    Sends          \* the calls of uploadFile

VARIABLES
    editorOpen,
    urlOf,         \* objectUrls: the URL kept for each path, 0 for none
    urls,          \* object URLs that nobody has revoked
    urlsMade,
    viewing,       \* the calls of resolveFileUrl
    sending,       \* the calls of uploadFile
    served,        \* paths under which OpenViking shows an image
    overlapped     \* two calls for one path overlapped, or one the end of the editor

imageVars == <<editorOpen, urlOf, urls, urlsMade, viewing, sending, served, overlapped>>

Views == AssetPaths \X (1 .. MaxViews)
LoadAttempts == 3   \* ASSET_LOAD_RETRY_ATTEMPTS
Qualities == 3      \* 0.82, 0.74, 0.66
UnderFetch(pc) == pc \in {"fetch", "wait", "blob"}
AskedOf(path) == {v \in Views : v[1] = path /\ UnderFetch(viewing[v].pc)}
Compressing == {s \in Sends : sending[s].pc \in {"load", "encode"}}
ImagesBusy == Compressing # {} \/ (\E s \in Sends : sending[s].pc = "post") \/ \E path \in AssetPaths : AskedOf(path) # {}

NewUrl == urlsMade + 1
OnlyUrls == UNCHANGED <<editorOpen, served>>
NoUrls == UNCHANGED <<urlOf, urls, urlsMade, overlapped>> /\ OnlyUrls

(***************************************************************************)
(* resolveFileUrl: the URL that is kept, or three attempts at the image.   *)
(***************************************************************************)
NotViewed == [pc |-> "none", tries |-> 0, url |-> 0]

StartView(v) ==
    /\ editorOpen /\ viewing[v].pc = "none"
    /\ \A w \in Views : w[1] = v[1] /\ w[2] < v[2] => viewing[w].pc # "none"
    /\ \/ /\ urlOf[v[1]] # 0
          /\ viewing' = [viewing EXCEPT ![v].pc = "shown", ![v].url = urlOf[v[1]]]
          /\ UNCHANGED overlapped
       \/ /\ urlOf[v[1]] = 0  \* readToken has none
          /\ viewing' = [viewing EXCEPT ![v].pc = "failed"]
          /\ UNCHANGED overlapped
       \/ /\ urlOf[v[1]] = 0
          /\ viewing' = [viewing EXCEPT ![v].pc = "fetch", ![v].tries = 1]
          /\ overlapped' = (overlapped \/ AskedOf(v[1]) # {})
    /\ UNCHANGED <<urlOf, urls, urlsMade, sending>> /\ OnlyUrls

\* 404, which is asked again; the image; another status, or no answer.
FetchAnswers(v) ==
    /\ viewing[v].pc = "fetch"
    /\ \/ v[1] \in served /\ viewing' = [viewing EXCEPT ![v].pc = "blob"]
       \/ /\ v[1] \notin served /\ viewing[v].tries < LoadAttempts
          /\ viewing' = [viewing EXCEPT ![v].pc = "wait"]
       \/ viewing' = [viewing EXCEPT ![v].pc = "failed"]
    /\ UNCHANGED sending /\ NoUrls

WaitEnds(v) ==
    /\ viewing[v].pc = "wait"
    /\ viewing' = [viewing EXCEPT ![v].pc = "fetch", ![v].tries = @ + 1]
    /\ UNCHANGED sending /\ NoUrls

BlobComes(v) ==
    /\ viewing[v].pc = "blob"
    /\ \/ /\ viewing' = [viewing EXCEPT ![v].pc = "shown", ![v].url = NewUrl]
          /\ urlOf' = [urlOf EXCEPT ![v[1]] = NewUrl]
          /\ urls' = urls \cup {NewUrl} /\ urlsMade' = NewUrl
       \/ viewing' = [viewing EXCEPT ![v].pc = "failed"] /\ UNCHANGED <<urlOf, urls, urlsMade>>
    /\ UNCHANGED <<sending, overlapped>> /\ OnlyUrls

(***************************************************************************)
(* uploadFile: a file that is too large or no image, or for a read-only    *)
(* editor, is refused; one over 1 MB that can be compressed is drawn and   *)
(* encoded, worse each time, until it is small enough; whatever fails      *)
(* there, the file is sent as it is.                                       *)
(***************************************************************************)
NotSent == [pc |-> "none", drawn |-> 0, encodes |-> 0, path |-> {}, url |-> 0]

StartSend(s) ==
    /\ editorOpen /\ sending[s].pc = "none"
    /\ \/ /\ sending' \in {[sending EXCEPT ![s].pc = "failed"], [sending EXCEPT ![s].pc = "post"]}
          /\ UNCHANGED <<urls, urlsMade>>
       \/ /\ sending' = [sending EXCEPT ![s].pc = "load", ![s].drawn = NewUrl]
          /\ urls' = urls \cup {NewUrl} /\ urlsMade' = NewUrl
    /\ UNCHANGED <<viewing, urlOf, overlapped>> /\ OnlyUrls

\* The URL the image was drawn from is freed by onerror or by the finally.
Compressed(s) ==
    /\ sending' = [sending EXCEPT ![s].pc = "post"]
    /\ urls' = urls \ {sending[s].drawn}
ImageLoads(s) ==
    /\ sending[s].pc = "load"
    /\ \/ sending' = [sending EXCEPT ![s].pc = "encode", ![s].encodes = 1] /\ UNCHANGED urls
       \/ Compressed(s)
    /\ UNCHANGED <<viewing, urlOf, urlsMade, overlapped>> /\ OnlyUrls
Encodes(s) ==
    /\ sending[s].pc = "encode"
    /\ \/ /\ sending[s].encodes < Qualities
          /\ sending' = [sending EXCEPT ![s].encodes = @ + 1] /\ UNCHANGED urls
       \/ Compressed(s)
    /\ UNCHANGED <<viewing, urlOf, urlsMade, overlapped>> /\ OnlyUrls

\* rememberUploadedAsset: the URL that is kept for the path, or one of the file.
KeepUrlAnyway(path) ==  \* mutant: whatever is kept
    /\ urlOf' = [urlOf EXCEPT ![path] = NewUrl]
    /\ urls' = urls \cup {NewUrl} /\ urlsMade' = NewUrl
KeepUrl(path) ==
    IF urlOf[path] # 0 THEN UNCHANGED <<urlOf, urls, urlsMade>>
    ELSE /\ urlOf' = [urlOf EXCEPT ![path] = NewUrl]
         /\ urls' = urls \cup {NewUrl} /\ urlsMade' = NewUrl

\* The path is new, or that of an image the document has already.
PostAnswers(s) ==
    /\ sending[s].pc = "post"
    /\ \/ \E path \in AssetPaths :
             /\ KeepUrl(path)
             /\ sending' = [sending EXCEPT ![s].pc = "sent", ![s].path = {path}, ![s].url = urlOf'[path]]
             /\ overlapped' = (overlapped \/ AskedOf(path) # {})
       \/ sending' = [sending EXCEPT ![s].pc = "failed"] /\ UNCHANGED <<urlOf, urls, urlsMade, overlapped>>
    /\ UNCHANGED viewing /\ OnlyUrls

\* The effect's cleanup: revokeAll.  What is under way goes on.
CloseEditor ==
    /\ editorOpen /\ editorOpen' = FALSE
    /\ urls' = urls \ Range(urlOf)
    /\ urlOf' = [path \in AssetPaths |-> 0]
    /\ overlapped' = (overlapped \/ ImagesBusy)
    /\ UNCHANGED <<urlsMade, viewing, sending, served>>

\* What was uploaded comes into sight.
ServerShows(path) ==
    /\ served' = served \cup {path} /\ path \notin served
    /\ UNCHANGED <<editorOpen, urlOf, urls, urlsMade, viewing, sending, overlapped>>

ImagesInit ==
    /\ editorOpen = TRUE /\ urls = {} /\ urlsMade = 0 /\ overlapped = FALSE
    /\ urlOf = [path \in AssetPaths |-> 0]
    /\ viewing = [v \in Views |-> NotViewed]
    /\ sending = [s \in Sends |-> NotSent]
    /\ served = {}

ImagesNext ==
    \/ \E v \in Views : StartView(v) \/ FetchAnswers(v) \/ WaitEnds(v) \/ BlobComes(v)
    \/ \E s \in Sends : StartSend(s) \/ ImageLoads(s) \/ Encodes(s) \/ PostAnswers(s)
    \/ \E path \in AssetPaths : ServerShows(path)
    \/ CloseEditor

ImagesSpec == ImagesInit /\ [][ImagesNext]_imageVars

(***************************************************************************)
(* Properties.                                                             *)
(***************************************************************************)
ImagesTypeOK ==
    /\ urlOf \in [AssetPaths -> 0 .. urlsMade] /\ urls \subseteq 1 .. urlsMade
    /\ urlsMade <= Cardinality(Views) + 2 * Cardinality(Sends)
    /\ served \subseteq AssetPaths /\ {editorOpen, overlapped} \subseteq BOOLEAN
    /\ \A v \in Views : viewing[v].tries <= LoadAttempts
    /\ \A s \in Sends : sending[s].encodes <= Qualities

\* While the editor is open every image it shows can be shown again: no URL it
\* was given is freed, whatever overlaps.
ShownStay ==
    editorOpen =>
        /\ \A v \in Views : viewing[v].pc = "shown" => viewing[v].url \in urls
        /\ \A s \in Sends : sending[s].pc = "sent" => sending[s].url \in urls

\* Unless two calls for one path overlapped, or one the end of the editor, a path
\* has one URL, an image uploaded here is shown without asking, and no URL stays
\* behind: those there are kept, or drawn from by a compression under way.
UrlsKept ==
    ~overlapped =>
        /\ urls = (Range(urlOf) \ {0}) \cup {sending[s].drawn : s \in Compressing}
        /\ editorOpen =>
              /\ \A v \in Views : viewing[v].pc = "shown" => urlOf[v[1]] = viewing[v].url
              /\ \A s \in Sends, path \in AssetPaths : path \in sending[s].path => urlOf[path] = sending[s].url

ImagesHold == ShownStay /\ UrlsKept
===============================================================================
