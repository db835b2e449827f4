------------------------------ MODULE EditorPage ------------------------------
(***************************************************************************)
(* The editor page of a document that is saved over HTTP (no collaboration *)
(* server, or none within 5 s): loading, typing, the save and the index    *)
(* button, and the save the page sends when it is left.                    *)
(*                                                                         *)
(* A text is known by the number of edits in it.  What decides whether     *)
(* text is lost are two flags of the component, hasLocalChangesRef and     *)
(* exitSaveTriggeredRef, and which request sets them back when.  Several   *)
(* saves may be under way: every edit makes the status dirty, and that     *)
(* enables the buttons again.                                              *)
(***************************************************************************)
EXTENDS Naturals, Sequences

CONSTANTS
    MaxEdits,     \* bound on the edits
    MaxSaves      \* bound on the saves of the buttons

VARIABLES
    page,         \* loading, broken, open, gone
    status,       \* editorState.status
    text,         \* what the editor shows
    hasLocalChanges,
    exitSaveTriggered,
    saves,        \* saves of the buttons: their text, how they ended
    indexCall,    \* indexContent: none, the number of its save, posting
    exitSaves,    \* the texts sent by triggerDocumentExitSave
    covered       \* the last edit came with no save under way and none sent at exit

pageVars == <<page, status, text, hasLocalChanges, exitSaveTriggered, saves, indexCall,
              exitSaves, covered>>
flags == <<hasLocalChanges, exitSaveTriggered>>

ASSUME PageAssumption == MaxEdits \in Nat /\ MaxSaves \in Nat

NoIndex == [pc |-> "none", save |-> 0]
UnderWay == {i \in DOMAIN saves : saves[i].pc = "sent"}
Enabled == page = "open" /\ status \notin {"loading", "saving", "error"}

\* loadContent, and the button that calls it again.
Loaded ==
    /\ page = "loading"
    /\ \/ page' = "open" /\ status' = "saved"
       \/ page' = "broken" /\ status' = "error"
    /\ UNCHANGED <<text, flags, saves, indexCall, exitSaves, covered>>

Reload ==
    /\ page = "broken"
    /\ page' = "loading" /\ status' = "loading"
    /\ UNCHANGED <<text, flags, saves, indexCall, exitSaves, covered>>

\* onChange of the editor.
Type ==
    /\ page = "open" /\ text < MaxEdits
    /\ text' = text + 1
    /\ hasLocalChanges' = TRUE
    /\ status' = "dirty"
    /\ covered' = (UnderWay = {} /\ ~exitSaveTriggered)
    /\ UNCHANGED <<page, exitSaveTriggered, saves, indexCall, exitSaves>>

\* saveContent, from either button; indexContent alone looks at indexing.
StartSave ==
    /\ Len(saves) < MaxSaves
    /\ saves' = Append(saves, [pc |-> "sent", text |-> text])
    /\ status' = "saving"
    /\ UNCHANGED <<page, text, flags, exitSaves, covered>>
ClickSave == Enabled /\ StartSave /\ UNCHANGED indexCall
ClickIndex ==
    /\ Enabled /\ indexCall = NoIndex
    /\ StartSave
    /\ indexCall' = [pc |-> "saving", save |-> Len(saves) + 1]

\* The answer: the flags go back, whatever was typed since.  indexContent goes
\* on after its save, saved or not.
IndexGoesOn(i) ==
    IF indexCall.save = i
    THEN indexCall' = [pc |-> "posting", save |-> 0] /\ status' = "saving"
    ELSE UNCHANGED indexCall
AfterSave(i, ends, shows) ==
    /\ saves' = [saves EXCEPT ![i].pc = ends]
    /\ IndexGoesOn(i)
    /\ indexCall.save # i => status' = shows
    /\ UNCHANGED <<page, text, exitSaves, covered>>
SaveReturns(i) ==
    /\ i \in UnderWay
    /\ hasLocalChanges' = FALSE /\ exitSaveTriggered' = FALSE
    /\ AfterSave(i, "saved", "saved")
SaveFailsCleared(i) ==  \* the flags go back in a finally
    /\ i \in UnderWay
    /\ hasLocalChanges' = FALSE /\ exitSaveTriggered' = FALSE
    /\ AfterSave(i, "failed", "error")
SaveFails(i) ==
    /\ i \in UnderWay
    /\ UNCHANGED flags
    /\ AfterSave(i, "failed", "error")

IndexReturns ==
    /\ indexCall.pc = "posting"
    /\ status' \in {"saved", "error"}
    /\ indexCall' = NoIndex
    /\ UNCHANGED <<page, text, flags, saves, exitSaves, covered>>

\* triggerExitSave, from beforeunload, pagehide or the end of the component.
ExitSave ==
    IF exitSaveTriggered \/ ~hasLocalChanges THEN UNCHANGED <<flags, exitSaves>>
    ELSE /\ exitSaveTriggered' = TRUE /\ hasLocalChanges' = FALSE
         /\ exitSaves' = Append(exitSaves, text)

\* beforeunload may be answered by staying; pagehide and unmounting may not.
BeforeUnload ==
    /\ page = "open"
    /\ ExitSave
    /\ UNCHANGED <<page, status, text, saves, indexCall, covered>>
LeavePage ==
    /\ page = "open"
    /\ ExitSave
    /\ page' = "gone"
    /\ UNCHANGED <<status, text, saves, indexCall, covered>>

PageInit ==
    /\ page = "loading" /\ status = "loading" /\ text = 0
    /\ hasLocalChanges = FALSE /\ exitSaveTriggered = FALSE
    /\ saves = <<>> /\ indexCall = NoIndex /\ exitSaves = <<>>
    /\ covered = TRUE

PageNext ==
    \/ Loaded \/ Reload \/ Type \/ ClickSave \/ ClickIndex \/ IndexReturns
    \/ BeforeUnload \/ LeavePage
    \/ page = "open" /\ \E i \in DOMAIN saves : SaveReturns(i) \/ SaveFails(i)

PageSpec == PageInit /\ [][PageNext]_pageVars

(***************************************************************************)
(* Properties.                                                             *)
(***************************************************************************)
PageTypeOK ==
    /\ page \in {"loading", "broken", "open", "gone"}
    /\ status \in {"loading", "saved", "dirty", "saving", "error"}
    /\ text \in 0..MaxEdits
    /\ {hasLocalChanges, exitSaveTriggered, covered} \subseteq BOOLEAN
    /\ Len(saves) <= MaxSaves /\ \A i \in DOMAIN saves : saves[i].text <= text
    /\ indexCall.save \in 0..Len(saves)
    /\ Len(exitSaves) <= MaxEdits /\ \A i \in DOMAIN exitSaves : exitSaves[i] <= text

\* Who leaves the page after an edit that no running save and no earlier exit
\* save can hide has sent that text, by a save that succeeded or by the exit
\* save, whatever failed before.
LastTextIsSent ==
    page = "gone" /\ covered /\ text > 0
        => \/ \E i \in DOMAIN saves : saves[i].text = text /\ saves[i].pc = "saved"
           \/ \E i \in DOMAIN exitSaves : exitSaves[i] = text
=============================================================================
