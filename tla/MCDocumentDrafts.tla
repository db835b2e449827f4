-------------------------- MODULE MCDocumentDrafts --------------------------
(***************************************************************************)
(* Instances of DocumentDrafts for TLC.                                    *)
(***************************************************************************)
EXTENDS DocumentDrafts, TLC

NoOverlap == {}
\* Saves and imports run alone, and no two fills at once.
ReadersOverlap == SUBSET {"fill", "index", "manual", "warm"} \ {{"fill"}}

UserCalls == [save |-> 2, fill |-> 1, index |-> 2, import |-> 1, sync |-> 1, manual |-> 1]
SyncCalls == [save |-> 1, fill |-> 0, index |-> 0, import |-> 1, sync |-> 1, manual |-> 0]

OpSymmetry == Permutations(Ops)
=============================================================================
