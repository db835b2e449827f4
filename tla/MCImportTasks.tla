--------------------------- MODULE MCImportTasks ---------------------------
(***************************************************************************)
(* Instances of ImportTasks for TLC.  Tasks are numbers (their order of    *)
(* creation), tenants, slots and requests are model values.                *)
(***************************************************************************)
EXTENDS ImportTasks, TLC

CONSTANTS a, b  \* tenants

OneTenant == [t \in Tasks |-> a]
EachItsTenant == [t \in Tasks |-> IF t = 1 THEN a ELSE b]

\* Every handler; or none that may take the upload of a task away.
EveryOp == [t \in Tasks |-> {"cancel", "retry", "delete"}]
UploadsRetried == [t \in Tasks |-> IF t \in Local THEN {"retry"} ELSE {"retry", "delete"}]

SlotSymmetry == Permutations(Slots)
ActorSymmetry == Permutations(Slots) \cup Permutations(Requests)
=============================================================================
