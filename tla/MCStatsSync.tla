---------------------------- MODULE MCStatsSync ----------------------------
(***************************************************************************)
(* Instances of StatsSync for TLC: tasks are numbers (their first order of *)
(* updatedAt), tenants and chains are model values.                        *)
(***************************************************************************)
EXTENDS StatsSync, TLC

CONSTANTS a, b  \* tenants

OneTenant == [t \in Tasks |-> a]
EachItsTenant == [t \in Tasks |-> IF t = 1 THEN a ELSE b]

ChainSymmetry == Permutations(Chains)
=============================================================================
