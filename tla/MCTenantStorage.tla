-------------------------- MODULE MCTenantStorage --------------------------
EXTENDS TenantStorage

CONSTANTS w1, w2

\* A row in each of two tables.
OneOfEach == [r \in Rows |-> IF r = w1 THEN 1 ELSE 2]
=============================================================================
