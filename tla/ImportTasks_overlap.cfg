\* Two overlapping requests on one task, every handler, a MEDIUM tenant, a poll
\* that may come before a claim has committed, one slot more than the limit.
CONSTANTS
    a = a
    b = b
    Tasks = {1}
    Tenants = {a}
    TenantOf <- OneTenant
    Local = {1}
    Overwriting = {}
    Medium = {a}
    Slots = {s1, s2, s3}
    Requests = {r1, r2}
    Ops <- EveryOp
    MaxConcurrency = 2
    ClaimBeforeNextPoll = FALSE
    MarkMayFail = TRUE
    MaxCalls = 3
    MaxRestarts = 1
SYMMETRY ActorSymmetry
SPECIFICATION Spec
INVARIANTS
    ConcurrencyAccounted
    RunningHasOwner
