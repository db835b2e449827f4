\* Every handler, one request at a time, skipped scans and a crash.
CONSTANTS
    a = a
    b = b
    Tasks = {1, 2}
    Tenants = {a}
    TenantOf <- OneTenant
    Local = {}
    Overwriting = {}
    Medium = {a}
    Slots = {s1}
    Requests = {r1}
    Ops <- EveryOp
    MaxConcurrency = 1
    ClaimBeforeNextPoll = TRUE
    MarkMayFail = TRUE
    MaxCalls = 1
    MaxRestarts = 1
SPECIFICATION FairSpec
PROPERTIES
    TasksMoveOn
