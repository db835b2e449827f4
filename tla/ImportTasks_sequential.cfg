\* One user who waits for each answer, two tasks of two tenants, one restart.
CONSTANTS
    a = a
    b = b
    Tasks = {1, 2}
    Tenants = {a, b}
    TenantOf <- EachItsTenant
    Local = {1}
    Overwriting = {2}
    Medium = {}
    Slots = {s1, s2}
    Requests = {r1}
    Ops <- UploadsRetried
    MaxConcurrency = 2
    ClaimBeforeNextPoll = TRUE
    MarkMayFail = TRUE
    MaxCalls = 2
    MaxRestarts = 2
SYMMETRY SlotSymmetry
SPECIFICATION Spec
PROPERTIES
    OneWriterPerTarget
    RetryFindsItsInputs
    LifecycleSpec
