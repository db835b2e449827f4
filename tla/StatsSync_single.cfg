\* Connections that are always released: one chain per task; a user's sync.
CONSTANTS
    a = a
    b = b
    Tasks = {1}
    Tenants = {a}
    TenantOf <- OneTenant
    Tracked = {1}
    NoWait = {1}
    Documents = {1}
    Chains = {c1, c2}
    MaxAttempts = 5
    ScanLimit = 1
    ReleaseMayFail = FALSE
    MaxSyncs = 1
    MaxRestarts = 2
SYMMETRY ChainSymmetry
SPECIFICATION Spec
INVARIANTS
    OneLiveChain
PROPERTIES
    CountStays
