\* Connections whose release may fail, chains that reach their last attempt, a restart.
CONSTANTS
    a = a
    b = b
    Tasks = {1}
    Tenants = {a}
    TenantOf <- OneTenant
    Tracked = {1}
    NoWait = {1}
    Documents = {}
    Chains = {c1, c2}
    MaxAttempts = 2
    ScanLimit = 1
    ReleaseMayFail = TRUE
    MaxSyncs = 0
    MaxRestarts = 1
SPECIFICATION FairSpec
PROPERTIES
    CountedEventually
INVARIANTS
    ScheduledIsServed
