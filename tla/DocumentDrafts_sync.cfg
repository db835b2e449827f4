\* An import, a save and the compensation, one after the other.
CONSTANTS
    Ops = {o1}
    Calls <- SyncCalls
    Overlap <- NoOverlap
    OverDrafts = TRUE
    MaxRestarts = 0
CHECK_DEADLOCK FALSE
SPECIFICATION Spec
PROPERTIES DraftNeverGoesBack
