\* Saves, fills, rebuilds and a first import, every await failing.
CONSTANTS
    Ops = {o1, o2}
    Calls <- UserCalls
    Overlap <- ReadersOverlap
    OverDrafts = FALSE
    MaxRestarts = 1
SYMMETRY OpSymmetry
CHECK_DEADLOCK FALSE
SPECIFICATION Spec
INVARIANTS
    CleanMeansEqual
PROPERTIES
    DraftNeverGoesBack
