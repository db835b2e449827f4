SPECIFICATION StorageSpec
CONSTANTS
    Levels = {"medium"}
    Jobs = {j1, j2}
    RefitFails = {"medium"}
    Rows = {w1, w2}
    TableOf <- OneOfEach
    Tables = 2
    w1 = w1 w2 = w2
    MaxWrites = 2
    MaxBoots = 1
INVARIANTS MigrationKeepsRows
CHECK_DEADLOCK FALSE
