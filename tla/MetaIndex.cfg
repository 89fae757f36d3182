SPECIFICATION Spec
CONSTANTS
    a = a  b = b  t1 = t1  t2 = t2  c1 = c1
    Bad = Bad  Poison = Poison  Gone = Gone  None = None
    Item = {a, b}
    Topic = {t1, t2}
    Callers = {c1}
    Calls = {"insert", "patch", "detail", "delete", "rename"}
    Starts <- Vaults
    Edits <- SomeEdits
    MaxPoison = 1
    RepairBatch = 2
    FullBatch = 1
    MaxWrites = 2
    MaxCalls = 1
    MaxRepairs = 1
    MaxCrashes = 1
INVARIANTS MetaTypeOK FacetsExact CurrentMeansRead ReadyComplete
CHECK_DEADLOCK FALSE
