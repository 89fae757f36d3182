SPECIFICATION FairSpec
CONSTANTS
    a = a  b = b  t1 = t1  t2 = t2  c1 = c1
    Bad = Bad  Poison = Poison  Gone = Gone  None = None
    Item = {a, b}
    Topic = {t1}
    Callers = {c1}
    Calls = {"detail"}
    Starts <- OneTopic
    Edits <- SpoilAndMend
    MaxPoison = 1
    RepairBatch = 2
    FullBatch = 1
    MaxWrites = 3
    MaxCalls = 1
    MaxRepairs = 1
    MaxCrashes = 0
PROPERTIES RepairEnds
CHECK_DEADLOCK FALSE
