SPECIFICATION Spec
CONSTANTS
    f1 = f1  f2 = f2  v1 = v1  v2 = v2
    None = None
    Paths = {f1, f2}
    Inputs <- Handed
    Outcomes = {"review"}
    Vaults = {v1, v2}
    Active = v1
    ResultsLimit = 1
    MaxRuns = 2
    MaxStops = 1
    MaxMoves = 2
INVARIANTS LocalTypeOK StopAgrees RunsInSight Accounted
CHECK_DEADLOCK FALSE
