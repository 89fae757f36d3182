SPECIFICATION HealthSpec
CONSTANTS
    a = a  c = c
    r1 = r1  r2 = r2  p1 = p1
    Nobody = Nobody
    Item = {a, c}
    Media = {a}
    Starts <- Vaults
    Repairers = {r1, r2}
    Callers = {p1}
    HealthOps = {"ingest", "delete", "thumb"}
    MaxRepairs = 2
    MaxActs = 2
INVARIANTS FilesSpared 
SYMMETRY Symmetric
CHECK_DEADLOCK FALSE
