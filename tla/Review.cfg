SPECIFICATION Spec
CONSTANTS
    a = a  b = b  p1 = p1  p2 = p2
    None = None
    Hash = {a, b}
    Proc = {p1, p2}
    Starts <- Start
    MaxFiles = 2
    MaxCalls = 3
    MaxCrashes = 1
INVARIANTS ReviewTypeOK PendingBlocked SimilarKept
PROPERTIES NothingDropped
SYMMETRY Symmetric
CHECK_DEADLOCK FALSE
