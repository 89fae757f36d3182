SPECIFICATION Spec
CONSTANTS
    c1 = c1  c2 = c2  x = x  v1 = v1  v2 = v2  t1 = t1  t2 = t2
    None = None
    Capture = {c1, c2}
    Content = {x}
    ContentOf <- Same
    Vault = {v1, v2}
    Active = v1
    Thread = {t1, t2}
    MaxCalls = 5
    MaxCrashes = 1
INVARIANTS CommittedOnce CapturesKept
SYMMETRY Threads
CHECK_DEADLOCK FALSE
