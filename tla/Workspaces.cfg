SPECIFICATION Spec
CONSTANTS
    d = d  a = a  pd = pd  pa = pa  p1 = p1  p2 = p2
    None = None
    Ws = {d, a}
    Default = d
    Place = {pd, pa}
    Home = pd
    Env = {None, pa}
    Proc = {p1, p2}
    Ops = {"load", "vault", "relocate vault", "create", "relocate", "delete"}
    MaxCalls = 3
    MaxCrashes = 1
INVARIANTS WorkspacesTypeOK FilesKept ContextFollows
SYMMETRY Symmetric
CHECK_DEADLOCK FALSE
