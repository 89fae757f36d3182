SPECIFICATION Spec
CONSTANTS
    d = d  a = a  p1 = p1  p2 = p2
    None = None
    Id = {d, a}
    Default = d
    Proc = {p1, p2}
    Ops = {"create", "merge", "activate", "delete", "rename", "import", "restore"}
    MaxCalls = 4
    MaxCrashes = 1
INVARIANTS VaultTypeOK RootsMatch ContextFollows ActiveRooted
SYMMETRY Symmetric
CHECK_DEADLOCK FALSE
