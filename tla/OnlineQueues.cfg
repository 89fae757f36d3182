SPECIFICATION FairSpec
CONSTANTS
    u1 = u1  u2 = u2  u3 = u3  p1 = p1  p2 = p2
    None = None
    Url = {u1, u2, u3}
    Platform = {p1, p2}
    PlatformOf <- Platforms
    Workers = 1
    Calls = {"append", "save", "retry", "clear"}
    LogFails = TRUE
    MaxCalls = 2
    MaxRuns = 1
    MaxCrashes = 1
INVARIANTS NothingLost
PROPERTIES HandledLeaves RunEnds
