SPECIFICATION Spec
CONSTANTS
    w1 = w1  w2 = w2  w3 = w3  h1 = h1  h2 = h2  s1 = s1  s2 = s2  p1 = p1  p2 = p2
    None = None
    Hash = {h1, h2}
    Worker = {w1, w2, w3}
    Shard = {s1, s2}
    Stripe = {p1, p2}
    ShardOf <- OneShard
    StripeOf <- ManyStripes
    Similar <- NoPairs
    Ops = {"ingest", "delete", "update", "edit", "tag", "thumb"}
    MayIngest <- Anything
    Online = {}
    Faults = {"pipeline", "index", "stage"}
    MaxId = 4
    MaxJobs = 4
    MaxCrashes = 1
INVARIANTS TypeOK RowHasFiles NoOrphans IdsUnique
SYMMETRY Alike
