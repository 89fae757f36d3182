SPECIFICATION FairSpec
CONSTANTS
    w1 = w1  w2 = w2  w3 = w3  h1 = h1  h2 = h2  s1 = s1  s2 = s2  p1 = p1  p2 = p2
    None = None
    Hash = {h1, h2}
    Worker = {w1, w2}
    Shard = {s1, s2}
    Stripe = {p1, p2}
    ShardOf <- TwoShards
    StripeOf <- ManyStripes
    Similar <- ClosePair
    Ops = {"ingest", "delete", "update", "edit", "tag", "thumb", "rollback"}
    MayIngest <- Anything
    Online = {w1}
    Faults = {"pipeline", "index", "stage"}
    MaxId = 3
    MaxJobs = 3
    MaxCrashes = 1
INVARIANTS RowHasFiles NoOrphans SimilarSeparated
PROPERTIES ImplementsCatalog EveryOperationEnds
