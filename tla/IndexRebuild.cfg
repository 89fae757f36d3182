SPECIFICATION IndexFairSpec
CONSTANTS
    v1 = v1  v2 = v2  i1 = i1
    Hash = {v1, v2, i1}
    SigOf <- Signatures
    Stored <- OneVideo
    Threshold = 2
    MaxCalls = 4
INVARIANTS IndexTypeOK MembersKept TreeIsCurrent
PROPERTY RebuildSettles
