SPECIFICATION Spec
CONSTANTS
    k1 = k1
    k2 = k2
    s1 = s1
    s2 = s2
    s3 = s3
    w1 = w1
    w2 = w2
    p0 = p0
    p1 = p1
    p2 = p2
    None = None
    Keys = {k1, k2}
    Scopes = {w1}
    Sessions = {s1, s2, s3}
    Preparing = {}
    Revocable = {}
    RequestOf <- NoRequests
    ScopeOf <- OneScope
    KeyOf <- TwoAgainstOne
    LeaseTtl = 1
    FanoutTtl = 1
    OwnerMax = 3
    Grace = 1
    CallTicks = 1
SYMMETRY Peers
INVARIANTS
    OneActivePerScope
    CallsInOneHand
    ResultIsTheHolders
    CompletedWasPublished
CHECK_DEADLOCK FALSE
