SPECIFICATION FairSpec
CONSTANTS
    s1 = s1
    r1 = r1
    w1 = w1
    p1 = p1
    p2 = p2
    k1 = k1
    k2 = k2
    c1 = c1
    c2 = c2
    NoDoc = NoDoc
    NoPass = NoPass
    Docs = {s1, w1}
    Op <- MCOp
    Basis <- MCBasis
    Passes = {p1}
    Retries = {}
    Runners = {c1}
    MaxTransient = 1
    Window = 0
    MaxTime = 2
    MaxCrashes = 0
    ConcurrentRefund = FALSE
PROPERTIES PendingResolves
CONSTRAINT AllWait
