SPECIFICATION Spec
CONSTANTS
    s1 = s1
    r1 = r1
    w1 = w1
    p1 = p1
    p2 = p2
    k1 = k1
    k2 = k2
    c1 = c1
    c2 = c2
    NoDoc = NoDoc
    NoPass = NoPass
    Docs = {s1, r1, w1}
    Op <- MCOp
    Basis <- MCBasis
    Passes = {p1, p2}
    Retries = {k1}
    Runners = {c1}
    MaxTransient = 2
    Window = 1
    MaxTime = 3
    MaxCrashes = 1
    ConcurrentRefund = FALSE
INVARIANTS AnsweredIsAccounted NoDoubleDispatch RefundBehindBasis WithdrawalBehindEarlier
PROPERTIES FailedStaysWithHuman LedgerSpec
CONSTRAINT OneFollows
SYMMETRY Symmetry
