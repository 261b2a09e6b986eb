SPECIFICATION Spec
CONSTANTS
    p1 = p1
    p2 = p2
    Payments = {p1, p2}
    Kinds = {TRUE, FALSE}
    Named = {"named"}
    Owner <- Owners
    Names = {"none", "named"}
    Faults = {TRUE, FALSE}
    Shared = {"from"}
    Margin = 2
    Lifetime = 0
    FetchDelay = 1
    MaxAttempts = 2
    MaxTime = 2
    MaxOutside = 1
SYMMETRY Symmetry
INVARIANTS TypeOK DoubleSendNeedsAbandonedNonce NoCrossInvalidation RefusalMeansNonceGone
PROPERTY ImplementsAtMostOnceUnless
CHECK_DEADLOCK FALSE
