SPECIFICATION Spec
CONSTANTS
    p1 = p1
    p2 = p2
    Payments = {p1}
    Kinds = {FALSE}
    Named = {"named"}
    Owner <- Owners
    Names = {"none", "named"}
    Faults = {FALSE}
    Shared = {}
    Margin = 2
    Lifetime = 0
    FetchDelay = 1
    MaxAttempts = 2
    MaxTime = 2
    MaxOutside = 0
INVARIANT NoDoubleSend
CHECK_DEADLOCK FALSE
