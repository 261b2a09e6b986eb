SPECIFICATION Spec
CONSTANTS
    p1 = p1
    p2 = p2
    Payments = {p1}
    Drivers = {"egld"}
    MaxTries = 2
    MaxNumber = 3
    MaxOutside = 1
INVARIANT NoDoubleSend
CHECK_DEADLOCK FALSE
