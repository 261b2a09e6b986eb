SPECIFICATION Spec
CONSTANTS
    p1 = p1
    p2 = p2
    Payments = {p1}
    Drivers = {"eos"}
    Lifetime = 10
    Slack <- EosSlack
    Skew = 0
    Lag = 0
    MaxRounds = 8
    MaxAttempts = 2
    MaxTime = 14
INVARIANT NoDoubleSend
CHECK_DEADLOCK FALSE
