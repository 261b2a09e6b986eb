SPECIFICATION Spec
CONSTANTS
    p1 = p1
    p2 = p2
    Payments = {p1, p2}
    Drivers = {"tron", "eos", "hedera", "internet_computer", "hyperliquid"}
    Lifetime = 1
    Slack <- Slacks
    Skew = 1
    Lag = 1
    MaxRounds = 2
    MaxAttempts = 3
    MaxTime = 6
SYMMETRY Symmetry
INVARIANTS TypeOK DoubleSendNeedsRounds LostPaymentNeedsTwin WaitingEnds
PROPERTY ImplementsAtMostOnceUnless
CHECK_DEADLOCK FALSE
