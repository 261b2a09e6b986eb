SPECIFICATION Spec
CONSTANTS
    p1 = p1
    p2 = p2
    c1 = c1
    c2 = c2
    c3 = c3
    Payments = {p1, p2}
    Coins = {c1, c2}
    Drivers = {"bitcoin", "cardano", "kaspa", "canton", "sui"}
    MaxTries = 3
    MaxAttempts = 4
    MaxEpoch = 2
    MaxOutside = 1
SYMMETRY Symmetry
INVARIANTS TypeOK CrossInvalidationNeedsBareGasOrTornFetch OrphanNeedsResign
PROPERTIES ImplementsAtMostOnce OutcomeIsFinal
CHECK_DEADLOCK FALSE
