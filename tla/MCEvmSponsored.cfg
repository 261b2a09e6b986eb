SPECIFICATION Spec
CONSTANTS
    p1 = p1
    p2 = p2
    Payments = {p1, p2}
    Kinds = {TRUE, FALSE}
    MaxTries = 3
    MaxAttempts = 3
    MaxOutside = 1
SYMMETRY Symmetry
INVARIANTS TypeOK DoubleSendNeedsRaceOrMix NoCrossInvalidation NobodyIsStuck
PROPERTY ImplementsAtMostOnceUnless
CHECK_DEADLOCK FALSE
