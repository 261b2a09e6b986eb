SPECIFICATION FairSpec
CONSTANTS
    p1 = p1
    p2 = p2
    Payments = {p1, p2}
    Drivers = {"xrp", "filecoin", "cosmos", "xlm"}
    MaxTries = 2
    MaxNumber = 3
    MaxOutside = 1
INVARIANTS TypeOK NoCrossInvalidation QueueHasNoGap
PROPERTIES ImplementsAtMostOnce OutcomeIsFinal EveryPaymentSettles
CHECK_DEADLOCK FALSE
