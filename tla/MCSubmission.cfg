SPECIFICATION FairSpec
CONSTANT Timeout = 4
INVARIANTS TypeOK SecondFollowsFirst
PROPERTIES ImplementsOrderedOperation WorkRunsOut CommandEnds FalseReportEndsInError
CHECK_DEADLOCK FALSE
