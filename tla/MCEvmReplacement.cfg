\* Two nodes, three attempts, a rising and a falling market.
SPECIFICATION Spec
CONSTANTS
    n1 = n1
    n2 = n2
    Nodes = {n1, n2}
    Markets <- MCMarkets
    Priorities = {0, 70, 150}
    Bump = 115
    Threshold = 110
    Others <- MCOthers
    TxPools = {TRUE, FALSE}
    MaxAttempts = 3
SYMMETRY Symmetry
INVARIANTS TypeOK CapCoversTip RefusalsAreExplained
CHECK_DEADLOCK FALSE
