\* An error of the load test or of the stats file, printed in TUI mode.
CONSTANTS
    x1 = x1
    x2 = x2
    Transactors = {x1, x2}
    MaxTx = 2
SPECIFICATION FairSpec
INVARIANT ErrorStaysVisible
CHECK_DEADLOCK FALSE
