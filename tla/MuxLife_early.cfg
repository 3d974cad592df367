SPECIFICATION FairSpec
CONSTANTS
    Workers = {w1}
    DropEarly = TRUE
    Signals = FALSE
PROPERTY MainReturns
CHECK_DEADLOCK FALSE
