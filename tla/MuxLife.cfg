SPECIFICATION FairSpec
CONSTANTS
    Workers = {w1, w2}
    DropEarly = FALSE
    Signals = TRUE
INVARIANTS
    TypeOK
    OneShutdown
PROPERTIES
    SuccessIsOrderly
    MainReturns
