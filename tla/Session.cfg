SPECIFICATION FairSpec
CONSTANTS
    NColl = 2
    MaxFixups = 2
    Errors = TRUE
INVARIANTS
    TypeOK
    FixupsInOrder
    NoLostWakeup
    AssertionsHold
    ScanTimeKnown
    SuccessIsComplete
PROPERTY
    Returns
