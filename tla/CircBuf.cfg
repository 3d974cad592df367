SPECIFICATION Spec
CONSTANTS
    Size = 4
    MaxChunk = 3
    MaxBytes = 12
INVARIANTS
    TypeOK
    LeaseIsSafe
    StreamIntact
PROPERTY ImplementsFifo
CHECK_DEADLOCK FALSE
