SPECIFICATION Spec
CONSTANTS
    Workers = {w1}
    DropEarly = FALSE
    Signals = FALSE
INVARIANT AssertionsHold
