SPECIFICATION Spec
CONSTANTS
    Files <- TheFiles
    RcsFiles <- TheRcsFiles
    Limits <- TheLimits
    MaxDiff = 2
    MaxFaults = 1
INVARIANT AssertionsHold
