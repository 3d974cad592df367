SPECIFICATION LiveSpec
CONSTANTS
    Files <- TheFiles
    RcsFiles <- TheRcsFiles
    Limits <- TheLimits
    MaxDiff = 2
    MaxFaults = 1
INVARIANTS TypeOK MergeIsExact StatusReadable ListerReports StatusIsHonest Converges NextListIsRight
PROPERTY EventuallySynced
