SPECIFICATION Spec
CONSTANTS
    NChan = 2
    SBSize = 1
    RBSize = 1
    MSS = 1
    SeqMod = 2
    WriteSizes = {1}
    ReadSizes = {1}
    NetCap = 1
    Total <- TotalTwoMin
    Spurious = FALSE
INVARIANTS
    NoProtocolError
    NoLostWork
