SPECIFICATION FairSpec
CONSTANTS
    NChan = 1
    SBSize = 2
    RBSize = 2
    MSS = 2
    SeqMod = 3
    WriteSizes = {1, 2}
    ReadSizes = {1, 2}
    NetCap = 2
    Total <- TotalUp
    Spurious = TRUE
INVARIANTS TypeOK NoProtocolError FlowControl StreamInOrder NoMissedSignal
PROPERTIES Completes WindowNeverShrinks ImplementsPipes
