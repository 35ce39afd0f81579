SPECIFICATION Spec
CONSTANTS
    MaxU32 <- MCMaxU32
    Overwrite <- MCOverwrite
    NoHeight = NoHeight
    Free = Free
    Faults = {"fetch"}
    DefaultHeight = 8
    BlocksPerTx = 2
    NoLimit = NoLimit
    Limits = {NoLimit}
    MaxTip = 9
    OperatorHeights <- MCOperatorHeights
    Commands = {}
CHECK_DEADLOCK FALSE
INVARIANT
    ResumesWhereItLeft
