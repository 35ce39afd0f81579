SPECIFICATION FairSpec
CONSTANTS
    MaxU32 <- MCMaxU32
    Overwrite <- MCOverwrite
    NoHeight = NoHeight
    Free = Free
    Faults = {}
    DefaultHeight = 8
    BlocksPerTx = 2
    NoLimit = NoLimit
    Limits = {3, NoLimit}
    MaxTip = 11
    OperatorHeights <- MCOperatorHeights
    Commands = {"stop", "start", "seed", "init"}
CHECK_DEADLOCK FALSE
INVARIANT
    GapFree
PROPERTIES
    EveryBlockRelayed
    BatchFlushed
