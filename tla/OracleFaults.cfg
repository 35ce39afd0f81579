SPECIFICATION Spec
CONSTANTS
    MaxU32 <- MCMaxU32
    Overwrite <- MCOverwrite
    NoHeight = NoHeight
    Free = Free
    Faults = {"fetch", "call", "crash", "disk"}
    DefaultHeight = 8
    BlocksPerTx = 2
    NoLimit = NoLimit
    Limits = {2, NoLimit}
    MaxTip = 10
    OperatorHeights <- MCOperatorHeights
    Commands = {"stop", "start", "set-height", "seed"}
CHECK_DEADLOCK FALSE
CONSTRAINT
    AstrayBound
INVARIANTS
    TypeOK
    NoLostWakeup
    StopTakesEffect
    BatchBounded
    BatchIsNew
    CleanStopResumes
PROPERTY
    RelaysInOrder
