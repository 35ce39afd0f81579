SPECIFICATION FairSpec
CONSTANTS
    HIVE = HIVE
    BTC = BTC
    Assets = {HIVE, BTC}
    Native = {HIVE}
    Router = Router
    BtcMapping = BtcMapping
    Mapping <- PairMapping
    NoContract = NoContract
    SwapRC = 0
    AllowanceRC = 1
    MinAmount <- PairMin
    MaxAmount <- PairMax
    Rounds = 2
    BatchMin = 1
    BatchMax = 2
    MinOut = 2
    NoRebalance = FALSE
    DryRun = FALSE
    Outcomes = {"accepted", "rejected", "unknown"}
    Quotes = {1, 2}
CHECK_DEADLOCK FALSE
INVARIANTS
    TypeOK
    LedgerSound
    AllowanceSpent
    EvenlyExercised
    PoolsRestored
PROPERTY
    Terminates
