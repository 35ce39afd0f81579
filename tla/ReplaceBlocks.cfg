SPECIFICATION FairSpec
CONSTANTS
    Modulus = 8
    MaxHeight = 4
    MaxForks = 2
    Arguments <- MCArguments
    Outcomes = {"accepted", "rejected", "unknown"}
    Contract = Contract
    NoContract = NoContract
    NoBlock = NoBlock
CHECK_DEADLOCK FALSE
INVARIANTS
    TypeOK
    PayloadBelowFork
    NeverGoesBack
    RepairTakes
    RepairOrNothing
PROPERTY
    RunEnds
