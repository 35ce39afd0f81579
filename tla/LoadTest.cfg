SPECIFICATION FairSpec
CONSTANTS
    t1 = t1
    t2 = t2
    oracle = oracle
    key = key
    assets = assets
    Absent = Absent
    Empty = Empty
    LoadTests = {t1, t2}
    Inits = {oracle}
    Fields = {key, assets}
    Key = key
    InitFields = {key}
    MaxCounter = 2
    MaxCalls <- MCMaxCalls
    Outcomes = {"accepted", "rejected", "unknown"}
    Contract = Contract
    NoContract = NoContract
CHECK_DEADLOCK FALSE
INVARIANTS
    TypeOK
    CountersInOrder
PROPERTIES
    SettingsKept
    Ends
