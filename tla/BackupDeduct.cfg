SPECIFICATION Spec
CONSTANTS
    LockSize = 4
    U32 = 16
    NoInstruction = NoInstruction
    deposit = deposit
    Instructions = {deposit, NoInstruction}
    CsvBlocks <- MCCsvBlocks
    Amount = 10
    SendAmounts = {2, 7, 11}
    FeeAmounts = {1, 3}
    Dust = 2
    MaxAge = 4
    None = None
CHECK_DEADLOCK FALSE
INVARIANT
    DeductedFeeLeaves
