SPECIFICATION FairSpec
CONSTANTS
    right = right
    other = other
    marked = marked
    NoBytes = NoBytes
    NoAnswer = NoAnswer
    None = None
    MaxEndpoints = 3
    Right = right
    Marked = {marked}
    Bytes = {right, other, marked, NoBytes}
CHECK_DEADLOCK FALSE
INVARIANTS
    TypeOK
    SignedAgreed
    SentIsSaved
    SuccessMeansApplied
PROPERTY
    Ends
