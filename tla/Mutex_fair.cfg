SPECIFICATION FairSpec
CONSTANTS
    Call = {c1, c2}
    NoCall = NoCall
    TTL = 2
    Period = 1
    Attempts = 2
    Delay = 2
    Latency = 0
INVARIANTS OverlapOnlyAfterLapse FailureMeansContention
PROPERTIES OnlyOwnerReleases AttemptsEnd
CHECK_DEADLOCK FALSE
