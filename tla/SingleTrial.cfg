SPECIFICATION FairSpec
CONSTANTS
    Caller = {c1, c2}
    failure_threshold = 2
    open_secs = 2
    U32 = 5
    Stall = 0
INVARIANT SingleTrial
