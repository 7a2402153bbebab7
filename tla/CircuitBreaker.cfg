SPECIFICATION FairSpec
CONSTANTS
    Caller = {c1, c2, c3}
    failure_threshold = 2
    open_secs = 3
    U32 = 5
    Stall = 1
INVARIANTS
    TypeOK
    TripExact
    OnlyStragglersWhileOpen
PROPERTIES
    CooldownHonoured
    NeverStuckOpen
