SPECIFICATION Spec
CONSTANTS
    Upstream = {u1, u2}
    Client = {c1}
INVARIANTS
    TypeOK
    DrainComplete
PROPERTIES
    ShutdownEnds
    FlagFollows
CHECK_DEADLOCK FALSE
