SPECIFICATION Spec
CONSTANTS
    Picker = {p1, p2}
    Strategy = {"RoundRobin", "LeastConnections"}
    weights <- MCWeights
    USIZE = 4
    failure_threshold = 1
    open_secs = 1
    U32 = 2
    Stall = 0
INVARIANTS
    TypeOK
    ActiveExact
    NoSpuriousUnavailable
    RetriesAvoidFailed
    LeastLoaded
SYMMETRY MCSymmetry
