SPECIFICATION Spec
CONSTANTS
    Key = {k1, k2, k3}
    Handler = {h1, h2}
    ttl = 2
    max_entries = 2
    timeout = 2
    Response <- MCResponse
    response_headers <- MCTransforms
INVARIANTS
    TypeOK
    CapacityKept
    HitsAreFresh
    HitsReplayMisses
PROPERTIES
    LiveEntriesKept
