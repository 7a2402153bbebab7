SPECIFICATION FairSpec
CONSTANTS
    Request = {r1, r2}
    Upstream = {u1, u2}
    retries = 1
    rate_limit = TRUE
    cache_configured = TRUE
    failure_threshold = 1
    open_secs = 1
    U32 = 2
    Stall = 0
INVARIANT SomeMetricIsRight
