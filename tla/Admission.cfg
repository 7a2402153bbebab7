SPECIFICATION SpecAdmission
CONSTANTS
    Key <- MCKey
    Route <- MCRoute
    Request <- MCRequest
    Jwt <- MCJwt
    limit = 1
    window = 4
    SEC = 2
    Stall = 1
    MaxUsed = 2
INVARIANTS
    TypeOK
    BurstBounded
    DenialJustified
    CountedUnderItsKey
    RetryAfterTight
    HeadersFaithful
