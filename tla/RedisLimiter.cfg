SPECIFICATION FairSpecRedis
CONSTANTS
    Handler = {h1, h2, h3}
    limit = 2
    window = 2
    MaxCount = 4
    MaxFaults = 2
INVARIANTS
    RedisTypeOK
    RedisBurstBounded
    ExpiryLostOnlyByFault
PROPERTIES
    BlockEnds
