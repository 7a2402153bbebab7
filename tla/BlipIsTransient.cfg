SPECIFICATION FairSpecRedis
CONSTANTS
    Handler = {h1, h2}
    limit = 2
    window = 2
    MaxCount = 4
    MaxFaults = 1
PROPERTY BlipIsTransient
