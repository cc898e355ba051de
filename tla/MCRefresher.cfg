\* Two nodes, queries of up to 1.5 s, one failure (a query or a SET that overruns
\* takes up to 6 s).
CONSTANTS
    n1 = n1
    n2 = n2
    Nodes = {n1, n2}
    LOCK_TTL = 9
    CACHE_TTL = 20
    REFRESH_INTERVAL = 8
    MaxQuery = 3
    LongQuery = 12
    Budget = 1
SPECIFICATION FairSpec
INVARIANT TypeOK OneLeader CacheStaysWarm FallbackIsRecent
PROPERTY MetricsRecover
