SPECIFICATION ApiSpec
CONSTANTS
    r1 = r1  r2 = r2
    n1 = n1  n2 = n2
    alice = alice
    Requests = {r1, r2}
    Nodes = {n1, n2}
    NodeOf <- SameNode
    ClientIds = {alice}
    Calls <- TwoCalls
    Searches <- SomeSearches
    Names <- SomeNames
    Capacity = 3
    DefaultLimit = 2
    MaxEvents = 2
INVARIANTS
    ApiTypeOK
    NothingBeforeTheKey
    IdsDoNotMix
    RingHoldsTheNewest
    TraceQueriesAreComplete
    UploadsAreAccountedFor
    OnlyImagesAreProcessed
PROPERTIES
    EveryCallIsAnswered
CHECK_DEADLOCK FALSE
