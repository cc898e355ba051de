\* One job with two attempts, one error, crash, lost lock and DELETE, watched
\* by one request at a time.
SPECIFICATION ViewSpec
CONSTANTS
    j1 = j1
    s1 = s1
    n1 = n1
    cat = cat
    NoSlot = NoSlot
    NoJob = NoJob
    Images = {cat}
    Provided = {cat}
    Preset = {}
    Corrupt = {}
    MaxStalled = 1
    Jobs = {j1}
    Slots = {s1}
    Nodes = {n1}
    NodeOf <- OneNode
    ImageOf <- CatOnly
    Attempts = 2
    Budget <- Failures
    Prioritized = {j1}
    MaxRows = 3
    Samples <- AscendingSamples
INVARIANTS
    ViewTypeOK
    NoJobIsOverlooked
    SignedUrlsWork
    PercentilesAreOrdered
    MeanIsInRange
    PushdownKeepsPercentiles
CHECK_DEADLOCK FALSE
