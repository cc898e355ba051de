SPECIFICATION CleanSpec
CONSTANTS
    j1 = j1  j2 = j2
    s1 = s1
    n1 = n1
    cat = cat  sample = sample
    NoSlot = NoSlot
    NoJob = NoJob
    Images = {cat, sample}
    Provided = {sample}
    Uploading = {cat}
    Preset = {sample}
    Corrupt = {}
    MaxStalled = 1
    Jobs = {j1, j2}
    Slots = {s1}
    Nodes = {n1}
    NodeOf <- OneNode
    ImageOf <- UploadAndSample
    Attempts = 2
    Budget <- Failures
INVARIANTS
    CleanTypeOK
    LeftoversAreExplained
    CleaningSparesThePreset
CHECK_DEADLOCK FALSE
