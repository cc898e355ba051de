SPECIFICATION Spec
CONSTANTS
    j1 = j1  j2 = j2
    s1 = s1  s2 = s2
    n1 = n1  n2 = n2
    cat = cat  ghost = ghost  bad = bad  sample = sample
    NoSlot = NoSlot
    NoJob = NoJob
    Images <- AllImages
    Provided = {cat, bad, sample}
    Preset = {sample}
    Corrupt = {bad}
    MaxStalled = 1
    Jobs = {j1}
    Slots = {s1}
    Nodes = {n1}
    NodeOf <- OneNode
    ImageOf <- CatOnly
    Attempts = 3
    Budget <- OneFault
INVARIANTS
    DeadLettersAreDeserved
CHECK_DEADLOCK FALSE
