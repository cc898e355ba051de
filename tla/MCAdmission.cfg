SPECIFICATION FairSpec
CONSTANTS
    r1 = r1  r2 = r2  r3 = r3  r4 = r4
    cat = cat  dog = dog
    NotANumber = NotANumber
    Requests = {r1, r2, r3, r4}
    Role <- Tiers
    Asked <- Wishes
    Valid = {r2, r3, r4}
    Image <- Pictures
    Uploads = {r1, r3}
    MAX_QUEUE_CAPACITY = 1
    MAX_VIP_QUEUE_CAPACITY = 2
INVARIANTS
    TypeOK
    BacklogIsBounded
    AnswersAreTrue
    QueuedJobsHaveTheirUpload
PROPERTIES
    EveryRequestIsAnswered
CHECK_DEADLOCK FALSE
