\* A window of one and a half seconds for two requests, a timer that may be
\* a tick late.
CONSTANTS
    c1 = c1
    c2 = c2
    Clients = {c1, c2}
    MaxReqs = 2
    Window = 3
    Second = 2
    CleanupPeriod = 2
    Lateness = 1
    Horizon = 7
SPECIFICATION Spec
SYMMETRY Permutation
INVARIANT TypeOK SlidingWindow RetryAfterIsEnough StampsAreForgotten
CHECK_DEADLOCK FALSE
