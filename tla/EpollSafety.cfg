SPECIFICATION Spec
CONSTANTS
    Sockets = {s1, s2, s3}
    Batched = {s1}
    FDs = {1, 2}
    ClosesInCallback = FALSE
    Reopens = FALSE
    MaxOpens = 4
    None = None
CHECK_DEADLOCK FALSE
INVARIANTS
    TableMatchesKernel
    InterestRegistered
    NeverTerminates
