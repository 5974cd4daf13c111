SPECIFICATION FairSpec
CONSTANTS
    Callers = {c1, c2, c3}
    Runners = {r1, r2}
    BatchSize = 2
    Clears = 1
CHECK_DEADLOCK FALSE
INVARIANTS
    TaskInOnePlace
PROPERTIES
    EveryFutureEnds
    DestructorReturns
