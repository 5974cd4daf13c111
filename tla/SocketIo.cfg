SPECIFICATION FairSpec
CONSTANTS
    Sizes = {1, 2}
    MaxSends = 3
    MaxCycles = 2
CHECK_DEADLOCK FALSE
INVARIANTS
    DatagramsIntact
    OperationsAwaited
PROPERTIES
    EveryWriteCompletes
