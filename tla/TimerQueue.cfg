SPECIFICATION FairSpec
CONSTANTS
    Queues = {queue}
    Slabs = {{i1, i2}, {i3}}
    Intervals = {0, 1}
    ResetsArgument = 2
    MaxTime = 1
    MaxInserts = 3
    MaxHandles = 2
    None = None
INVARIANTS
    RefCounted
    PendingIsScheduled
    NextExpiryIsRight
PROPERTIES
    NotifiedOnce
    DueIsServed
