SPECIFICATION Spec
CONSTANTS
    Clnt = clnt
    Runners = {r1, r2}
    Addrs = {a1, a2}
    Failed = Failed
    Hooks = {h1, h2, h3}
    End = End
    Nowhere = Nowhere
    MaxChanges = 6
    BatchSize = 2
    Clears = 1
    Unreachable = {}
    Pollers = {"null", "found"}
    MaxFaults = 3
    RingBytes = 4
    PageSize = 4
    Sizes = {1, 2, 3}
    MaxBytes = 12
    Interval = 3
    Counts = {0, 1}
    MaxPerSecond = 2
    MaxTime = 7
    Lengths <- MCLengths
    Base = 2
    ShrinkThreshold = 4
    Portions = {1, 4}
    MaxClears = 1
    Size = 3
    MaxValue = 7
    Configs <- MCConfigs
    Values = {0, 31, 65, 300}
    MaxTotal = 3
    Units = {10, 50}
    LogBase = 2
    Percents = {0, 50, 90, 100}
    Starts <- MCStarts
    MaxDays = 1500
CHECK_DEADLOCK FALSE
INVARIANTS
    BytesIntact
    OneAtATime
    HooksServedOnce
    RateIsWindowSum
    MessagesDelivered
    RingIntact
    PrecisionKept
    ResultsRight
    DatesAgree

    
