SPECIFICATION FairSpec
CONSTANTS
    Producers = {p1, p2}
    Consumers = {c1}
    Observers = {o1}
    Values = {a}
    Capacity = 3
    FileBacked = TRUE
    MaxWrites = 5
    Nothing = Nothing
INVARIANTS
    SizeNotNegative
PROPERTIES
    FalseMeansFull
    EveryWriteIsRead
