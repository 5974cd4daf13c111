SPECIFICATION Spec
CONSTANTS
    Producers = {p1, p2}
    Consumers = {c1, c2}
    Observers = {}
    Values = {a, b}
    Capacity = 2
    FileBacked = FALSE
    MaxWrites = 5
    Nothing = Nothing
INVARIANTS
    NoDataRace
    Inv
PROPERTIES
    FalseMeansUnpublished
    ImplementsFifo
SYMMETRY Symmetry
