SPECIFICATION Spec
CONSTANTS
    Size = 2
    MaxValue = 5
CHECK_DEADLOCK FALSE
PROPERTIES
    ReadsInOrder
