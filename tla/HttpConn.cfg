SPECIFICATION FairSpec
CONSTANTS
    c1 = c1
    c2 = c2
    NoConn = NoConn
    Conns = {c1, c2}
    Pollers = {"null", "found"}
    Silent = {c2}
    MaxRequests = 2
    RespSize = 2
CHECK_DEADLOCK FALSE
INVARIANTS
    NoUseAfterDelete
    DisposedOnce
    RequestsHandledOnce
    ResponsesInOrder
PROPERTIES
    EveryConnCloses
