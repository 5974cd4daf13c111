SPECIFICATION FairSpec
CONSTANTS
    ImplsSize = 1
    SpinLimit = 2
CHECK_DEADLOCK FALSE
INVARIANTS
    NoOversleep
PROPERTIES
    EventsServed
    LowTimerServedWhenQuiet
    BusyReactorJoins
