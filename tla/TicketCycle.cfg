SPECIFICATION Spec
CONSTANTS
    t1 = t1
    t2 = t2
    Tickets <- MCTickets
    Stamps = {1, 2}
    HandoffLimit = 1
    MaxAttempts = 2
    MaxTraces = 2
SYMMETRY MCSymmetry
INVARIANTS
    TypeOK
    OneUnresolvedAttempt
    OneUndecidedTrace
    CycleEndIsPast
PROPERTIES
    DecidedTraceStands
    AttemptSettlesOnce
    ImplementsLine
