CONSTANTS
    Issue = issue
    Pull = pullRequest
    Limit = 2
    HandLabels = {"needs-work"}
    Attended = TRUE
    MaxTroubles = 1
SPECIFICATION Spec
INVARIANTS
    TypeOK
PROPERTIES
    MachineHoldsBack
    OneHandPerWork
CHECK_DEADLOCK FALSE
