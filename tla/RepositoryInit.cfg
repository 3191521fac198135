CONSTANTS
    Repositories = {a, b}
    Acts <- ActsDef
    MaxSettings = 2
    MaxCommits = 3
    MaxAsks = 2
    MaxFaults = 1
    MaxEvents = 1
SPECIFICATION Spec
SYMMETRY Alike
INVARIANTS
    TypeOK
    InitEndsWell
    WritesLoseNothing
CHECK_DEADLOCK FALSE
