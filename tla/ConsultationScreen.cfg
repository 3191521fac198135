SPECIFICATION FairScreenSpec
CONSTANTS
    c1 = c1
    r1 = r1
    Ids = {c1}
    Repositories = {r1}
    RepositoryOf <- MCRepositoryOf
    MaxSequence = 4
    MaxJobs = 3
INVARIANTS
    ScreenTypeOK
    RecordAgrees
PROPERTIES
    ClosedHolds
    ActsAreConfirmed
    OperationsAnswer
CHECK_DEADLOCK FALSE
