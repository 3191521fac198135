SPECIFICATION Spec
CONSTANTS
    c1 = c1
    r1 = r1
    Ids = {c1}
    Repositories = {r1}
    RepositoryOf <- MCRepositoryOf
    MaxSequence = 4
    MaxJobs = 3
PROPERTY MissingIsGone
CHECK_DEADLOCK FALSE
