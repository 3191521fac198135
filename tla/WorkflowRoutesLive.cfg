CONSTANTS
    Issue = issue
    Pull = pullRequest
    Limit = 2
    HandLabels = {}
    Attended = FALSE
    MaxTroubles = 0
SPECIFICATION FairSpec
PROPERTY NothingLiesIdle
CHECK_DEADLOCK FALSE
