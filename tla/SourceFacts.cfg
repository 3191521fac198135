CONSTANTS
    Sources = {a, b}
    Tickets = {t}
    PullSources = {a}
    Policies = {TRUE}
    FirstPlans <- FirstPlansDef
    FirstLists <- FirstListsDef
    MaxEvents = 2
SPECIFICATION FairSpec
INVARIANTS
    TypeOK
PROPERTIES
    NewestReadStands
    CatchesUp
    WaitsEnd
    StartsWaitUnmuted
CHECK_DEADLOCK FALSE
