CONSTANTS
    a = a
    b = b
    c = c
    here = here
    Tickets <- TicketsDef
    Consultations <- ConsultationsDef
    Repositories <- RepositoriesDef
    Repo <- RepoDef
    Starts <- StartsDef
    Boots <- BootsDef
    Limit = 1
    Passes = 2
    MaxAsks = 2
    MaxEvents = 1
SPECIFICATION FairSpec
INVARIANTS
    TypeOK
    OneHand
    CheckoutAlone
PROPERTIES
    PickupWithinLimit
    ComesToRest
