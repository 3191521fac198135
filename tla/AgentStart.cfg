CONSTANTS
    ticket = ticket
    consultation = consultation
    Tickets <- TicketsDef
    Consultations <- ConsultationsDef
    MaxStarts <- MaxStartsDef
    MaxFaults = 2
    MaxEvents = 1
    MaxTip = 3
SPECIFICATION Spec
INVARIANTS
    TypeOK
    FailedLeavesNothing
PROPERTIES
    KeepsEarlierWork
    RetriesHeal
CHECK_DEADLOCK FALSE
