CONSTANTS
    ticket = ticket
    consultation = consultation
    Tickets <- TicketsDef
    Consultations <- ConsultationsDef
    MaxStarts <- MaxStartsDef
    MaxFaults = 1
    MaxEvents = 0
    MaxTip = 2
SPECIFICATION Spec
PROPERTY TakesOnlyItsOwn
CHECK_DEADLOCK FALSE
