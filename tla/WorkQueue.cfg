SPECIFICATION Spec
CONSTANTS
    t1 = t1
    t2 = t2
    t3 = t3
    c1 = c1
    Tickets <- MCTickets
    Consultations <- MCConsultations
SYMMETRY MCSymmetry
INVARIANTS
    TypeOK
    NothingWaitsTwice
PROPERTIES
    ImplementsWaitingLine
