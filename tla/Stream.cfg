SPECIFICATION Spec
CONSTANTS
    w1 = w1
    w2 = w2
    d1 = d1
    d2 = d2
    k1 = k1
    NoDashboard = NoDashboard
    Updaters = {w1, w2}
    Dashboards = {d1, d2}
    HaveToken = {d2}
    Tickets = {k1}
    Buffer = 1
    MaxUpdates = 3
INVARIANTS
    TypeOK
    StreamCatchesUp
    TicketAdmitsOnce
PROPERTIES
    PublishingEnds
CHECK_DEADLOCK FALSE
