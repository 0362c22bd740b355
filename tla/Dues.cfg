SPECIFICATION Spec
CONSTANTS
    Requests = {r1, r2}
    LastDay = 2
    Grace = 1
    MostPayments = 2
INVARIANTS
    PaymentsCount
PROPERTIES
    GraceIsKept
CHECK_DEADLOCK FALSE
