SPECIFICATION Spec
CONSTANTS
    Requests = {r1}
    LastDay = 2
    Grace = 0
    MostPayments = 1
INVARIANT
    PaymentsPreserved
CHECK_DEADLOCK FALSE
