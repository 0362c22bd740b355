SPECIFICATION Spec
CONSTANTS
    Members = {m1, m2}
    Threads = {t1}
    Capacities = {1, 2}
    NoOne = NoOne
INVARIANTS
    WaitlistMovesUp
CHECK_DEADLOCK FALSE
