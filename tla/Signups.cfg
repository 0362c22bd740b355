SPECIFICATION Spec
CONSTANTS
    Members = {m1, m2, m3}
    Threads = {t1, t2}
    Capacities = {1, 2}
    NoOne = NoOne
SYMMETRY Alike
INVARIANTS
    NoOverbooking NoIdleSeat SeatsInOrder NoSilentMove
PROPERTIES
    PlaceNeverSlips
CHECK_DEADLOCK FALSE
