SPECIFICATION Spec
CONSTANTS
    Loops = {l1, l2}
    Members = {ann}
    MaxAsks = 1
    MaxStops = 1
    None = None
INVARIANTS
    TypeOK OncePerAsking PostedOnce MuteIsHeard PostGoesWithEvent
PROPERTIES
    SnoozeIsKept
CHECK_DEADLOCK FALSE
