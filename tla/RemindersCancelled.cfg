SPECIFICATION Spec
CONSTANTS
    Loops = {l1}
    Members = {ann}
    MaxAsks = 1
    MaxStops = 0
    None = None
PROPERTIES
    CancelledAreSkipped
CHECK_DEADLOCK FALSE
