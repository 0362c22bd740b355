SPECIFICATION PartSpec
CONSTANTS
    Requests = {r1, r2}
    Nothing = Nothing
    Tokens = {t1, t2}
    Members = {ann, bob}
    Roles = {member, admin}
    Life = 3
    Day = 2
    Horizon = 6
    None = None
SYMMETRY Alike
INVARIANTS
    Coherent UsedIsExtended SourceIsHonest
PROPERTIES
    KeepsPromise ManualIsKept
CHECK_DEADLOCK FALSE
