SPECIFICATION Spec
CONSTANTS
    Workers = {w1, w2}
    Requests = {r1}
    Choices <- FewChoices
    Switched = {"announce"}
    MayFail = {"announce", "calendar"}
    HasForum = TRUE
    WithSync = FALSE
    Patient = FALSE
    MaxVer = 2
    MaxId = 3
INVARIANTS NeverShowsSuppressed
PROPERTIES EventuallyQuiet
CHECK_DEADLOCK FALSE
