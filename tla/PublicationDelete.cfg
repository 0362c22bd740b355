SPECIFICATION Spec
CONSTANTS
    Workers = {w1, w2}
    Requests = {r1}
    Choices <- FewChoices
    Switched = {"announce"}
    MayFail = {}
    HasForum = TRUE
    WithSync = FALSE
    Patient = FALSE
    MaxVer = 2
    MaxId = 0
INVARIANTS NothingLeftBehind
CHECK_DEADLOCK FALSE
