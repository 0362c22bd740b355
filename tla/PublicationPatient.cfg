SPECIFICATION Spec
CONSTANTS
    Workers = {w1}
    Requests = {r1}
    Choices <- FewChoices
    Switched = {"thread", "announce", "scheduled", "chapter"}
    MayFail = {"thread", "announce", "scheduled", "calendar"}
    HasForum = TRUE
    WithSync = TRUE
    Patient = TRUE
    MaxVer = 3
    MaxId = 3
INVARIANTS
    TypeOK NothingLeftBehind NoOrphans KeptInStep ShownAsAsked PickedThreadUntouched
CHECK_DEADLOCK FALSE
