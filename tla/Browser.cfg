SPECIFICATION PartSpec
CONSTANTS
    None = None
    OneTab = {t1}
    Topics = {member, log}
    StaffTopics = {log}
    Pages = {schedule, members}
    Tables = {members}
    HookTopics = {member}
    Tokens = {s1, s2}
    All = All
    MaxTopics = 1
    MaxChanges = 2
    MaxFaults = 1
    Pictures = {p1, p2, p3}
    Broken = {p3}
    Huge = {p2}
    Places = {fit, moved}
    Fit = fit
    Colours = {white}
    LogoTurns = 3
    MaxOthers = 1
    Tabs = {t1, t2}
    Words = {w1}
    Photos = {f1}
    MaxText = 1
    MaxTurns = 4
    MaxTroubles = 1
INVARIANTS
    TypesOK NothingLost SendsWhatIsShown CanBeEditedAgain PublishedPhotosExist NothingLeftOver
PROPERTIES
    OnlyEndedClosed KeepsUp
CHECK_DEADLOCK FALSE
