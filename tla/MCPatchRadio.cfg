SPECIFICATION HostedSpec
CONSTANTS
    Sets = {s1, s2, s3, s4}
    NoSet = none
INVARIANTS
    FlushExcludesDsp
    NothingLeftBehind
    LeftoversAreOfActive
PROPERTY
    SetsAreTaken
CHECK_DEADLOCK FALSE
