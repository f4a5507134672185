SPECIFICATION WatchSpec
CONSTANTS
    None = None
    Poll = 1
    Steady = 3
    Startup = 5
    Shutdown = 4
    Frames = 2
    Cap = 5
    HungAfter = 3
    Rests = {1, 7}
    MaxHeld = 2
INVARIANTS
    HangIsReported
PROPERTY
    NoFalseReport
