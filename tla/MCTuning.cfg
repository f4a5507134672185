SPECIFICATION Spec
CONSTANTS
    None = None
    Asked = {2}
    Offsets = {0, 1}
    Home = 1
    Default = 0
    Range <- MCRange
    RowLists <- MCRowLists
    Interval = 3
    Dwell = 1
    Hold = 2
    Resume = 2
    Listen = 2
    LongFrame = 2
    Inputs = 1
INVARIANT
    LatestTuneWins
PROPERTIES
    UserWins
    StaysUntilQuiet
    ScanMovesOn
