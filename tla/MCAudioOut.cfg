SPECIFICATION AudioSpec
CONSTANTS
    None = None
    SystemDefault = SystemDefault
    Devices = {wide, narrow}
    Stereo = {wide}
    First = wide
    Capacity = 8
    LeadMin = 1
    LeadMax = 2
    Margin = 1
    Block = 1
    MaxPicks = 2
    MaxFaults = 2
INVARIANTS
    OneReader
    AskedDeviceWins
PROPERTY
    SoundComesBack
