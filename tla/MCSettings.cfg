SPECIFICATION Spec
CONSTANTS
    None = None
    Damaged = Damaged
    Configs = {a, b, c}
    Default = a
    MaxChanges = 3
    MaxRefusals = 2
    MaxLaunches = 2
    MaxDamage = 1
INVARIANTS
    ExitSavesAll
    SavedUnlessSplit
PROPERTIES
    CrashIsCounted
    DamagedIsKept
    SettingsLand
CHECK_DEADLOCK FALSE
