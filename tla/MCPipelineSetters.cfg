SPECIFICATION Spec
CONSTANTS
    Callers = {gui, web}
    Params = {offset, notch}
    Verbatim = {offset}
    Values = {0, 1}
    Top = 0
    MaxQueue = 2
INVARIANTS
    PostsTakeEffectInOrder
    NoTornBlock
    QuietGettersShowLive
PROPERTIES
    OnlyRateSwitchForgets
    PostsReachTheChain
