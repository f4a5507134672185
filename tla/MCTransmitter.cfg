SPECIFICATION Spec
CONSTANTS
    AliveWait = 1
    LatchTimeout = 2
    RemoteHold = 1
    Cycle = 1
INVARIANTS
    FrozenWindowUnkeys
    OnlyWhileAsked
PROPERTIES
    MicNeverUnkeyed
    CutPluginStaysCut
