SPECIFICATION Spec
CONSTANTS
    Threads = {t1, t2}
    Sources = {gen, radioA, radioB}
    Builtin = gen
    NoSource = NoSource
    BigRing = {radioB}
INVARIANTS
    NoUseAfterFree
    OneThreadPerDriver
    RingEndpointsExclusive
    NoHandleOverwritten
PROPERTIES
    ControlReturns
