SPECIFICATION Spec
CONSTANTS
    Data = {0, 1}
    Zero = 0
    Cap = 2
    Wrap = 6
    MaxBatch = 3
INVARIANT
    NoSlotRace
PROPERTY
    IsFifo
