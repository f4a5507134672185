SPECIFICATION Spec
CONSTANTS
    Files = {f1, f2}
    NoFile = none
    Rates = {r1, r2}
    Limit = 2
INVARIANTS
    NoFileLost
    NoTakeUnasked
    HeaderClaimsFrames
    TakeIsAtRate
PROPERTY
    RecordIsAnswered
