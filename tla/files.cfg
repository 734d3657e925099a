SPECIFICATION MCSpec
CONSTANTS
    NoDevice = NoDevice
    Device = {laptop, host}
    Journal = FALSE
    BestEffort = FALSE
    MaxWrite = 2
    MaxEpoch = 3
    MaxStray = 0
    Parts = {"states", "late", "journals"}
SYMMETRY DeviceSymmetry
INVARIANT AuthorityIsCurrent
PROPERTY NothingAcceptedIsLost
