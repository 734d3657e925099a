SPECIFICATION MCSpec
CONSTANTS
    NoDevice = NoDevice
    Device = {laptop, host}
    Journal = FALSE
    BestEffort = TRUE
    MaxWrite = 2
    MaxEpoch = 3
    MaxStray = 0
    Parts = {"states"}
SYMMETRY DeviceSymmetry
PROPERTY NothingAcceptedIsLost
