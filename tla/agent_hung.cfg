CONSTANTS
    laptop = laptop
    host = host
    NoDevice = NoDevice
    Device <- MCDevices
    MaxTTL = 2
    Grace = 1
    Lapse = 1
    TTL = 2
    RenewEvery = 1
    RetryEvery = 1
    TakeoverRetry = 1
    MaxBackoff = 1
    Margin = 1
    RequestTimeout = 4
    SyncPassTimeout = 0
    StopTime = 0
    Placements <- AllHosts
    Events <- HungNetwork
    MaxEpoch = 3
    MaxSession = 1
    Parts = {"base"}
SPECIFICATION MCSpec
INVARIANT OverlapIsFenced
PROPERTY ServerSpec
