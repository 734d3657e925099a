CONSTANTS
    laptop = laptop
    host = host
    NoDevice = NoDevice
    Device <- MCDevices
    MaxTTL = 5
    Grace = 2
    Lapse = 3
    TTL = 5
    RenewEvery = 1
    RetryEvery = 1
    TakeoverRetry = 1
    MaxBackoff = 1
    Margin = 3
    RequestTimeout = 5
    SyncPassTimeout = 1
    StopTime = 1
    Placements <- LaptopFirst
    Events <- HungRenewal
    MaxEpoch = 2
    MaxSession = 1
    Parts = {"base"}
SPECIFICATION MCSpec
INVARIANT OneAgent
