CONSTANTS
    laptop = laptop
    host = host
    NoDevice = NoDevice
    Device <- MCDevices
    MaxTTL = 5
    Grace = 4
    Lapse = 5
    TTL = 5
    RenewEvery = 1
    RetryEvery = 1
    TakeoverRetry = 1
    MaxBackoff = 1
    Margin = 3
    RequestTimeout = 1
    SyncPassTimeout = 1
    StopTime = 1
    Placements <- AllHosts
    Events <- Claims
    MaxEpoch = 3
    MaxSession = 1
    Parts = {"base"}
SPECIFICATION MCFairSpec
PROPERTIES HandoverCompletes AgentRuns
