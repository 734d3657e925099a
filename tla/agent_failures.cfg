CONSTANTS
    laptop = laptop
    host = host
    NoDevice = NoDevice
    Device <- MCDevices
    MaxTTL = 5
    Grace = 2
    Lapse = 3
    TTL = 5
    RenewEvery = 1
    RetryEvery = 1
    TakeoverRetry = 1
    MaxBackoff = 1
    Margin = 3
    RequestTimeout = 1
    SyncPassTimeout = 1
    StopTime = 1
    Placements <- LaptopFirst
    Events <- Failures
    MaxEpoch = 2
    MaxSession = 2
    Parts = {"base", "handovers"}
SPECIFICATION MCSpec
INVARIANTS GrantInvariant OneAgent AgentMayWrite AlwaysAsksAgain
PROPERTY FreshGrant
