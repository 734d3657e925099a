SPECIFICATION MCSpec
CONSTANTS
    laptop = laptop
    phone = phone
    host = host
    m1 = m1
    m2 = m2
    c1 = c1
    c2 = c2
    NoDevice = NoDevice
    Device = {laptop, phone, host}
    Session = {1, 2}
    MaxTTL = 2
    Grace = 2
    Lapse = 3
    MaxEpoch = 3
    Caller = {"supervisor", "lease", "daemon"}
    MaxStacks = 4
    MaxSettings = 0
    MaxCalls = 3
    Tokens = {"ok", "absent"}
    MaxGrants = 2
    MaxChanges = 2
    Peer = {m1, m2}
    NoPeer = NoPeer
    Forwards = FALSE
    ReadsFail = FALSE
    MaxVersion = 1
    MaxMoves = 2
    MaxLinks = 2
    MaxWatchers = 1
    Client = {1, 2}
    MaxDevices = 2
    MaxCodes = 2
    Attempts = 1
    Window = 2
    Ttl = 2
    Failures = 2
    SavesFail = TRUE
    MaxTime = 2
    MaxIssues = 2
    MaxCrashes = 1
    Machine = {m1, m2}
    NoMachine = NoMachine
    Request = {c1, c2}
    SettingsFail = FALSE
    FilesFail = TRUE
    Revocations = TRUE
    MaxPairs = 2
    Parts = {"server", "supervises", "links", "paired", "machine"}
INVARIANTS
    AgentRunsWhereItShould RelayShowsTheMachine OnlyPairedDevices
PROPERTIES
    EpochNamesOneGrant WaitersTurn OneMachineIsTrusted
CHECK_DEADLOCK FALSE
