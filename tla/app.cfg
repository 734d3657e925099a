SPECIFICATION MCSpec
CONSTANTS
    here = here
    moved = moved
    noFile = noFile
    okay = okay
    noReply = noReply
    l1 = l1
    l2 = l2
    Missing = Missing
    None = None
    Unknown = Unknown
    MaxAttempts = 4
    MaxVersions = 3
    MaxOps = 3
    MaxFaults = 2
    Caller = {c1, c2, c3}
    MaxStacks = 3
    MaxSettings = 2
    MaxCalls = 3
    Nil = Nil
    Schedules = {2, 3}
    Uses = {"subagent", "triage", "unavailable"}
    Endings = {"done"}
    MaxWork = 1
    ExtraRuns = 1
    MaxTime = 4
    MaxRuns = 2
    MaxSleep = 3
    MaxStops = 1
    MaxCrashes = 1
    MaxSwitches = 2
    Nothing = Nothing
    Conns = {k1, k2, k3}
    Getters = {g1}
    Launches = {l1, l2}
    Reloads = {r1}
    Postures = {"writes", "never"}
    Callers = {a1}
    MovedUnderway = FALSE
    Sessions = {s1, s2, s3}
    Calls = {c1, c2, c3}
    Undefined = Undefined
    MaxReconnects = 2
    MaxChanges = 2
    MaxRefreshes = 2
    SseFallback = TRUE
    Rushed = FALSE
    Overtakes = FALSE
    ListsFail = FALSE
    Parts = {"saves", "runtime", "merges", "quiet", "moves", "removes", "limits", "stops", "asked", "crash", "switches", "replans", "calls", "tools", "reload", "specs", "faults", "removed"}
INVARIANTS
    CallsReachTheStack ConnectorsFollow RoutinesRunOnce JournalKeepsAll
PROPERTIES
    EditsSurvive ServerIsConnectedOnce ReplacesWhatItTook EvidenceSurvives
CHECK_DEADLOCK FALSE
