SPECIFICATION MCLiveSpec
CONSTANTS
    t1 = t1
    t2 = t2
    c1 = c1
    c2 = c2
    l1 = l1
    tool = tool
    send = send
    s1 = s1
    s2 = s2
    s3 = s3
    None = None
    Undefined = Undefined
    Tasks = {t1}
    Calls = {c1}
    TaskOf <- OnTheTask
    ToolOf <- WithTheTool
    Verdicts <- AllowOrAsk
    Settable = {2, 4}
    Missing = Missing
    Unknown = Unknown
    Parts = {"answers", "slots", "settles", "triage", "written", "server"}
PROPERTIES
    WorkGoesOn
CHECK_DEADLOCK FALSE
