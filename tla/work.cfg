SPECIFICATION MCSpec
CONSTANTS
    t1 = t1
    t2 = t2
    c1 = c1
    c2 = c2
    l1 = l1
    l2 = l2
    q1 = q1
    q2 = q2
    m1 = m1
    tool = tool
    send = send
    look = look
    None = None
    Calls = {c1, c2}
    Effectful = {c1}
    MaxSessions = 3
    MaxProcesses = 3
    Parts = {"ledger", "triage", "pair", "restart", "days", "edits", "kinds", "offline", "prose", "serial", "resumed", "leave", "apart", "policies", "waits"}
INVARIANTS
    WriteAhead NothingStaysUntold SubagentsTakeTurns
PROPERTIES
    NeverRerunOnItsOwn TriageKeepsItsWord NotesAreHeard NothingRunsWithoutLeave
CHECK_DEADLOCK FALSE
