SPECIFICATION MCLiveSpec
CONSTANTS
    laptop = laptop
    phone = phone
    note = note
    copy1 = copy1
    copy2 = copy2
    copyOfCopy1 = copyOfCopy1
    copyOfCopy2 = copyOfCopy2
    p1 = p1
    c1 = c1
    c2 = c2
    c3 = c3
    c4 = c4
    d1 = d1
    t1 = t1
    m1 = m1
    l1 = l1
    here = here
    NoMachine = NoMachine
    None = None
    okay = okay
    noReply = noReply
    noFile = noFile
    Calls = {c1, c2, c3, c4}
    Keys = {1, 2, 3}
    KeysOf <- MCKeysOf
    Parts = {"mutex", "stream", "files", "devices", "supervises", "links", "leaves", "saves"}
INVARIANTS
    InCallOrder
PROPERTIES
    EverythingSettles
CHECK_DEADLOCK FALSE
