SPECIFICATION MCSpec
CONSTANTS
    laptop = laptop
    phone = phone
    note = note
    task = task
    copy1 = copy1
    copyOfCopy1 = copyOfCopy1
    p1 = p1
    p2 = p2
    c1 = c1
    c2 = c2
    c3 = c3
    c4 = c4
    c5 = c5
    d1 = d1
    t1 = t1
    t2 = t2
    None = None
    Clients = {c1, c2}
    Devices = {d1}
    DeviceOf <- TwoOwners
    Surfaces = {t1, t2}
    MaxSurfaces = 1
    DropAbove = 1
    MaxBuffered = 2
    MaxEvents = 2
    Fails = TRUE
    Calls = {c1, c2, c3, c4, c5}
    Concurrency = 2
    Device = {laptop, phone}
    Note = {note, task}
    Copy = {copy1, copyOfCopy1}
    CopyNames <- NamesOfOne
    Mergeable = TRUE
    MaxEdit = 3
    MaxDelete = 1
    MaxFault = 1
    MaxCrash = 1
    Parts = {"limiter", "edits", "faults", "deletes", "passes", "push", "lost", "races", "renames", "events"}
INVARIANTS
    NeverOvershoots ChangesArrive
PROPERTIES
    NothingIsLostInSync FilesAreTracked ClientsSkipNothing
CHECK_DEADLOCK FALSE
