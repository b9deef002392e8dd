SPECIFICATION LiveSpec
CONSTANTS
    Keys = {1}
    Files = {f1, f2, f3}
    Calls = {c1, c2}
    PageCalls = {c2}
    Loops = {l1}
    Faults = {"crash", "statement", "network"}
    None = None
    f1 = f1
    f2 = f2
    f3 = f3
    c1 = c1
    c2 = c2
    l1 = l1
INVARIANTS
    SyncedIsStored
PROPERTIES
    QueueSettles
CHECK_DEADLOCK FALSE
