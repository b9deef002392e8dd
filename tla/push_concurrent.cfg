SPECIFICATION PushSpec
CONSTANTS
    r1 = r1
    r2 = r2
    Records = {r1, r2}
    Devices = {d1, d2}
    MaxOps = 2
    Kinds = {"CREATE", "UPDATE"}
    BaseVersions = {1}
    Rank <- MCRank
    Requests = {q1, q2}
    Edits = 1
    NoOp = NoOp
    Online = Online
INVARIANTS
    SyncedIsAnswered
    SettledInOrder
SYMMETRY MCSymmetry
CHECK_DEADLOCK FALSE
