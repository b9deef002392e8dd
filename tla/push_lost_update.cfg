SPECIFICATION PushSpec
CONSTANTS
    r1 = r1
    r2 = r2
    Records = {r1}
    Devices = {d1, d2}
    MaxOps = 3
    Kinds = {"CREATE", "UPDATE"}
    BaseVersions = {1}
    Rank <- MCRankOne
    Requests = {q1, q2}
    Edits = 0
    NoOp = NoOp
    Online = Online
PROPERTIES
    HistoryRefinement
CHECK_DEADLOCK FALSE
