SPECIFICATION FairPushSpec
CONSTANTS
    r1 = r1
    r2 = r2
    Records = {r1}
    Devices = {d1}
    MaxOps = 3
    Kinds = {"CREATE", "UPDATE", "DELETE"}
    BaseVersions = {1}
    Rank <- MCRankOne
    Requests = {q1}
    Edits = 0
    NoOp = NoOp
    Online = Online
PROPERTIES
    HistoryRefinement
    PendingIsSettled
CHECK_DEADLOCK FALSE
