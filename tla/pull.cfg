SPECIFICATION FairPullSpec
CONSTANTS
    Records = {1, 2, 3, 4}
    Tables = {1, 2, 3}
    Stores = {1, 2}
    Adapters = {1}
    TableOf <- MCTableOf
    PageLimit = 1
    Writers = {w1}
    MaxWrites = 2
INVARIANTS
    NothingSkipped
    
    OwnChangeIsShown
PROPERTIES
    
    PullAdvances
CHECK_DEADLOCK FALSE
