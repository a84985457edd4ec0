SPECIFICATION FairSpec
CONSTANTS
    m1 = m1
    a = a
    b = b
    None = None
    Memory = {m1}
    Text = {a, b}
    Launched = a
    Price = 1
    Grant = 2
    MaxIds = 2
    MaxSends = 2
    MaxDay = 1
    MaxOther = 1
CHECK_DEADLOCK FALSE
INVARIANTS
    ChargedOnce
    ShownIsAnswered
    NoConflict
PROPERTIES
    BranchFitsText
    BusyEnds
