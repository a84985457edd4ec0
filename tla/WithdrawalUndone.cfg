SPECIFICATION Spec
CONSTANTS
    c1 = c1
    c2 = c2
    w1 = w1
    w2 = w2
    Live = Live
    Gone = Gone
    Unknown = Unknown
    Caller = {c1}
    Worker = {w1}
    Legs = 2
    Window = 2
    Lease = 1
    Retention = 1
    Budget = 1
    MaxTime = 4
    MaxAsked = 3
    MaxGen = 2
INVARIANTS
    SweptAfterWindow
