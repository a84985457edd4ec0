CONSTANTS
    ann = ann
    ben = ben
    dan = dan
    User = {ann, ben, dan}
    None = None
    Tx = {t1, t2}
    Request <- Requested
    Grant = 3
    InviteCap = 1
    Costs = {2}
    Zones = {0, 1}
    DayLength = 2
    MaxTime = 1

SPECIFICATION Spec
SYMMETRY Alike
INVARIANTS
    SmallWithinGrants
    InvitesCapped
PROPERTY ImplementsContract
