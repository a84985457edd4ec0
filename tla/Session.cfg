SPECIFICATION FairSpec
CONSTANTS
    u1 = u1
    u2 = u2
    NoUser = NoUser
    User = {u1, u2}
    MaxCalls = 3
    MaxTurn = 5
CHECK_DEADLOCK FALSE
PROPERTIES
    LateResultInert
    ForcedHolds
    StrandedOnlyBy
    SignInEnds
