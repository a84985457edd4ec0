SPECIFICATION DecorSpec
SYMMETRY Saves
CONSTANTS
    sky = sky
    mote = mote
    plasma = plasma
    spire = spire
    orb = orb
    s1 = s1
    s2 = s2
    Kind = {sky, mote}
    Ornament = {plasma, spire, orb}
    Purchasable = {plasma, orb}
    KindOf <- Kinds
    Default = Default
    Cost <- Prices
    Save = {s1, s2}
    NoSave = NoSave
    Unread = Unread
    Idle = Idle
    Asked = Asked
    Grants = {1, 3}
INVARIANTS
    PaidForOnce
    NeverOverstated
