SPECIFICATION Spec
CONSTANTS
    m1 = m1
    m2 = m2
    None = None
    Memory = {m1, m2}
    MaxScope = 2
    MaxAsks = 3
    MaxOther = 1
SYMMETRY Symmetry
INVARIANTS
    OwnMemories
    OwnWorkStands
