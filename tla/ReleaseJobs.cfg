SPECIFICATION JFairSpec
CONSTANTS
    d1 = d1
    d2 = d2
    m1 = m1
    m2 = m2
    m3 = m3
    n1 = n1
    c1 = c1
    w1 = w1
    Open = Open
    NoRelease = NoRelease
    NoEdge = NoEdge
    NoDiary = NoDiary
    Diary = {d1, d2}
    Memory = {m1, m2, m3}
    DiaryOf <- TwoAndOne
    Neuron = {n1}
    Semantic = {n1}
    Edge = {}
    Caller = {c1}
    Worker = {w1}
    Window = 1
    Cap = 2
    Weakening = 1
    MaxTime = 0
    MaxReleases = 2
    Skew = 1
INVARIANTS
    OpenIsEmbedded
    LadderFollowsMemory
PROPERTIES
    EveryReleaseEnds
    KeepsPromise
