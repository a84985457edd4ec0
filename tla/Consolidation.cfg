SPECIFICATION FairSpec
CONSTANTS
    m1 = m1
    m2 = m2
    w1 = w1
    NoJob = NoJob
    Memory = {m1, m2}
    Diaries = {{m1}, {m2}}
    Shared <- Linked
    Lane = {w1}
    MaxStage = 2
    MaxDecay = 2
    Parts = 4
    GistLength <- Gistify
    DecayLength <- Fade
    SlowDays = 1
    SpeedDays = 1
    Attempts = 1
    MaxDay = 3
    MaxRecalls = 1
    MaxRewrites = 1
INVARIANTS
    TypeOK
    HistoryMatchesStage
    GistOnSchedule
    OneGenerationPerRevision
    SleptThroughEveryAdvance
PROPERTIES
    GeneratedFromLiveText
    DecayTextsCatchUp
    PendingRises
CHECK_DEADLOCK FALSE
