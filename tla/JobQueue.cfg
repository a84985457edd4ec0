SPECIFICATION Spec
SYMMETRY Lanes
CONSTANTS
    j1 = j1
    j2 = j2
    l1 = l1
    l2 = l2
    p1 = p1
    NoJob = NoJob
    NoLane = NoLane
    Job = {j1, j2}
    Lane = {l1, l2}
    Process = {p1}
    ProcessOf <- OneProcess
    KindOf <- MixedKinds
    Registered = {"semanticize", "retention_sweep"}
    RetryForever = {"retention_sweep"}
    Lease = 1
    MaxAttempts = 2
    MaxClaims = 2
    BackoffBase = 1
    Retention = 0
    CleanupInterval = 1
    CleanupBatch = 1
    Delays = {0}
    MaxTime = 1
    MaxGen <- MixedGens
INVARIANTS
    RunsBounded
    EveryGroupHasTrigger
PROPERTIES
    ImplementsLifecycle
    LateWriteNeverLands
