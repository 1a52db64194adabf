SPECIFICATION Spec
CONSTANTS
    Runs = {r1}
    Fresh = {r1}
    NoRun = NoRun
    MaxAttempts = 3
    MaxCrashes = 2
    Stages = {s1}
    GPUs <- MCGPUs
    NoGpu = NoGpu
    Chain <- DefaultChain
    Affordable <- MCAffordable
    Configs <- MCAll
    NestedTx = {"ok", "locked"}
    Faults = TRUE
CHECK_DEADLOCK FALSE
INVARIANTS
    TypeOK
    OneOpenAttempt
    FallbackIsIdle
    AnchorIsCurrent
    GpuInSync
    CostIsWhole
    CompletedIsWhole
    NewestTaskRegistered
    Ownership
PROPERTIES
    KeepsLedger
