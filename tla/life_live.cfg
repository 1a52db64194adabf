SPECIFICATION FairSpec
CONSTANTS
    Runs = {r1, r2}
    Fresh = {r1}
    NoRun = NoRun
    MaxAttempts = 2
    MaxCrashes = 1
    Stages = {s1}
    GPUs <- MCGPUs
    NoGpu = NoGpu
    Chain <- DefaultChain
    Affordable <- MCAffordable
    Configs <- MCAll
    NestedTx = {"ok"}
    Faults = FALSE
CHECK_DEADLOCK FALSE
PROPERTIES
    RecoveryIsThorough
    CompletedIsFinal
    RunSettles
