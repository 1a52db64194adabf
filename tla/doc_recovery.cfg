SPECIFICATION Spec
CONSTANTS
    Runs = {r1}
    Fresh = {r1}
    NoRun = NoRun
    MaxAttempts = 1
    MaxCrashes = 2
    Stages = {s1}
    GPUs <- MCGPUs
    NoGpu = NoGpu
    Chain <- DefaultChain
    Affordable <- MCAffordable
    Configs <- MCLocal
    NestedTx = {"ok"}
    Faults = FALSE
CHECK_DEADLOCK FALSE
INVARIANTS
    RecoveryIsAtomic
