SPECIFICATION Spec
CONSTANTS
    Projects = {p1, p2}
    Sockets = {s1, s2}
    Channels = {"run_state", "metrics", "logs", "system", "eval"}
    NoProject = none
    NoSocket = none
    Home = p1
    MaxQueue = 2
    NEvals = 2
    NCases = 1
    NRubrics = 2
    PairCosts = {0, 2}
    Caps = {1, 9}
    NoCap = 9
    Versions = {1, 2, 3}
    LatestVersions = {2, 3}
    Calibrated = {1, 2}
    TrainingRuns = {1}
    CostInputs = {0, 9}
    MaxSteps = 4
INVARIANTS TypeOK ShownIsOfSelectedRun CapRespected EvalEventsInvalidate RowsAddUp
PROPERTIES StreamRecovers
CHECK_DEADLOCK FALSE
