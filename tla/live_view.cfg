SPECIFICATION Spec
CONSTANTS
    p1 = p1
    p2 = p2
    none = none
    s1 = s1
    s2 = s2
    Projects <- MCProjects
    Sockets <- MCSockets
    Channels <- MCChannels
    NoProject = none
    NoSocket = none
    Home = p1
    MaxQueue = 2
    NRuns = 2
    NSteps = 1
    NGpus = 4
    Affordable = {1, 2, 3}
    Chain <- MCChain
    StartGpus = {0, 3}
    Running <- MCRunning
    Endings = {"failed"}
    MaxLive = 2
    MaxSteps = 3
INVARIANTS TypeOK OwnEventsOnly MetricsShownOnce EventsInvalidate OfferedIsAccepted GpuChosenIsCandidate
SYMMETRY SocketSymmetry
CHECK_DEADLOCK FALSE
