SPECIFICATION Spec
CONSTANTS
    NoProject = NoProject
    Projects = {p1, p2}
    MaxVersions = 6
    MaxRows = 2
    MaxVoice = 3
    Tours <- MCTours
    Switches <- MCSwitches
    EditSections <- MCEdits
    Percents = {0, 50}
    Architectures <- MCArchitectures
    MaxDepth = 5
    Widths <- MCWidths
INVARIANTS
    TypeOK
    LaunchedAsShown
    RollbackNamesItsSource
    OwnSaveFollowed
    AnsweredIsShown
    PresetDecides
    CurveCompletes
    SanitizeAccepted
    OneVoiceSession
    EntriesKeyed
    FlowAddsUp
    DrawnInside
PROPERTIES
    ServingSettles
    ToastRemovalIsOwn
CHECK_DEADLOCK FALSE
