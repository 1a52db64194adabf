SPECIFICATION Spec
CONSTANTS
    NoProject = NoProject
    Projects = {p1, p2}
    MaxVersions = 6
    MaxRows = 2
    MaxVoice = 3
    Tours <- MCFlowTours
    Switches <- MCSwitches
    EditSections <- MCEdits
    Percents = {0, 50}
    Architectures <- MCArchitectures
    MaxDepth = 5
    Widths <- MCWidths
INVARIANT ColumnTotals
CHECK_DEADLOCK FALSE
