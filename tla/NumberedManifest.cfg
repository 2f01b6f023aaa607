CONSTANTS
    Process = {p1, p2}
    Keep = 2
    MaxVersion = 5
    MaxCrash = 1
SPECIFICATION Spec
SYMMETRY Symmetry
INVARIANTS
    NewestIsLog
    VersionIsFound
PROPERTY
    ImplementsManifestLog
CHECK_DEADLOCK FALSE
