CONSTANTS
    NKeys = 2
    MaxOps = 3
    MaxPhase = 1
    Workloads <- AllWorkloads
SPECIFICATION Spec
INVARIANTS
    ToldOnce
    PhaseDoneWhenEntriesAre
    AssertionsHold
PROPERTIES
    WritebackIsSequential
    ReportsAreTrue
    DeletedAfterValidation
