CONSTANTS
    NKeys = 3
    MaxOps = 8
    MaxPhase = 0
    Workloads <- Clients
SPECIFICATION ScriptedSpec
INVARIANTS
    SomeKeyIsInOrder
