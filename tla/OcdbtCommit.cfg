CONSTANTS
    w1 = w1
    w2 = w2
    Writer <- MCWriter
    Assumed <- MCAssumed
    Key <- MCKey
    Ranges <- MCRanges
    Writes <- MCWrites
    MaxRequest = 3
    MaxFault = 1
SPECIFICATION Spec
INVARIANTS
    BatchesAreSequential
    AppliedExactlyOnce
    ManifestDataDurable
    NoRequestForgotten
CHECK_DEADLOCK FALSE
