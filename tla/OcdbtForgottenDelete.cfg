CONSTANTS
    w1 = w1
    w2 = w2
    Writer <- MCWriter
    Assumed <- MCAssumed
    Key <- MCKey
    Ranges <- MCRanges
    Writes <- MCWrites
    MaxRequest = 3
    MaxFault = 0
SPECIFICATION Spec
INVARIANT
    EveryBatchIsSequential
CHECK_DEADLOCK FALSE
