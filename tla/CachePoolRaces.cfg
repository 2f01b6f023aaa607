CONSTANTS
    t1 = t1
    t2 = t2
    i1 = i1
    i2 = i2
    k1 = k1
    Thread <- MCThread
    Ident <- MCIdent
    IdentSets <- TwoIdents
    Key <- MCKey
    ShardForKey <- MCShardForKey
    Size = {}
    NewSize = 1
    Limits = {1}
    MaxCache = 2
    MaxEntry = 2
    MaxWeakPtr = 1
    BufferSize = 2
    Anonymous = Anonymous
SPECIFICATION DefinedSpec
SYMMETRY SymmetryOfTwo
INVARIANT RacesLeaveOne
CHECK_DEADLOCK FALSE
