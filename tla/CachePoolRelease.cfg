CONSTANTS
    t1 = t1
    t2 = t2
    i1 = i1
    k1 = k1
    i2 = i2
    Thread <- MCThread
    Ident <- MCIdent
    IdentSets <- MCIdentSets
    Key <- MCKey
    ShardForKey <- MCShardForKey
    Size <- MCSize
    NewSize = 1
    Limits <- MCLimits
    MaxCache = 2
    MaxEntry = 2
    MaxWeakPtr = 1
    BufferSize = 2
    Anonymous = Anonymous
SPECIFICATION Spec
SYMMETRY Symmetry
INVARIANT NoUseAfterFree
