SPECIFICATION Spec
CONSTANTS
    a = a
    b = b
    p = p
    q = q
    r = r
    s = s
    NoIx = NoIx
    NoCell = NoCell
    Instances = {a, b}
    Cells <- ThreeCells
    Ixs <- Row2
    Simplexes <- Pts2
    SimplexesOf <- Ends2
    Lists <- ListsOf2
    CellSz = 2
    SimplexSz = 1
    EntrySz = 1
    BaseSizes = {9}
    Ram = 24
    Primes <- Sizes12
    FillRatio = 1
    Fails = {"cell", "simplex"}
SYMMETRY Symmetry
INVARIANT TypeOK
INVARIANT LocksCounted
INVARIANT LockedAreCurrent
INVARIANT HashSound
INVARIANT SimplexRefs
INVARIANT MemoryAccounted
PROPERTY LockedStay
