SPECIFICATION Spec
CONSTANTS
    a = a
    b = b
    p = p
    q = q
    r = r
    s = s
    NoIx = NoIx
    NoCell = NoCell
    Instances = {a}
    Cells <- TwoCells
    Ixs <- Row2
    Simplexes <- Pts2
    SimplexesOf <- Ends2
    Lists <- ListsOf2
    CellSz = 2
    SimplexSz = 1
    EntrySz = 1
    BaseSizes = {0}
    Ram = 4
    Primes <- Sizes23
    FillRatio = 1
    Fails = {}
SYMMETRY Symmetry
INVARIANT ForceGivesACell
