SPECIFICATION FairSpec
CONSTANTS
    a = a
    b = b
    p = p
    q = q
    r = r
    s = s
    NoIx = NoIx
    NoCell = NoCell
    Instances = {a}
    Cells <- FourCells
    Ixs <- Row4
    Simplexes <- Pts4
    SimplexesOf <- Ends4
    Lists <- ListsOf4
    CellSz = 2
    SimplexSz = 1
    EntrySz = 1
    BaseSizes = {0, 12}
    Ram = 11
    Primes <- Sizes23
    FillRatio = 1
    Fails = {}
PROPERTY SearchEnds
PROPERTY CandidatesVisited
