CONSTANTS
    a = a  b = b  v1 = v1  v2 = v2  Null = Null  NoIndex = NoIndex
    Cols <- MCCols
    NullableCols = {a}
    SupportedCols = {a, b}
    Vals <- MCVals
    NULL <- Null
    Digests <- MCDigests
    Siphash <- MCSiphash
    ZeroDigest = 0
    Exprs <- MCExprs
    MaxBlocks = 1
    MaxInputs = 2
    MaxInputRows = 1
SPECIFICATION Spec

INVARIANT ConjunctPruning
