CONSTANTS
    i1 = i1  i2 = i2  i3 = i3
    s1 = s1  s2 = s2
    w1 = w1  w2 = w2
    Ids <- MCIds
    Segs <- MCSegs
    Writers <- MCWriters
    SubTicks = 2
    MaxMicros = 2
    EpsMicros = 0
    EpsSub = 1
    None = None
SYMMETRY MCSymmetry
SPECIFICATION Spec
\* Every behaviour ends once the finite pool of snapshot ids is used up.
CHECK_DEADLOCK FALSE
INVARIANT
    SegmentOrdinalStable
