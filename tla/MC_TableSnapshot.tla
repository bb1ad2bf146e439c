--------------------------- MODULE MC_TableSnapshot ---------------------------
(* Small instance of TableSnapshot for TLC. *)
EXTENDS TableSnapshot, TLC

CONSTANTS i1, i2, i3, s1, s2, w1, w2

MCIds == {i1, i2, i3}
MCSegs == {s1, s2}
MCWriters == {w1, w2}

\* Ids, segment locations and writers are interchangeable model values.
MCSymmetry == Permutations(MCIds) \cup Permutations(MCSegs) \cup Permutations(MCWriters)
=============================================================================
