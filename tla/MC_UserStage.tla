--------------------------- MODULE MC_UserStage ---------------------------
(* Small instance of UserStage for TLC: the new-stage and user names       *)
(* include the words "internal" and "user" that stage_prefix puts in a     *)
(* path.                                                                   *)
EXTENDS UserStage, TLC

CONSTANTS c1, c2, c3, c4

MCSlots == {c1, c2, c3, c4}
MCSymmetry == Permutations(MCSlots)
=============================================================================
