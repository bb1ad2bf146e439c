-------------------------- MODULE MC_SharingAuth --------------------------
(* Small instance of SharingAuth for TLC: two concurrent requests, and     *)
(* header values of at most three parts that cover a missing header, bytes *)
(* that are not ASCII, no space, two spaces, and each way decoding fails.  *)
EXTENDS SharingAuth, TLC

CONSTANTS q1, q2, t1, t2

MCRequests == {q1, q2}
MCTokens == {t1, t2}
MCAuthHeaders ==
    LET B == Part("Basic") IN
    {Absent, Opaque, <<B>>, <<Enc(t1)>>, <<B, Enc(t1)>>, <<Part("Bearer"), Enc(t2)>>,
     <<B, Part("Empty"), Enc(t1)>>, <<B, Part("Junk")>>, <<B, Part("NonUtf8")>>,
     <<B, Enc(t1), Part("Junk")>>}
=============================================================================
