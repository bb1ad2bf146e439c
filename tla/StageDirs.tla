------------------------------ MODULE StageDirs ------------------------------
(***************************************************************************)
(* What the stages of a tenant promise about the object store: each stage  *)
(* that keeps files owns a directory, a stage claims a directory only when *)
(* it neither contains nor lies inside a directory another stage holds,    *)
(* and dropping a stage gives its directory back.  Listing, copying from   *)
(* and purging a stage walk its directory, so this is what keeps one       *)
(* stage's files out of another's.  UserStage implements it (DirOf).       *)
(***************************************************************************)
EXTENDS Sequences, SequencesExt

CONSTANTS
    Slots,    \* catalog entries
    Paths,    \* directories, as sequences of path components
    None

VARIABLE dir   \* slot -> the directory its stage owns, or None

\* One directory contains the other (a directory contains itself).
Overlap(p, q) == IsPrefix(p, q) \/ IsPrefix(q, p)

Held == {s \in Slots : dir[s] # None}

TypeOK == dir \in [Slots -> Paths \cup {None}]

\* No two stages hold overlapping directories.
Disjoint == \A s, t \in Held : s # t => ~Overlap(dir[s], dir[t])

Init == TypeOK /\ Disjoint

Claim(s, p) ==
    /\ s \notin Held
    /\ \A t \in Held : ~Overlap(p, dir[t])
    /\ dir' = [dir EXCEPT ![s] = p]

Release(s) ==
    /\ s \in Held
    /\ dir' = [dir EXCEPT ![s] = None]

Next == \E s \in Slots : (\E p \in Paths : Claim(s, p)) \/ Release(s)

Spec == Init /\ [][Next]_dir
=============================================================================
