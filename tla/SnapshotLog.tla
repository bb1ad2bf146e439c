----------------------------- MODULE SnapshotLog -----------------------------
(***************************************************************************)
(* What the snapshot chain of a table promises its readers, abstracted     *)
(* from the files (spec 3 and 8): an append-only log of versions.  Each    *)
(* version has a timestamp and at most one parent version.  A version is   *)
(* committed once and never changes afterwards.  Its parent was committed  *)
(* before it and is not stamped later than it.  Only a version from before *)
(* the timestamp was recorded (the v2 root) may lack a timestamp.          *)
(***************************************************************************)
CONSTANTS
    Ids,             \* version ids
    Stamps,          \* timestamps
    StampLeq(_, _),  \* their order
    None

VARIABLE log   \* id -> [ts, parent] of a committed version, or None

Entry == [ts : Stamps \cup {None}, parent : Ids \cup {None}]
Committed == {i \in Ids : log[i] # None}

TypeOK == log \in [Ids -> Entry \cup {None}]

(* The log starts empty or with one root version. *)
Init ==
    /\ TypeOK
    /\ \A i, j \in Committed : i = j
    /\ \A i \in Committed : log[i].parent = None

(* Version i is committed: a new entry with a timestamp, whose parent (if  *)
(* any) is committed and not later.  No other entry changes.               *)
Commit(i) ==
    /\ log[i] = None
    /\ log'[i] \in [ts : Stamps, parent : Ids \cup {None}]
    /\ log' = [log EXCEPT ![i] = log'[i]]
    /\ log'[i].parent # None =>
          /\ log[log'[i].parent] # None
          /\ log[log'[i].parent].ts # None =>
                StampLeq(log[log'[i].parent].ts, log'[i].ts)

Next == \E i \in Ids : Commit(i)

Spec == Init /\ [][Next]_log
=============================================================================
