---------------------------- MODULE TableSnapshot ----------------------------
(***************************************************************************)
(* The copy-on-write chain of table snapshots of                           *)
(* src/query/storages/common/table-meta/src/meta/v3/snapshot.rs.           *)
(*                                                                         *)
(* Writers build a snapshot in memory (TableSnapshot::new for a new table, *)
(* TableSnapshot::from_previous for a successor), may append segments to  *)
(* it, and persist it with to_bytes.  Persisted snapshots are immutable.   *)
(* Snapshots written by the previous format (v2) are read through          *)
(* From<v2::TableSnapshot>.                                                *)
(*                                                                         *)
(* Schema, summary statistics, cluster key and statistics location are     *)
(* copied verbatim by every operation modelled here and no property tells *)
(* them apart, so they are left out.                                       *)
(*                                                                         *)
(* A timestamp is a pair: whole microseconds (us) and the sub-microsecond  *)
(* part (sub, in units of 1/SubTicks of a microsecond) that chrono keeps   *)
(* and trim_timestamp_to_micro_second drops.                               *)
(***************************************************************************)
EXTENDS Naturals, Sequences, SequencesExt

CONSTANTS
    Ids,        \* snapshot ids (Uuid::new_v4), a finite pool
    Segs,       \* segment locations, a finite pool
    Writers,    \* writers building snapshots concurrently
    SubTicks,   \* clock ticks per microsecond
    MaxMicros,  \* the wall clock reads at most this many microseconds
    EpsMicros,  \* increment of monotonically_increased_timestamp: microseconds
    EpsSub,     \*   and sub-microsecond ticks
    None        \* Option::None

ASSUME SubTicksAssumption == SubTicks \in Nat \ {0}
ASSUME MaxMicrosAssumption == MaxMicros \in Nat
ASSUME EpsAssumption == EpsMicros \in Nat /\ EpsSub \in 0 .. SubTicks - 1

\* FormatVersion of the current layout (TableSnapshot::VERSION) and of v2.
VERSION == 3
V2VERSION == 2
FormatVersions == {V2VERSION, VERSION}

Time == [us : Nat, sub : 0 .. SubTicks - 1]
\* The readings Utc::now() can return within the bound.
ClockReadings == [us : 0 .. MaxMicros, sub : 0 .. SubTicks - 1]

TimeLess(a, b) == a.us < b.us \/ (a.us = b.us /\ a.sub < b.sub)
TimeLeq(a, b) == a.us < b.us \/ (a.us = b.us /\ a.sub =< b.sub)

\* chrono addition of a duration, carrying sub-microsecond ticks.
TimeAdd(a, d) ==
    [us  |-> a.us + d.us + (a.sub + d.sub) \div SubTicks,
     sub |-> (a.sub + d.sub) % SubTicks]

Epsilon == [us |-> EpsMicros, sub |-> EpsSub]

Snapshot ==
    [fv : FormatVersions, id : Ids, ts : Time \cup {None},
     prev : (Ids \X FormatVersions) \cup {None}, segments : Seq(Segs)]

\* A snapshot file: the format version of its header and the snapshot.
File == [version : FormatVersions, body : Snapshot]

\* Option::None is none of the values an id, timestamp, snapshot or file
\* has, nor an entry [ts, parent] of the log the files stand for.
ASSUME NoneAssumption ==
    None \notin Ids \cup Time \cup Snapshot \cup File
                 \cup [ts : Time \cup {None}, parent : Ids \cup {None}]

(***************************************************************************)
(* meta::monotonically_increased_timestamp (not under src/, from the spec  *)
(* section 4.5): if the parent's timestamp is not strictly less than now, *)
(* the parent's timestamp nudged forward by Epsilon, otherwise now.        *)
(***************************************************************************)
MonotonicallyIncreasedTimestamp(now, prevTs) ==
    IF prevTs # None /\ ~TimeLess(prevTs, now)
    THEN TimeAdd(prevTs, Epsilon)
    ELSE now

\* meta::trim_timestamp_to_micro_second (spec section 4.5): truncation.
TrimTimestampToMicroSecond(t) == [us |-> t.us, sub |-> 0]

\* A defective TableSnapshot::new that drops the monotonic adjustment.
NewSnapshotUnadjusted(id, prevTs, prevId, segments, now) ==
    [fv |-> VERSION, id |-> id, ts |-> TrimTimestampToMicroSecond(now),
     prev |-> prevId, segments |-> segments]

\* TableSnapshot::new: adjust the clock reading, then trim it.
NewSnapshot(id, prevTs, prevId, segments, now) ==
    [fv       |-> VERSION,
     id       |-> id,
     ts       |-> TrimTimestampToMicroSecond(
                      MonotonicallyIncreasedTimestamp(now, prevTs)),
     prev     |-> prevId,
     segments |-> segments]

\* A defective from_previous whose link keeps the parent's id only.
FromPreviousIdOnly(previous, id, now) ==
    NewSnapshot(id, previous.ts, previous.id, previous.segments, now)

\* TableSnapshot::from_previous: clone the parent, link to it, fresh id.
FromPrevious(previous, id, now) ==
    NewSnapshot(id, previous.ts, <<previous.id, previous.fv>>,
                previous.segments, now)

\* From<v2::TableSnapshot>: every field kept, format_version set to VERSION.
FromV2(s) == [s EXCEPT !.fv = VERSION]

(***************************************************************************)
(* TableSnapshot::build_segment_id_map: the loop inserts                   *)
(* segments[i] |-> count - i - 1 (0-based i) into a HashMap, so a location *)
(* that occurs twice keeps the ordinal of its last occurrence.             *)
(***************************************************************************)
\* A defective build_segment_id_map that numbers segments from the front.
BuildSegmentIdMapForward(s) ==
    LET segs == s.segments
        lastPos(loc) == CHOOSE i \in DOMAIN segs :
                            segs[i] = loc /\ \A j \in DOMAIN segs : segs[j] = loc => j =< i
    IN  [loc \in ToSet(segs) |-> lastPos(loc) - 1]

BuildSegmentIdMap(s) ==
    LET segs == s.segments
        n == Len(segs)
        lastPos(loc) == CHOOSE i \in DOMAIN segs :
                            segs[i] = loc /\ \A j \in DOMAIN segs : segs[j] = loc => j =< i
    IN  [loc \in ToSet(segs) |-> n - lastPos(loc)]

-----------------------------------------------------------------------------
VARIABLES
    store,   \* persisted snapshot files: id -> file, or None
    draft    \* writer -> snapshot being built in memory, or None

vars == <<store, draft>>

Persisted == {i \in Ids : store[i] # None}
\* The snapshot a persisted file holds, as written.
Snap(i) == store[i].body
DraftIds == {draft[w].id : w \in {v \in Writers : draft[v] # None}}
FreshIds == Ids \ (Persisted \cup DraftIds)
UsedSegs == (UNION {ToSet(Snap(i).segments) : i \in Persisted})
            \cup (UNION {ToSet(draft[w].segments) : w \in {v \in Writers : draft[v] # None}})

TypeOK ==
    /\ store \in [Ids -> File \cup {None}]
    /\ draft \in [Writers -> Snapshot \cup {None}]

\* Timestamps that trim_timestamp_to_micro_second can have produced.
TrimmedTime == {t \in Time : t.sub = 0}

(***************************************************************************)
(* Initially the table has no snapshot, or one written by the v2 format    *)
(* (whose timestamp, an Option for backward compatibility, may be absent). *)
(***************************************************************************)
Init ==
    /\ draft = [w \in Writers |-> None]
    /\ \/ store = [i \in Ids |-> None]
       \/ \E i \in Ids, ts \in {None} \cup {t \in ClockReadings : t.sub = 0},
             segs \in {<<>>} \cup {<<s>> : s \in Segs} :
            store = [j \in Ids |->
                       IF j = i
                       THEN [version |-> V2VERSION,
                             body |-> [fv |-> V2VERSION, id |-> i, ts |-> ts,
                                       prev |-> None, segments |-> segs]]
                       ELSE None]

\* A table is created: TableSnapshot::new(id, &None, None, ..., vec![], ...).
CreateTable(w) ==
    /\ draft[w] = None
    /\ \E id \in FreshIds, now \in ClockReadings :
          draft' = [draft EXCEPT ![w] = NewSnapshot(id, None, None, <<>>, now)]
    /\ UNCHANGED store

(***************************************************************************)
(* Reading a snapshot file (the versioned reader, not under src/; spec     *)
(* 6 "Versioning contract"): the reader branches on the header's version  *)
(* and a v2 snapshot is converted with From<v2::TableSnapshot>.            *)
(***************************************************************************)
LoadSnapshot(file) ==
    IF file.version = V2VERSION THEN FromV2(file.body) ELSE file.body

\* A writer that takes a new id avoiding only the persisted snapshots' ids.
DeriveReusingId(w) ==
    /\ draft[w] = None
    /\ \E p \in Persisted, id \in Ids \ Persisted, now \in ClockReadings :
          draft' = [draft EXCEPT ![w] = FromPrevious(LoadSnapshot(store[p]), id, now)]
    /\ UNCHANGED store

\* A writer loads a persisted snapshot and calls from_previous on it.
Derive(w) ==
    /\ draft[w] = None
    /\ \E p \in Persisted, id \in FreshIds, now \in ClockReadings :
          draft' = [draft EXCEPT ![w] = FromPrevious(LoadSnapshot(store[p]), id, now)]
    /\ UNCHANGED store

(***************************************************************************)
(* The writer overwrites `segments` with a newly written segment added     *)
(* (the writer is not under src/).  Spec 3 says new segments go to the    *)
(* end of the sequence; the ordinal rule of build_segment_id_map keeps old *)
(* ordinals only if they go to the front.  Both are modelled.              *)
(***************************************************************************)
AddSegment(w) ==
    /\ draft[w] # None
    /\ \E seg \in Segs \ UsedSegs :
          \/ draft' = [draft EXCEPT ![w].segments = Append(@, seg)]
          \/ draft' = [draft EXCEPT ![w].segments = <<seg>> \o @]
    /\ UNCHANGED store

(***************************************************************************)
(* TableSnapshot::to_bytes: the header carries self.format_version, the   *)
(* payload the encoded and compressed snapshot.  Encoding, compression    *)
(* and the payload length are the defaults and the exact payload size;    *)
(* no property here is about them.                                         *)
(***************************************************************************)
ToBytes(s) == [version |-> s.fv, body |-> s]

Persist(w) ==
    /\ draft[w] # None
    /\ store' = [store EXCEPT ![draft[w].id] = ToBytes(draft[w])]
    /\ draft' = [draft EXCEPT ![w] = None]

Next ==
    \E w \in Writers :
        \/ CreateTable(w)
        \/ Derive(w)
        \/ AddSegment(w)
        \/ Persist(w)

Spec == Init /\ [][Next]_vars

-----------------------------------------------------------------------------
(***************************************************************************)
(* The log of versions the persisted files stand for: a file's id, the     *)
(* timestamp it carries and the id its prev link names.                   *)
(***************************************************************************)
LogOf ==
    [i \in Ids |-> IF store[i] = None THEN None
                   ELSE [ts |-> Snap(i).ts,
                         parent |-> IF Snap(i).prev = None THEN None ELSE Snap(i).prev[1]]]

Log == INSTANCE SnapshotLog WITH log <- LogOf, Stamps <- Time, StampLeq <- TimeLeq

(***************************************************************************)
(* The persisted chain implements the append-only log (spec 3 and 8): to_bytes *)
(* never overwrites a persisted snapshot, every persist adds one version  *)
(* whose parent is persisted and not stamped later, and creating, deriving *)
(* and adding segments to drafts do not change the log.                    *)
(***************************************************************************)
SnapshotLogSpec == Log!Spec

-----------------------------------------------------------------------------
\* The parent of a persisted snapshot, looked up by the id of its link.
Parent(i) == Snap(Snap(i).prev[1])
Linked(i) == store[i] # None /\ Snap(i).prev # None

(***************************************************************************)
(* Spec 3 invariant (1), about TableSnapshot::new / from_previous: along  *)
(* the persisted chain a snapshot's timestamp is never earlier than its    *)
(* parent's, whatever the wall clock did (skew, same tick) and whichever  *)
(* writer derived from which parent.                                       *)
(***************************************************************************)
ChainTimestampsNonDecreasing ==
    \A i \in Ids :
        Linked(i) /\ Parent(i).ts # None => TimeLeq(Parent(i).ts, Snap(i).ts)

(***************************************************************************)
(* Spec 8 "Monotonic timestamps", about TableSnapshot::new: a derived      *)
(* snapshot's timestamp is strictly later than its parent's.               *)
(***************************************************************************)
ChainTimestampsStrictlyIncrease ==
    \A i \in Ids :
        Linked(i) /\ Parent(i).ts # None => TimeLess(Parent(i).ts, Snap(i).ts)

(***************************************************************************)
(* Spec 3: prev_snapshot_id names the preceding snapshot and ITS format    *)
(* version (from_previous records previous.format_version), so that the   *)
(* parent's file can be located and decoded.                               *)
(***************************************************************************)
PrevLinkVersionMatches ==
    \A i \in Ids : Linked(i) => store[Snap(i).prev[1]].version = Snap(i).prev[2]

(***************************************************************************)
(* Spec 8 "Segment ordinal stability", about build_segment_id_map: when a *)
(* snapshot's segments are its parent's with new segments appended at the *)
(* end, every segment of the parent keeps its ordinal in the child.        *)
(***************************************************************************)
SegmentOrdinalStable ==
    \A i \in Ids :
        Linked(i) /\ IsPrefix(Parent(i).segments, Snap(i).segments) =>
            \A loc \in ToSet(Parent(i).segments) :
                BuildSegmentIdMap(Snap(i))[loc] = BuildSegmentIdMap(Parent(i))[loc]

(***************************************************************************)
(* build_segment_id_map numbers segments from the end of the sequence, so *)
(* when new segments are put in front of the parent's, every segment of   *)
(* the parent keeps its ordinal in the child, and the child's ordinals    *)
(* are 0 .. count-1, one per segment.                                      *)
(***************************************************************************)
SegmentOrdinalStableUnderPrepend ==
    \A i \in Ids :
        Linked(i) /\ IsSuffix(Parent(i).segments, Snap(i).segments) =>
            /\ \A loc \in ToSet(Parent(i).segments) :
                  BuildSegmentIdMap(Snap(i))[loc] = BuildSegmentIdMap(Parent(i))[loc]
            /\ Range(BuildSegmentIdMap(Snap(i))) = 0 .. Len(Snap(i).segments) - 1

(***************************************************************************)
(* A snapshot file, once put in the object store, is never replaced: no    *)
(* step of any writer changes the file stored under a persisted id.  Two   *)
(* writers drafting at once must therefore never be handed the same id,    *)
(* since to_bytes is written with a plain put that overwrites.             *)
(***************************************************************************)
PersistedFilesImmutable == [][\A i \in Persisted : store'[i] = store[i]]_vars

=============================================================================
