------------------------- MODULE TableSnapshotProofs -------------------------
(***************************************************************************)
(* Proofs about the snapshot chain of TableSnapshot, for every pool of     *)
(* ids, segments and writers and every clock resolution.                   *)
(***************************************************************************)
EXTENDS TableSnapshot, TLAPS

\* A parent's timestamp, when it has one, is not later than its child's.
ParentNotLater(pts, cts) == pts # None => TimeLeq(pts, cts)

(***************************************************************************)
(* The inductive strengthening of ChainTimestampsNonDecreasing.            *)
(*   - every stored timestamp was trimmed (or, for v2, is absent), so that *)
(*     trimming a successor's timestamp cannot take it below its parent's; *)
(*   - a file is stored under the id of the snapshot it holds, so the id   *)
(*     from_previous links to names the file the parent was loaded from;   *)
(*   - drafts have distinct ids that are not yet persisted, so persisting  *)
(*     never overwrites a parent;                                          *)
(*   - the parent of every stored or drafted snapshot is stored, and not   *)
(*     later than it.                                                      *)
(***************************************************************************)
Drafting == {w \in Writers : draft[w] # None}

IInv ==
    /\ TypeOK
    /\ \A i \in Persisted :
          /\ Snap(i).id = i
          /\ Snap(i).ts \in TrimmedTime \cup {None}
          /\ Snap(i).prev # None =>
                /\ Snap(i).prev[1] \in Persisted
                /\ ParentNotLater(Snap(Snap(i).prev[1]).ts, Snap(i).ts)
    /\ \A w \in Drafting :
          /\ draft[w].id \notin Persisted
          /\ draft[w].ts \in TrimmedTime
          /\ draft[w].prev # None =>
                /\ draft[w].prev[1] \in Persisted
                /\ ParentNotLater(Snap(draft[w].prev[1]).ts, draft[w].ts)
    /\ \A w, v \in Drafting : w # v => draft[w].id # draft[v].id

-----------------------------------------------------------------------------
\* Lemmas about the timestamp arithmetic of chrono and meta.

LEMMA EpsilonType == Epsilon \in Time
BY SubTicksAssumption, EpsAssumption DEF Epsilon, Time

LEMMA ClockReadingsType == ClockReadings \subseteq Time
BY MaxMicrosAssumption DEF ClockReadings, Time

LEMMA TimeAddType ==
    ASSUME NEW a \in Time, NEW d \in Time
    PROVE  TimeAdd(a, d) \in Time
BY SubTicksAssumption DEF TimeAdd, Time

LEMMA TrimType ==
    ASSUME NEW t \in Time
    PROVE  TrimTimestampToMicroSecond(t) \in TrimmedTime
BY SubTicksAssumption DEF TrimTimestampToMicroSecond, TrimmedTime, Time

LEMMA MonotonicType ==
    ASSUME NEW now \in Time, NEW pts \in Time \cup {None}
    PROVE  MonotonicallyIncreasedTimestamp(now, pts) \in Time
BY EpsilonType, TimeAddType DEF MonotonicallyIncreasedTimestamp

\* The timestamp TableSnapshot::new gives a successor of a snapshot whose
\* timestamp was trimmed is not earlier than that timestamp.
LEMMA NewTimestampNotEarlier ==
    ASSUME NEW now \in Time, NEW pts \in TrimmedTime
    PROVE  TimeLeq(pts, TrimTimestampToMicroSecond(
                            MonotonicallyIncreasedTimestamp(now, pts)))
<1>1. CASE ~TimeLess(pts, now)
  <2>1. pts # None
    BY NoneAssumption DEF TrimmedTime
  <2>2. MonotonicallyIncreasedTimestamp(now, pts) = TimeAdd(pts, Epsilon)
    BY <1>1, <2>1 DEF MonotonicallyIncreasedTimestamp
  <2>3. TimeAdd(pts, Epsilon).us >= pts.us
    BY SubTicksAssumption, EpsilonType DEF TimeAdd, Time, TrimmedTime
  <2>4. TimeAdd(pts, Epsilon).us \in Nat
    BY SubTicksAssumption, EpsilonType, TimeAddType DEF TrimmedTime, Time
  <2>. QED
    BY <2>2, <2>3, <2>4 DEF TrimTimestampToMicroSecond, TimeLeq, TrimmedTime, Time
<1>2. CASE TimeLess(pts, now)
  <2>1. MonotonicallyIncreasedTimestamp(now, pts) = now
    BY <1>2 DEF MonotonicallyIncreasedTimestamp
  <2>. QED
    BY <1>2, <2>1 DEF TrimTimestampToMicroSecond, TimeLeq, TimeLess, TrimmedTime, Time
<1>. QED
  BY <1>1, <1>2

\* TableSnapshot::new builds a well-typed snapshot with a trimmed timestamp.
LEMMA NewSnapshotType ==
    ASSUME NEW id \in Ids, NEW pts \in Time \cup {None},
           NEW prevId \in (Ids \X FormatVersions) \cup {None},
           NEW segs \in Seq(Segs), NEW now \in Time
    PROVE  /\ NewSnapshot(id, pts, prevId, segs, now) \in Snapshot
           /\ NewSnapshot(id, pts, prevId, segs, now).ts \in TrimmedTime
<1>1. TrimTimestampToMicroSecond(MonotonicallyIncreasedTimestamp(now, pts)) \in TrimmedTime
  BY MonotonicType, TrimType
<1>. QED
  BY <1>1 DEF NewSnapshot, Snapshot, TrimmedTime, FormatVersions, VERSION, V2VERSION

\* The reader's conversion of a stored file keeps its id, timestamp and
\* segments, and yields a snapshot.
LEMMA LoadSnapshotFields ==
    ASSUME NEW f \in File
    PROVE  /\ LoadSnapshot(f) \in Snapshot
           /\ LoadSnapshot(f).id = f.body.id
           /\ LoadSnapshot(f).ts = f.body.ts
           /\ LoadSnapshot(f).segments = f.body.segments
BY DEF LoadSnapshot, FromV2, File, Snapshot, FormatVersions, VERSION, V2VERSION
-----------------------------------------------------------------------------
\* IInv holds initially: no snapshot, or one v2 snapshot with no parent.
LEMMA InitIInv == Init => IInv
<1>. SUFFICES ASSUME Init PROVE IInv
  OBVIOUS
<1>1. Drafting = {}
  BY DEF Init, Drafting
<1>2. CASE store = [i \in Ids |-> None]
  <2>1. Persisted = {}
    BY <1>2 DEF Persisted
  <2>2. TypeOK
    BY <1>2 DEF Init, TypeOK
  <2>. QED
    BY <1>1, <2>1, <2>2 DEF IInv
<1>3. CASE ~(store = [i \in Ids |-> None])
  <2>. PICK i \in Ids, ts \in {None} \cup {t \in ClockReadings : t.sub = 0},
            segs \in {<<>>} \cup {<<s>> : s \in Segs} :
          store = [j \in Ids |->
                     IF j = i
                     THEN [version |-> V2VERSION,
                           body |-> [fv |-> V2VERSION, id |-> i, ts |-> ts,
                                     prev |-> None, segments |-> segs]]
                     ELSE None]
    BY <1>3 DEF Init
  <2>1. ts \in TrimmedTime \cup {None}
    BY ClockReadingsType DEF TrimmedTime
  <2>2. segs \in Seq(Segs)
    <3>1. CASE segs = <<>>
      BY <3>1
    <3>2. CASE segs # <<>>
      <4>. PICK s \in Segs : segs = <<s>>
        BY <3>2
      <4>. QED
        OBVIOUS
    <3>. QED
      BY <3>1, <3>2
  <2>3. [version |-> V2VERSION,
         body |-> [fv |-> V2VERSION, id |-> i, ts |-> ts,
                   prev |-> None, segments |-> segs]] \in File
    BY <2>1, <2>2 DEF File, Snapshot, TrimmedTime, FormatVersions, V2VERSION
  <2>4. Persisted = {i}
    BY <2>3, NoneAssumption DEF Persisted
  <2>5. TypeOK
    BY <2>3 DEF Init, TypeOK
  <2>6. Snap(i).id = i /\ Snap(i).ts \in TrimmedTime \cup {None} /\ Snap(i).prev = None
    BY <2>1 DEF Snap
  <2>. QED
    BY <1>1, <2>4, <2>5, <2>6 DEF IInv
<1>. QED
  BY <1>2, <1>3

\* The clauses of IInv about drafts, for a draft-only step that keeps the store.
LEMMA DraftStep ==
    ASSUME IInv, NEW w \in Writers, store' = store, draft[w] = None,
           NEW nd \in Snapshot, draft' = [draft EXCEPT ![w] = nd],
           nd.id \in FreshIds, nd.ts \in TrimmedTime,
           nd.prev # None =>
              /\ nd.prev[1] \in Persisted
              /\ ParentNotLater(Snap(nd.prev[1]).ts, nd.ts)
    PROVE  IInv'
<1>1. TypeOK'
  BY DEF IInv, TypeOK
<1>2. Persisted' = Persisted /\ \A i \in Ids : Snap(i)' = Snap(i)
  BY DEF Persisted, Snap
<1>3. Drafting' = Drafting \cup {w}
  BY NoneAssumption DEF Drafting, IInv, TypeOK
<1>4. nd.id \notin Persisted /\ \A v \in Drafting : nd.id # draft[v].id
  BY DEF FreshIds, DraftIds, Drafting
<1>5. w \notin Drafting
  BY DEF Drafting
<1>6. draft'[w] = nd /\ \A v \in Writers \ {w} : draft'[v] = draft[v]
  BY DEF IInv, TypeOK
<1>7. ASSUME NEW i \in Persisted'
      PROVE  (/\ Snap(i).id = i
              /\ Snap(i).ts \in TrimmedTime \cup {None}
              /\ Snap(i).prev # None =>
                    /\ Snap(i).prev[1] \in Persisted
                    /\ ParentNotLater(Snap(Snap(i).prev[1]).ts, Snap(i).ts))'
  <2>1. i \in Ids /\ i \in Persisted
    BY <1>2 DEF Persisted
  <2>2. Snap(i)' = Snap(i)
    BY <1>2, <2>1
  <2>3. Snap(i).prev # None => Snap(i).prev[1] \in Ids
    BY <2>1 DEF IInv, Persisted
  <2>. QED
    BY <1>2, <2>1, <2>2, <2>3 DEF IInv
<1>8. ASSUME NEW v \in Drafting'
      PROVE  (/\ draft[v].id \notin Persisted
              /\ draft[v].ts \in TrimmedTime
              /\ draft[v].prev # None =>
                    /\ draft[v].prev[1] \in Persisted
                    /\ ParentNotLater(Snap(draft[v].prev[1]).ts, draft[v].ts))'
  <2>1. CASE v = w
    <3>1. nd.prev # None => nd.prev[1] \in Ids
      BY DEF Persisted
    <3>. QED
      BY <1>2, <1>4, <1>6, <2>1, <3>1
  <2>2. CASE v # w
    <3>1. v \in Drafting /\ draft'[v] = draft[v]
      BY <1>3, <1>6, <2>2
    <3>2. draft[v].prev # None => draft[v].prev[1] \in Ids
      BY <3>1 DEF IInv, Persisted
    <3>. QED
      BY <1>2, <3>1, <3>2 DEF IInv
  <2>. QED
    BY <2>1, <2>2
<1>9. \A v, u \in Drafting' : v # u => draft'[v].id # draft'[u].id
  BY <1>3, <1>4, <1>5, <1>6 DEF IInv
<1>. QED
  BY <1>1, <1>7, <1>8, <1>9 DEF IInv

\* CreateTable keeps IInv: a fresh id and a trimmed clock reading, no parent.
LEMMA CreateTableIInv ==
    ASSUME IInv, NEW w \in Writers, CreateTable(w)
    PROVE  IInv'
<1>. PICK id \in FreshIds, now \in ClockReadings :
        draft' = [draft EXCEPT ![w] = NewSnapshot(id, None, None, <<>>, now)]
  BY DEF CreateTable
<1>1. id \in Ids /\ now \in Time
  BY ClockReadingsType DEF FreshIds
<1>2. /\ NewSnapshot(id, None, None, <<>>, now) \in Snapshot
      /\ NewSnapshot(id, None, None, <<>>, now).ts \in TrimmedTime
  <2>1. None \in Time \cup {None} /\ None \in (Ids \X FormatVersions) \cup {None}
    OBVIOUS
  <2>2. <<>> \in Seq(Segs)
    OBVIOUS
  <2>. QED
    BY <1>1, <2>1, <2>2, NewSnapshotType
<1>3. NewSnapshot(id, None, None, <<>>, now).id = id
      /\ NewSnapshot(id, None, None, <<>>, now).prev = None
  BY DEF NewSnapshot
<1>. QED
  BY <1>2, <1>3, DraftStep DEF CreateTable

\* Derive keeps IInv: the link names the stored parent, whose timestamp
\* the new one does not precede.
LEMMA DeriveIInv ==
    ASSUME IInv, NEW w \in Writers, Derive(w)
    PROVE  IInv'
<1>. PICK p \in Persisted, id \in FreshIds, now \in ClockReadings :
        draft' = [draft EXCEPT ![w] = FromPrevious(LoadSnapshot(store[p]), id, now)]
  BY DEF Derive
<1> DEFINE L == LoadSnapshot(store[p])
           nd == FromPrevious(L, id, now)
<1>1. id \in Ids /\ now \in Time /\ p \in Ids
  BY ClockReadingsType DEF FreshIds, Persisted
<1>2. store[p] \in File
  BY NoneAssumption DEF IInv, TypeOK, Persisted
<1>3. L \in Snapshot /\ L.id = p /\ L.ts = Snap(p).ts
  BY <1>2, LoadSnapshotFields DEF IInv, Snap
<1>4. nd = NewSnapshot(id, L.ts, <<L.id, L.fv>>, L.segments, now)
  BY DEF FromPrevious
<1>5. nd \in Snapshot /\ nd.ts \in TrimmedTime
  <2>1. L.ts \in Time \cup {None} /\ L.segments \in Seq(Segs)
    BY <1>3 DEF Snapshot
  <2>2. <<L.id, L.fv>> \in (Ids \X FormatVersions) \cup {None}
    BY <1>3 DEF Snapshot
  <2>. QED
    BY <1>1, <1>4, <2>1, <2>2, NewSnapshotType
<1>6. nd.id = id /\ nd.prev = <<p, L.fv>>
  BY <1>3, <1>4 DEF NewSnapshot
<1>7. ParentNotLater(Snap(p).ts, nd.ts)
  <2>. SUFFICES ASSUME Snap(p).ts # None PROVE TimeLeq(Snap(p).ts, nd.ts)
    BY DEF ParentNotLater
  <2>1. Snap(p).ts \in TrimmedTime
    BY DEF IInv
  <2>. QED
    BY <1>1, <1>3, <1>4, <2>1, NewTimestampNotEarlier DEF NewSnapshot
<1>8. nd.prev[1] = p
  BY <1>6
<1>9. store' = store /\ draft[w] = None
  BY DEF Derive
<1>. QED
  BY <1>5, <1>6, <1>7, <1>8, <1>9, DraftStep

\* AddSegment keeps IInv: only the draft's segment list changes.
LEMMA AddSegmentIInv ==
    ASSUME IInv, NEW w \in Writers, AddSegment(w)
    PROVE  IInv'
<1>1. draft[w] \in Snapshot
  BY NoneAssumption DEF AddSegment, IInv, TypeOK
<1>. PICK seg \in Segs, segs2 \in Seq(Segs) :
        draft' = [draft EXCEPT ![w].segments = segs2]
  <2>. PICK seg \in Segs \ UsedSegs :
          \/ draft' = [draft EXCEPT ![w].segments = Append(@, seg)]
          \/ draft' = [draft EXCEPT ![w].segments = <<seg>> \o @]
    BY DEF AddSegment
  <2>1. draft[w].segments \in Seq(Segs)
    BY <1>1 DEF Snapshot
  <2>2. Append(draft[w].segments, seg) \in Seq(Segs)
        /\ <<seg>> \o draft[w].segments \in Seq(Segs)
    BY <2>1
  <2>. QED
    BY <2>2
<1> DEFINE nd == [draft[w] EXCEPT !.segments = segs2]
<1>2. nd \in Snapshot /\ nd # None
  BY <1>1, NoneAssumption DEF Snapshot
<1>3. nd.id = draft[w].id /\ nd.ts = draft[w].ts /\ nd.prev = draft[w].prev
  BY <1>1 DEF Snapshot
<1>4. draft' = [draft EXCEPT ![w] = nd] /\ store' = store
  BY DEF AddSegment
<1>5. TypeOK'
  BY <1>2, <1>4 DEF IInv, TypeOK
<1>6. Persisted' = Persisted /\ \A i \in Ids : Snap(i)' = Snap(i)
  BY <1>4 DEF Persisted, Snap
<1>7. Drafting' = Drafting /\ w \in Drafting
  BY <1>2, <1>4 DEF Drafting, AddSegment, IInv, TypeOK
<1>8. \A v \in Drafting :
         /\ draft'[v].id = draft[v].id
         /\ draft'[v].ts = draft[v].ts
         /\ draft'[v].prev = draft[v].prev
  BY <1>3, <1>4 DEF IInv, TypeOK
<1>9. \A i \in Persisted : Snap(i).prev # None => Snap(i).prev[1] \in Ids
  BY DEF IInv, Persisted
<1>10. \A v \in Drafting : draft[v].prev # None => draft[v].prev[1] \in Ids
  BY DEF IInv, Persisted
<1>. QED
  BY <1>5, <1>6, <1>7, <1>8, <1>9, <1>10 DEF IInv, Persisted

\* Persist keeps IInv: the draft is stored under its own, fresh id, so no
\* stored snapshot (in particular no parent) is overwritten.
LEMMA PersistIInv ==
    ASSUME IInv, NEW w \in Writers, Persist(w)
    PROVE  IInv'
<1> DEFINE d == draft[w]
<1>1. w \in Drafting /\ d \in Snapshot
  BY NoneAssumption DEF Persist, Drafting, IInv, TypeOK
<1>2. d.id \in Ids /\ d.id \notin Persisted /\ d.ts \in TrimmedTime
  BY <1>1 DEF IInv, Snapshot
<1>3. store' = [store EXCEPT ![d.id] = [version |-> d.fv, body |-> d]]
      /\ draft' = [draft EXCEPT ![w] = None]
  BY DEF Persist, ToBytes
<1>4. [version |-> d.fv, body |-> d] \in File
  BY <1>1 DEF File, Snapshot
<1>5. TypeOK'
  BY <1>3, <1>4 DEF IInv, TypeOK
<1>6. Persisted' = Persisted \cup {d.id}
  BY <1>2, <1>3, <1>4, NoneAssumption DEF Persisted, IInv, TypeOK
<1>7. store'[d.id].body = d /\ \A i \in Persisted : Snap(i)' = Snap(i)
  <2>1. store'[d.id] = [version |-> d.fv, body |-> d]
    BY <1>2, <1>3 DEF IInv, TypeOK
  <2>2. \A i \in Persisted : store'[i] = store[i]
    BY <1>2, <1>3 DEF IInv, TypeOK, Persisted
  <2>. QED
    BY <2>1, <2>2 DEF Snap
<1>8. Drafting' = Drafting \ {w}
  BY <1>3 DEF Drafting, IInv, TypeOK
<1>9. \A v \in Drafting' : draft'[v] = draft[v] /\ draft[v].id # d.id
  BY <1>1, <1>3, <1>8 DEF IInv, TypeOK
<1>10. ASSUME NEW i \in Persisted'
       PROVE  (/\ Snap(i).id = i
               /\ Snap(i).ts \in TrimmedTime \cup {None}
               /\ Snap(i).prev # None =>
                     /\ Snap(i).prev[1] \in Persisted
                     /\ ParentNotLater(Snap(Snap(i).prev[1]).ts, Snap(i).ts))'
  <2>1. CASE i = d.id
    <3>1. d.id = d.id /\ d.ts \in TrimmedTime
      BY <1>2
    <3>2. d.prev # None => d.prev[1] \in Persisted /\ ParentNotLater(Snap(d.prev[1]).ts, d.ts)
      BY <1>1 DEF IInv
    <3>3. Snap(i)' = d
      BY <1>7, <2>1 DEF Snap
    <3>4. CASE d.prev = None
      BY <1>6, <2>1, <3>1, <3>3, <3>4
    <3>5. CASE d.prev # None
      <4>. PICK q \in Persisted : q = d.prev[1]
        BY <3>2, <3>5
      <4>1. Snap(q)' = Snap(q) /\ ParentNotLater(Snap(q).ts, d.ts)
        BY <1>7, <3>2, <3>5
      <4>. QED
        BY <1>6, <2>1, <3>1, <3>3, <4>1
    <3>. QED
      BY <3>4, <3>5
  <2>2. CASE i # d.id
    <3>1. i \in Persisted /\ Snap(i)' = Snap(i)
      BY <1>6, <1>7, <2>2
    <3>2. Snap(i).prev # None =>
             /\ Snap(i).prev[1] \in Persisted
             /\ Snap(Snap(i).prev[1])' = Snap(Snap(i).prev[1])
      BY <1>7, <3>1 DEF IInv
    <3>3. Snap(i).id = i /\ Snap(i).ts \in TrimmedTime \cup {None}
      BY <3>1 DEF IInv
    <3>4. Snap(i).prev # None => ParentNotLater(Snap(Snap(i).prev[1]).ts, Snap(i).ts)
      BY <3>1 DEF IInv
    <3>. QED
      BY <1>6, <3>1, <3>2, <3>3, <3>4
  <2>. QED
    BY <2>1, <2>2
<1>11. ASSUME NEW v \in Drafting'
       PROVE  (/\ draft[v].id \notin Persisted
               /\ draft[v].ts \in TrimmedTime
               /\ draft[v].prev # None =>
                     /\ draft[v].prev[1] \in Persisted
                     /\ ParentNotLater(Snap(draft[v].prev[1]).ts, draft[v].ts))'
  <2>1. v \in Drafting /\ draft'[v] = draft[v] /\ draft[v].id # d.id
    BY <1>8, <1>9
  <2>2. draft[v].prev # None => draft[v].prev[1] \in Persisted
    BY <2>1 DEF IInv
  <2>. QED
    BY <1>6, <1>7, <2>1, <2>2 DEF IInv
<1>12. \A v, u \in Drafting' : v # u => draft'[v].id # draft'[u].id
  BY <1>8, <1>9 DEF IInv
<1>. QED
  BY <1>5, <1>10, <1>11, <1>12 DEF IInv

\* Every step of the snapshot writers, and every stutter, keeps IInv.
LEMMA NextIInv == IInv /\ [Next]_vars => IInv'
<1>. SUFFICES ASSUME IInv, [Next]_vars PROVE IInv'
  OBVIOUS
<1>1. ASSUME NEW w \in Writers, CreateTable(w) PROVE IInv'
  BY <1>1, CreateTableIInv
<1>2. ASSUME NEW w \in Writers, Derive(w) PROVE IInv'
  BY <1>2, DeriveIInv
<1>3. ASSUME NEW w \in Writers, AddSegment(w) PROVE IInv'
  BY <1>3, AddSegmentIInv
<1>4. ASSUME NEW w \in Writers, Persist(w) PROVE IInv'
  BY <1>4, PersistIInv
<1>5. CASE UNCHANGED vars
  BY <1>5 DEF vars, IInv, TypeOK, Persisted, Snap, Drafting, ParentNotLater
<1>. QED
  BY <1>1, <1>2, <1>3, <1>4, <1>5 DEF Next

(***************************************************************************)
(* Type correctness of the snapshot chain: whatever the writers interleave, *)
(* the store holds files of a known format version whose snapshots are    *)
(* well formed, and every draft built by TableSnapshot::new,               *)
(* from_previous or a segment append is a well-formed snapshot.            *)
(***************************************************************************)
THEOREM TypeCorrect == Spec => []TypeOK
<1>1. IInv => TypeOK
  BY DEF IInv
<1>. QED
  BY <1>1, InitIInv, NextIInv, PTL DEF Spec

(***************************************************************************)
(* Spec 3 invariant (1), about TableSnapshot::new and from_previous: for  *)
(* every clock resolution, every epsilon and every number of writers, a   *)
(* persisted snapshot's timestamp is never earlier than its parent's.     *)
(* The argument: the parent is persisted before the child is derived and *)
(* is never overwritten (drafts take fresh ids); its timestamp is trimmed, *)
(* and trimming the adjusted clock reading cannot go below a trimmed      *)
(* timestamp that was below it.                                           *)
(***************************************************************************)
THEOREM ChainTimestampsMonotone == Spec => []ChainTimestampsNonDecreasing
<1>1. IInv => ChainTimestampsNonDecreasing
  BY DEF IInv, ChainTimestampsNonDecreasing, Linked, Parent, Persisted, ParentNotLater
<1>. QED
  BY <1>1, InitIInv, NextIInv, PTL DEF Spec

-----------------------------------------------------------------------------
\* The refinement of the append-only log SnapshotLog.

\* The entry a stored file stands for.
LEMMA LogEntryType ==
    ASSUME TypeOK, NEW i \in Ids, store[i] # None
    PROVE  LogOf[i] \in [ts : Time \cup {None}, parent : Ids \cup {None}]
<1>1. Snap(i) \in Snapshot
  BY DEF TypeOK, File, Snap
<1>2. Snap(i).prev # None => Snap(i).prev[1] \in Ids
  BY <1>1 DEF Snapshot
<1>. QED
  BY <1>1, <1>2 DEF LogOf, Snapshot

\* The log the files stand for is well typed.
LEMMA LogOfType == TypeOK => Log!TypeOK
<1>. SUFFICES ASSUME TypeOK, NEW i \in Ids
              PROVE  LogOf[i] \in Log!Entry \cup {None}
  BY DEF LogOf, Log!TypeOK
<1>1. CASE store[i] = None
  BY <1>1 DEF LogOf
<1>2. CASE store[i] # None
  BY <1>2, LogEntryType DEF Log!Entry
<1>. QED
  BY <1>1, <1>2

\* A file stands for a log entry, never for None.
LEMMA LogOfNone ==
    ASSUME TypeOK, NEW i \in Ids
    PROVE  LogOf[i] = None <=> store[i] = None
<1>1. store[i] # None => LogOf[i] \in [ts : Time \cup {None}, parent : Ids \cup {None}]
  BY LogEntryType
<1>2. store[i] = None => LogOf[i] = None
  BY DEF LogOf
<1>. QED
  BY <1>1, <1>2, NoneAssumption

\* The initial files stand for an empty log or a single root version.
LEMMA InitLog == Init => Log!Init
<1>. SUFFICES ASSUME Init PROVE Log!Init
  OBVIOUS
<1>1. TypeOK /\ \A i \in Persisted : Snap(i).prev = None
  <2>1. IInv
    BY InitIInv
  <2>2. \A i \in Persisted : Snap(i).prev = None
    BY DEF Init, Persisted, Snap
  <2>. QED
    BY <2>1, <2>2 DEF IInv
<1>2. \A i, j \in Persisted : i = j
  BY DEF Init, Persisted
<1>3. Log!Committed = Persisted
  BY <1>1, LogOfNone DEF Log!Committed, Persisted
<1>4. \A i \in Persisted : LogOf[i].parent = None
  BY <1>1 DEF LogOf, Persisted
<1>. QED
  BY <1>1, <1>2, <1>3, <1>4, LogOfType DEF Log!Init

\* A step that keeps the files keeps the log.
LEMMA StoreUnchangedLog == store' = store => LogOf' = LogOf
BY DEF LogOf, Snap

\* Persisting a draft commits its version: a fresh id, a timestamp, and a
\* persisted parent that is not later.
LEMMA PersistLog ==
    ASSUME IInv, NEW w \in Writers, Persist(w)
    PROVE  Log!Commit(draft[w].id)
<1> DEFINE d == draft[w]
<1> DEFINE e == [ts |-> d.ts, parent |-> IF d.prev = None THEN None ELSE d.prev[1]]
<1>1. w \in Drafting /\ d \in Snapshot
  BY NoneAssumption DEF Persist, Drafting, IInv, TypeOK
<1>2. d.id \in Ids /\ d.id \notin Persisted /\ d.ts \in TrimmedTime
  BY <1>1 DEF IInv, Snapshot
<1>3. store' = [store EXCEPT ![d.id] = [version |-> d.fv, body |-> d]]
  BY DEF Persist, ToBytes
<1>4. LogOf[d.id] = None
  BY <1>2, LogOfNone DEF IInv, Persisted
<1>5. LogOf'[d.id] = e
  <2>1. store'[d.id] = [version |-> d.fv, body |-> d]
    BY <1>2, <1>3 DEF IInv, TypeOK
  <2>2. [version |-> d.fv, body |-> d] \in File
    BY <1>1 DEF File, Snapshot
  <2>3. store'[d.id] # None
    BY <2>1, <2>2, NoneAssumption
  <2>. QED
    BY <1>2, <2>1, <2>3 DEF LogOf, Snap
<1>6. e \in [ts : Time, parent : Ids \cup {None}]
  BY <1>1, <1>2 DEF Snapshot, TrimmedTime
<1>7. \A i \in Ids : i # d.id => LogOf'[i] = LogOf[i]
  <2>1. \A i \in Ids : i # d.id => store'[i] = store[i]
    BY <1>2, <1>3 DEF IInv, TypeOK
  <2>. QED
    BY <2>1 DEF LogOf, Snap
<1>8. LogOf' = [LogOf EXCEPT ![d.id] = LogOf'[d.id]]
  <2>1. LogOf' = [i \in Ids |-> LogOf'[i]]
    BY DEF LogOf
  <2>2. [LogOf EXCEPT ![d.id] = LogOf'[d.id]]
          = [i \in Ids |-> IF i = d.id THEN LogOf'[d.id] ELSE LogOf[i]]
    BY <1>2 DEF LogOf
  <2>. QED
    BY <1>7, <2>1, <2>2
<1>9. e.parent # None =>
        /\ LogOf[e.parent] # None
        /\ LogOf[e.parent].ts # None => TimeLeq(LogOf[e.parent].ts, e.ts)
  <2>. SUFFICES ASSUME e.parent # None
                PROVE  /\ LogOf[e.parent] # None
                       /\ LogOf[e.parent].ts # None => TimeLeq(LogOf[e.parent].ts, e.ts)
    OBVIOUS
  <2>1. d.prev # None /\ e.parent = d.prev[1]
    OBVIOUS
  <2>2. d.prev[1] \in Persisted /\ ParentNotLater(Snap(d.prev[1]).ts, d.ts)
    BY <1>1, <2>1 DEF IInv
  <2>3. LogOf[d.prev[1]] # None /\ LogOf[d.prev[1]].ts = Snap(d.prev[1]).ts
    BY <2>2, LogOfNone DEF IInv, Persisted, LogOf
  <2>. QED
    BY <2>1, <2>2, <2>3 DEF ParentNotLater
<1>. QED
  BY <1>4, <1>5, <1>6, <1>8, <1>9 DEF Log!Commit

\* Every step of the writers maps to a commit or leaves the log alone.
LEMMA NextLog == IInv /\ [Next]_vars => [Log!Next]_LogOf
<1>. SUFFICES ASSUME IInv, [Next]_vars PROVE [Log!Next]_LogOf
  OBVIOUS
<1>1. ASSUME NEW w \in Writers, Persist(w) PROVE Log!Next
  <2>1. draft[w].id \in Ids
    BY <1>1, NoneAssumption DEF Persist, IInv, TypeOK, Snapshot
  <2>. QED
    BY <1>1, <2>1, PersistLog DEF Log!Next
<1>2. ASSUME NEW w \in Writers, CreateTable(w) \/ Derive(w) \/ AddSegment(w)
      PROVE  LogOf' = LogOf
  BY <1>2, StoreUnchangedLog DEF CreateTable, Derive, AddSegment
<1>3. CASE UNCHANGED vars
  BY <1>3, StoreUnchangedLog DEF vars
<1>. QED
  BY <1>1, <1>2, <1>3 DEF Next

(***************************************************************************)
(* The persisted chain implements the append-only log of versions: for     *)
(* every pool of ids and writers and every clock, to_bytes never           *)
(* overwrites a persisted snapshot, each Persist commits one new version   *)
(* whose parent is persisted and not stamped later, and TableSnapshot::new, *)
(* from_previous and segment appends change no persisted version.  The    *)
(* argument rests on IInv: drafts take ids no file has, and their parents *)
(* are persisted and not later.                                            *)
(***************************************************************************)
THEOREM RefinesSnapshotLog == Spec => SnapshotLogSpec
<1>1. Init => Log!Init
  BY InitLog
<1>2. IInv /\ [Next]_vars => [Log!Next]_LogOf
  BY NextLog
<1>. QED
  BY <1>1, <1>2, InitIInv, NextIInv, PTL DEF Spec, SnapshotLogSpec, Log!Spec


-----------------------------------------------------------------------------
\* The ordinals build_segment_id_map gives a sequence of distinct segments.

\* In a sequence without repeats, the last position of the segment at
\* position i is i itself, so the segment's ordinal is count - i.
LEMMA OrdinalOfPosition ==
    ASSUME NEW s, s.segments \in Seq(Segs), IsInjective(s.segments),
           NEW i \in 1 .. Len(s.segments)
    PROVE  /\ s.segments[i] \in ToSet(s.segments)
           /\ BuildSegmentIdMap(s)[s.segments[i]] = Len(s.segments) - i
<1> DEFINE segs == s.segments
           lastPos(loc) == CHOOSE k \in DOMAIN segs :
                              segs[k] = loc /\ \A j \in DOMAIN segs : segs[j] = loc => j =< k
<1>1. segs[i] \in ToSet(segs)
  BY DEF ToSet
<1>2. \A k \in DOMAIN segs : segs[k] = segs[i] => k = i
  BY DEF IsInjective
<1>3. lastPos(segs[i]) = i
  <2>1. i \in DOMAIN segs /\ segs[i] = segs[i]
        /\ \A j \in DOMAIN segs : segs[j] = segs[i] => j =< i
    BY <1>2
  <2>. QED
    BY <1>2, <2>1
<1>. QED
  BY <1>1, <1>3 DEF BuildSegmentIdMap

\* The ordinals of a sequence of distinct segments are 0 .. count-1.
LEMMA OrdinalRange ==
    ASSUME NEW s, s.segments \in Seq(Segs), IsInjective(s.segments)
    PROVE  Range(BuildSegmentIdMap(s)) = 0 .. Len(s.segments) - 1
<1> DEFINE segs == s.segments
           n == Len(segs)
<1>1. DOMAIN BuildSegmentIdMap(s) = ToSet(segs)
  BY DEF BuildSegmentIdMap
<1>2. ToSet(segs) = {segs[i] : i \in 1 .. n}
  BY DEF ToSet
<1>3. \A i \in 1 .. n : BuildSegmentIdMap(s)[segs[i]] = n - i
  BY OrdinalOfPosition
<1>4. Range(BuildSegmentIdMap(s)) \subseteq 0 .. n - 1
  BY <1>1, <1>2, <1>3 DEF Range
<1>5. 0 .. n - 1 \subseteq Range(BuildSegmentIdMap(s))
  <2> SUFFICES ASSUME NEW o \in 0 .. n - 1 PROVE o \in Range(BuildSegmentIdMap(s))
    OBVIOUS
  <2>1. n - o \in 1 .. n /\ n - (n - o) = o
    OBVIOUS
  <2>. QED
    BY <1>1, <1>2, <1>3, <2>1 DEF Range
<1>. QED
  BY <1>4, <1>5

\* A suffix of a sequence is its tail, read at an offset.
LEMMA SuffixAt ==
    ASSUME NEW p \in Seq(Segs), NEW q \in Seq(Segs), IsSuffix(p, q)
    PROVE  /\ Len(p) =< Len(q)
           /\ \A j \in 1 .. Len(p) : p[j] = q[Len(q) - Len(p) + j]
<1>1. Len(Reverse(p)) = Len(p) /\ Len(Reverse(q)) = Len(q)
  BY DEF Reverse
<1>2. Len(p) =< Len(q)
  BY <1>1 DEF IsSuffix, IsPrefix
<1>3. \A k \in 1 .. Len(p) : Reverse(p)[k] = Reverse(q)[k]
  BY <1>1, <1>2 DEF IsSuffix, IsPrefix
<1>4. ASSUME NEW j \in 1 .. Len(p) PROVE p[j] = q[Len(q) - Len(p) + j]
  <2> DEFINE k == Len(p) - j + 1
  <2>1. k \in 1 .. Len(p)
    OBVIOUS
  <2>2. Reverse(p)[k] = p[j] /\ Reverse(q)[k] = q[Len(q) - Len(p) + j]
    BY <1>2 DEF Reverse
  <2>. QED
    BY <1>3, <2>1, <2>2
<1>. QED
  BY <1>2, <1>4

\* Position j of a suffix is position count - |suffix| + j of the sequence.
LEMMA OffsetInRange ==
    ASSUME NEW q \in Seq(Segs), NEW p \in Seq(Segs), Len(p) =< Len(q),
           NEW j \in 1 .. Len(p)
    PROVE  Len(q) - Len(p) + j \in 1 .. Len(q)
OBVIOUS

\* A parent whose segments end the child's keeps its ordinals in the child.
LEMMA OrdinalsOfSuffix ==
    ASSUME NEW c, NEW p, c.segments \in Seq(Segs), p.segments \in Seq(Segs),
           IsInjective(c.segments), IsInjective(p.segments),
           IsSuffix(p.segments, c.segments)
    PROVE  \A loc \in ToSet(p.segments) :
              BuildSegmentIdMap(c)[loc] = BuildSegmentIdMap(p)[loc]
<1> SUFFICES ASSUME NEW j \in 1 .. Len(p.segments)
             PROVE  BuildSegmentIdMap(c)[p.segments[j]] = BuildSegmentIdMap(p)[p.segments[j]]
  BY DEF ToSet
<1>1. /\ Len(p.segments) =< Len(c.segments)
      /\ p.segments[j] = c.segments[Len(c.segments) - Len(p.segments) + j]
  BY SuffixAt
<1> DEFINE k == Len(c.segments) - Len(p.segments) + j
<1>2. k \in 1 .. Len(c.segments)
  BY <1>1, OffsetInRange DEF k
<1>3. BuildSegmentIdMap(c)[c.segments[k]] = Len(c.segments) - k
  BY <1>2, OrdinalOfPosition
<1>4. BuildSegmentIdMap(p)[p.segments[j]] = Len(p.segments) - j
  BY OrdinalOfPosition
<1>. QED
  BY <1>1, <1>3, <1>4 DEF k

-----------------------------------------------------------------------------
(***************************************************************************)
(* No stored or drafted snapshot lists a segment twice: a writer only adds *)
(* a segment no snapshot uses yet, and from_previous copies its parent's   *)
(* list.  With it, build_segment_id_map gives each segment its own ordinal.*)
(***************************************************************************)
SegsDistinct ==
    /\ \A i \in Persisted : IsInjective(Snap(i).segments)
    /\ \A w \in Drafting : IsInjective(draft[w].segments)

\* Adding a segment that is not in a list of distinct segments, at either
\* end, keeps them distinct.
LEMMA InjectiveExtend ==
    ASSUME NEW q \in Seq(Segs), IsInjective(q), NEW seg \in Segs, seg \notin ToSet(q)
    PROVE  /\ Append(q, seg) \in Seq(Segs) /\ IsInjective(Append(q, seg))
           /\ <<seg>> \o q \in Seq(Segs) /\ IsInjective(<<seg>> \o q)
BY DEF IsInjective, ToSet

LEMMA InitSegsDistinct == Init => SegsDistinct
<1> SUFFICES ASSUME Init PROVE SegsDistinct
  OBVIOUS
<1>1. Drafting = {}
  BY DEF Init, Drafting
<1>2. CASE store = [i \in Ids |-> None]
  BY <1>1, <1>2 DEF SegsDistinct, Persisted
<1>3. ASSUME NEW i \in Ids, NEW segs \in {<<>>} \cup {<<s>> : s \in Segs},
             NEW f, store = [j \in Ids |-> IF j = i THEN f ELSE None],
             f.body.segments = segs
      PROVE  SegsDistinct
  <2>1. Persisted \subseteq {i}
    BY <1>3 DEF Persisted
  <2>2. Snap(i).segments = segs
    BY <1>3 DEF Snap
  <2>3. IsInjective(segs)
    BY DEF IsInjective
  <2>. QED
    BY <1>1, <2>1, <2>2, <2>3 DEF SegsDistinct
<1>4. ASSUME NEW i \in Ids, NEW ts, NEW segs \in {<<>>} \cup {<<s>> : s \in Segs},
             store = [j \in Ids |->
                IF j = i THEN [version |-> V2VERSION,
                               body |-> [fv |-> V2VERSION, id |-> i, ts |-> ts,
                                         prev |-> None, segments |-> segs]]
                ELSE None]
      PROVE  SegsDistinct
  BY <1>4, <1>3
<1>. QED
  BY <1>2, <1>4 DEF Init

\* A step that leaves the store alone and sets one free writer's draft to
\* a snapshot listing distinct segments keeps SegsDistinct.
LEMMA DraftSegsDistinct ==
    ASSUME IInv, SegsDistinct, NEW w \in Writers, store' = store,
           NEW nd \in Snapshot, draft' = [draft EXCEPT ![w] = nd],
           IsInjective(nd.segments)
    PROVE  SegsDistinct'
<1>1. Persisted' = Persisted /\ \A i \in Ids : Snap(i)' = Snap(i)
  BY DEF Persisted, Snap
<1>2. \A v \in Drafting' : v # w => v \in Drafting /\ draft'[v] = draft[v]
  BY DEF Drafting, IInv, TypeOK
<1>3. draft'[w] = nd
  BY DEF IInv, TypeOK
<1>. QED
  BY <1>1, <1>2, <1>3 DEF SegsDistinct, Persisted

LEMMA NextSegsDistinct == IInv /\ SegsDistinct /\ [Next]_vars => SegsDistinct'
<1> SUFFICES ASSUME IInv, SegsDistinct, [Next]_vars PROVE SegsDistinct'
  OBVIOUS
<1>1. ASSUME NEW w \in Writers, CreateTable(w) PROVE SegsDistinct'
  <2>1. PICK id \in FreshIds, now \in ClockReadings :
           draft' = [draft EXCEPT ![w] = NewSnapshot(id, None, None, <<>>, now)]
    BY <1>1 DEF CreateTable
  <2>2. NewSnapshot(id, None, None, <<>>, now) \in Snapshot
    <3>1. id \in Ids /\ now \in Time /\ <<>> \in Seq(Segs)
      BY ClockReadingsType DEF FreshIds
    <3>. QED
      BY <3>1, NewSnapshotType
  <2>3. IsInjective(NewSnapshot(id, None, None, <<>>, now).segments)
    BY DEF NewSnapshot, IsInjective
  <2>. QED
    BY <1>1, <2>1, <2>2, <2>3, DraftSegsDistinct DEF CreateTable
<1>2. ASSUME NEW w \in Writers, Derive(w) PROVE SegsDistinct'
  <2>1. PICK p \in Persisted, id \in FreshIds, now \in ClockReadings :
           draft' = [draft EXCEPT ![w] = FromPrevious(LoadSnapshot(store[p]), id, now)]
    BY <1>2 DEF Derive
  <2> DEFINE L == LoadSnapshot(store[p])
             nd == FromPrevious(L, id, now)
  <2>2. store[p] \in File
    BY NoneAssumption DEF IInv, TypeOK, Persisted
  <2>3. L \in Snapshot /\ L.segments = Snap(p).segments
    BY <2>2, LoadSnapshotFields DEF Snap
  <2>4. nd.segments = L.segments
    BY DEF FromPrevious, NewSnapshot
  <2>5. nd \in Snapshot
    <3>1. id \in Ids /\ now \in Time
      BY ClockReadingsType DEF FreshIds
    <3>2. L.ts \in Time \cup {None} /\ L.segments \in Seq(Segs)
          /\ <<L.id, L.fv>> \in (Ids \X FormatVersions) \cup {None}
      BY <2>3 DEF Snapshot
    <3>. QED
      BY <3>1, <3>2, NewSnapshotType DEF FromPrevious
  <2>. QED
    BY <1>2, <2>1, <2>3, <2>4, <2>5, DraftSegsDistinct DEF Derive, SegsDistinct
<1>3. ASSUME NEW w \in Writers, AddSegment(w) PROVE SegsDistinct'
  <2>1. draft[w] \in Snapshot /\ w \in Drafting
    BY <1>3, NoneAssumption DEF AddSegment, IInv, TypeOK, Drafting
  <2>2. PICK seg \in Segs \ UsedSegs :
           \/ draft' = [draft EXCEPT ![w].segments = Append(@, seg)]
           \/ draft' = [draft EXCEPT ![w].segments = <<seg>> \o @]
    BY <1>3 DEF AddSegment
  <2>3. seg \notin ToSet(draft[w].segments)
    <3>1. ToSet(draft[w].segments) \subseteq UsedSegs
      BY <2>1 DEF UsedSegs, Drafting
    <3>. QED
      BY <2>2, <3>1
  <2>4. draft[w].segments \in Seq(Segs) /\ IsInjective(draft[w].segments)
    BY <2>1 DEF Snapshot, SegsDistinct
  <2>5. PICK segs2 \in Seq(Segs) :
           /\ IsInjective(segs2)
           /\ draft' = [draft EXCEPT ![w].segments = segs2]
    <3>1. CASE draft' = [draft EXCEPT ![w].segments = Append(@, seg)]
      <4>1. Append(draft[w].segments, seg) \in Seq(Segs)
            /\ IsInjective(Append(draft[w].segments, seg))
        BY <2>3, <2>4, InjectiveExtend
      <4>. QED
        BY <3>1, <4>1
    <3>2. CASE draft' = [draft EXCEPT ![w].segments = <<seg>> \o @]
      <4>1. <<seg>> \o draft[w].segments \in Seq(Segs)
            /\ IsInjective(<<seg>> \o draft[w].segments)
        BY <2>3, <2>4, InjectiveExtend
      <4>. QED
        BY <3>2, <4>1
    <3>. QED
      BY <2>2, <3>1, <3>2
  <2> DEFINE nd == [draft[w] EXCEPT !.segments = segs2]
  <2>6. nd \in Snapshot /\ nd.segments = segs2
    BY <2>1, <2>5 DEF Snapshot
  <2>7. draft' = [draft EXCEPT ![w] = nd]
    BY <2>5
  <2>. QED
    BY <1>3, <2>5, <2>6, <2>7, DraftSegsDistinct DEF AddSegment
<1>4. ASSUME NEW w \in Writers, Persist(w) PROVE SegsDistinct'
  <2> DEFINE d == draft[w]
  <2>1. w \in Drafting /\ d \in Snapshot /\ d.id \in Ids
    BY <1>4, NoneAssumption DEF Persist, Drafting, IInv, TypeOK, Snapshot
  <2>2. store' = [store EXCEPT ![d.id] = [version |-> d.fv, body |-> d]]
        /\ draft' = [draft EXCEPT ![w] = None]
    BY <1>4 DEF Persist, ToBytes
  <2>3. \A i \in Persisted' : Snap(i)' = IF i = d.id THEN d ELSE Snap(i)
    BY <2>1, <2>2 DEF Persisted, Snap, IInv, TypeOK
  <2>4. \A i \in Persisted' : i # d.id => i \in Persisted
    BY <2>2 DEF Persisted, IInv, TypeOK
  <2>5. \A v \in Drafting' : v \in Drafting /\ draft'[v] = draft[v]
    BY <2>2 DEF Drafting, IInv, TypeOK
  <2>. QED
    BY <2>1, <2>3, <2>4, <2>5 DEF SegsDistinct
<1>5. CASE UNCHANGED vars
  BY <1>5 DEF vars, SegsDistinct, Persisted, Snap, Drafting
<1>. QED
  BY <1>1, <1>2, <1>3, <1>4, <1>5 DEF Next


\* Under the invariants, a linked snapshot and its parent are stored and
\* list distinct segments, so build_segment_id_map agrees on the parent's.
LEMMA IInvOrdinalStable == IInv /\ SegsDistinct => SegmentOrdinalStableUnderPrepend
<1> SUFFICES ASSUME IInv, SegsDistinct, NEW i \in Ids, Linked(i),
                    IsSuffix(Parent(i).segments, Snap(i).segments)
             PROVE  /\ \A loc \in ToSet(Parent(i).segments) :
                          BuildSegmentIdMap(Snap(i))[loc] = BuildSegmentIdMap(Parent(i))[loc]
                    /\ Range(BuildSegmentIdMap(Snap(i))) = 0 .. Len(Snap(i).segments) - 1
  BY DEF SegmentOrdinalStableUnderPrepend
<1>1. i \in Persisted /\ Snap(i).prev[1] \in Persisted
  BY DEF Linked, Persisted, IInv
<1>2. \A j \in Persisted : Snap(j).segments \in Seq(Segs)
  BY NoneAssumption DEF IInv, TypeOK, Persisted, Snap, File, Snapshot
<1>3. /\ Snap(i).segments \in Seq(Segs) /\ IsInjective(Snap(i).segments)
      /\ Parent(i).segments \in Seq(Segs) /\ IsInjective(Parent(i).segments)
  BY <1>1, <1>2 DEF SegsDistinct, Parent
<1>. QED
  BY <1>3, OrdinalsOfSuffix, OrdinalRange

(* A snapshot that puts its new segments in front of its parent's keeps  *)
(* the ordinal build_segment_id_map gives each of the parent's segments,  *)
(* and numbers its own 0 .. count-1 (the run's                            *)
(* SegmentOrdinalStableUnderPrepend), for every set of ids, segments and  *)
(* writers.  Appending at the end instead breaks the first half (run     *)
(* snapshot_ordinal_append).                                               *)
THEOREM SegmentOrdinalsPreserved == Spec => []SegmentOrdinalStableUnderPrepend
<1>1. Init => IInv /\ SegsDistinct
  BY InitIInv, InitSegsDistinct
<1>2. IInv /\ SegsDistinct /\ [Next]_vars => (IInv /\ SegsDistinct)'
  BY NextIInv, NextSegsDistinct
<1>. QED
  BY <1>1, <1>2, IInvOrdinalStable, PTL DEF Spec


-----------------------------------------------------------------------------
\* A step replaces no persisted file: only Persist writes the store, and it
\* writes under its draft's id, which IInv keeps out of Persisted.
LEMMA StepKeepsPersisted ==
    IInv /\ [Next]_vars => [\A i \in Persisted : store'[i] = store[i]]_vars
<1> SUFFICES ASSUME IInv, [Next]_vars
             PROVE  [\A i \in Persisted : store'[i] = store[i]]_vars
  OBVIOUS
<1>1. ASSUME NEW w \in Writers, CreateTable(w) \/ Derive(w) \/ AddSegment(w)
      PROVE  \A i \in Persisted : store'[i] = store[i]
  BY <1>1 DEF CreateTable, Derive, AddSegment
<1>2. ASSUME NEW w \in Writers, Persist(w)
      PROVE  \A i \in Persisted : store'[i] = store[i]
  <2>1. w \in Drafting /\ draft[w].id \notin Persisted
    BY <1>2 DEF Persist, Drafting, IInv
  <2>2. store' = [store EXCEPT ![draft[w].id] = ToBytes(draft[w])]
    BY <1>2 DEF Persist
  <2>. QED
    BY <2>1, <2>2
<1>3. CASE UNCHANGED vars
  BY <1>3 DEF vars
<1>. QED
  BY <1>1, <1>2, <1>3 DEF Next

(* No writer ever replaces a snapshot file once it is persisted (the run's *)
(* PersistedFilesImmutable), however many writers draft and persist at    *)
(* once: the ids from_previous and new are given are fresh among stored   *)
(* files and other writers' drafts.                                        *)
THEOREM PersistedFilesNeverReplaced == Spec => PersistedFilesImmutable
<1>. QED
  BY InitIInv, NextIInv, StepKeepsPersisted, PTL DEF Spec, PersistedFilesImmutable

=============================================================================
