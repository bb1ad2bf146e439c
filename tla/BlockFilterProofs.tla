-------------------------- MODULE BlockFilterProofs --------------------------
(***************************************************************************)
(* Proofs about the filter index of BlockFilter, for every schema, value   *)
(* domain, digest function (collisions included) and bound.  What eval     *)
(* makes of a whole predicate folds a tree through recursive functions,   *)
(* which needs induction over the predicate and stays with TLC             *)
(* (PruningSound); the rewrite step it rests on is proved here.            *)
(***************************************************************************)
EXTENDS BlockFilter, TLAPS

\* The rows a block can hold: the concatenation of some input blocks.
WrittenRows == {Concat(inputs) : inputs \in InputBlockLists}
BlockRecs == [rows : WrittenRows, index : Index \cup {NoIndex}]

\* Every non-null value of a supported column of the block is reported
\* present by the block's filter of that column: as a value by a v2
\* filter, as its siphash digest by a later one.
FilterCovers(blk) ==
    blk.index # NoIndex =>
       \A c \in SupportedCols : \A k \in DOMAIN blk.rows :
          blk.rows[k][c] # NULL =>
             IF blk.index.version = V2VERSION
             THEN blk.rows[k][c] \in blk.index.filters[c]
             ELSE Siphash[blk.rows[k][c]] \in blk.index.filters[c]

(***************************************************************************)
(* The inductive invariant behind EqRewriteSound: the digest map holds     *)
(* the siphash of each of its constants, and every block's filters cover   *)
(* the block's values.                                                     *)
(***************************************************************************)
IInv ==
    /\ blocks \in Seq(BlockRecs)
    /\ \A v \in DOMAIN scalarMap : scalarMap[v] = Siphash[v]
    /\ \A b \in DOMAIN blocks : FilterCovers(blocks[b])

-----------------------------------------------------------------------------
\* A filter block try_create returns covers the digest of every non-null
\* value of the concatenated input.
LEMMA TryCreateCovers ==
    ASSUME NEW inputs \in InputBlockLists, NEW res \in TryCreate(inputs, VERSION),
           res.outcome = "ok"
    PROVE  /\ FromFilterBlock(res.filters, res.version) \in Index
           /\ FilterCovers([rows |-> Concat(inputs),
                            index |-> FromFilterBlock(res.filters, res.version)])
<1> DEFINE rows == Concat(inputs)
           keys(c) == ColumnDigests(rows, c)
<1>1. PICK f \in [SupportedCols -> SUBSET Digests] :
         /\ \A c \in SupportedCols : f[c] \in Filters(keys(c))
         /\ res = [outcome |-> "ok", filters |-> f,
                   ndv |-> [c \in SupportedCols |-> Cardinality(keys(c))],
                   version |-> VERSION]
  BY DEF TryCreate
<1>2. \A c \in SupportedCols : keys(c) \subseteq f[c]
  BY <1>1 DEF Filters
<1>3. \A c \in SupportedCols : \A k \in DOMAIN rows :
         rows[k][c] # NULL => Siphash[rows[k][c]] \in keys(c)
  BY DEF ColumnDigests
<1>4. FromFilterBlock(res.filters, res.version) = [filters |-> f, version |-> VERSION]
  BY <1>1 DEF FromFilterBlock
<1>5. VERSION # V2VERSION
  BY DEF VERSION, V2VERSION
<1>. QED
  BY <1>1, <1>2, <1>3, <1>4, <1>5 DEF FilterCovers, Index, VERSION, V2VERSION

\* Under the invariant, a constant find rules out for a block's filter is
\* the value of no row of the block.
LEMMA FindMustFalseAbsent ==
    ASSUME IInv, NEW b \in DOMAIN blocks, blocks[b].index # NoIndex,
           NEW col \in Cols, NEW target,
           Find(blocks[b].index, col, target, scalarMap) = MustFalse
    PROVE  \A k \in DOMAIN blocks[b].rows : blocks[b].rows[k][col] # target
<1> DEFINE idx == blocks[b].index
           rows == blocks[b].rows
<1>1. /\ col \in SupportedCols /\ target # NULL
      /\ IF idx.version = V2VERSION THEN target \notin idx.filters[col]
         ELSE target \in DOMAIN scalarMap /\ scalarMap[target] \notin idx.filters[col]
  BY DEF Find, MustFalse, Uncertain
<1>2. FilterCovers(blocks[b])
  BY DEF IInv
<1> SUFFICES ASSUME NEW k \in DOMAIN rows, rows[k][col] = target PROVE FALSE
  OBVIOUS
<1>3. CASE idx.version = V2VERSION
  BY <1>1, <1>2, <1>3 DEF FilterCovers
<1>4. CASE idx.version # V2VERSION
  <2>1. scalarMap[target] = Siphash[target]
    BY <1>1, <1>4 DEF IInv
  <2>. QED
    BY <1>1, <1>2, <1>4, <2>1 DEF FilterCovers
<1>. QED
  BY <1>3, <1>4

LEMMA IInvEqRewriteSound == IInv => EqRewriteSound
<1> SUFFICES ASSUME IInv, NEW b \in DOMAIN blocks, NEW i \in DOMAIN query,
                    blocks[b].index # NoIndex, query[i].op = "eq",
                    Find(blocks[b].index, query[i].col, query[i].val, scalarMap) = MustFalse
             PROVE  \A k \in DOMAIN blocks[b].rows : blocks[b].rows[k][query[i].col] # query[i].val
  BY DEF EqRewriteSound
<1>1. query[i].col \in Cols
  <2>1. query[i].col \in SupportedCols
    BY DEF Find, MustFalse, Uncertain
  <2>. QED
    BY <2>1, ColsAssumption
<1>. QED
  BY <1>1, FindMustFalseAbsent

-----------------------------------------------------------------------------
LEMMA InitIInv == Init => IInv
<1> SUFFICES ASSUME Init PROVE IInv
  OBVIOUS
<1>1. PICK K \in SUBSET FindEqColumns(query) : scalarMap = [v \in K |-> Siphash[v]]
  BY DEF Init, ScalarMaps
<1>. QED
  BY <1>1 DEF Init, IInv

\* A writer's block keeps the invariant, whatever try_create returned.
LEMMA WriteBlockIInv == IInv /\ WriteBlock => IInv'
<1> SUFFICES ASSUME IInv, WriteBlock PROVE IInv'
  OBVIOUS
<1> DEFINE Appended(inputs, res) ==
              CASE res.outcome = "ok" ->
                     Append(blocks, [rows |-> Concat(inputs),
                                     index |-> FromFilterBlock(res.filters, res.version)])
                [] res.outcome = "none" ->
                     Append(blocks, [rows |-> Concat(inputs), index |-> NoIndex])
                [] OTHER -> blocks
<1>0. PICK inputs \in InputBlockLists :
         \E res \in TryCreate(inputs, VERSION) : blocks' = Appended(inputs, res)
  BY DEF WriteBlock
<1>1. PICK res \in TryCreate(inputs, VERSION) : blocks' = Appended(inputs, res)
  BY <1>0
<1>2. UNCHANGED scalarMap
  BY DEF WriteBlock
<1>3. Concat(inputs) \in WrittenRows
  BY DEF WrittenRows
<1>4. CASE res.outcome = "ok"
  <2> DEFINE blk == [rows |-> Concat(inputs),
                     index |-> FromFilterBlock(res.filters, res.version)]
  <2>1. blocks' = Append(blocks, blk)
    BY <1>1, <1>4
  <2>2. blk \in BlockRecs /\ FilterCovers(blk)
    BY <1>3, <1>4, TryCreateCovers DEF BlockRecs
  <2>. QED
    BY <1>2, <2>1, <2>2 DEF IInv
<1>5. CASE res.outcome = "none"
  <2> DEFINE blk == [rows |-> Concat(inputs), index |-> NoIndex]
  <2>1. blocks' = Append(blocks, blk)
    BY <1>1, <1>5
  <2>2. blk \in BlockRecs /\ FilterCovers(blk)
    BY <1>3 DEF BlockRecs, FilterCovers
  <2>. QED
    BY <1>2, <2>1, <2>2 DEF IInv
<1>6. CASE res.outcome \notin {"ok", "none"}
  BY <1>1, <1>2, <1>6 DEF IInv
<1>. QED
  BY <1>4, <1>5, <1>6

\* A block of the v2 format: its filters hold every non-null value.
LEMMA WriteV2BlockIInv == IInv /\ WriteV2Block => IInv'
<1> SUFFICES ASSUME IInv, WriteV2Block PROVE IInv'
  OBVIOUS
<1>1. PICK inputs \in InputBlockLists \ {<<>>} :
         LET rows == Concat(inputs)
             values(c) == {rows[k][c] : k \in DOMAIN rows} \ {NULL}
         IN  \E f \in {g \in [SupportedCols -> SUBSET Vals] :
                         \A c \in SupportedCols : g[c] \in V2Filters(values(c))} :
                blocks' = Append(blocks, [rows |-> rows,
                                          index |-> FromFilterBlock(f, V2VERSION)])
  BY DEF WriteV2Block
<1> DEFINE rows == Concat(inputs)
           values(c) == {rows[k][c] : k \in DOMAIN rows} \ {NULL}
<1>2. PICK f \in [SupportedCols -> SUBSET Vals] :
         /\ \A c \in SupportedCols : f[c] \in V2Filters(values(c))
         /\ blocks' = Append(blocks, [rows |-> rows, index |-> FromFilterBlock(f, V2VERSION)])
  BY <1>1
<1> DEFINE blk == [rows |-> rows, index |-> FromFilterBlock(f, V2VERSION)]
<1>3. \A c \in SupportedCols : values(c) \subseteq f[c]
  BY <1>2 DEF V2Filters
<1>4. blk \in BlockRecs
  BY <1>2 DEF BlockRecs, WrittenRows, FromFilterBlock, Index
<1>5. FilterCovers(blk)
  BY <1>3 DEF FilterCovers, FromFilterBlock
<1>6. UNCHANGED scalarMap
  BY DEF WriteV2Block
<1>. QED
  BY <1>2, <1>4, <1>5, <1>6 DEF IInv

LEMMA NextIInv == IInv /\ [Next]_vars => IInv'
<1> SUFFICES ASSUME IInv, [Next]_vars PROVE IInv'
  OBVIOUS
<1>1. ASSUME NEW b \in DOMAIN blocks, EvalBlock(b) PROVE IInv'
  BY <1>1 DEF EvalBlock, IInv, FilterCovers
<1>2. CASE UNCHANGED vars
  BY <1>2 DEF vars, IInv, FilterCovers
<1>. QED
  BY <1>1, <1>2, WriteBlockIInv, WriteV2BlockIInv DEF Next

(* A `column = constant` that eval rewrites to false for a block holds on  *)
(* no row of it (the run's EqRewriteSound), for every schema, digest       *)
(* function, filter format and digest map.                                 *)
THEOREM EqRewriteSoundHolds == Spec => []EqRewriteSound
<1>1. IInv => EqRewriteSound
  BY IInvEqRewriteSound
<1>. QED
  BY <1>1, InitIInv, NextIInv, PTL DEF Spec

=============================================================================
