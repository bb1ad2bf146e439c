----------------------------- MODULE BlockFilter -----------------------------
(***************************************************************************)
(* The block filter index of src/query/storages/common/index/src/bloom.rs *)
(* and the Boolean functions of src/query/functions/src/scalars/boolean.rs *)
(* that the constant folder uses when it evaluates a rewritten predicate.  *)
(*                                                                         *)
(* Writers build one BlockFilter per block (BlockFilter::try_create);      *)
(* blocks written by the previous format carry filters over typed values  *)
(* (version 2).  A query builds its digest map once (find_eq_columns and   *)
(* calculate_scalar_digest) and evaluates every block's filter             *)
(* (BlockFilter::eval): every `column = constant` whose constant the      *)
(* filter rules out is rewritten to `false` and the predicate is folded.  *)
(*                                                                         *)
(* A predicate is a sequence of nodes; node 1 is the root and the         *)
(* children of node i have indices greater than i.                         *)
(***************************************************************************)
EXTENDS Naturals, Sequences, FiniteSets, SequencesExt

CONSTANTS
    Cols,          \* column names of the table schema
    NullableCols,  \* columns whose data type is nullable
    SupportedCols, \* columns whose type Xor8Filter::is_supported_type accepts
    Vals,          \* non-null column values and constants
    NULL,          \* the null value (Scalar::Null, an unset validity bit)
    Digests,       \* the 64-bit digest universe, abstracted
    Siphash,       \* Vals -> Digests: the "siphash" function (may collide)
    ZeroDigest,    \* the digest 0 that try_create uses for null positions
    Exprs,         \* the predicates queries use
    MaxBlocks,     \* bound on the number of blocks written
    MaxInputs,     \* bound on the number of input blocks of one try_create
    MaxInputRows,  \* bound on the rows of one input block
    NoIndex        \* Option::None of try_create: a block without filter index

ASSUME ColsAssumption == NullableCols \subseteq Cols /\ SupportedCols \subseteq Cols
ASSUME NullAssumption == NULL \notin Vals \cup BOOLEAN
ASSUME DigestAssumption == Siphash \in [Vals -> Digests] /\ ZeroDigest \in Digests
ASSUME BoundsAssumption ==
    MaxBlocks \in Nat \ {0} /\ MaxInputs \in Nat /\ MaxInputRows \in Nat

\* Format versions of the filter block: V2BloomBlock::VERSION and current.
V2VERSION == 2
VERSION == 3

MustFalse == "MustFalse"
Uncertain == "Uncertain"
NotEvaluated == "NotEvaluated"

\* A row: a value per column, null only in a nullable column.
Rows == {r \in [Cols -> Vals \cup {NULL}] : \A c \in Cols \ NullableCols : r[c] # NULL}

\* The data blocks a writer may hand to try_create.
DataBlocks == UNION {[1 .. n -> Rows] : n \in 0 .. MaxInputRows}
InputBlockLists == UNION {[1 .. n -> DataBlocks] : n \in 0 .. MaxInputs}

-----------------------------------------------------------------------------
(***************************************************************************)
(* Three-valued scalars and the Boolean functions of boolean.rs.  A       *)
(* domain (BooleanDomain, NullableDomain) is the set of values an         *)
(* expression may take: has_false, has_true, has_null.                     *)
(***************************************************************************)
Value3 == BOOLEAN \cup {NULL}
BinaryOps == {"and", "or", "xor", "and_filters"}
Ops == {"eq", "lit", "not"} \cup BinaryOps

BoolDom(hasFalse, hasTrue) ==
    (IF hasFalse THEN {FALSE} ELSE {}) \cup (IF hasTrue THEN {TRUE} ELSE {})

(***************************************************************************)
(* The calc_domain closures of "not", "and_filters", "and", "or" and      *)
(* "xor" over Boolean (non-null) arguments.                                *)
(***************************************************************************)
BoolDomainOf(op, args) ==
    LET l == args[1]
        r == IF Len(args) > 1 THEN args[2] ELSE args[1]
    IN  CASE op = "not" -> BoolDom(TRUE \in l, FALSE \in l)
          [] op \in {"and", "and_filters"} ->
                BoolDom(FALSE \in l \/ FALSE \in r, TRUE \in l /\ TRUE \in r)
          [] op = "or" ->
                BoolDom(FALSE \in l /\ FALSE \in r, TRUE \in l \/ TRUE \in r)
          [] op = "xor" ->
                BoolDom((FALSE \in l /\ FALSE \in r) \/ (TRUE \in l /\ TRUE \in r),
                        (FALSE \in l /\ TRUE \in r) \/ (TRUE \in l /\ FALSE \in r))

HasValue(d) == d \cap BOOLEAN # {}
FullNullable == {FALSE, TRUE, NULL}

(***************************************************************************)
(* Domain of a call with a Nullable(Boolean) signature.  "not", "xor" and  *)
(* "and_filters" are registered passthrough-nullable: has_null if an      *)
(* argument has null, the value domain from the Boolean closure if every  *)
(* argument has a value.  The nullable "and" and "or" overloads return    *)
(* Full unless no argument has null and both have a value.                 *)
(***************************************************************************)
NullableDomainOf(op, args) ==
    LET anyNull == \E k \in DOMAIN args : NULL \in args[k]
        allValued == \A k \in DOMAIN args : HasValue(args[k])
        values == [k \in DOMAIN args |-> args[k] \cap BOOLEAN]
    IN  IF op \in {"and", "or"}
        THEN IF ~anyNull /\ allValued THEN BoolDomainOf(op, values) ELSE FullNullable
        ELSE (IF allValued THEN BoolDomainOf(op, values) ELSE {})
             \cup (IF anyNull THEN {NULL} ELSE {})

(***************************************************************************)
(* The eval closures: "not", "xor", "and_filters" pass nulls through; the  *)
(* "and" and "or" overloads are SQL three-valued (Kleene) on nulls, and    *)
(* the Boolean overloads agree with them on non-null arguments.           *)
(***************************************************************************)
EvalOp(op, args) ==
    LET l == args[1]
        r == IF Len(args) > 1 THEN args[2] ELSE args[1]
    IN  CASE op = "not" -> IF l = NULL THEN NULL ELSE ~l
          [] op = "and" ->
                IF l = FALSE \/ r = FALSE THEN FALSE
                ELSE IF l = TRUE /\ r = TRUE THEN TRUE ELSE NULL
          [] op = "or" ->
                IF l = TRUE \/ r = TRUE THEN TRUE
                ELSE IF l = FALSE /\ r = FALSE THEN FALSE ELSE NULL
          [] op = "and_filters" ->
                IF l = NULL \/ r = NULL THEN NULL ELSE l /\ r
          [] op = "xor" ->
                IF l = NULL \/ r = NULL THEN NULL ELSE l # r

-----------------------------------------------------------------------------
(***************************************************************************)
(* Predicates.  An "eq" node is `column = constant` (either order): a      *)
(* FunctionCall "eq" whose arguments are a ColumnRef and a Constant.  A    *)
(* "lit" node is a Boolean or null Constant.                               *)
(***************************************************************************)
NoCol == "NoCol"
EqNode(c, v) == [op |-> "eq", kids |-> <<>>, col |-> c, val |-> v]
LitNode(v) == [op |-> "lit", kids |-> <<>>, col |-> NoCol, val |-> v]
Node == [op : Ops, kids : Seq(Nat), col : Cols \cup {NoCol},
         val : Vals \cup BOOLEAN \cup {NULL}]

\* The nullability of each node's type, as the type checker assigns it.
NullableAt(e) ==
    LET N[i \in DOMAIN e] ==
            CASE e[i].op = "eq" -> e[i].col \in NullableCols \/ e[i].val = NULL
              [] e[i].op = "lit" -> e[i].val = NULL
              [] OTHER -> \E k \in DOMAIN e[i].kids : N[e[i].kids[k]]
    IN  N

\* The value of every node of e on one row.
RowValue(e, row) ==
    LET V[i \in DOMAIN e] ==
            CASE e[i].op = "eq" ->
                    IF row[e[i].col] = NULL \/ e[i].val = NULL THEN NULL
                    ELSE row[e[i].col] = e[i].val
              [] e[i].op = "lit" -> e[i].val
              [] OTHER -> EvalOp(e[i].op, [k \in DOMAIN e[i].kids |-> V[e[i].kids[k]]])
    IN  V

(***************************************************************************)
(* ConstantFolder::fold (not under src/; spec 4.3 step 4): a call whose    *)
(* arguments all folded to constants is evaluated; otherwise its domain   *)
(* is computed from the arguments' domains and a single-valued domain      *)
(* becomes a constant.  A column reference has the full domain of its     *)
(* type, so `column = constant` keeps a full domain unless the constant   *)
(* is null.  Types are those of the expression before it was rewritten.   *)
(***************************************************************************)
Fold(e, nullable) ==
    LET F[i \in DOMAIN e] ==
            CASE e[i].op = "lit" -> [const |-> TRUE, dom |-> {e[i].val}]
              [] e[i].op = "eq" ->
                    IF e[i].val = NULL THEN [const |-> TRUE, dom |-> {NULL}]
                    ELSE [const |-> FALSE,
                          dom |-> BOOLEAN \cup (IF nullable[i] THEN {NULL} ELSE {})]
              [] OTHER ->
                    LET kids == e[i].kids
                        args == [k \in DOMAIN kids |-> F[kids[k]]]
                    IN  IF \A k \in DOMAIN args : args[k].const
                        THEN [const |-> TRUE,
                              dom |-> {EvalOp(e[i].op,
                                         [k \in DOMAIN args |->
                                            CHOOSE v \in args[k].dom : TRUE])}]
                        ELSE LET doms == [k \in DOMAIN args |-> args[k].dom]
                                 d == IF nullable[i] THEN NullableDomainOf(e[i].op, doms)
                                      ELSE BoolDomainOf(e[i].op, doms)
                             IN  [const |-> Cardinality(d) = 1, dom |-> d]
    IN  F

-----------------------------------------------------------------------------
(***************************************************************************)
(* The filter of one column: the set of keys it reports as present.  An    *)
(* Xor8 filter built from a set of keys reports every key and possibly     *)
(* others (false positives); to_bytes/from_bytes round-trip it (spec 4.2). *)
(***************************************************************************)
Filters(keys) == {keys \cup fp : fp \in SUBSET Digests}
\* A filter of the v2 format, over typed values rather than digests.
V2Filters(values) == {values \cup fp : fp \in SUBSET Vals}

\* calculate_column_digest with try_create's validity handling: a null
\* position contributes the digest 0, any other its siphash.
ColumnDigests(rows, c) ==
    {IF rows[k][c] = NULL THEN ZeroDigest ELSE Siphash[rows[k][c]] : k \in DOMAIN rows}

\* Column::concat of every input block's column.
Concat(inputs) == FlattenSeq(inputs)

\* find_eq_columns: the non-null constants compared with a supported column.
FindEqColumns(e) ==
    {e[i].val : i \in {j \in DOMAIN e : e[j].op = "eq" /\ e[j].col \in SupportedCols
                                        /\ e[j].val # NULL}}

\* The digest maps a query may hand to eval: calculate_scalar_digest of
\* the constants find_eq_columns returns, or of some of them (spec 9: the
\* map is caller-owned).
ScalarMaps(e) == {[v \in K |-> Siphash[v]] : K \in SUBSET FindEqColumns(e)}

\* A defective find that treats a constant missing from the map as absent.
FindMissingAbsent(index, col, target, scalarMap) ==
    IF col \notin DOMAIN index.filters \/ col \notin SupportedCols \/ target = NULL
    THEN Uncertain
    ELSE LET filter == index.filters[col]
             contains ==
                IF index.version = V2VERSION THEN target \in filter
                ELSE target \in DOMAIN scalarMap /\ scalarMap[target] \in filter
         IN  IF contains THEN Uncertain ELSE MustFalse

(***************************************************************************)
(* BlockFilter::find: Uncertain when the column has no filter, its type is *)
(* unsupported or the constant is null; otherwise branch on the version:  *)
(* v2 filters are queried with the typed value, later ones with the        *)
(* digest from the map, and a constant missing from the map counts as      *)
(* contained.                                                              *)
(***************************************************************************)
Find(index, col, target, scalarMap) ==
    IF col \notin DOMAIN index.filters \/ col \notin SupportedCols \/ target = NULL
    THEN Uncertain
    ELSE LET filter == index.filters[col]
             contains ==
                IF index.version = V2VERSION THEN target \in filter
                ELSE IF target \in DOMAIN scalarMap THEN scalarMap[target] \in filter
                ELSE TRUE
         IN  IF contains THEN Uncertain ELSE MustFalse

(***************************************************************************)
(* visit_expr_column_eq_constant with eval's callback: each eq node the   *)
(* filter rules out becomes the constant false (of the eq's return type); *)
(* other nodes are kept, and the walk goes on into their arguments.        *)
(***************************************************************************)
Rewrite(index, e, scalarMap) ==
    [i \in DOMAIN e |->
        IF e[i].op = "eq" /\ Find(index, e[i].col, e[i].val, scalarMap) = MustFalse
        THEN LitNode(FALSE)
        ELSE e[i]]

\* BlockFilter::eval: rewrite, fold, MustFalse iff the root is false.
Eval(index, e, scalarMap) ==
    LET folded == Fold(Rewrite(index, e, scalarMap), NullableAt(e))
    IN  IF folded[1].const /\ folded[1].dom = {FALSE} THEN MustFalse ELSE Uncertain

-----------------------------------------------------------------------------
(***************************************************************************)
(* BlockFilter::try_create, as the set of its possible results (the Xor8  *)
(* false positives are not modelled further, and Xor8Builder::build may   *)
(* refuse an empty key set).  No input block is BadArguments; no column of *)
(* a supported type is Ok(None); otherwise every supported column's        *)
(* digests over all input blocks are put into a filter, and its distinct  *)
(* count (filter.len()) is recorded.                                       *)
(***************************************************************************)
TryCreate(inputs, version) ==
    LET rows == Concat(inputs)
        keys(c) == ColumnDigests(rows, c)
        built == {[outcome |-> "ok",
                   filters |-> f,
                   ndv |-> [c \in SupportedCols |-> Cardinality(keys(c))],
                   version |-> version] :
                  f \in {g \in [SupportedCols -> SUBSET Digests] :
                            \A c \in SupportedCols : g[c] \in Filters(keys(c))}}
    IN  IF inputs = <<>> THEN {[outcome |-> "bad_arguments"]}
        ELSE IF SupportedCols = {} THEN {[outcome |-> "none"]}
        ELSE built \cup (IF \E c \in SupportedCols : keys(c) = {}
                         THEN {[outcome |-> "construction_error"]} ELSE {})

\* A defective from_filter_block that records the version off by one.
FromFilterBlockOffByOne(filters, version) == [filters |-> filters, version |-> version - 1]

\* BlockFilter::from_filter_block: a stored filter block read back.
FromFilterBlock(filters, version) == [filters |-> filters, version |-> version]

VARIABLES
    blocks,     \* written blocks: their rows and filter index (or NoIndex)
    lastWrite,  \* outcome of the last try_create
    query,      \* the predicate of the current query
    scalarMap,  \* its digest map, built once when the query starts
    verdict     \* block -> the current query's eval result, or NotEvaluated

vars == <<blocks, lastWrite, query, scalarMap, verdict>>

Outcomes == {"ok", "none", "bad_arguments", "construction_error"}
Index == [filters : [SupportedCols -> SUBSET (Digests \cup Vals)], version : {V2VERSION, VERSION}]

TypeOK ==
    /\ blocks \in Seq([rows : Seq(Rows), index : Index \cup {NoIndex}])
    /\ Len(blocks) =< MaxBlocks
    /\ lastWrite \in Outcomes \cup {NotEvaluated}
    /\ query \in Seq(Node)
    /\ DOMAIN scalarMap \subseteq Vals /\ \A v \in DOMAIN scalarMap : scalarMap[v] \in Digests
    /\ verdict \in [1 .. MaxBlocks -> {MustFalse, Uncertain, NotEvaluated}]

Init ==
    /\ blocks = <<>>
    /\ lastWrite = NotEvaluated
    /\ query \in Exprs
    /\ scalarMap \in ScalarMaps(query)
    /\ verdict = [b \in 1 .. MaxBlocks |-> NotEvaluated]

(***************************************************************************)
(* A writer finalises a block: try_create over its input blocks with the  *)
(* current version; the filter block is stored beside the data, or the     *)
(* write fails with the error.                                             *)
(***************************************************************************)
WriteBlock ==
    /\ Len(blocks) < MaxBlocks
    /\ \E inputs \in InputBlockLists : \E res \in TryCreate(inputs, VERSION) :
          /\ lastWrite' = res.outcome
          /\ blocks' = CASE res.outcome = "ok" ->
                              Append(blocks, [rows |-> Concat(inputs),
                                              index |-> FromFilterBlock(res.filters, res.version)])
                         [] res.outcome = "none" ->
                              Append(blocks, [rows |-> Concat(inputs), index |-> NoIndex])
                         [] OTHER -> blocks
    /\ UNCHANGED <<query, scalarMap, verdict>>

\* A block written by the v2 format: its filters are over typed values.
WriteV2Block ==
    /\ Len(blocks) < MaxBlocks
    /\ SupportedCols # {}
    /\ \E inputs \in InputBlockLists \ {<<>>} :
          LET rows == Concat(inputs)
              values(c) == {rows[k][c] : k \in DOMAIN rows} \ {NULL}
          IN  \E f \in {g \in [SupportedCols -> SUBSET Vals] :
                          \A c \in SupportedCols : g[c] \in V2Filters(values(c))} :
                 blocks' = Append(blocks, [rows |-> rows,
                                           index |-> FromFilterBlock(f, V2VERSION)])
    /\ UNCHANGED <<lastWrite, query, scalarMap, verdict>>

(***************************************************************************)
(* A scan task of the query evaluates a block that has a filter index.     *)
(* Any number of tasks may evaluate the same block (spec 5).               *)
(***************************************************************************)
EvalBlock(b) ==
    /\ blocks[b].index # NoIndex
    /\ verdict' = [verdict EXCEPT ![b] = Eval(blocks[b].index, query, scalarMap)]
    /\ UNCHANGED <<blocks, lastWrite, query, scalarMap>>

Next ==
    \/ WriteBlock
    \/ WriteV2Block
    \/ \E b \in DOMAIN blocks : EvalBlock(b)

Spec == Init /\ [][Next]_vars

-----------------------------------------------------------------------------
(***************************************************************************)
(* Spec 7 and 8 "Pruning soundness", about BlockFilter::eval: a block the *)
(* filter index prunes (MustFalse) has no row on which the predicate is   *)
(* true, whatever the block's nulls, digest collisions, filter format and *)
(* the query's digest map.                                                 *)
(***************************************************************************)
PruningSound ==
    \A b \in DOMAIN blocks :
        verdict[b] = MustFalse =>
            \A k \in DOMAIN blocks[b].rows : RowValue(query, blocks[b].rows[k])[1] # TRUE

(***************************************************************************)
(* The rewrite step of BlockFilter::eval is sound on its own: a `column = *)
(* constant` that find rules out for a block (so eval turns it into        *)
(* false) holds on no row of that block, whatever the digest collisions,  *)
(* the digest 0 of null positions, the format of the block's filters and  *)
(* the constants the query's digest map was built for.                     *)
(***************************************************************************)
EqRewriteSound ==
    \A b \in DOMAIN blocks : \A i \in DOMAIN query :
        (blocks[b].index # NoIndex /\ query[i].op = "eq"
           /\ Find(blocks[b].index, query[i].col, query[i].val, scalarMap) = MustFalse)
          => \A k \in DOMAIN blocks[b].rows : blocks[b].rows[k][query[i].col] # query[i].val

(***************************************************************************)
(* The comment of BlockFilter::eval: "If we are sure of skipping the      *)
(* scan, return false, e.g. the expression must be false."  An "and"      *)
(* whose argument folds to false is false on every row, so eval returns   *)
(* MustFalse for it.                                                       *)
(***************************************************************************)
ConjunctPruning ==
    \A b \in DOMAIN blocks :
        LET F == Fold(Rewrite(blocks[b].index, query, scalarMap), NullableAt(query))
            falseKid == \E k \in DOMAIN query[1].kids :
                           F[query[1].kids[k]].const /\ F[query[1].kids[k]].dom = {FALSE}
        IN  (verdict[b] # NotEvaluated /\ query[1].op = "and" /\ falseKid)
                => verdict[b] = MustFalse
=============================================================================
