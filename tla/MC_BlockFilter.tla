---------------------------- MODULE MC_BlockFilter ----------------------------
(* Small instance of BlockFilter for TLC. *)
EXTENDS BlockFilter, TLC

CONSTANTS a, b, v1, v2, Null

MCCols == {a, b}
MCVals == {v1, v2}
\* Digests are 0 and 1: value v2 collides with the null sentinel 0.
MCDigests == {0, 1}
MCSiphash == (v1 :> 1) @@ (v2 :> 0)

\* Shift the child indices of a tree placed at offset k.
Shifted(t, k) == [i \in DOMAIN t |-> [t[i] EXCEPT !.kids = [j \in DOMAIN @ |-> @[j] + k]]]
Unary(op, t) == <<[op |-> op, kids |-> <<2>>, col |-> NoCol, val |-> Null]>> \o Shifted(t, 1)
Binary(op, t1, t2) ==
    <<[op |-> op, kids |-> <<2, 2 + Len(t1)>>, col |-> NoCol, val |-> Null]>>
        \o Shifted(t1, 1) \o Shifted(t2, 1 + Len(t1))

EqLeaves == {<<EqNode(c, v)>> : c \in MCCols, v \in MCVals \cup {Null}}
Leaves == EqLeaves \cup {<<LitNode(v)>> : v \in {TRUE, FALSE, Null}}

\* Every predicate of at most three nodes, and the four-node shapes
\* not(x op y) and (not x) op y over column comparisons.
MCExprs ==
    Leaves
    \cup {Unary("not", t) : t \in Leaves}
    \cup {Binary(op, t1, t2) : op \in BinaryOps, t1 \in Leaves, t2 \in Leaves}
    \cup {Unary("not", Unary("not", t)) : t \in EqLeaves}
    \cup {Unary("not", Binary(op, t1, t2)) : op \in BinaryOps, t1 \in EqLeaves, t2 \in EqLeaves}
    \cup {Binary(op, Unary("not", t1), t2) : op \in BinaryOps, t1 \in EqLeaves, t2 \in EqLeaves}
=============================================================================
