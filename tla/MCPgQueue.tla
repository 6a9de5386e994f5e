----------------------------- MODULE MCPgQueue -----------------------------
(* Values of PgQueue's constants: one site under two recipes.              *)
EXTENDS PgQueue, TLC

CONSTANTS c1, c2

There        == [c \in Cases |-> IF c = c1 THEN c2 ELSE NoCase]
ThereAndBack == [c \in Cases |-> IF c = c1 THEN c2 ELSE c1]
Nowhere      == [c \in Cases |-> NoCase]

Symmetric == Permutations(LeaseIds) \cup Permutations(Workers) \cup Permutations(Threads)
=============================================================================
