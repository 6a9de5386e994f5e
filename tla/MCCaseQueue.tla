---------------------------- MODULE MCCaseQueue ----------------------------
(* Values of CaseQueue's constants for the model checker: model values for *)
(* cases, nodes, workers and hosts, and the functions between them.        *)
EXTENDS CaseQueue, TLC

CONSTANTS c1, c2, p1, p2, p3, w1, w2, h1, h2

(* Nothing is built on anything, or c2 is built on c1.                     *)
NoNeeds   == [c \in Cases |-> NoCase]
NeedsC1   == [c \in Cases |-> IF c = c2 THEN c1 ELSE NoCase]

(* Every case at the default priority, in the order of the ids.            *)
OnePriority == [c \in Cases |-> 100]
ById        == [c \in Cases |-> IF c = c1 THEN 1 ELSE 2]

(* p1 and p2 run under one worker id (a zombie and its restart); or two    *)
(* workers on one host; or on two hosts.                                   *)
Restarted   == (p1 :> w1) @@ (p2 :> w1) @@ (p3 :> w2)
TwoWorkers  == (p1 :> w1) @@ (p2 :> w2)
OneHost     == [w \in Workers |-> h1]
TwoHosts    == (w1 :> h1) @@ (w2 :> h2)

(* Ids and results are only compared, and so are two nodes of one worker.  *)
LeaseSymmetry == Permutations(LeaseIds)
Symmetric     == LeaseSymmetry \cup Permutations(Results)

AllCases    == [p \in Procs |-> Cases]
=============================================================================
