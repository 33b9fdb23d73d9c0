----------------------------- MODULE MCWorkerNode -----------------------------
(* Jobs a and b, of two solves of one problem, and c; b may not go to w1.   *)
EXTENDS WorkerNode

CONSTANTS w1, w2, a, b, c, s1, s2, p

MCKeysOf  == [j \in Job |-> (IF j = a THEN {s1, p} ELSE {s2, p}) \cap Key]
MCAvoided == [j \in Job |-> IF j = b THEN {w1} ELSE {}]
Anywhere  == [j \in Job |-> {}]
=============================================================================
