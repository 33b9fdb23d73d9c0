------------------------------- MODULE MCTree -------------------------------
(***************************************************************************)
(* Concrete branch-and-bound trees for model checking: one integer         *)
(* variable, a node is the interval <<lo, hi>> its branch constraints      *)
(* leave, and branching cuts it in the middle.                             *)
(***************************************************************************)
EXTENDS Integers, Sequences, FiniteSets

\* The intervals reached from 0..width-1 by cutting down to length `leaf`.
Cuts(width, leaf) ==
  {w \in {<<lo, hi>> : lo, hi \in 0..(width - 1)} :
     /\ w[1] <= w[2]
     /\ \E k \in 0..4 :
          /\ w[2] - w[1] + 1 = leaf * 2^k
          /\ w[1] % (leaf * 2^k) = 0}

KidsIn(nodes, leaf) ==
  [w \in nodes |->
     LET mid == (w[1] + w[2]) \div 2
     IN  IF w[2] - w[1] + 1 = leaf
         THEN <<>>
         ELSE << <<w[1], mid>>, <<mid + 1, w[2]>> >>]

BelowIn(nodes) ==
  [w \in nodes |-> {v \in nodes : w[1] <= v[1] /\ v[2] <= w[2]}]

\* The depth of w is the number of its proper ancestors.
DepthIn(nodes) ==
  [w \in nodes |->
     Cardinality({u \in nodes \ {w} : u[1] <= w[1] /\ w[2] <= u[2]})]

PtsIn(nodes, feasible) == [w \in nodes |-> {p \in feasible : w[1] <= p /\ p <= w[2]}]
=============================================================================
