------------------------------ MODULE BranchTree ------------------------------
(***************************************************************************)
(* The branch-and-bound tree a distributed solve explores.                 *)
(*                                                                         *)
(* A node is a list of branch constraints (the extra_constraints of a      *)
(* SubproblemJob); what matters of it is the set of integer points of the  *)
(* problem that satisfy them.  Branching on a fractional variable (module  *)
(* Branching) turns a node into a left and a right child that share out    *)
(* its integer points.  Numbers, bounds and matrices are abstracted away.  *)
(***************************************************************************)
EXTENDS Integers, Sequences

CONSTANTS
  Node,    \* the nodes of the tree: what a job's root id names
  Root,    \* the whole problem
  Kids,    \* Kids[n]: <<>> when the LP optimum of n is integral, else the
           \* pair <<left, right>> branching on its fractional variable gives
  Below,   \* Below[n]: the nodes of the subtree of n, n included
  Depth,   \* Depth[n]: number of branchings between Root and n
  SplitDepth, \* options.split_depth.unwrap_or(1).min(8): split above it only
  Point,   \* integer points
  Pts,     \* Pts[n]: the feasible integer points of node n
  Obj      \* Obj[p]: objective value of p, to be maximised

TreeTypes ==
  /\ Root \in Node
  /\ Kids \in [Node -> {<<>>} \cup (Node \X Node)]
  /\ Below \in [Node -> SUBSET Node]
  /\ Depth \in [Node -> Nat]
  /\ Pts \in [Node -> SUBSET Point]
  /\ Obj \in [Point -> Int]

(* The tree is one: subtrees nest, the subtrees of two siblings share no    *)
(* node, and a child is one level deeper (FrontierNode.depth).              *)
TreeShape ==
  /\ \A n \in Node : n \in Below[n]
  /\ \A n \in Node : Kids[n] # <<>> =>
       LET l == Kids[n][1]
           r == Kids[n][2]
       IN  /\ Below[l] \subseteq Below[n] \ {n}
           /\ Below[r] \subseteq Below[n] \ {n}
           /\ Below[l] \cap Below[r] = {}
           /\ Depth[l] = Depth[n] + 1
           /\ Depth[r] = Depth[n] + 1

(* Branching loses no integer point and invents none: x_var <= floor or     *)
(* x_var >= ceil (lemma BranchCovers of module BranchingProofs).            *)
TreeCovers ==
  \A n \in Node : Kids[n] # <<>> =>
    Pts[n] = Pts[Kids[n][1]] \cup Pts[Kids[n][2]]

ASSUME TreeAssumption == TreeTypes /\ TreeShape /\ TreeCovers

-----------------------------------------------------------------------------
(* x is an optimal integer point of the set S.                              *)
IsBestOf(x, S) == x \in S /\ \A y \in S : Obj[y] <= Obj[x]

NodesIn(s) == {s[i] : i \in DOMAIN s}

PtsOf(N) == UNION {Pts[n] : n \in N}

(* A set of nodes a solve may start from: subtrees that do not overlap and  *)
(* together hold every feasible integer point of the problem.               *)
IsFrontier(F) ==
  /\ F \subseteq Node
  /\ \A m, n \in F : m # n => Below[m] \cap Below[n] = {}
  /\ PtsOf(F) = Pts[Root]
=============================================================================
