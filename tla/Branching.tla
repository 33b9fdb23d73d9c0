------------------------------- MODULE Branching -------------------------------
(***************************************************************************)
(* first_fractional and branch_constraints: which variable a node branches *)
(* on, what its two children keep, and how the branch constraints of a     *)
(* path of the tree add up.                                                *)
(*                                                                         *)
(* A real value is an integer number of units, Scale units to 1, so that   *)
(* floor, ceil and round are integer divisions; the tolerances are numbers *)
(* of units too.  The LP solver is the environment: it returns any point   *)
(* that meets the branch constraints up to LpTol.                          *)
(***************************************************************************)
EXTENDS Integers

CONSTANTS
  Scale,       \* units per 1
  IntTol,      \* int_tol of the request, which nothing validates
  LpTol,       \* how far a relaxation may overstep a constraint
  Var,         \* the variables, in order
  IntegerVar,  \* integer_vars
  Lower, Upper,\* the problem's bounds, the same for each variable
  SplitDepth   \* options.split_depth.unwrap_or(1).min(8)

ASSUME BranchingAssumption ==
  /\ Scale \in Nat \ {0}
  /\ IntTol \in Int
  /\ LpTol \in Nat
  /\ Var \subseteq Nat
  /\ IntegerVar \subseteq Var
  /\ Lower \in Int /\ Upper \in Int /\ Lower <= Upper
  /\ SplitDepth \in 0..8

Floor(v) == v \div Scale
Ceil(v)  == -((-v) \div Scale)

(* (value - value.round()).abs(): round goes to the nearer of floor and     *)
(* ceil, so this is the smaller of the two distances.                       *)
RoundError(v) ==
  LET below == v - Floor(v) * Scale
      above == Ceil(v) * Scale - v
  IN  IF below <= above THEN below ELSE above

IsAlmostFractional(v) == RoundError(v) >= IntTol   \* mutant: >= for >

IsFractional(v) == RoundError(v) > IntTol

Fractional(x) == {i \in IntegerVar : IsFractional(x[i])}

(* The first integer variable whose relaxation value is fractional.         *)
IsFirstFractional(x, i) ==
  i \in Fractional(x) /\ \A j \in Fractional(x) : i <= j

LeftHoldsBelow(v, p) == p < Floor(v)               \* mutant: < for <=

(* The two constraints branch_constraints returns, as predicates on the     *)
(* value p of the branching variable: p <= floor, and -p <= -ceil.          *)
LeftHolds(v, p)  == p <= Floor(v)
RightHolds(v, p) == -p <= -Ceil(v)

-----------------------------------------------------------------------------
VARIABLES
  lo, hi,   \* the bounds of each variable the extra_constraints leave
  x,        \* relaxation.x, once the node is relaxed
  depth,    \* FrontierNode.depth, SubproblemJob.depth
  phase     \* "relax", "branch" or "leaf"

vars == <<lo, hi, x, depth, phase>>

Units == (Lower * Scale - LpTol)..(Upper * Scale + LpTol)

TypeOK ==
  /\ lo \in [Var -> Int] /\ hi \in [Var -> Int]
  /\ x \in [Var -> Int]
  /\ depth \in 0..SplitDepth
  /\ phase \in {"relax", "branch", "leaf"}

Init ==
  /\ lo = [i \in Var |-> Lower] /\ hi = [i \in Var |-> Upper]
  /\ x = [i \in Var |-> Lower * Scale]
  /\ depth = 0
  /\ phase = "relax"

(* solve_lp_relaxation: optimal at a point of the node's box.               *)
Relax ==
  /\ phase = "relax"
  /\ x' \in {y \in [Var -> Units] :
               \A i \in Var : /\ lo[i] * Scale - LpTol <= y[i]
                              /\ y[i] <= hi[i] * Scale + LpTol}
  /\ phase' = "branch"
  /\ UNCHANGED <<lo, hi, depth>>

(* No child: deep enough, or no variable is fractional.                     *)
Leaf ==
  /\ phase = "branch"
  /\ depth >= SplitDepth \/ Fractional(x) = {}
  /\ phase' = "leaf"
  /\ UNCHANGED <<lo, hi, x, depth>>

(* To the left child, which pushes x_i <= floor ...                         *)
GoLeft(i) ==
  /\ phase = "branch" /\ depth < SplitDepth
  /\ IsFirstFractional(x, i)
  /\ hi' = [hi EXCEPT ![i] = IF Floor(x[i]) < @ THEN Floor(x[i]) ELSE @]
  /\ depth' = depth + 1
  /\ phase' = "relax"
  /\ UNCHANGED <<lo, x>>

(* ... or to the right one, which pushes -x_i <= -ceil.                     *)
GoRight(i) ==
  /\ phase = "branch" /\ depth < SplitDepth
  /\ IsFirstFractional(x, i)
  /\ lo' = [lo EXCEPT ![i] = IF Ceil(x[i]) > @ THEN Ceil(x[i]) ELSE @]
  /\ depth' = depth + 1
  /\ phase' = "relax"
  /\ UNCHANGED <<hi, x>>

Next ==
  \/ Relax
  \/ Leaf
  \/ \E i \in Var : GoLeft(i)
  \/ \E i \in Var : GoRight(i)

Spec == Init /\ [][Next]_vars

-----------------------------------------------------------------------------
(* The integer values of variable i the node's box holds.                   *)
ValuesOf(i) == lo[i]..hi[i]

Branches(i) == phase = "branch" /\ depth < SplitDepth /\ IsFirstFractional(x, i)

(* No integer point of a node is lost between its two children, whatever    *)
(* int_tol and the accuracy of the relaxation: what TreeCovers assumes.     *)
EveryPointKept ==
  \A i \in Var : Branches(i) =>
    \A p \in ValuesOf(i) : LeftHolds(x[i], p) \/ RightHolds(x[i], p)

(* With an int_tol of at least the LP tolerance a branching is worth its    *)
(* while: the children share no integer point, each has one, and the        *)
(* relaxation of neither can return the point branched on again.            *)
SoundTolerance == IntTol >= LpTol

BranchingSplits ==
  SoundTolerance =>
    \A i \in Var : Branches(i) =>
      /\ \A p \in ValuesOf(i) : ~(LeftHolds(x[i], p) /\ RightHolds(x[i], p))
      /\ \E p \in ValuesOf(i) : LeftHolds(x[i], p)
      /\ \E p \in ValuesOf(i) : RightHolds(x[i], p)
      /\ x[i] > Floor(x[i]) * Scale + LpTol
      /\ x[i] < Ceil(x[i]) * Scale - LpTol
=============================================================================
