--------------------------- MODULE BranchingProofs ---------------------------
(* Proofs about Branching, for every scale, tolerance, box and depth.       *)
EXTENDS Branching, TLAPS

(* Floor and Ceil are the integers around v.                                *)
LEMMA FloorBounds ==
  ASSUME NEW v \in Int
  PROVE  /\ Floor(v) \in Int
         /\ Floor(v) * Scale <= v
         /\ v < Floor(v) * Scale + Scale
BY BranchingAssumption, Z3 DEF Floor

LEMMA CeilBounds ==
  ASSUME NEW v \in Int
  PROVE  /\ Ceil(v) \in Int
         /\ v <= Ceil(v) * Scale
         /\ Ceil(v) * Scale - Scale < v
BY BranchingAssumption, Z3 DEF Ceil

LEMMA Grid ==
  ASSUME NEW a \in Int, NEW b \in Int, a < b
  PROVE  a * Scale + Scale <= b * Scale
BY BranchingAssumption, Z3
(* Some child allows every integer value, so the two together lose none.    *)
LEMMA BranchCovers ==
  ASSUME NEW v \in Int, NEW p \in Int
  PROVE  LeftHolds(v, p) \/ RightHolds(v, p)
<1>1. SUFFICES ASSUME ~(p <= Floor(v)), ~(-p <= -Ceil(v)) PROVE FALSE
  BY DEF LeftHolds, RightHolds
<1>2. Floor(v) < p /\ p < Ceil(v)
  BY <1>1, FloorBounds, CeilBounds
<1>3. Floor(v) * Scale + Scale <= p * Scale /\ p * Scale + Scale <= Ceil(v) * Scale
  BY <1>2, FloorBounds, CeilBounds, Grid
<1>4. Scale > 0 /\ p * Scale \in Int /\ Floor(v) * Scale \in Int /\ Ceil(v) * Scale \in Int
      /\ Scale \in Int
  BY FloorBounds, CeilBounds, BranchingAssumption
<1>5. v < Floor(v) * Scale + Scale /\ Ceil(v) * Scale - Scale < v
  BY FloorBounds, CeilBounds
<1> HIDE DEF Floor, Ceil
<1>6. p * Scale > v /\ p * Scale < v
  BY <1>3, <1>4, <1>5
<1> QED
  BY <1>4, <1>6

(* Where a fractional value lies, at an int_tol not below the LP tolerance. *)
LEMMA FractionalInside ==
  ASSUME NEW v \in Int, IsFractional(v), SoundTolerance,
         NEW l \in Int, NEW h \in Int,
         l * Scale - LpTol <= v, v <= h * Scale + LpTol
  PROVE  /\ Floor(v) * Scale + LpTol < v
         /\ v < Ceil(v) * Scale - LpTol
         /\ Floor(v) < Ceil(v)
         /\ l <= Floor(v)
         /\ Ceil(v) <= h
<1> DEFINE F == Floor(v)
           C == Ceil(v)
           f == F * Scale
           c == C * Scale
<1>1. /\ F \in Int /\ C \in Int /\ f \in Int /\ c \in Int /\ l * Scale \in Int /\ h * Scale \in Int
      /\ Scale \in Int /\ Scale > 0 /\ LpTol \in Int /\ LpTol >= 0 /\ IntTol \in Int
  BY FloorBounds, CeilBounds, BranchingAssumption
<1>2. f <= v /\ v < f + Scale /\ v <= c /\ c - Scale < v
  BY FloorBounds, CeilBounds
<1>3. v - f > IntTol /\ c - v > IntTol
  <2>1. v - f > IntTol \/ c - v > IntTol
    BY DEF IsFractional, RoundError
  <2>2. (v - f <= c - v => v - f > IntTol) /\ (~(v - f <= c - v) => c - v > IntTol)
    BY DEF IsFractional, RoundError
  <2> HIDE DEF f, c
  <2> QED
    BY <1>1, <2>2
<1>4. f + LpTol < v /\ v < c - LpTol
  <2>1. IntTol >= LpTol
    BY DEF SoundTolerance
  <2> HIDE DEF f, c
  <2> QED
    BY <1>1, <1>3, <2>1
<1>5. F < C
  <2>1. f < c
    <3> HIDE DEF f, c
    <3> QED
      BY <1>1, <1>4
  <2>2. C < F => c + Scale <= f
    BY <1>1, Grid
  <2>3. C = F => c = f
    OBVIOUS
  <2> HIDE DEF f, c, F, C
  <2> QED
    BY <1>1, <2>1, <2>2, <2>3
<1>6. l <= F
  <2>1. SUFFICES ASSUME F < l PROVE FALSE
    BY <1>1
  <2>2. C < l => c + Scale <= l * Scale
    BY <1>1, Grid
  <2>3. C = l => c = l * Scale
    OBVIOUS
  <2>4. f + Scale <= l * Scale
    BY <1>1, <2>1, Grid
  <2>5. l < C => l * Scale + Scale <= c
    BY <1>1, Grid
  <2> HIDE DEF f, c, F, C
  <2> QED
    BY <1>1, <1>2, <1>4, <2>2, <2>3, <2>4, <2>5
<1>7. C <= h
  <2>1. SUFFICES ASSUME h < C PROVE FALSE
    BY <1>1
  <2>2. h * Scale + Scale <= c
    BY <1>1, <2>1, Grid
  <2>3. F < h => f + Scale <= h * Scale
    BY <1>1, Grid
  <2>4. F = h => f = h * Scale
    OBVIOUS
  <2>5. h < F => h * Scale + Scale <= f
    BY <1>1, Grid
  <2> HIDE DEF f, c, F, C
  <2> QED
    BY <1>1, <1>2, <1>4, <2>2, <2>3, <2>4, <2>5
<1> QED
  BY <1>4, <1>5, <1>6, <1>7

(* What Relax leaves behind holds until the node is branched on.            *)
InBox ==
  phase = "branch" =>
    \A i \in Var : /\ lo[i] * Scale - LpTol <= x[i]
                   /\ x[i] <= hi[i] * Scale + LpTol

BInv == TypeOK /\ InBox

LEMMA BInvInit == Init => BInv
BY BranchingAssumption DEF Init, BInv, TypeOK, InBox

LEMMA BInvStep == BInv /\ [Next]_vars => BInv'
<1> SUFFICES ASSUME BInv, [Next]_vars PROVE BInv'
  OBVIOUS
<1> USE BranchingAssumption DEF BInv, TypeOK, InBox
<1>1. CASE Relax
  <2>1. x' \in [Var -> Int]
    BY <1>1 DEF Relax, Units
  <2>2. \A i \in Var : lo[i] * Scale - LpTol <= x'[i] /\ x'[i] <= hi[i] * Scale + LpTol
    BY <1>1 DEF Relax
  <2> QED
    BY <1>1, <2>1, <2>2 DEF Relax
<1>2. CASE Leaf
  BY <1>2 DEF Leaf
<1>3. ASSUME NEW i \in Var, GoLeft(i) PROVE BInv'
  <2>1. Floor(x[i]) \in Int
    BY FloorBounds
  <2> QED
    BY <1>3, <2>1 DEF GoLeft
<1>4. ASSUME NEW i \in Var, GoRight(i) PROVE BInv'
  <2>1. Ceil(x[i]) \in Int
    BY CeilBounds
  <2> QED
    BY <1>4, <2>1 DEF GoRight
<1>5. CASE UNCHANGED vars
  BY <1>5 DEF vars
<1> QED
  BY <1>1, <1>2, <1>3, <1>4, <1>5 DEF Next

THEOREM BranchInductive == Spec => []BInv
BY BInvInit, BInvStep, PTL DEF Spec

(* Branching loses no integer point, for every tolerance and every depth.   *)
THEOREM PointsKept == Spec => []EveryPointKept
<1>1. BInv => EveryPointKept
  <2> SUFFICES ASSUME BInv, NEW i \in Var, NEW p \in ValuesOf(i)
               PROVE  LeftHolds(x[i], p) \/ RightHolds(x[i], p)
    BY DEF EveryPointKept
  <2>1. x[i] \in Int /\ p \in Int
    BY DEF BInv, TypeOK, ValuesOf
  <2> QED
    BY <2>1, BranchCovers
<1> QED
  BY <1>1, BranchInductive, PTL

(* With int_tol not below the LP tolerance both children of a node hold an  *)
(* integer value, share none, and cut the relaxation off.                   *)
THEOREM Splits == Spec => []BranchingSplits
<1>1. BInv => BranchingSplits
  <2> SUFFICES ASSUME BInv, SoundTolerance, NEW i \in Var, Branches(i)
               PROVE  /\ \A p \in ValuesOf(i) : ~(LeftHolds(x[i], p) /\ RightHolds(x[i], p))
                      /\ \E p \in ValuesOf(i) : LeftHolds(x[i], p)
                      /\ \E p \in ValuesOf(i) : RightHolds(x[i], p)
                      /\ x[i] > Floor(x[i]) * Scale + LpTol
                      /\ x[i] < Ceil(x[i]) * Scale - LpTol
    BY DEF BranchingSplits
  <2> DEFINE v == x[i]
  <2>1. /\ v \in Int /\ lo[i] \in Int /\ hi[i] \in Int /\ IsFractional(v)
        /\ lo[i] * Scale - LpTol <= v /\ v <= hi[i] * Scale + LpTol
    BY DEF BInv, TypeOK, InBox, Branches, IsFirstFractional, Fractional
  <2> HIDE DEF v
  <2>2. /\ Floor(v) * Scale + LpTol < v
        /\ v < Ceil(v) * Scale - LpTol
        /\ Floor(v) < Ceil(v)
        /\ lo[i] <= Floor(v)
        /\ Ceil(v) <= hi[i]
    BY <2>1, FractionalInside
  <2>3. /\ Floor(v) \in Int /\ Ceil(v) \in Int /\ Scale \in Int /\ LpTol \in Int
        /\ Floor(v) * Scale \in Int /\ Ceil(v) * Scale \in Int
    BY <2>1, FloorBounds, CeilBounds, BranchingAssumption
  <2>4. \A p \in Int : ~(LeftHolds(v, p) /\ RightHolds(v, p))
    BY <2>2, <2>3 DEF LeftHolds, RightHolds
  <2>5. Floor(v) \in ValuesOf(i) /\ LeftHolds(v, Floor(v))
    BY <2>1, <2>2, <2>3 DEF ValuesOf, LeftHolds
  <2>6. Ceil(v) \in ValuesOf(i) /\ RightHolds(v, Ceil(v))
    BY <2>1, <2>2, <2>3 DEF ValuesOf, RightHolds
  <2>7. v > Floor(v) * Scale + LpTol
    BY <2>1, <2>2, <2>3
  <2>8. \A p \in ValuesOf(i) : ~(LeftHolds(v, p) /\ RightHolds(v, p))
    BY <2>4 DEF ValuesOf
  <2> QED
    BY <2>2, <2>5, <2>6, <2>7, <2>8 DEF v
<1> QED
  BY <1>1, BranchInductive, PTL
=============================================================================
