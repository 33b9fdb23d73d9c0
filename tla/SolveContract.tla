---------------------------- MODULE SolveContract ----------------------------
(***************************************************************************)
(* What a solve promises its caller, without jobs, workers or messages: it *)
(* explores the feasible integer points region by region, keeps the points *)
(* it finds, and gives one answer that what it explored justifies.         *)
(*                                                                         *)
(* MasterSolve and LocalSolve implement this module (MasterSolveProofs and *)
(* LocalSolveProofs prove it).                                             *)
(***************************************************************************)
EXTENDS BranchTree, TLAPS

CONSTANT NoPoint

VARIABLES
  unexplored,   \* the feasible points no finished subproblem covers
  found,        \* the points subproblems returned
  answer        \* the answer given: a status and a point

cvars == <<unexplored, found, answer>>

NoAnswer == [status |-> "none", x |-> NoPoint]

ContractInit ==
  /\ unexplored = Pts[Root]
  /\ found = {}
  /\ answer = NoAnswer

(* A subproblem is solved to the end: the optimum of its region is found.   *)
Explore ==
  /\ answer = NoAnswer
  /\ \E region \in SUBSET Pts[Root] :
       \E x \in region :
         /\ IsBestOf(x, region)
         /\ unexplored' = unexplored \ region
         /\ found' = found \cup {x}
  /\ UNCHANGED answer

(* A subproblem stopped early with an incumbent.                            *)
FindPoint ==
  /\ answer = NoAnswer
  /\ \E x \in Pts[Root] : found' = found \cup {x}
  /\ UNCHANGED <<unexplored, answer>>

BestFound(x) == x \in found /\ \A y \in found : Obj[y] <= Obj[x]

AnswerOptimal ==
  /\ unexplored = {}
  /\ \E x \in found : BestFound(x) /\ answer' = [status |-> "optimal", x |-> x]

AnswerInfeasible ==
  /\ unexplored = {} /\ found = {}
  /\ answer' = [status |-> "infeasible", x |-> NoPoint]

AnswerPartial ==
  \E x \in found : BestFound(x) /\ answer' = [status |-> "feasible-partial", x |-> x]

GiveUp ==
  /\ found = {}
  /\ \E s \in {"unbounded", "timeout", "error"} :
       answer' = [status |-> s, x |-> NoPoint]

(* A cancel throws away what was found.                                     *)
AnswerCancelled == answer' = [status |-> "cancelled", x |-> NoPoint]

GiveAnswer ==
  /\ answer = NoAnswer
  /\ \/ AnswerOptimal
     \/ AnswerInfeasible
     \/ AnswerPartial
     \/ GiveUp
     \/ AnswerCancelled
  /\ UNCHANGED <<unexplored, found>>

ContractNext == Explore \/ FindPoint \/ GiveAnswer

ContractSpec == ContractInit /\ [][ContractNext]_cvars

-----------------------------------------------------------------------------
(* What the contract is worth: its answers are true of the problem.         *)
ContractSound ==
  /\ answer.status = "optimal" => IsBestOf(answer.x, Pts[Root])
  /\ answer.status = "infeasible" => Pts[Root] = {}
  /\ answer.status = "feasible-partial" => answer.x \in Pts[Root]

(* Every point explored is no better than some point found.                 *)
Dominated ==
  /\ found \subseteq Pts[Root]
  /\ \A y \in Pts[Root] \ unexplored : \E x \in found : Obj[y] <= Obj[x]

LEMMA ContractInv ==
  ASSUME Dominated, ContractSound, [ContractNext]_cvars
  PROVE  Dominated' /\ ContractSound'
<1> USE DEF Dominated, ContractSound
<1>1. CASE Explore
  <2>0. PICK region \in SUBSET Pts[Root] :
          \E x \in region : /\ IsBestOf(x, region)
                            /\ unexplored' = unexplored \ region
                            /\ found' = found \cup {x}
    BY <1>1 DEF Explore
  <2>1. PICK x \in region : /\ IsBestOf(x, region)
                            /\ unexplored' = unexplored \ region
                            /\ found' = found \cup {x}
    BY <2>0
  <2>2. \A y \in region : Obj[y] <= Obj[x]
    BY <2>1 DEF IsBestOf
  <2> QED
    BY <1>1, <2>1, <2>2 DEF Explore, IsBestOf
<1>2. CASE FindPoint
  BY <1>2 DEF FindPoint, IsBestOf
<1>3. CASE GiveAnswer
  <2>1. UNCHANGED <<unexplored, found>>
    BY <1>3 DEF GiveAnswer
  <2>2. CASE AnswerOptimal
    <3>1. PICK x \in found : BestFound(x) /\ answer' = [status |-> "optimal", x |-> x]
      BY <2>2 DEF AnswerOptimal
    <3>2. x \in Pts[Root]
      OBVIOUS
    <3>3. ASSUME NEW y \in Pts[Root] PROVE Obj[y] <= Obj[x]
      <4>1. PICK z \in found : Obj[y] <= Obj[z]
        BY <2>2 DEF AnswerOptimal
      <4>2. Obj[z] <= Obj[x]
        BY <3>1 DEF BestFound
      <4>3. Obj[x] \in Int /\ Obj[y] \in Int /\ Obj[z] \in Int
        BY TreeAssumption DEF TreeTypes
      <4> QED
        BY <4>1, <4>2, <4>3
    <3> QED
      BY <2>1, <3>1, <3>2, <3>3 DEF IsBestOf
  <2>3. CASE AnswerInfeasible
    BY <2>1, <2>3 DEF AnswerInfeasible, IsBestOf
  <2>4. CASE AnswerPartial
    BY <2>1, <2>4 DEF AnswerPartial, IsBestOf
  <2>5. CASE GiveUp \/ AnswerCancelled
    BY <2>1, <2>5 DEF GiveUp, AnswerCancelled, IsBestOf
  <2> QED
    BY <1>3, <2>2, <2>3, <2>4, <2>5 DEF GiveAnswer
<1>4. CASE UNCHANGED cvars
  BY <1>4 DEF cvars, IsBestOf
<1> QED
  BY <1>1, <1>2, <1>3, <1>4 DEF ContractNext

(* A solve that keeps the contract answers soundly: aggregate_results may   *)
(* say optimal or infeasible only of what the results it holds cover.       *)
THEOREM ContractAnswersSound == ContractSpec => []ContractSound
<1>1. ContractInit => Dominated /\ ContractSound
  BY DEF ContractInit, NoAnswer, Dominated, ContractSound
<1>2. (Dominated /\ ContractSound) /\ [ContractNext]_cvars => (Dominated /\ ContractSound)'
  BY ContractInv
<1> QED
  BY <1>1, <1>2, PTL DEF ContractSpec
=============================================================================
