---------------------------- MODULE FrontierBuild ----------------------------
(***************************************************************************)
(* build_frontier_jobs: the master pre-splits the problem, breadth first,  *)
(* into the jobs it will publish.                                          *)
(*                                                                         *)
(* One action is one iteration of the loop.  The verdict of the LP solver  *)
(* on a node is chosen by the environment among those a sound solver can   *)
(* return; the solver may also fail, which fails the whole call.           *)
(***************************************************************************)
EXTENDS BranchTree, FiniteSets

CONSTANT
  MaxSubproblems   \* options.max_subproblems.unwrap_or(256).clamp(1, 100_000)

ASSUME FrontierAssumption ==
  /\ SplitDepth \in 0..8
  /\ MaxSubproblems \in Nat /\ MaxSubproblems >= 1
  /\ Depth[Root] = 0

VARIABLES
  queue,   \* VecDeque<FrontierNode>
  jobs,    \* the jobs built so far, job n of the vector is `{solve_id}-{n-1}`
  result   \* "building", "ok" or "err": what the call has returned

vars == <<queue, jobs, result>>

LpStatus == {"infeasible", "numerical-error", "iter-limit", "unbounded", "optimal"}

(* What the LP relaxation of node n may answer.  A relaxation is infeasible *)
(* only if the node holds no integer point.                                 *)
Relaxations(n) ==
  {s \in LpStatus : s = "infeasible" => Pts[n] = {}}

TypeOK ==
  /\ queue \in Seq(Node)
  /\ jobs \in Seq(Node)
  /\ result \in {"building", "ok", "err"}

Init ==
  /\ queue = <<Root>>
  /\ jobs = <<>>
  /\ result = "building"

-----------------------------------------------------------------------------
(* LPStatus::Infeasible => continue: the node is dropped.                   *)
DropInfeasible ==
  /\ result = "building" /\ queue # <<>>
  /\ "infeasible" \in Relaxations(Head(queue))
  /\ queue' = Tail(queue)
  /\ UNCHANGED <<jobs, result>>

(* Mutant: one node is counted for the two.                                 *)
HasRoomForOne == Len(jobs) + Len(Tail(queue)) + 1 <= MaxSubproblems

(* The room test of the split: the popped node is in neither list, and two  *)
(* nodes are about to enter the queue.                                      *)
HasRoom == Len(jobs) + Len(Tail(queue)) + 2 <= MaxSubproblems

(* Mutant: the queue gets the left child only.                              *)
QueueLeft(n) == Append(Tail(queue), Kids[n][1])

(* node.depth < split_depth, and the relaxation is fractional.              *)
MaySplit(n) == Depth[n] < SplitDepth /\ Kids[n] # <<>>

(* The children go to the back of the queue, left then right.               *)
QueueChildren(n) == Tail(queue) \o <<Kids[n][1], Kids[n][2]>>

(* The relaxation is optimal at a fractional point and there is room.       *)
Split ==
  /\ result = "building" /\ queue # <<>>
  /\ "optimal" \in Relaxations(Head(queue))
  /\ MaySplit(Head(queue))
  /\ HasRoom
  /\ queue' = QueueChildren(Head(queue))
  /\ UNCHANGED <<jobs, result>>

(* Mutant: a node there is no room to split is put back for later.          *)
KeepForLater(status) ==
  /\ result = "building" /\ queue # <<>>
  /\ status \in Relaxations(Head(queue)) \ {"infeasible"}
  /\ jobs' = IF HasRoom THEN Append(jobs, Head(queue)) ELSE jobs
  /\ queue' = IF HasRoom THEN Tail(queue) ELSE Append(Tail(queue), Head(queue))
  /\ UNCHANGED result

(* Otherwise the node becomes a job: its relaxation is not optimal, or it   *)
(* is deep enough, or its optimum is integral, or there is no room.         *)
Keep(status) ==
  /\ result = "building" /\ queue # <<>>
  /\ status \in Relaxations(Head(queue)) \ {"infeasible"}
  /\ \/ status # "optimal"
     \/ ~MaySplit(Head(queue))
     \/ ~HasRoom
  /\ jobs' = Append(jobs, Head(queue))
  /\ queue' = Tail(queue)
  /\ UNCHANGED result

(* solve_lp_relaxation(..)? : the call returns the error and no job.        *)
LpFails ==
  /\ result = "building" /\ queue # <<>>
  /\ result' = "err"
  /\ UNCHANGED <<queue, jobs>>

Return ==
  /\ result = "building" /\ queue = <<>>
  /\ result' = "ok"
  /\ UNCHANGED <<queue, jobs>>

Next ==
  \/ DropInfeasible
  \/ Split
  \/ \E status \in LpStatus : Keep(status)
  \/ LpFails
  \/ Return

Spec == Init /\ [][Next]_vars

(* The loop is synchronous code: it keeps running.                          *)
FairSpec == Spec /\ WF_vars(Next)

-----------------------------------------------------------------------------
(* README "MIP_SOLVER_MAX_SUBPROBLEMS caps the master's pre-split           *)
(* branch-and-bound frontier": jobs and queued nodes together never exceed  *)
(* the cap, so the jobs returned do not either.                             *)
CapRespected == Len(jobs) + Len(queue) <= MaxSubproblems

(* The jobs built and the nodes still queued.                               *)
Pending == jobs \o queue

(* No subtree is handed out twice.                                          *)
Disjoint(s) ==
  \A i, j \in 1..Len(s) : i # j => Below[s[i]] \cap Below[s[j]] = {}

NoOverlap == Disjoint(Pending)

(* No feasible integer point is lost.                                      *)
NoPointLost == PtsOf(NodesIn(Pending)) = Pts[Root]

(* No job lies deeper than the split depth the request asked for.           *)
DepthBounded == \A n \in NodesIn(Pending) : Depth[n] <= SplitDepth

(* Both limits of the pre-split (2396-2398), at every turn of its loop.     *)
WithinLimits == CapRespected /\ DepthBounded

(* What the master relies on when it publishes the jobs (module             *)
(* MasterSolve starts from such a set); an empty list means no point.       *)
ReturnsFrontier ==
  result = "ok" =>
    /\ IsFrontier(NodesIn(jobs))
    /\ Cardinality(NodesIn(jobs)) = Len(jobs)

(* The pre-split terminates.                                                *)
Terminates == <>(result # "building")
=============================================================================
