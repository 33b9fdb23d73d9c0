----------------------------- MODULE Subproblem -----------------------------
(***************************************************************************)
(* What the distributed and the local solve have in common: the jobs and   *)
(* their retries, the results solve_subproblem may give, and what           *)
(* aggregate_results makes of them.                                         *)
(*                                                                         *)
(* A job id is its node and its retry index: `{root}` or                   *)
(* `{root}-retry-{n}`; job_retry_root and job_retry_index read them back.  *)
(* Child ids are made from the root id, so they depend on the node alone.  *)
(***************************************************************************)
EXTENDS BranchTree, FiniteSets

CONSTANTS
  NoPoint,       \* an empty x
  MaxRetries,    \* options.max_job_retries.unwrap_or(2)
  MaxAttempts,   \* bound of the model: the highest retry index of a job
  Answers        \* bound of the model: the statuses a subproblem may end with

ResultStatus ==
  {"optimal", "infeasible", "split", "error", "unbounded", "iter-limit", "numerical-error"}

Job == [node : Node, retry : 0..MaxAttempts]
FirstTry(n) == [node |-> n, retry |-> 0]
NextTry(j) == [j EXCEPT !.retry = @ + 1]    \* redelegated_job

Result == [job : Job, status : ResultStatus, x : Point \cup {NoPoint}]

Answer == {"optimal", "feasible-partial", "unbounded", "timeout", "error",
           "infeasible", "cancelled"}

Counts == [expected : Nat, published : Nat, redelegated : Nat, split : Nat]

Response == [status : Answer, x : Point \cup {NoPoint}, timedOut : BOOLEAN,
             expected : Nat, published : Nat, completed : Nat,
             redelegated : Nat, split : Nat]
NoResponse == [status |-> "none"]

-----------------------------------------------------------------------------
(* aggregate_results.                                                       *)

Feasible(R) == {r \in R : r.x # NoPoint}

(* The points the sorted list of feasible results may start with.           *)
AnyPoints(R) == {r.x : r \in Feasible(R)}   \* mutant: the list is not sorted
BestPoints(R) ==
  {r.x : r \in {s \in Feasible(R) : \A t \in Feasible(R) : Obj[t.x] <= Obj[s.x]}}

(* Mutant: a failed subproblem counts as a solved one.                      *)
AllAnswered(R, n, timedOut) == Cardinality(R) = n /\ ~timedOut

AllTerminal(R, n, timedOut) ==
  /\ Cardinality(R) = n
  /\ ~timedOut
  /\ \A r \in R : r.status \in {"optimal", "infeasible"}

(* Mutant: complete results are called optimal before a point is looked for. *)
CompleteIsOptimal(R, n, timedOut) ==
  IF AllTerminal(R, n, timedOut) THEN "optimal"
  ELSE IF timedOut THEN "timeout" ELSE "error"

AggregateStatus(R, n, timedOut) ==
  CASE Feasible(R) # {} /\ AllTerminal(R, n, timedOut)  -> "optimal"
    [] Feasible(R) # {} /\ ~AllTerminal(R, n, timedOut) -> "feasible-partial"
    [] Feasible(R) = {} /\ (\E r \in R : r.status = "unbounded") -> "unbounded"
    [] OTHER ->
         IF timedOut THEN "timeout"
         ELSE IF \E r \in R : r.status \in {"error", "iter-limit", "numerical-error"}
              THEN "error"
              ELSE "infeasible"

-----------------------------------------------------------------------------
(* The counters of the task, of the registry and of /metrics move together. *)
OnePublished(c)   == [c EXCEPT !.published = @ + 1]
OneRetry(c)       == [c EXCEPT !.redelegated = @ + 1]
OneSplit(c)       == [c EXCEPT !.split = @ + 1]
TwoMoreToCome(c)  == [c EXCEPT !.expected = @ + 2]   \* mutant: the parent still counts
NoMoreToCome(c)   == c                               \* mutant: the split is not counted
OneMoreToCome(c)  == [c EXCEPT !.expected = @ + 1]

-----------------------------------------------------------------------------
(* The answers a worker may truthfully give for job j.                      *)
Truthful(r) ==
  LET n == r.job.node
  IN  \/ r.status = "optimal" /\ IsBestOf(r.x, Pts[n])
      \/ r.status = "infeasible" /\ Pts[n] = {} /\ r.x = NoPoint
      \/ r.status \in {"error", "unbounded"} /\ r.x = NoPoint
      \/ r.status = "split" /\ r.x = NoPoint /\ Depth[n] < SplitDepth /\ Kids[n] # <<>>
      \/ r.status \in {"iter-limit", "numerical-error"}

TruthfulAnswers(j) ==
  {r \in {[job |-> j, status |-> s, x |-> x] : s \in Answers, x \in Pts[j.node] \cup {NoPoint}} :
     Truthful(r)}

(* should_redelegate_result.                                                *)
ShouldRedelegate(r) == r.status = "error" /\ r.job.retry < MaxRetries

(* The points an optimal or infeasible result accounts for.                 *)
Explored(R) == PtsOf({r.job.node : r \in {s \in R : s.status \in {"optimal", "infeasible"}}})
=============================================================================
