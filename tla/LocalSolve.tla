----------------------------- MODULE LocalSolve -----------------------------
(***************************************************************************)
(* A solve without NATS, from the pre-split to the answer: the sequential  *)
(* loop of solve_problem_distributed over the jobs of build_frontier_jobs   *)
(* (module FrontierBuild, whose variables and actions are part of this one) *)
(* and, for a problem without integer variables, solve_pure_lp_local.       *)
(*                                                                         *)
(* An attempt is solved on a blocking thread that the task awaits between   *)
(* looks at cancelled_solves.  There is no deadline.                        *)
(***************************************************************************)
EXTENDS FrontierBuild, Subproblem

ASSUME LocalAssumption ==
  /\ NoPoint \notin Point
  /\ MaxRetries \in Nat /\ MaxAttempts = MaxRetries
  /\ Answers \subseteq ResultStatus

VARIABLES
  pure,       \* is_pure_lp: one job, no pre-split, no split, no retry
  pc,         \* where the task is
  pending,    \* VecDeque<SubproblemJob>
  attempt,    \* the job being solved
  results,    \* the results vector
  count,      \* jobs_expected, jobs_published, jobs_redelegated, jobs_split
  entry,      \* the solve's SolveRegistryEntry, its job map left out
  cancelled,  \* the solve is in cancelled_solves
  response    \* the SolveResponse returned

taskVars == <<pure, pc, pending, attempt, results, count, entry, cancelled, response>>
localVars == <<vars, taskVars>>

NoJob == [node |-> NoPoint, retry |-> 0]

(* solve_pure_lp_local: the problem is one job from the start.              *)
OnlyJob == queue = <<>> /\ jobs = <<Root>> /\ result = "ok"

LocalInit ==
  /\ \/ pure = FALSE /\ Init
     \/ pure = TRUE /\ OnlyJob
  /\ pc = "frontier"
  /\ pending = <<>> /\ attempt = NoJob /\ results = {}
  /\ count = [expected |-> 0, published |-> 0, redelegated |-> 0, split |-> 0]
  /\ entry = [status |-> "none", expected |-> 0, published |-> 0, completed |-> 0,
              redelegated |-> 0, split |-> 0]
  /\ cancelled = FALSE
  /\ response = NoResponse

-----------------------------------------------------------------------------
BuildFrontier == pc = "frontier" /\ Next /\ UNCHANGED taskVars

(* build_frontier_jobs(..)?, or track_solve_started(..)? of a busy problem.  *)
StartFails ==
  /\ pc = "frontier" /\ result \in {"ok", "err"}
  /\ pc' = "failed"
  /\ UNCHANGED <<vars, pure, pending, attempt, results, count, entry, cancelled, response>>

(* track_solve_started: from here on the solve can be found and cancelled.  *)
StartSolve ==
  /\ pc = "frontier" /\ result = "ok"
  /\ pc' = "next"
  /\ pending' = [i \in DOMAIN jobs |-> FirstTry(jobs[i])]
  /\ count' = [count EXCEPT !.expected = Len(jobs)]
  /\ entry' = [entry EXCEPT !.status = "running", !.expected = Len(jobs)]
  /\ UNCHANGED <<vars, pure, attempt, results, cancelled, response>>

(* while let Some(initial_job) = pending.pop_front(), once no cancel shows; *)
(* record_job_submitted, and the solver is spawned.                         *)
BeginAttempt ==
  /\ pc = "next" /\ pending # <<>> /\ ~cancelled
  /\ pc' = "solving"
  /\ attempt' = Head(pending)
  /\ pending' = Tail(pending)
  /\ count' = OnePublished(count)
  /\ entry' = OnePublished(entry)
  /\ UNCHANGED <<vars, pure, results, cancelled, response>>

(* The solver returns r, and no cancel shows.                               *)
Returns(r) ==
  /\ pc = "solving" /\ ~cancelled
  /\ r \in TruthfulAnswers(attempt)
  /\ pure => r.status # "split"
  /\ pc' = "next"
  /\ attempt' = NoJob

(* Mutants: the parent stays to be solved too; or its right child is lost.  *)
SplitKeeping(r) == <<r.job>> \o [i \in {1, 2} |-> FirstTry(Kids[r.job.node][i])]
SplitLeft(r)    == <<FirstTry(Kids[r.job.node][1])>>

ChildJobs(r) == [i \in DOMAIN Kids[r.job.node] |-> FirstTry(Kids[r.job.node][i])]

(* The children go to the back of the queue.                                *)
SplitAttempt(r) ==
  /\ Returns(r)
  /\ r.status = "split"
  /\ pending' = pending \o ChildJobs(r)
  /\ count' = OneMoreToCome(OneSplit(count))
  /\ entry' = OneMoreToCome(OneSplit(entry))
  /\ UNCHANGED <<vars, pure, results, cancelled, response>>

(* `continue`: the retry is the next attempt.                               *)
RetryAttempt(r) ==
  /\ Returns(r)
  /\ ~pure /\ ShouldRedelegate(r)
  /\ pending' = <<NextTry(r.job)>> \o pending
  /\ count' = OneRetry(count)
  /\ entry' = OneRetry(entry)
  /\ UNCHANGED <<vars, pure, results, cancelled, response>>

(* record_job_result(.., true) and results.push.                            *)
KeepResult(r) ==
  /\ Returns(r)
  /\ r.status # "split" /\ (pure \/ ~ShouldRedelegate(r))
  /\ results' = results \cup {r}
  /\ entry' = [entry EXCEPT !.completed = @ + 1]
  /\ UNCHANGED <<vars, pure, pending, count, cancelled, response>>

(* The solver's thread is lost (JoinError): the entry stays as it is.       *)
SolverLost ==
  /\ pc = "solving"
  /\ pc' = "failed"
  /\ UNCHANGED <<vars, pure, pending, attempt, results, count, entry, cancelled, response>>

(* Mutant: the cancel is looked for between attempts only.                  *)
ObserveCancelBetween ==
  /\ cancelled
  /\ pc = "next" /\ (pending # <<>> \/ jobs = <<>>)
  /\ pc' = "done"
  /\ entry' = [entry EXCEPT !.status = "cancelled"]
  /\ response' = [status |-> "cancelled", x |-> NoPoint, timedOut |-> FALSE,
                  expected |-> entry.expected, published |-> entry.published,
                  completed |-> entry.completed, redelegated |-> entry.redelegated,
                  split |-> entry.split]
  /\ UNCHANGED <<vars, pure, pending, attempt, results, count, cancelled>>

(* solve_cancel_info has something: before the first job, before an         *)
(* attempt, at each poll of the solver and when it has returned.  The       *)
(* solver's thread is left to itself.                                       *)
ObserveCancel ==
  /\ cancelled
  /\ \/ pc = "next" /\ (pending # <<>> \/ jobs = <<>>)
     \/ pc = "solving"
  /\ pc' = "done"
  /\ entry' = [entry EXCEPT !.status = "cancelled"]
  /\ response' = [status |-> "cancelled", x |-> NoPoint, timedOut |-> FALSE,
                  expected |-> entry.expected, published |-> entry.published,
                  completed |-> entry.completed, redelegated |-> entry.redelegated,
                  split |-> entry.split]
  /\ UNCHANGED <<vars, pure, pending, attempt, results, count, cancelled>>

(* aggregate_results and track_solve_finished.                              *)
Finish ==
  /\ pc = "next" /\ pending = <<>>
  /\ jobs = <<>> => ~cancelled
  /\ pc' = "done"
  /\ LET status == AggregateStatus(results, count.expected, FALSE)
     IN  /\ \E x \in IF Feasible(results) = {} THEN {NoPoint} ELSE BestPoints(results) :
              response' = [status |-> status, x |-> x, timedOut |-> FALSE,
                           expected |-> count.expected, published |-> count.published,
                           completed |-> Cardinality(results),
                           redelegated |-> count.redelegated, split |-> count.split]
         /\ entry' = [status |-> status,
                      expected |-> count.expected, published |-> count.published,
                      completed |-> Cardinality(results),
                      redelegated |-> count.redelegated, split |-> count.split]
  /\ UNCHANGED <<vars, pure, pending, attempt, results, count, cancelled>>

(* request_solve_cancel, its two locks; a cancel of a finished solve is in  *)
(* ProblemTask.                                                             *)
RequestCancel ==
  /\ entry.status = "running"
  /\ entry' = [entry EXCEPT !.status = "cancelling"]
  /\ UNCHANGED <<vars, pure, pc, pending, attempt, results, count, cancelled, response>>

RecordCancel ==
  /\ entry.status = "cancelling" /\ ~cancelled
  /\ cancelled' = TRUE
  /\ UNCHANGED <<vars, pure, pc, pending, attempt, results, count, entry, response>>

-----------------------------------------------------------------------------
SolverReturns ==
  pc = "solving" /\ \E r \in TruthfulAnswers(attempt) :
    SplitAttempt(r) \/ RetryAttempt(r) \/ KeepResult(r)

TaskStep == BuildFrontier \/ StartSolve \/ BeginAttempt \/ ObserveCancel \/ Finish

LocalNext ==
  TaskStep \/ SolverReturns \/ StartFails \/ SolverLost \/ RequestCancel \/ RecordCancel

LocalSpec == LocalInit /\ [][LocalNext]_localVars

(* The task is polled again after every await and every poll interval; the  *)
(* solver need not return.                                                  *)
LocalFairSpec == LocalSpec /\ WF_localVars(TaskStep)

-----------------------------------------------------------------------------
Solving == pc \in {"next", "solving"}

(* What is left to do: the queue, and the attempt under way.                *)
Work == (IF pc = "solving" THEN <<attempt>> ELSE <<>>) \o pending

NodesOf(s) == {s[i].node : i \in DOMAIN s}

(* No feasible point drops out between the pre-split, a split at run time   *)
(* and a retry (5674-5845): each lies below a job still to be solved or one *)
(* whose result is kept.                                                    *)
NothingDropped ==
  Solving => PtsOf(NodesOf(Work)) \cup PtsOf({r.job.node : r \in results}) = Pts[Root]

(* No part of the tree is solved twice: the jobs in hand share no node with *)
(* each other or with a result that is kept, retries included.              *)
NothingTwice ==
  Solving =>
    /\ \A i, j \in DOMAIN Work :
         i # j => Below[Work[i].node] \cap Below[Work[j].node] = {}
    /\ \A i \in DOMAIN Work, r \in results :
         Below[Work[i].node] \cap Below[r.job.node] = {}

(* jobs_expected is the number of results kept and jobs in hand, so the     *)
(* loop ends with results.len() == jobs_expected, which "optimal" and       *)
(* "infeasible" need (3301); and the registry, which a cancelled solve      *)
(* reports, tells the same as the task (5698-5846).                         *)
LocalCounts ==
  Solving =>
    /\ Cardinality(results) + Len(Work) = count.expected
    /\ entry.completed = Cardinality(results)
    /\ \A f \in DOMAIN count : entry[f] = count[f]

LocalContract == INSTANCE SolveContract WITH
  unexplored <- Pts[Root] \ Explored(results),
  found      <- {r.x : r \in Feasible(results)},
  answer     <- IF response = NoResponse
                THEN [status |-> "none", x |-> NoPoint]
                ELSE [status |-> response.status, x |-> response.x]

(* The local solve, pre-split and all, keeps the contract of the            *)
(* distributed one: its one answer follows from what it explored.           *)
LocalImplementsContract == LocalContract!ContractSpec

(* A recorded cancel ends the solve though the solver never returns.        *)
CancelEndsLocal == cancelled ~> pc \in {"done", "failed"}
=============================================================================
