----------------------------- MODULE MasterSolve -----------------------------
(***************************************************************************)
(* The master's side of one distributed solve: solve_problem_distributed   *)
(* from track_solve_started on, with the job queue and the workers replaced *)
(* by the weakest environment they allow.                                  *)
(*                                                                         *)
(* The environment may answer any job that may have reached the stream, in *)
(* any order, any number of times and each time differently, as long as    *)
(* each answer is truthful; it may lose answers, fail a publish, store a   *)
(* job whose publish failed (the acknowledgement was lost), send progress  *)
(* frames late, and ask for a cancel at any moment.  Clocks are abstracted *)
(* away: a running job may look stale and the deadline may pass whenever   *)
(* the code looks.                                                         *)
(***************************************************************************)
EXTENDS Subproblem

CONSTANT
  Frontiers      \* what build_frontier_jobs may return: sequences of nodes

ASSUME SolveAssumption ==
  /\ NoPoint \notin Point
  /\ SplitDepth \in 0..8
  /\ MaxRetries \in Nat
  /\ MaxAttempts \in Nat
  /\ MaxRetries <= MaxAttempts
  /\ Answers \subseteq ResultStatus
  /\ \A F \in Frontiers :
       /\ F \in Seq(Node)
       /\ \A i, j \in DOMAIN F : i # j => F[i] # F[j]
       /\ IsFrontier(NodesIn(F))

NoResult == [status |-> "none"]

JobStatus == ResultStatus \cup {"none", "submitted", "running", "stale-requeued",
                                "retrying", "cancelled"}
(* The statuses under which a JobRegistryEntry has no finished_at_ms.       *)
Unfinished == {"submitted", "running", "stale-requeued"}

VARIABLES
  pc,          \* where the master task is
  unsent,      \* the jobs of the current publish loop still to be published
  current,     \* the accepted result being handled
  expected,    \* expected_job_ids
  completed,   \* completed_job_ids
  superseded,  \* superseded_job_ids
  results,     \* the results vector: what aggregate_results will see
  count,       \* jobs_expected, jobs_published, jobs_redelegated, jobs_split
  entry,       \* the solve's SolveRegistryEntry, its job map left out
  jobStatus,   \* JobRegistryEntry.status of each job of the entry
  cancelled,   \* the solve is in cancelled_solves
  metrics,     \* the subproblem counters of /metrics
  stream,      \* the jobs JetStream may hold or have held
  response     \* the SolveResponse returned

locals == <<unsent, current, expected, completed, superseded, results, count>>
vars == <<pc, unsent, current, expected, completed, superseded, results, count,
          entry, jobStatus, cancelled, metrics, stream, response>>

(* The order of the phases of the task: publish the frontier, then the      *)
(* while loop (check, wait), in it the handling of a split or of a failed   *)
(* attempt; done and failed are Ok and Err.                                 *)
Phase == {"publish", "check", "wait", "split", "redelegate", "done", "failed"}

Entry == [status : Answer \cup {"running", "cancelling"}, finished : BOOLEAN,
          cancelRequested : BOOLEAN, expected : Nat, published : Nat,
          completed : Nat, redelegated : Nat, split : Nat]
Metrics == [published : Nat, completed : Nat, redelegated : Nat, split : Nat]

TypeOK ==
  /\ pc \in Phase
  /\ unsent \in Seq(Job)
  /\ current \in Result \cup {NoResult}
  /\ expected \subseteq Job
  /\ completed \subseteq Job
  /\ superseded \subseteq Job
  /\ results \subseteq Result
  /\ IsFiniteSet(expected) /\ IsFiniteSet(results)
  /\ count \in Counts
  /\ entry \in Entry
  /\ jobStatus \in [Job -> JobStatus]
  /\ cancelled \in BOOLEAN
  /\ metrics \in Metrics
  /\ stream \subseteq Job
  /\ response \in Response \cup {NoResponse}

(* The attempts the master still waits for.                                 *)
Outstanding == expected \ completed

-----------------------------------------------------------------------------
(* track_solve_started has inserted the entry; nothing is published.        *)
Init ==
  /\ pc = "publish"
  /\ \E F \in Frontiers :
       /\ unsent = [i \in DOMAIN F |-> FirstTry(F[i])]
       /\ expected = NodesIn(unsent)
       /\ count = [expected |-> Len(F), published |-> Len(F), redelegated |-> 0, split |-> 0]
       /\ entry = [status |-> "running", finished |-> FALSE, cancelRequested |-> FALSE,
                   expected |-> Len(F), published |-> 0, completed |-> 0,
                   redelegated |-> 0, split |-> 0]
  /\ current = NoResult
  /\ completed = {}
  /\ superseded = {}
  /\ results = {}
  /\ jobStatus = [j \in Job |-> "none"]
  /\ cancelled = FALSE
  /\ metrics = [published |-> 0, completed |-> 0, redelegated |-> 0, split |-> 0]
  /\ stream = {}
  /\ response = NoResponse

-----------------------------------------------------------------------------
(* aggregate_results and track_solve_finished, which no await separates.    *)
Aggregate(timedOut) ==
  /\ \E x \in IF Feasible(results) = {} THEN {NoPoint} ELSE BestPoints(results) :
       response' = [status |-> AggregateStatus(results, count.expected, timedOut),
                    x |-> x, timedOut |-> timedOut,
                    expected |-> count.expected, published |-> count.published,
                    completed |-> Cardinality(results),
                    redelegated |-> count.redelegated, split |-> count.split]
  /\ entry' = [entry EXCEPT !.status = AggregateStatus(results, count.expected, timedOut),
                            !.finished = TRUE,
                            !.expected = count.expected, !.published = count.published,
                            !.completed = Cardinality(results),
                            !.redelegated = count.redelegated, !.split = count.split]
  /\ pc' = "done"
  /\ UNCHANGED <<locals, jobStatus, cancelled, metrics, stream>>

(* finish_cancelled_solve: track_solve_cancelled closes the entry and its   *)
(* unfinished jobs, and the response takes its counts from the entry.       *)
FinishCancelled ==
  /\ entry' = [entry EXCEPT !.status = "cancelled", !.finished = TRUE,
                            !.cancelRequested = TRUE]
  /\ jobStatus' = [j \in Job |-> IF jobStatus[j] \in Unfinished
                                 THEN "cancelled" ELSE jobStatus[j]]
  /\ response' = [status |-> "cancelled", x |-> NoPoint, timedOut |-> FALSE,
                  expected |-> entry.expected, published |-> entry.published,
                  completed |-> entry.completed, redelegated |-> entry.redelegated,
                  split |-> entry.split]
  /\ pc' = "done"

-----------------------------------------------------------------------------
(* publish_subproblem_job returned Err: the message may be stored all the   *)
(* same, when only the acknowledgement was lost.                            *)
PublishFails(j) == stream' \in {stream, stream \cup {j}}

(* What every successful publish of job j by the loop does besides: the     *)
(* registry (record_job_submitted) and the expected set learn of it.        *)
RegistersJob(j) ==
  /\ jobStatus' = [jobStatus EXCEPT ![j] = "submitted"]
  /\ stream' = stream \cup {j}

(* One turn of `for job in &jobs`: cancel check, publish, registry.         *)
PublishFrontierJob ==
  /\ pc = "publish" /\ unsent # <<>> /\ ~cancelled
  /\ RegistersJob(Head(unsent))
  /\ unsent' = Tail(unsent)
  /\ entry' = OnePublished(entry)
  /\ metrics' = OnePublished(metrics)
  /\ UNCHANGED <<pc, current, expected, completed, superseded, results, count,
                 cancelled, response>>

(* `publish_subproblem_job(..).await?`: the error leaves the function; the  *)
(* registry entry stays as it is.                                           *)
PublishFrontierFails ==
  /\ pc = "publish" /\ unsent # <<>> /\ ~cancelled
  /\ PublishFails(Head(unsent))
  /\ pc' = "failed"
  /\ UNCHANGED <<locals, entry, jobStatus, cancelled, metrics, response>>

(* The result consumer is created and opened once every job is published.   *)
OpenResultConsumer ==
  /\ pc = "publish" /\ unsent = <<>> /\ count.expected > 0
  /\ pc' \in {"check", "failed"}
  /\ UNCHANGED <<locals, entry, jobStatus, cancelled, metrics, stream, response>>

(* Mutant: the loop does not look for a cancel.                             *)
ObserveCancelBeforeLoop ==
  /\ cancelled
  /\ pc = "publish" /\ (unsent # <<>> \/ count.expected = 0)
  /\ FinishCancelled
  /\ UNCHANGED <<locals, cancelled, metrics, stream>>

(* The cancel checks that precede each publish and each turn of the loop.   *)
ObserveCancel ==
  /\ cancelled
  /\ \/ pc = "publish" /\ (unsent # <<>> \/ count.expected = 0)
     \/ pc = "check" /\ Cardinality(results) < count.expected
     \/ pc = "split" /\ unsent # <<>>
     \/ pc = "redelegate"
  /\ FinishCancelled
  /\ UNCHANGED <<locals, cancelled, metrics, stream>>

-----------------------------------------------------------------------------
(* while results.len() < jobs_expected is over; or the pre-split left no    *)
(* subproblem (jobs.is_empty()), and the loop is never reached.             *)
Finish ==
  /\ \/ pc = "check"
     \/ pc = "publish" /\ count.expected = 0 /\ ~cancelled
  /\ Cardinality(results) >= count.expected
  /\ Aggregate(FALSE)

BeginWait ==
  /\ pc = "check" /\ Cardinality(results) < count.expected /\ ~cancelled
  /\ pc' = "wait"
  /\ UNCHANGED <<locals, entry, jobStatus, cancelled, metrics, stream, response>>

(* Mutant: the stale attempt stays expected next to its retry.              *)
SupersedeBoth(j, k) ==
  /\ expected' = expected \cup {k}
  /\ superseded' = superseded \cup {j}

(* The stale attempt j gives way to its retry k.                            *)
Supersede(j, k) ==
  /\ expected' = (expected \ {j}) \cup {k}
  /\ superseded' = superseded \cup {j}

(* requeue_stale_worker_jobs for job j, when the publish succeeds.          *)
RequeueStale(j) ==
  /\ pc = "wait"
  /\ j \in Outstanding \ superseded
  /\ jobStatus[j] = "running"
  /\ j.retry < MaxAttempts
  /\ LET k == NextTry(j)
     IN  /\ jobStatus' = [jobStatus EXCEPT ![j] = "stale-requeued", ![k] = "submitted"]
         /\ stream' = stream \cup {k}
         /\ Supersede(j, k)
  /\ count' = OneRetry(OnePublished(count))
  /\ entry' = OneRetry(OnePublished(entry))
  /\ metrics' = OneRetry(OnePublished(metrics))
  /\ UNCHANGED <<pc, unsent, current, completed, results, cancelled, response>>

(* The same when the publish fails: a warning, and the job stays expected.  *)
RequeueStaleFails(j) ==
  /\ pc = "wait"
  /\ j \in Outstanding \ superseded
  /\ jobStatus[j] = "running"
  /\ j.retry < MaxAttempts
  /\ PublishFails(NextTry(j))
  /\ UNCHANGED <<pc, locals, entry, jobStatus, cancelled, metrics, response>>

(* Mutant: the deadline is forgotten once a result has come in.             *)
TimeOutUnlessAnswered == pc = "wait" /\ completed = {} /\ Aggregate(TRUE)

(* now >= deadline, no message before it, or the result consumer closed.    *)
TimeOut == pc = "wait" /\ Aggregate(TRUE)

(* The poll interval elapsed, or the consumer reported an error: next turn. *)
Poll ==
  /\ pc = "wait"
  /\ pc' = "check"
  /\ UNCHANGED <<locals, entry, jobStatus, cancelled, metrics, stream, response>>

-----------------------------------------------------------------------------
(* Mutant: anything not seen before is accepted.                            *)
AcceptedUnlessSeen(r) == r.job \notin completed

(* The superseded test of the loop, then accept_subproblem_result.          *)
Accepted(r) ==
  /\ r.job \notin superseded
  /\ r.job \in expected
  /\ r.job \notin completed

(* A result that is not accepted is acknowledged and dropped.               *)
IgnoreResult(r) ==
  /\ pc = "wait"
  /\ ~Accepted(r)
  /\ pc' = "check"
  /\ UNCHANGED <<locals, entry, jobStatus, cancelled, metrics, stream, response>>

(* What accepting a result does before the code looks at its status.        *)
Accept(r) ==
  /\ pc = "wait"
  /\ Accepted(r)
  /\ completed' = completed \cup {r.job}
  /\ metrics' = [metrics EXCEPT !.completed = @ + 1]

(* The cancel check that follows the acceptance.                            *)
ReceiveCancelled(r) ==
  /\ Accept(r)
  /\ cancelled
  /\ FinishCancelled
  /\ UNCHANGED <<unsent, current, expected, superseded, results, count,
                 cancelled, stream>>

(* Mutants: the result is not kept, or not counted in the registry.         *)
RecordTerminalNoPush(r) ==
  /\ jobStatus' = [jobStatus EXCEPT ![r.job] = r.status]
  /\ entry' = [entry EXCEPT !.completed = @ + 1]
  /\ results' = results
RecordTerminalUncounted(r) ==
  /\ jobStatus' = [jobStatus EXCEPT ![r.job] = r.status]
  /\ entry' = entry
  /\ results' = results \cup {r}

(* track_job_result(.., terminal = true) and results.push.                  *)
RecordTerminal(r) ==
  /\ jobStatus' = [jobStatus EXCEPT ![r.job] = r.status]
  /\ entry' = [entry EXCEPT !.completed = @ + 1]
  /\ results' = results \cup {r}

ReceiveTerminal(r) ==
  /\ Accept(r)
  /\ ~cancelled
  /\ r.status # "split"
  /\ ~ShouldRedelegate(r)
  /\ RecordTerminal(r)
  /\ pc' = "check"
  /\ UNCHANGED <<unsent, current, expected, superseded, count, cancelled, stream, response>>

(* A split result: its children are going to be published, left then right. *)
ReceiveSplit(r) ==
  /\ Accept(r)
  /\ ~cancelled
  /\ r.status = "split"
  /\ pc' = "split"
  /\ current' = r
  /\ unsent' = [i \in DOMAIN Kids[r.job.node] |-> FirstTry(Kids[r.job.node][i])]
  /\ UNCHANGED <<expected, superseded, results, count, entry, jobStatus,
                 cancelled, stream, response>>

(* A failed attempt with retries left: recorded as retrying.                *)
ReceiveFailed(r) ==
  /\ Accept(r)
  /\ ~cancelled
  /\ ShouldRedelegate(r)
  /\ pc' = "redelegate"
  /\ current' = r
  /\ jobStatus' = [jobStatus EXCEPT ![r.job] = "retrying"]
  /\ UNCHANGED <<unsent, expected, superseded, results, count, entry,
                 cancelled, stream, response>>

(* Back to the top of the loop, the result dealt with.                      *)
NextTurn == pc' = "check" /\ current' = NoResult

PublishChild ==
  /\ pc = "split" /\ unsent # <<>> /\ ~cancelled
  /\ RegistersJob(Head(unsent))
  /\ expected' = expected \cup {Head(unsent)}
  /\ unsent' = Tail(unsent)
  /\ count' = OnePublished(count)
  /\ entry' = OnePublished(entry)
  /\ metrics' = OnePublished(metrics)
  /\ UNCHANGED <<pc, current, completed, superseded, results, cancelled, response>>

(* A child cannot be published: the parent becomes a terminal error, the    *)
(* children already published stay expected, jobs_expected stays as it was. *)
PublishChildFails ==
  /\ pc = "split" /\ unsent # <<>> /\ ~cancelled
  /\ PublishFails(Head(unsent))
  /\ RecordTerminal([current EXCEPT !.status = "error"])
  /\ unsent' = <<>>
  /\ NextTurn
  /\ UNCHANGED <<expected, completed, superseded, count, cancelled, metrics, response>>

(* Every child is published: track_job_split; the parent is replaced by its *)
(* two children in the number of results to wait for.                       *)
CompleteSplit ==
  /\ pc = "split" /\ unsent = <<>>
  /\ jobStatus' = [jobStatus EXCEPT ![current.job] = "split"]
  /\ count' = OneMoreToCome(OneSplit(count))
  /\ entry' = OneMoreToCome(OneSplit(entry))
  /\ metrics' = OneSplit(metrics)
  /\ NextTurn
  /\ UNCHANGED <<unsent, expected, completed, superseded, results, cancelled,
                 stream, response>>

Redelegate ==
  /\ pc = "redelegate" /\ ~cancelled
  /\ LET k == NextTry(current.job)
     IN  /\ RegistersJob(k)
         /\ expected' = expected \cup {k}
  /\ count' = OneRetry(OnePublished(count))
  /\ entry' = OneRetry(OnePublished(entry))
  /\ metrics' = OneRetry(OnePublished(metrics))
  /\ NextTurn
  /\ UNCHANGED <<unsent, completed, superseded, results, cancelled, response>>

RedelegateFails ==
  /\ pc = "redelegate" /\ ~cancelled
  /\ PublishFails(NextTry(current.job))
  /\ RecordTerminal(current)
  /\ NextTurn
  /\ UNCHANGED <<unsent, expected, completed, superseded, count, cancelled,
                 metrics, response>>

-----------------------------------------------------------------------------
(* The rest of the process and of the cluster.                              *)

(* track_job_worker_progress: a request-work or worker-progress frame about *)
(* job j, however late; the entry is marked running whatever it was.        *)
WorkerProgress(j) ==
  /\ j \in stream
  /\ jobStatus[j] # "running"
  /\ jobStatus' = [jobStatus EXCEPT ![j] = "running"]
  /\ UNCHANGED <<pc, locals, entry, cancelled, metrics, stream, response>>

TerminalSolveStatus == {"optimal", "infeasible", "unbounded", "timeout", "error"}

(* Mutant: a finished solve is marked as cancelling too.                    *)
MarkCancellingAlways ==
  /\ ~entry.cancelRequested
  /\ entry' = [entry EXCEPT !.cancelRequested = TRUE, !.status = "cancelling"]
  /\ UNCHANGED <<pc, locals, jobStatus, cancelled, metrics, stream, response>>

(* The entry under the solves lock: its status changes unless it finished.  *)
MarkCancelling ==
  /\ ~entry.cancelRequested
  /\ entry' = [entry EXCEPT !.cancelRequested = TRUE,
                            !.status = IF entry.finished THEN @ ELSE "cancelling"]
  /\ UNCHANGED <<pc, locals, jobStatus, cancelled, metrics, stream, response>>

(* request_solve_cancel refuses a solve whose status is terminal ...        *)
RequestCancel == entry.status \notin TerminalSolveStatus /\ MarkCancelling

(* ... while a cancel-solve frame, a master's own coming back or another's, *)
(* is recorded whatever the status (record_cancel_control_frame).           *)
CancelFrame == MarkCancelling

(* Both then take the cancelled_solves lock.                                *)
RecordCancel ==
  /\ entry.cancelRequested /\ ~cancelled
  /\ cancelled' = TRUE
  /\ UNCHANGED <<pc, locals, entry, jobStatus, metrics, stream, response>>

-----------------------------------------------------------------------------
Receive(r) ==
  \/ IgnoreResult(r)
  \/ ReceiveCancelled(r)
  \/ ReceiveTerminal(r)
  \/ ReceiveSplit(r)
  \/ ReceiveFailed(r)

MasterStep ==
  \/ PublishFrontierJob
  \/ PublishFrontierFails
  \/ OpenResultConsumer
  \/ ObserveCancel
  \/ Finish
  \/ BeginWait
  \/ \E j \in Job : RequeueStale(j)
  \/ \E j \in Job : RequeueStaleFails(j)
  \/ TimeOut
  \/ Poll
  \/ \E j \in stream : \E r \in TruthfulAnswers(j) : Receive(r)
  \/ PublishChild
  \/ PublishChildFails
  \/ CompleteSplit
  \/ Redelegate
  \/ RedelegateFails

Next ==
  \/ MasterStep
  \/ \E j \in Job : WorkerProgress(j)
  \/ RequestCancel
  \/ CancelFrame
  \/ RecordCancel

Spec == Init /\ [][Next]_vars

(* The task runs on tokio: it is polled again after every await.            *)
FairSpec == Spec /\ WF_vars(MasterStep)

-----------------------------------------------------------------------------
(* What the answer of a solve claims is so, whatever the order, loss,       *)
(* duplication and retry of the results behind it: "optimal" carries an     *)
(* optimal point of the whole problem, "infeasible" means there is none,    *)
(* and a partial answer carries a feasible point.                           *)
AnswerIsSound ==
  response # NoResponse =>
    /\ response.status = "optimal" => IsBestOf(response.x, Pts[Root])
    /\ response.status = "infeasible" => Pts[Root] = {}
    /\ response.status = "feasible-partial" => response.x \in Pts[Root]

(* The attempts that stand for the unexplored part of the tree: those       *)
(* awaited, and those the handler in progress is about to publish.          *)
Live ==
  Outstanding
    \cup (IF pc = "split" THEN NodesIn(unsent) ELSE {})
    \cup (IF pc = "redelegate" THEN {NextTry(current.job)} ELSE {})

NodesOf(jobs) == {j.node : j \in jobs}

Running == pc \notin {"done", "failed"}

(* No integer point drops out between a retry, a requeue and a split: each  *)
(* feasible point lies in a subtree still live or already answered.         *)
Covered(L, R) == PtsOf(NodesOf(L)) \cup PtsOf({r.job.node : r \in R}) = Pts[Root]
NoPointLost == Running => Covered(Live, results)

(* The solve seen from outside: the points no optimal or infeasible result  *)
(* covers, the points found, and the answer.                                *)
Contract == INSTANCE SolveContract WITH
  unexplored <- Pts[Root] \ Explored(results),
  found      <- {r.x : r \in Feasible(results)},
  answer     <- IF response = NoResponse
                THEN [status |-> "none", x |-> NoPoint]
                ELSE [status |-> response.status, x |-> response.x]

(* Every step of the master is a step of the contract or leaves it alone:   *)
(* the answers follow from what was explored, and only one is given.        *)
ImplementsContract == Contract!ContractSpec

(* No part of the tree is out for solving under two ids that both count:    *)
(* the live attempts are attempts at subtrees that do not meet.             *)
Apart(L) == \A j, k \in L : j # k => Below[j.node] \cap Below[k.node] = {}
NoDoubleWork == Running => Apart(Live)

(* An attempt answered or given up is older than the live attempt at the    *)
(* same subtree, and nothing below a live node was answered or given up.    *)
Spent == completed \cup superseded
Newest(L, C) ==
  \A j \in L, c \in C : c.node \in Below[j.node] => c.node = j.node /\ c.retry < j.retry
LiveIsNewest == Running => Newest(Live, Spent)

(* README "the solve still counts completion by original subproblem": two   *)
(* attempts at one subproblem never both count, stale requeues included.    *)
OneResultPerNode ==
  \A r, s \in results : r.job.node = s.job.node => r = s

(* A split whose publishing failed half way has published some child.       *)
HalfSplit ==
  \E r \in results : /\ r.status = "error"
                     /\ \E k \in expected : k.node \in Below[r.job.node] \ {r.job.node}

(* jobs_expected is the number of results in hand and still to come, as     *)
(* long as no split was left half published; in the middle of a split it    *)
(* still counts the parent for its two children.                            *)
CountsOriginals ==
  Running /\ ~HalfSplit =>
    Cardinality(results) + Cardinality(Live)
      = count.expected + (IF pc = "split" THEN 1 ELSE 0)

(* A cancelled solve reports the registry's counters and a finished one the *)
(* task's own: between two results they agree.                              *)
RegistryAgrees ==
  pc \in {"check", "wait"} =>
    /\ entry.expected = count.expected
    /\ entry.published = count.published
    /\ entry.redelegated = count.redelegated
    /\ entry.split = count.split
    /\ entry.completed = Cardinality(results)

(* An attempt already answered or given up is never awaited again: retry    *)
(* and child ids do not collide with older ones.                            *)
NeverReexpected ==
  [][(expected' \ expected) \cap Spent = {}]_vars

(* What a finished solve reports does not change, though cancel requests    *)
(* and late frames keep arriving.                                           *)
FinishedIsFinal ==
  [][entry.finished => /\ response' = response
                       /\ [entry' EXCEPT !.cancelRequested = FALSE]
                          = [entry EXCEPT !.cancelRequested = FALSE]]_vars

(* What the results in hand say of their subtrees is true.                  *)
ResultsTruthful ==
  \A r \in results :
    /\ r.status # "split"
    /\ r.status \in {"optimal", "infeasible"} => Truthful(r)
    /\ r.x \in Pts[r.job.node] \cup {NoPoint}

(* What the handler of an accepted result relies on after its awaits.       *)
HandlerOK ==
  /\ pc \in {"split", "redelegate"} =>
       /\ current \in Result
       /\ Truthful(current)
       /\ Pts[current.job.node] \subseteq Pts[Root]
  /\ pc = "split" =>
       /\ current.status = "split"
       /\ NodesIn(unsent) \subseteq {FirstTry(Kids[current.job.node][1]),
                                   FirstTry(Kids[current.job.node][2])}
  /\ pc = "redelegate" => ShouldRedelegate(current)

(* jobs_expected is never too small while no attempt has ended in error.    *)
NeverStopsEarly ==
  Running /\ (\A r \in results : r.status # "error") =>
    Cardinality(results) + Cardinality(Live)
      <= count.expected + (IF pc = "split" THEN 1 ELSE 0)

(* The inductive invariant that AnswerIsSound rests on.                     *)
IInv ==
  /\ TypeOK
  /\ HandlerOK
  /\ ResultsTruthful
  /\ NoPointLost
  /\ NoDoubleWork
  /\ LiveIsNewest
  /\ NeverStopsEarly
  /\ AnswerIsSound

(* HELP of dd_mip_solver_subproblem_jobs_in_flight: "Current                *)
(* master-observed subproblem jobs awaiting accepted results".  The gauge   *)
(* is published minus completed; a solve answered as optimal awaits none.   *)
InFlightIsAwaited ==
  response.status = "optimal" => metrics.published - metrics.completed = 0

(* A recorded cancel ends the task, even if no further result arrives and   *)
(* the deadline never comes.                                                *)
CancelEndsTask == cancelled ~> pc \in {"done", "failed"}

(* Every solve is answered or fails, even if every result is lost, once the *)
(* deadline passes: from then on each visit of the wait ends in TimeOut.    *)
Answered == SF_vars(TimeOut) => <>(pc \in {"done", "failed"})
=============================================================================
