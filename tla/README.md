# A TLA+ model of mip-solver-node.rs

`mip-solver-node.rs` solves mixed-integer programs with a cluster: a *master*
cuts a problem into subtrees of a branch-and-bound tree and publishes them as
jobs to a JetStream work queue; *slaves* solve, split or fail them and publish
results; the master retries, splits further, and folds the results into one
answer.  Around that solve stand locks in Redis and live-mutex, a registry of
solves and cancels, live sessions edited over HTTP and kept in Postgres, Redis
and memory, and a store of problem models the jobs refer to.  This directory
specifies the parts where orderings, losses, retries, expiries and cancels can go
wrong, checks them with TLC on small instances, and proves with TLAPS what
matters most on all instances.

Line numbers are those of `src/main.rs` unless another file is named.

## 1. Inventory

| component | state it keeps | operations | what is hard |
|---|---|---|---|
| distributed solve (`solve_problem_distributed`, 5586) | locals of the task: expected, completed and superseded job ids, results, counters | publish the frontier; wait; accept, split, retry or record a result; requeue stale jobs; time out; cancel; aggregate | results late, twice, or for an attempt already given up; half-failed publishes; a cancel at each await |
| frontier construction (`build_frontier_jobs`, 2355) | a queue of nodes, the job list | drop, split or keep a node | the cap and the depth limit; no subtree lost or repeated |
| branching (`first_fractional`, `branch_constraints`, 2251-2280; `split_subproblem_children`, 2282) | the constraint list of a node | pick a variable, cut its range | unvalidated `int_tol`, an inaccurate LP |
| worker (`run_slave`, 6371; `solve_subproblem`, 2449) and job stream (5137-5272) | running jobs, slots, un-acknowledged messages | avoid, skip, solve, publish, ack or NAK; heartbeat | redelivery, exhausted deliveries, publish before ack |
| solve registry (2690-3094) | `solves`, `cancelled_solves` | start, submit, result, progress, cancel, finish, clean up | one running solve per problem id; two locks per cancel |
| runtime tasks (3096-3254) | `runtime_tasks` | start, finish, finish if open (drop guard), prune | a dropped request against a normal end |
| problem tasks and coordination lock (4550-4764, 6228-6296) | keys in Redis and live-mutex with a TTL | acquire on every backend or roll back, release | expiry while held, partial acquisition |
| sessions (4206-4371, `http_api.rs` 752-909) | sessions in memory, Redis, Postgres | apply commands, compare-and-set the revision | stale reads overwriting newer sessions, half-applied commands |
| problem store (4044-4204) | models by (problem id, revision) in memory and Redis | remember, store once, load | conflicting content under one revision |
| local solve (5690-5859, 5309-5476) | a queue of jobs, results | solve one job after another | cancel between steps |
| master control listener (4964-5135, 6731) | worker directory, cancels of other masters | progress, ready, cancel frames | frames late or repeated |
| persistence, HTTP, metrics, configuration, acceleration, verification, fixtures | none the solve reads back | I/O, parsing, numerics | - |

They interact through shared state and messages: the HTTP handler starts the
task that runs the solve; the task and the control listener write the registry
under its mutex; a cancel handler writes `cancelled_solves`, which the task and
the workers poll; the task and the workers exchange jobs and results through
JetStream only.

What makes them correct:

* *distributed solve*: the answer is true of the problem (`AnswerIsSound`) and
  the solve does what its contract says (`ImplementsContract`); no part of the
  tree is lost (`NoPointLost`) or out twice (`NoDoubleWork`); one subproblem counts
  once (`OneResultPerNode`); a finished solve is final; a cancel or the deadline
  ends it.
* *frontier*: the jobs are disjoint, complete, within cap and depth
  (`ReturnsFrontier`, `WithinLimits`), and the loop ends (`Terminates`).
* *branching*: no integer point falls between the children (`EveryPointKept`),
  and both sides make progress (`BranchingSplits`).
* *worker*: a job is acknowledged only after its result is stored or its solve is
  cancelled (`AckedIsAnswered`); the solvers of jobs not known to be cancelled hold
  slots (`SolversHoldSlots`); a cancel frees the slot (`CancelStops`).
* *local solve*: nothing is dropped or solved twice over splits and retries
  (`NothingDropped`, `NothingTwice`), the counters follow (`LocalCounts`), the answer
  keeps the same contract (`LocalImplementsContract`), and a cancel ends the solve
  (`CancelEndsLocal`).
* *registry*: a master runs one solve per problem id (`OnePerMaster`); only a running
  solve, or one that failed badly, makes a problem busy (`BusyWithReason`); no
  cleanup takes a cancel from a solve that runs (`CancelRemembered`).
* *lock*: two solves of one problem exclude each other until a TTL passes
  (`SolvesExclude`); nobody but the TTL takes a key from its owner (`GuardIntact`);
  an acquisition that ended holds nothing (`NothingLeftBehind`); together the backends
  are one lock with one holder (`ImplementsLock`).
* *runtime tasks*: the record of a problem shows the solve that runs
  (`TaskShowsSolve`).
* *sessions*: an edit answered with 200 is never lost (`NothingAckedIsLost`), the edits
  of all masters have one order (`EditsAreSerial`), and the caches hold earlier states of
  the row (`CachesBehindRow`).
* *problem store*: a revision names one model on every node (`OneModel`), jobs run on
  the model their master split (`RanOnItsModel`), and a session's solves do not
  conflict with each other (`SolvesAgree`).

## 2. Modules

```
BranchTree -+- FrontierBuild ------ FrontierBuildProofs
            |        |
            |        +---- LocalSolve ----- LocalSolveProofs (and FrontierBuildProofs)
            |        |     (MCLocalSolve)
            |        |          | implements
            +- Subproblem       v
            |        |     SolveContract (with its theorem)
            |        |          ^ implements
            |        +---- MasterSolve ---- MasterSolveProofs
            |              (MCMasterSolve)
            `- SolveContract              MCTree: the trees of the MC modules

Branching ---------- BranchingProofs      (MCBranching)
WorkerNode --------- WorkerNodeProofs     (MCWorkerNode)
CoordinationLock --- ProblemTask --- ProblemTaskProofs     (MCProblemTask)
   | implements
   v
ExpiringLock
   ^
   | uses
ProblemStore ------- SessionStore -- SessionStoreProofs    (MCSessionStore)
```


**BranchTree** is what the others share: the branch-and-bound tree as
constants.  `Kids[n]` are the two children branching gives (`<<>>` when the
relaxation is integral), `Below[n]` the subtree, `Depth[n]` its level, `Pts[n]` the
feasible integer points of the node.  `TreeAssumption` says that subtrees nest,
siblings do not meet, and no point is lost between children; the last is what
`Branching` establishes from the code.  Objective values are integers, to be
maximised; minimisation is the same code with the comparison turned.

**Branching** follows one path of the tree.  A real number is an integer number
of units (`Scale` to 1), so `floor`, `ceil` and `round` are integer divisions;
`Relax` returns any point within `LpTol` of the node's box; `GoLeft` and `GoRight`
add the constraint of `branch_constraints` on the variable `first_fractional`
picks.  `IntTol` is any integer, as in the code.

**FrontierBuild** has one action per way an iteration of `build_frontier_jobs`
ends: `DropInfeasible`, `Split`, `Keep`, `LpFails`, and `Return`.  The LP verdict is
chosen among those a sound solver can give (`Relaxations`).

**Subproblem** is what the distributed and the local solve share: jobs and their
retries, results, what a truthful worker may answer (`Truthful`), the counters,
`should_redelegate_result` and the folding of results in `aggregate_results`.

**MasterSolve** is the core: `solve_problem_distributed` from
`track_solve_started` on.

| variable | code |
|---|---|
| `pc` | where the task is: the publish loop, the top of the `while`, the wait, the handling of a split or a failed attempt, returned |
| `unsent`, `current` | the jobs the current loop still publishes; the accepted result in hand |
| `expected`, `completed`, `superseded`, `results` | `expected_job_ids`, `completed_job_ids`, `superseded_job_ids`, `results` |
| `count` | `jobs_expected`, `jobs_published`, `jobs_redelegated`, `jobs_split` |
| `entry`, `jobStatus` | the `SolveRegistryEntry` and the status of its jobs |
| `cancelled` | the solve is in `cancelled_solves` |
| `metrics` | the subproblem counters behind `/metrics` |
| `stream` | jobs that are or were in the job stream |
| `response` | the `SolveResponse` |

A job id is a node and a retry index: that is what `job_retry_root`,
`job_retry_index` and `redelegated_job` make of the id string.  Each action is the
code from one await to the next that another actor could use: one turn of the
publish loop (`PublishFrontierJob`, with its failure that leaves through `?`),
`BeginWait` / `Poll` / `TimeOut`, the four outcomes of a result (`IgnoreResult`,
`ReceiveTerminal`, `ReceiveSplit`, `ReceiveFailed`, and `ReceiveCancelled`),
`PublishChild`, `PublishChildFails`, `CompleteSplit`, `Redelegate`, `RedelegateFails`,
`RequeueStale`, `Finish`, `ObserveCancel`.  A cancel request (`RequestCancel`,
refused once the entry is terminal), a cancel-solve frame from the control
subject (`CancelFrame`, recorded whatever the status), the entry in `cancelled_solves`
that both make under a second lock (`RecordCancel`), and a progress frame
(`WorkerProgress`) come at any moment.

The stream and the workers are the weakest environment the code allows: any
job that may be in the stream can be answered at any time, any number of times,
each time differently, by any *truthful* answer (`Truthful`): an optimum is one of
the node's points and no other is better, an infeasible node has no point, a
split node has children and is above the split depth; errors and limits are
always possible.  Losing an answer is never giving it; a job whose publish
"failed" may be in the stream (`PublishFails`).

**SolveContract** is the abstract specification: explore a region and keep its
optimum, find a point, or give one final answer that what was explored
justifies.  `MasterSolve!Contract` instantiates it: unexplored are the points no
optimal or infeasible result covers, found are the points of the results.

**WorkerNode** is the other side of the stream: `run_slave` on several nodes, and
the durable pull consumer they share.

| variable | code |
|---|---|
| `queue` | the consumer's view of a job: not published, ready, pending, acknowledged, or dead after `max_deliver` deliveries |
| `inbox` | the messages fetched by a slave and not yet handled by its loop (6410) |
| `task` | per delivery, the slave and the place of the tokio task (6508-6710) |
| `thread` | the `spawn_blocking` solvers that run (6568), detached ones included |
| `known`, `asked` | each slave's `cancelled_solves`, and the cancel-solve frames sent so far |
| `stored` | the deliveries whose result is in the results stream |

`LoopStep` is one turn of the message loop: a malformed payload is acknowledged, an
avoided or saturated slave NAKs, a cancelled job is acknowledged, and the rest start
a task.  A task goes through `Begin`, `Hydrate` or `HydrateFails`, then `SolveEnds` or
`StopCancelled`, then `PublishResult` and `Finish`; the action boundaries are its awaits.
Every acknowledgement is sent with `let _ =`, so it may be lost; a publish that reports
an error may have stored the result.  The ack deadline is not a clock: `Expire` may
come at any time, which includes the deadline of every configuration and a task
that sends progress too late.  A slave that stops, by SIGTERM or by a crash, loses
its tasks and its memory alike (`Crash`): `main` returns and the runtime drops them.
What the solver says (`solve_subproblem`) is the answer of MasterSolve's environment
and is not repeated here.

**LocalSolve** is the same solve without NATS, and extends FrontierBuild, whose steps
are its first phase.

| variable | code |
|---|---|
| `pure` | `is_pure_lp`: the path through `solve_pure_lp_local` (5309-5476) |
| `pc` | the pre-split, the head of the loop, the wait for the solver, returned, failed |
| `pending`, `attempt` | the `VecDeque` of jobs (5690) and the job whose solver runs |
| `results`, `count`, `entry`, `response` | as in MasterSolve |
| `cancelled` | the solve is in `cancelled_solves` |

`BuildFrontier` is a step of FrontierBuild; then `StartSolve` or `StartFails`,
`BeginAttempt`, and when the solver returns `SplitAttempt`, `RetryAttempt` or
`KeepResult`; `SolverLost` is a `JoinError`.  `ObserveCancel` stands for each of the looks
at `cancelled_solves`: before the first job, before an attempt, at each poll and when the
solver has returned.

**CoordinationLock** is `acquire_coordination_lock` and its release over the
configured backends, one call at a time, in their order.

| variable | code |
|---|---|
| `held` | the token each backend's key holds |
| `stage`, `granted` | where a handler is, and how many backends its `CoordinationGuard` has |
| `late`, `unsure` | calls their caller gave up: those that may still be executed, and all whose outcome it never learnt |
| `lapsed`, `faults` | who lost a key to its TTL; a bound of the model |

`Arrive`, `Grant`, `Refuse`, `GiveUpAsking`, `ReleaseOne` and `Reply` are the client's
steps; `LateGrant` and `Expire` are the backends', at any moment; `Drop` is a handler whose
future is dropped.  A token is made for one acquisition, so a client is one
acquisition.

**ExpiringLock** is the lock as its users see it: who holds it, who is at work under it,
and whether a TTL has passed.  `Enter` needs that nobody holds it, `Leave` gives it back
if it is still one's own, `Abandon` is a handler that is dropped, `LoseToTTL` the only
other way to lose it.  CoordinationLock implements it (`ImplementsLock`; a client holds
it when every backend's key is its own, and is at work until it gives the first key
back), and SessionStore uses no more than it (`UsesLock`), which is why SessionStore has
one `holder` and no backends.

**ProblemTask** adds what is done under the lock, for several requests for one
problem at several masters.

| variable | code |
|---|---|
| `home` | the master a request is sent to |
| `solve` | its `tokio::spawn`ed `solve_problem_distributed` (6249), seen from outside |
| `entry` | its `SolveRegistryEntry` in `state.solves` |
| `marked` | `state.cancelled_solves` |
| `toMark`, `toUnmark` | cancels and cleanups between their two locks |
| `task` | the `RuntimeTaskEntry` each master keeps for the problem id |

`StartTask` and `EndTask` are the handler's ends of `run_problem_task`; `HangUp` drops the
handler and leaves the spawned solve; `StartSolve` / `RefuseSolve` are
`track_solve_started` and its refusal; `FinishSolve`, `SeeCancel`, `FailSolve` and
`PanicSolve` are the ways a solve ends.  `RequestCancel`, `CancelFrame`, `RecordCancel`,
`CleanUp` and `Unmark` come at any moment; `Crash` starts a master again with its
memory empty and its keys still held.

**ProblemStore** is the store of models: one problem id, whose revisions are the keys.

| variable | code |
|---|---|
| `config`, `home` | what is connected (Postgres, Redis with NATS, the lock); the master of a request |
| `stored`, `expired` | the Redis entries, and the revisions whose entry has expired |
| `known` | `state.problems` of every master and worker |
| `job`, `phase` | what a request submits, and where `store_problem_model` is: `Check`, `SetNx`, `Reload`, or `StoreLocally` |
| `ran` | the models its jobs were solved on (`Hydrate`, on a worker) |

A call may fail after it was done as well as before.  A model is the list of edits
it is made of, which tells models apart; `open` says that an upper bound is infinite,
which `FromJson` reads back as no model at all.

**SessionStore** extends it with one live session: `stream_session`, `get_session` and
`solve_session`, one action per await.

| variable | code |
|---|---|
| `row`, `snapshot`, `memory` | `mip_solver_sessions` in Postgres, the Redis snapshot, `state.sessions` of each master |
| `cast`, `asks`, `pc` | what a request is, the commands it carries, and the await its handler is at |
| `loaded`, `working`, `answer` | what `load_session_model` returned, the handler's session, the answer |
| `holder` | who holds the session's lock (ExpiringLock) |
| `lapsed`, `spoilt` | the lock or the snapshot has expired; a change was written that no revision, or no reader, shows |

`ReadRow`, `ReadSnapshot`, `Remember` and `UseMemory` are `load_session_model`; `Proceed`
runs the commands of the POST (`RunAll`), `Persist` is the conditional upsert with its
outcomes, `Insert` and `Cache` the copies, `Release` the end and, for a solve, its
submission to the store.  Without coordination `EditInMemory` does it under the mutex
and the snapshot follows.  `Drop`, `Lapse`, `Restart` and `ExpireModel` may come
between any two steps.

## 3. Runs

| run | instance | shows |
|---|---|---|
| `retry` | one job over four values (seven nodes), split depth 1, one retry per subproblem, errors | `IInv` (the inductive invariant), its parts that matter most, that ids are never reused, and the counters of the task and of the registry |
| `answers` | two jobs, one retry, every worker status, `WF(MasterStep)` | refinement of the contract; the answer is final; a cancel ends the solve, and so does the deadline |
| `branching` | two integer variables from -1 to 2 in quarters, `IntTol` = `LpTol` = 1/4 | progress, and no point lost |
| `local` | eight values (15 nodes), three of them feasible, split depth 2, cap 3, one retry, `WF(TaskStep)` | the pre-split keeps its limits, ends, and returns a frontier; the loop drops and repeats nothing, counts right, keeps the contract, and a cancel ends it |
| `queue` | two slaves of one slot, a job and a malformed message, two deliveries, one cancel key, one crash, `WF(TaskStep)` | `WorkerInv` (the inductive invariant); no job acknowledged unanswered; solvers hold slots; a cancelled task ends |
| `front` | two requests at either of two masters, Redis and live-mutex, one fault, two control calls | locks exclude and are neither left nor stolen, and make one lock; one solve per master; no cancel forgotten; the task record is true |
| `session` | three requests in three mixes, two masters, a worker, five deployments, one fault | acknowledged edits stay; edits have one order; caches are behind the row; one model per revision; jobs run on it |
| `inflight`, `solvers`, `postponed`, `unreadable` | violations | section 6 |

Bounds.

* MasterSolve and LocalSolve.  `MaxAttempts` bounds the retry index (in the code it
  grows with each stale requeue): with 1 there is an attempt, its retry, and late
  answers to both, which is where the hazards are; a third attempt meets the second
  as the second met the first.  A split below a split needs no second level in
  MasterSolve, because a child is handled as its parent is; `local` has one (depth 2
  from a cap of 3), and meets the cap, the depth limit and an empty frontier.
* WorkerNode.  Two deliveries of a job with one slot make the cases meet: a first
  delivery whose acknowledgement is lost or whose slave died, and the last one; one
  cancel key is enough because the code asks for the solve id and the problem id in the
  same way.  No job of the run avoids a slave (`Anywhere`): avoidance is answered with the
  NAK of a saturated slave, in the same branch, and the proofs cover it.
* ProblemTask.  Two requests and two backends: one that is refused by the second backend
  after the first granted, a key that changes hands, a solve that goes on after its
  handler; one fault (an unanswered call, a hang-up, a panic, a crash), while `Expire`
  and refusals are free; two control calls, so a cancel can meet a cleanup.  Requests and
  masters are symmetric: the property is about any two.
* SessionStore.  Three requests are a stale reader, the write that makes it stale, and
  the write or solve that acts on it; `MaxRevision` 3 is the revision an established
  session has and two more.  The deployments are everything connected, Postgres alone,
  Redis with and without the lock, and nothing.  A POST carries one effective command,
  or one after a refused one.

The theorems are free of these bounds, except that those that are constants
(`MaxAttempts`, `MaxFaults`, `MaxControls`, `MaxRevision`) stay arbitrary constants.
Deadlock is not checked: every model comes to an end when its work is done.

Fairness.  `WF_vars(MasterStep)`: the task runs on tokio and every await of it is
bounded (the wait by `cancel_poll`), so it is polled again.  Nothing is assumed of
workers, results or cancels.  `Answered` has `SF_vars(TimeOut)` as its premise: the
deadline is an instant, and once it is past each visit of the wait ends the loop;
strong, because the task leaves and re-enters the wait.  `WF_localVars(TaskStep)` in
LocalSolve: the task is polled after every await and at every poll of the cancel map;
the solver need not return.  `WF_vars(TaskStep(d))` in WorkerNode: a task is polled again
after each await, and its store and publish calls return, with a value or an error; the
solver may run for ever, and the loop, the stream and the cancel frames owe nothing.
`front` and `session` state safety only, and assume no fairness: a lock that is never
released is waited for by nobody (an acquisition is refused, never queued).

## 4. Proofs

* `BranchingProofs`: `PointsKept` for every scale, accuracy and tolerance, from
  the integer lemmas `FloorBounds`, `CeilBounds` and `Grid`; `Splits` under
  `IntTol >= LpTol`, which is why the code's missing validation of `int_tol` matters.
* `FrontierBuildProofs`: the inductive invariant `FrontierInductive` (disjoint,
  covering, within the depth) and the cap beside it give `Limits`; `GoodFrontier` is the
  assumption `MasterSolve` makes of `Frontiers`.
* `SolveContract`: `ContractAnswersSound`, by the invariant that every explored point
  is dominated by a found one.
* `MasterSolveProofs`: `IInv` is inductive, hence `TypeCorrect`, `SoundAnswer`,
  `NoLoss`, `NoOverlap`, `Fresh`, and from it the action property `NeverTwice`.
  On top of it `Unique` gives `ResultsAreOriginals`, `Ledger` gives `RegistryKept`,
  `Closed` gives `FinalAnswer`, and `Exact` with `KidsPlaced` gives `CountsExact`.
  `MasterImplementsContract` is the refinement, from `IInv` and `NotYetAnswered`.
* `LocalSolveProofs`: `LInv` is inductive, hence `LocalKeepsAll`, `LocalOnce`,
  `LocalLedger` and `LocalLimits`, and with it `LocalKeepsContract`.
* `ProblemTaskProofs`: `TaskInv` is inductive for any number of masters, requests,
  backends and faults, hence `GuardKept`, `LeavesNothing`, `Exclusion`, `MasterExclusion`,
  `BusyExplained`, `CancelFound` and `TaskTruthful`; with `LateIsLate` it gives the
  refinement `BackendsAreOneLock`.
* `SessionStoreProofs`: `StoreInv` is inductive for any requests, masters, workers and
  deployments, hence `OneModelEverywhere` and `JobsRunOnTheirModel`.  `SessionInv` is
  inductive on top of it, for POSTs of any number of commands, hence `SessionTypes`,
  `AckedEditsStay`, `CachesFollow`, `SolvesNeverClash`, the action property
  `EditsInOneOrder` and the refinement `SessionsUseTheLock`.
* `WorkerNodeProofs`: `WorkerInv` is inductive, hence `WorkerTypes`, `NoJobDropped`
  and `SolversBounded`, for any number of slaves, jobs, slots, deliveries and crashes.

Why `IInv` is what it is.  `AnswerIsSound` is not inductive: "optimal" is answered
when `results.len() == jobs_expected` and all are terminal, so one needs that the
results then cover the problem.  `NoPointLost` says results and *live* attempts
cover it; so it remains that nothing is live when the counts meet, which is
`NeverStopsEarly`: results plus live attempts never exceed `jobs_expected`, unless a
result is an error (a half-published split leaves a live child that is not
counted).  An optimal or infeasible answer has no error among its results, so
then nothing is live when the counts meet.  Keeping that count through a
retry or a split requires that the new attempt is not already counted:
`NoDoubleWork` (live subtrees are disjoint) and `LiveIsNewest` (nothing spent is as
new as, or below, a live attempt), so a fresh id is really fresh.  `HandlerOK`
carries what the handler of a split or a failure knows across its awaits.

Why the invariants on top of it are what they are.  `OneResultPerNode` needs to know why
a second result of a subtree is never accepted: its first one's attempt is in
`completed`, and no attempt at the subtree is live any more (`Unique`); while a handler
runs, its attempt has left the awaited ones and has no result yet.  `Ledger` is
`RegistryAgrees` with the part of the frontier the registry has not heard of.
`NeverStopsEarly` of `IInv` is an inequality, which is what soundness needs; that the count
is met at all is the equality `Exact`, which a half-published split breaks for good
(`HalfKept`), and which in the middle of a split needs that each child is still unsent
or already awaited (`KidsPlaced`).

Why `LInv` is what it is.  It puts together what the pre-split keeps (`FInv`, of
FrontierBuildProofs) and what the loop keeps, `LoopOK`: the work in hand is apart, away
from the results, covers the problem together with them, and the counts meet.  The
two meet in `LoopStart`, where the frontier becomes the queue, and which needs that a
pre-split that returned has an empty queue.  A split, a retry and a kept result all
replace the head of the work, so `HeadWork` and `ReplaceHead` carry the argument.

Why `WorkerInv` is what it is.  `AckedIsAnswered` speaks of the acknowledgement, but the
task decides earlier: `Answering` says that a task about to acknowledge has stored its
result or saw a cancel, and `HeardIsAsked` that a cancel seen was asked for.
`SolversHoldSlots` counts threads, while the code counts tasks: `ThreadsAreSolving` says
that a thread without a slot belongs to a cancelled job, `SlotsRespected` bounds the
tasks, and for `StartTask` to add exactly one task `HandledOnce` is needed: a delivery is
in one place of one inbox, and has no task before it is taken out.

Why `TaskInv` is what it is.  That two solves exclude each other rests on the lock
alone, so there is an invariant of the lock first: `GuardIntact` (a key that has not
lapsed holds its owner's token) says that two guards of all backends cannot both be
whole, `GuardLength` that a handler in "holding" has all of them, and `KeysExplained` that
a key is held by a guard, or by an unanswered call.  `SolveUnderLock` ties the solve to
the handler that spawned it, which does not answer before the solve has ended; when it
hangs up, the guard is left to the TTL, and that is why a hang-up lets nobody in.
`EntryFollowsSolve` relates the registry to the solve over both halves of a cancel and
of a cleanup, and `OneUnfinished`, that a master has one unfinished entry, is what
`Busy` keeps.  `TaskShown` is `TaskShowsSolve` from the moment the record is opened:
between `StartTask` and `StartSolve` it must already name the request.

Why `StoreInv` is what it is.  `OneModel` is not inductive: a submission between `Check`
and `SetNx` carries a model that may lose the race.  `Submission` says what each phase
knows: "stored" means that the entry, if it has not expired, is the submitted model,
and only then are there jobs that name it; the rest embed it.  `Shapes` says no more of
the functions than that they are functions, which is all the argument needs.

Why `SessionInv` is what it is.  The conditional upsert compares revisions, so everything
rests on one thing: a revision that is still going to be used names the model the row
has, or had, under it.  `CachesBehindRow` says so of the snapshot and the memories, but
a session also waits in the hands of handlers, in submissions, and in entries of the
problem store, and each of them may be written back, built on, or compared later.
`Observed` is all those places together, and `RowLeads` says that everything observed is
behind the row (`AllBehind`), that no revision has two models (`OneModelEach`), and that
no solve of the session was refused.  Only `Persist` makes anything new, and
`BuiltOnRow` is the heart of it: when the upsert matches, what was loaded *is* the row,
so what is written extends everything observed.  All other steps copy (`CopyKeeps`).  A
change without a number, or one that cannot be read back, breaks this for good, which
is why the properties stop at `spoilt`.  `Placed` says where a handler is and what it
has in hand by then; `Prepared`, that what it will write is what its commands make of
what it loaded.

Without Postgres no revision is compared, and the snapshot is safe only because of the
lock: `UnderLock` says that while nothing lapsed or failed, whoever is at work on the
session holds the lock (`Excludes`), so what it loaded is still the snapshot when it
writes (`BuildsOnSnapshot`), and no memory is ahead of it (`NoneAhead`).  With neither,
`OneMemory` follows each master's own memory under its mutex.

A POST runs its commands one after the other, and what that makes of a session is shown
by induction over the batch: `SetInduction` is induction over the naturals for a set,
from the library's fact that every nonempty set of naturals has a least element
(`WFMin`); `RunAllCarries` says that what every command keeps, the batch keeps; and
`RunAllGrows`, that what comes out is a later state of what went in.

Why the refinements of the lock hold.  A client whose keys are all its own is unique,
since a key has one token, and when it got the last key that was free, so nobody else
could be whole (`OutsideGrant`).  A key may expire while others are still asked for, so
a client may enter with a lock it has lost already: `Enter` allows that, but only after
an expiry.  That a call nobody waits for never completes a guard is `LateIsLate`.

Assumptions: `TreeAssumption`, `SolveAssumption` (proved of the code in
FrontierBuildProofs and BranchingProofs as far as it is about the code),
`FrontierAssumption`, `LocalAssumption`, `BranchingAssumption`, `WorkerAssumption`,
`LockAssumption`, `TaskAssumption`, `StoreAssumption`, `ModelAssumption` and
`SessionAssumption` (the last: batches are sequences of commands, and what stands for an
absent session, or for nobody, is neither); TLC evaluates each in the runs.

## 5. Only model-checked, and not modelled

By TLC only: liveness (`CancelEndsTask`, `Answered`, `Terminates`, `CancelStops`,
`CancelEndsLocal`), which is out of the prover's reach.

By proof only: that the contract's answers are true (`ContractSound`); TLC meets the
contract as the properties `ImplementsContract` and `LocalImplementsContract`.  The same
goes for `UsesLock`, for the types of ProblemTask and of SessionStore (`TaskTypes`,
`SessionTypes`; those of the other modules are part of the invariants the runs check),
and for POSTs of more than two commands.

Abstracted: numbers (outside `Branching`), gaps and bounds, matrices, wording,
timestamps (a running job may look stale, and a key or entry may expire, at any time,
which includes every real clock), warnings and events, best-effort snapshots.  The
engine's claims (optimal, infeasible) are taken as true: it is not in the
repository.

Allowed by the models, and left to no property:

* A cancel frame that names only a problem id is recorded by a slave under that id
  (4984-5001) and stays: it also stops the jobs of later solves of the problem (2739).
  WorkerNode's `Key` may hold problem ids, and what its properties say of a cancel they
  say of a cancelled problem id too, as `solve_cancel_requested_for` does.  No document
  says how long such a cancel is meant to last.  A solve whose jobs are skipped gets no
  answers, which MasterSolve allows (`Answered`).
* The entry of a stored model expires while jobs that name it are out, or while nodes
  remember it (4412): another model may take its place, and `OneModel` and `RanOnItsModel`
  promise nothing of that revision any more.
* A stream command that fails halfway changes the session without a new revision
  (`http_api.rs:774`).  With Postgres `NothingAckedIsLost` is about behaviours without
  such a change, because the conditional upsert compares revisions only.

Not modelled, and why:

* The worker directory of the control listener (`record_worker_control_frame`,
  `retain_current_workers`): no decision about a job reads it.
* The runtime-task records of subproblems (one per attempt under a fresh id, closed by
  a drop guard, read by `GET /tasks` only) and the abort handles, which nothing uses.
* `persist_*` and `cache_*` of solves, jobs and events: nothing in the process reads
  them back.
* HTTP framing: one task parses one response; the lock protocol sees success or
  failure, and CoordinationLock allows both at every call.
* A Redis command of a session that is executed after its handler was dropped, and a job
  the master itself makes malformed (a model with an infinite bound embedded in it):
  `queue` has malformed messages, but where they come from is not in the model.  Such a
  solve ends at its deadline (`Answered`).
* MasterSolve and WorkerNode composed: MasterSolve's environment answers any job at any
  time, any number of times, or never, which includes all that WorkerNode does.  What
  WorkerNode adds, `AckedIsAnswered`, is a promise MasterSolve does not rely on.
* Rendering of documents and metrics, flag and environment parsing, GPU products,
  external verification, fixtures, the engine, generated contracts, manifests: no
  control state.

## 6. Where the code and its documents differ

* `inflight`: the gauge `dd_mip_solver_subproblem_jobs_in_flight` is documented as
  the jobs awaiting accepted results (`src/http_api.rs:435`); it is published minus
  completed, and a stale-requeued attempt is published and never completes.
* `solvers`: `worker_max_in_flight` is "Maximum worker jobs in flight."
  (`.cli-flags.toml:268`), but a cancelled task gives its slot back while its solver
  thread, which cannot be aborted, goes on.  What does hold is `SolversHoldSlots`.
* `postponed`: `worker_saturation_retry_seconds` is "Worker saturation retry interval."
  (`.cli-flags.toml:274`), but each NAK of a saturated slave uses up one of the
  `max_deliver` deliveries; after the last the job is never delivered again, and the
  master, for which it is still "submitted", finds out at its deadline.
* `unreadable`: the stream commands fill missing upper bounds with infinity
  (2019, 2040, 2094), which `serde_json` writes as `null` and cannot read back as a
  number, so `session_problem_from_json` (4040-4042) loads no model.  README line 98
  has each edit build on the latest snapshot in Postgres; the next POST is applied to
  no problem, is answered 200 with an error frame, and the upsert writes the empty model
  over the row at the same revision (4296-4300).  The run loses an acknowledged edit
  without a fault.  `NothingAckedIsLost` is about the models that can be read back.

## 7. Order of the work, and what is left

1. Done: BranchTree, Branching, FrontierBuild, MasterSolve, SolveContract and their
   proofs.
2. Done: WorkerNode and its proofs.  Its promise is `AckedIsAnswered`: the queue never
   forgets a job that is neither answered nor cancelled, malformed, or out of
   deliveries.
3. Done: the registry, the runtime task and the lock (CoordinationLock, ProblemTask) and
   their proofs.
4. Done: ProblemStore and SessionStore, with the proofs of the store and the sessions.
5. Done: LocalSolve, with the contract MasterSolve implements.
6. Done: the rest of MasterSolve's properties, and LocalSolve's, as theorems.
7. Done: ExpiringLock, which CoordinationLock implements and SessionStore uses.
8. Left: a module that composes MasterSolve with WorkerNode would show the deadline and
   the deliveries at work together.
