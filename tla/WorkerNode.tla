------------------------------ MODULE WorkerNode ------------------------------
(***************************************************************************)
(* The slaves: run_slave on each of them, and the durable JetStream pull    *)
(* consumer that hands them the subproblem jobs.                            *)
(*                                                                         *)
(* The loop of run_slave handles one message after the other; it never      *)
(* waits for a solve.  A message it accepts gets a task that holds one of   *)
(* the worker_slots, asks for the cancel map at three places, and runs the  *)
(* solver on a blocking thread of its own.  Acknowledgements are sent with  *)
(* `let _ =`: each may be lost.  Clocks are abstracted away: the ack        *)
(* deadline of a delivery may pass at any time (progress acknowledgements,  *)
(* too, may be lost), and the delay of a NAK is over at some point.         *)
(***************************************************************************)
EXTENDS Naturals, Sequences, FiniteSets

CONSTANTS
  Worker,       \* node ids of the slaves
  NoWorker,
  Job,          \* subproblem jobs
  Key,          \* solve ids and problem ids, the keys of cancelled_solves
  KeysOf,       \* the solve id and the problem id of each job
  Avoided,      \* avoid_worker_nodes of each job
  Malformed,    \* the payloads serde_json rejects
  MaxInFlight,  \* MIP_SOLVER_WORKER_MAX_IN_FLIGHT
  MaxDeliver,   \* MIP_SOLVER_MAX_DELIVER
  MaxCrashes    \* bound of the model: crashes of slaves

ASSUME WorkerAssumption ==
  /\ NoWorker \notin Worker
  /\ IsFiniteSet(Job)
  /\ KeysOf \in [Job -> SUBSET Key]
  /\ Avoided \in [Job -> SUBSET Worker]
  /\ Malformed \subseteq Job
  /\ MaxInFlight \in 1..128
  /\ MaxDeliver \in Nat \ {0}
  /\ MaxCrashes \in Nat

(* The n-th delivery of a job.                                              *)
Delivery == Job \X (1..MaxDeliver)
JobOf(d) == d[1]

QueueState == {"absent", "ready", "pending", "acked", "dead"}

(* A task holds its permit from "begun" until it returns.                   *)
Holding == {"begun", "hydrate", "solving", "publish", "ack", "drop", "nak"}
Phase == Holding \cup {"none", "ended", "lost"}

NoTask == [worker |-> NoWorker, phase |-> "none"]

VARIABLES
  queue,    \* per job: its state in the consumer, and how often delivered
  inbox,    \* the messages of each slave its loop has not yet handled
  task,     \* the worker task of each delivery
  thread,   \* the deliveries whose spawn_blocking solver runs
  known,    \* the keys of each slave's cancelled_solves
  asked,    \* the keys for which a cancel-solve frame was published
  stored,   \* the deliveries whose result is in the results stream
  crashes

vars == <<queue, inbox, task, thread, known, asked, stored, crashes>>

TypeOK ==
  /\ queue \in [Job -> [state : QueueState, delivered : 0..MaxDeliver]]
  /\ inbox \in [Worker -> Seq(Delivery)]
  /\ task \in [Delivery -> [worker : Worker \cup {NoWorker}, phase : Phase]]
  /\ thread \subseteq Delivery
  /\ known \in [Worker -> SUBSET Key]
  /\ asked \subseteq Key
  /\ stored \subseteq Delivery
  /\ crashes \in 0..MaxCrashes

Init ==
  /\ queue = [j \in Job |-> [state |-> "absent", delivered |-> 0]]
  /\ inbox = [w \in Worker |-> <<>>]
  /\ task = [d \in Delivery |-> NoTask]
  /\ thread = {}
  /\ known = [w \in Worker |-> {}]
  /\ asked = {}
  /\ stored = {}
  /\ crashes = 0

-----------------------------------------------------------------------------
(* The stream and its consumer.                                             *)

Publish(j) ==
  /\ queue[j].state = "absent"
  /\ queue' = [queue EXCEPT ![j].state = "ready"]
  /\ UNCHANGED <<inbox, task, thread, known, asked, stored, crashes>>

Deliver(w, j) ==
  /\ queue[j].state = "ready"
  /\ queue[j].delivered < MaxDeliver
  /\ queue' = [queue EXCEPT ![j] = [state |-> "pending", delivered |-> @.delivered + 1]]
  /\ inbox' = [inbox EXCEPT ![w] = Append(@, <<j, queue[j].delivered + 1>>)]
  /\ UNCHANGED <<task, thread, known, asked, stored, crashes>>

(* A pending message comes back, unless it was delivered max_deliver times. *)
Returned(j) ==
  [queue EXCEPT ![j].state =
     IF @ # "pending" THEN @
     ELSE IF queue[j].delivered < MaxDeliver THEN "ready" ELSE "dead"]

Acked(j) == [queue EXCEPT ![j].state = IF @ \in {"ready", "pending"} THEN "acked" ELSE @]

Expire(j) ==
  /\ queue[j].state = "pending"
  /\ queue' = Returned(j)
  /\ UNCHANGED <<inbox, task, thread, known, asked, stored, crashes>>

(* message.ack() and ack_with(Nak(..)): the reply may be lost.              *)
SendAck(j) == queue' \in {queue, Acked(j)}
SendNak(j) == queue' \in {queue, Returned(j)}

-----------------------------------------------------------------------------
(* Cancel frames: published by a master or a client on the control subject, *)
(* which keeps nothing for a slave that is not listening.                   *)

AskCancel(k) ==
  /\ k \notin asked
  /\ asked' = asked \cup {k}
  /\ UNCHANGED <<queue, inbox, task, thread, known, stored, crashes>>

HearCancel(w, k) ==
  /\ k \in asked \ known[w]
  /\ known' = [known EXCEPT ![w] = @ \cup {k}]
  /\ UNCHANGED <<queue, inbox, task, thread, asked, stored, crashes>>

(* solve_cancel_requested_for                                               *)
Cancelled(w, j) == known[w] \cap KeysOf[j] # {}

-----------------------------------------------------------------------------
(* The message loop of run_slave.                                           *)

HoldersAt(w) == {d \in Delivery : task[d].worker = w /\ task[d].phase \in Holding}
FreeSlotOrLast(w) == Cardinality(HoldersAt(w)) <= MaxInFlight   \* mutant
FreeSlot(w) == Cardinality(HoldersAt(w)) < MaxInFlight

Next1(w) == JobOf(Head(inbox[w]))

TakeMessage(w) ==
  /\ inbox[w] # <<>>
  /\ inbox' = [inbox EXCEPT ![w] = Tail(@)]

DropMalformed(w) ==
  /\ TakeMessage(w)
  /\ Next1(w) \in Malformed
  /\ SendAck(Next1(w))
  /\ UNCHANGED <<task, thread, known, asked, stored, crashes>>

Refuses(w, j) == w \in Avoided[j] \/ (~Cancelled(w, j) /\ ~FreeSlot(w))

(* worker-avoided-stale-retry, worker-saturated: NAK with retryAfterSeconds *)
Postpone(w) ==
  /\ TakeMessage(w)
  /\ Next1(w) \notin Malformed
  /\ Refuses(w, Next1(w))
  /\ SendNak(Next1(w))
  /\ UNCHANGED <<task, thread, known, asked, stored, crashes>>

SkipCancelled(w) ==
  /\ TakeMessage(w)
  /\ Next1(w) \notin Malformed
  /\ w \notin Avoided[Next1(w)]
  /\ Cancelled(w, Next1(w))
  /\ SendAck(Next1(w))
  /\ UNCHANGED <<task, thread, known, asked, stored, crashes>>

StartTask(w) ==
  /\ TakeMessage(w)
  /\ Next1(w) \notin Malformed
  /\ ~Refuses(w, Next1(w))
  /\ ~Cancelled(w, Next1(w))
  /\ task' = [task EXCEPT ![Head(inbox[w])] = [worker |-> w, phase |-> "begun"]]
  /\ UNCHANGED <<queue, thread, known, asked, stored, crashes>>

-----------------------------------------------------------------------------
(* The worker task of one delivery.                                         *)

In(d, phase) == task[d].phase = phase
Goes(d, phase) == task' = [task EXCEPT ![d].phase = phase]
SeesCancel(d) == Cancelled(task[d].worker, JobOf(d))

(* request-work is published, then the first look at the cancel map.        *)
Begin(d) ==
  /\ In(d, "begun")
  /\ Goes(d, IF SeesCancel(d) THEN "drop" ELSE "hydrate")
  /\ UNCHANGED <<queue, inbox, thread, known, asked, stored, crashes>>

(* hydrate_subproblem_job found the problem: the solver thread is spawned.  *)
Hydrate(d) ==
  /\ In(d, "hydrate")
  /\ Goes(d, "solving")
  /\ thread' = thread \cup {d}
  /\ UNCHANGED <<queue, inbox, known, asked, stored, crashes>>

(* What follows a result, whatever it is: the last look at the cancel map   *)
(* and the serialization, whose failure is answered with a NAK.             *)
AfterResult(d) == IF SeesCancel(d) THEN {"drop"} ELSE {"publish", "nak"}

(* The problem cannot be loaded: the result is failed_subproblem's.         *)
HydrateFails(d) ==
  /\ In(d, "hydrate")
  /\ \E phase \in AfterResult(d) : Goes(d, phase)
  /\ UNCHANGED <<queue, inbox, thread, known, asked, stored, crashes>>

(* The solver thread ends and is joined; a JoinError is answered by a NAK.  *)
SolveEnds(d) ==
  /\ In(d, "solving")
  /\ d \in thread
  /\ \E phase \in AfterResult(d) \cup {"nak"} : Goes(d, phase)
  /\ thread' = thread \ {d}
  /\ UNCHANGED <<queue, inbox, known, asked, stored, crashes>>

(* Mutant: the cancel map is looked at only once the solver is done.        *)
StopCancelledAfter(d) ==
  /\ In(d, "solving")
  /\ d \notin thread
  /\ SeesCancel(d)
  /\ Goes(d, "drop")
  /\ UNCHANGED <<queue, inbox, thread, known, asked, stored, crashes>>

(* The cancel poll: the JoinHandle is dropped, which detaches the thread.   *)
StopCancelled(d) ==
  /\ In(d, "solving")
  /\ SeesCancel(d)
  /\ Goes(d, "drop")
  /\ UNCHANGED <<queue, inbox, thread, known, asked, stored, crashes>>

OrphanEnds(d) ==
  /\ d \in thread
  /\ ~In(d, "solving")
  /\ thread' = thread \ {d}
  /\ UNCHANGED <<queue, inbox, task, known, asked, stored, crashes>>

(* Mutant: a failed publish is acknowledged all the same.                   *)
PublishResultOnce(d) ==
  /\ In(d, "publish")
  /\ stored' \in {stored, stored \cup {d}}
  /\ Goes(d, "ack")
  /\ UNCHANGED <<queue, inbox, thread, known, asked, crashes>>

(* jetstream_publish_ack: a failed publish may have stored the result.      *)
PublishResult(d) ==
  /\ In(d, "publish")
  /\ \/ stored' = stored \cup {d} /\ Goes(d, "ack")
     \/ stored' \in {stored, stored \cup {d}} /\ Goes(d, "nak")
  /\ UNCHANGED <<queue, inbox, thread, known, asked, crashes>>

(* The last await of the task; it returns and gives its permit back.        *)
Finish(d) ==
  /\ \/ task[d].phase \in {"ack", "drop"} /\ SendAck(JobOf(d))
     \/ In(d, "nak") /\ SendNak(JobOf(d))
  /\ Goes(d, "ended")
  /\ UNCHANGED <<inbox, thread, known, asked, stored, crashes>>

-----------------------------------------------------------------------------
(* A slave dies, and a new one takes its place with empty memory.           *)
Crash(w) ==
  /\ crashes < MaxCrashes
  /\ crashes' = crashes + 1
  /\ inbox' = [inbox EXCEPT ![w] = <<>>]
  /\ known' = [known EXCEPT ![w] = {}]
  /\ thread' = {d \in thread : task[d].worker # w}
  /\ task' = [d \in Delivery |-> IF d \in HoldersAt(w) THEN [task[d] EXCEPT !.phase = "lost"]
                                 ELSE task[d]]
  /\ UNCHANGED <<queue, asked, stored>>

-----------------------------------------------------------------------------
Stream == \E j \in Job : Publish(j) \/ Expire(j) \/ \E w \in Worker : Deliver(w, j)
Cancels == \E k \in Key : AskCancel(k) \/ \E w \in Worker : HearCancel(w, k)

LoopStep(w) == DropMalformed(w) \/ Postpone(w) \/ SkipCancelled(w) \/ StartTask(w)

(* What a task does without waiting for its solver.                         *)
TaskStep(d) == \/ Begin(d)
               \/ Hydrate(d)
               \/ HydrateFails(d)
               \/ StopCancelled(d)
               \/ PublishResult(d)
               \/ Finish(d)

Next ==
  \/ Stream
  \/ Cancels
  \/ \E w \in Worker : LoopStep(w) \/ Crash(w)
  \/ \E d \in Delivery : TaskStep(d) \/ SolveEnds(d) \/ OrphanEnds(d)

Spec == Init /\ [][Next]_vars

(* tokio polls each task again and every store and publish call returns;    *)
(* nothing is assumed of the solver.                                        *)
FairSpec == Spec /\ \A d \in Delivery : WF_vars(TaskStep(d))

-----------------------------------------------------------------------------
(* A job leaves the queue acknowledged only when its result is stored, its  *)
(* cancel was asked for, or its payload is useless: `let _ = message.ack()` *)
(* follows jetstream_publish_ack, and no error path of run_slave reaches it.*)
AckedIsAnswered ==
  \A j \in Job : queue[j].state = "acked" =>
    \/ j \in Malformed
    \/ KeysOf[j] \cap asked # {}
    \/ \E d \in stored : JobOf(d) = j

(* At most MIP_SOLVER_WORKER_MAX_IN_FLIGHT solver threads of a slave work   *)
(* on jobs it does not know to be cancelled, although the permit belongs to *)
(* the task and the thread outlives it.                                     *)
ThreadsAt(w) == {d \in thread : task[d].worker = w}
SolversHoldSlots ==
  \A w \in Worker :
    Cardinality({d \in ThreadsAt(w) : ~Cancelled(w, JobOf(d))}) <= MaxInFlight

(* A slave that knows of a cancel gets rid of the tasks of that solve or    *)
(* problem, though their solvers never end ("Problem and worker tasks check *)
(* that in-memory cancel map while waiting", README).                       *)
CancelStops ==
  \A d \in Delivery :
    (task[d].phase \in Holding /\ SeesCancel(d)) ~> (task[d].phase \notin Holding)

(* "Maximum worker jobs in flight." (.cli-flags.toml): no slave runs more   *)
(* solvers than that.  Does not hold.                                       *)
SolversWithinSlots == \A w \in Worker : Cardinality(ThreadsAt(w)) <= MaxInFlight

(* A job no slave has started yet and that a slave answers with             *)
(* retryAfterSeconds is retried.  Does not hold: the NAK of the last        *)
(* delivery is the end of it.                                               *)
Started(j) == \E d \in Delivery : JobOf(d) = j /\ ~In(d, "none")
PostponedComesBack ==
  [][\A w \in Worker : Postpone(w) =>
       \A j \in Job : queue'[j].state = "dead" => queue[j].state = "dead" \/ Started(j)]_vars

(* The conjuncts that make AckedIsAnswered and SolversHoldSlots inductive.  *)
Answering ==
  \A d \in Delivery : /\ In(d, "ack") => d \in stored
                      /\ In(d, "drop") => KeysOf[JobOf(d)] \cap asked # {}
HeardIsAsked == \A w \in Worker : known[w] \subseteq asked
Manned == \A d \in Delivery : task[d].worker = NoWorker <=> In(d, "none")
ThreadsAreSolving ==
  \A d \in thread : ~In(d, "none") /\ (In(d, "solving") \/ SeesCancel(d))
SlotsRespected == \A w \in Worker : Cardinality(HoldersAt(w)) <= MaxInFlight

(* A delivery waits in one place of one inbox, until its only task.         *)
HandledOnce ==
  /\ \A w \in Worker : \A i \in DOMAIN inbox[w] :
       /\ task[inbox[w][i]].phase = "none"
       /\ inbox[w][i][2] <= queue[inbox[w][i][1]].delivered
  /\ \A v, w \in Worker : \A i \in DOMAIN inbox[v], k \in DOMAIN inbox[w] :
       inbox[v][i] = inbox[w][k] => v = w /\ i = k
  /\ \A d \in Delivery : d[2] > queue[d[1]].delivered => task[d].phase = "none"

WorkerInv ==
  /\ TypeOK
  /\ AckedIsAnswered
  /\ Answering
  /\ HeardIsAsked
  /\ Manned
  /\ ThreadsAreSolving
  /\ SlotsRespected
  /\ HandledOnce
=============================================================================
