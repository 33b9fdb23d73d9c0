---------------------------- MODULE ProblemTask ----------------------------
(***************************************************************************)
(* Several masters and several requests for one problem id:                *)
(* run_problem_task_with_coordination and run_problem_task, the solve       *)
(* registry (state.solves, state.cancelled_solves) and the runtime task of  *)
(* the problem, under the coordination lock.                                *)
(*                                                                         *)
(* A request is a client of the lock; its solve id is made for it alone, so *)
(* request, solve and client are one value.  What the solve does between    *)
(* its registry calls is in MasterSolve.  The handler's future is dropped   *)
(* when the client hangs up, but the solve it spawned goes on; a master may *)
(* crash, and starts again with an empty memory.                            *)
(***************************************************************************)
EXTENDS CoordinationLock

CONSTANTS
  Master,
  MaxControls  \* bound of the model: cancels and cleanups

ASSUME TaskAssumption == MaxControls \in Nat

VARIABLES
  home,       \* the master each request is sent to
  solve,      \* per request, its solve_problem_distributed task
  entry,      \* per request, the SolveRegistryEntry of its solve
  marked,     \* solves in cancelled_solves of their master
  toMark,     \* cancels between their two locks
  toUnmark,   \* cleanups between their two locks
  task,       \* per master, the runtime task record keyed by the problem id
  controls    \* counts towards MaxControls

registry == <<home, solve, entry, marked, toMark, toUnmark, task>>
vars == <<lockVars, registry, controls>>

Locals(m) == {r \in Client : home[r] = m}

SolveState == {"none", "spawned", "running", "ok", "err", "lost"}
(* "partial" is feasible-partial, which terminal_solve_status does not list. *)
EntryState == {"none", "running", "cancelling", "finished", "partial", "cancelled"}
Unfinished == {"running", "cancelling"}
Finished == {"finished", "partial", "cancelled"}

NoTask == [by |-> Nobody, solve |-> Nobody, open |-> FALSE]
TaskRecord == [by : Client \cup {Nobody}, solve : Client \cup {Nobody}, open : BOOLEAN]

TypeOK ==
  /\ LockTypeOK
  /\ home \in [Client -> Master]
  /\ solve \in [Client -> SolveState]
  /\ entry \in [Client -> EntryState]
  /\ marked \subseteq Client /\ toMark \subseteq Client /\ toUnmark \subseteq Client
  /\ task \in [Master -> TaskRecord]
  /\ controls \in 0..MaxControls

Init ==
  /\ LockInit
  /\ home \in [Client -> Master]
  /\ solve = [r \in Client |-> "none"]
  /\ entry = [r \in Client |-> "none"]
  /\ marked = {} /\ toMark = {} /\ toUnmark = {}
  /\ task = [m \in Master |-> NoTask]
  /\ controls = 0

-----------------------------------------------------------------------------
(* The handler.                                                             *)

Acquiring(r) == LockStep(r) /\ UNCHANGED <<registry, controls>>

OpenRecord(r) == [by |-> r, solve |-> Nobody, open |-> TRUE]

(* The guard is there: run_problem_task puts its record under the problem   *)
(* id, whatever was there, and spawns the solve.                            *)
StartTask(r) ==
  /\ Enter(r)
  /\ task' = [task EXCEPT ![home[r]] = OpenRecord(r)]
  /\ solve' = [solve EXCEPT ![r] = "spawned"]
  /\ UNCHANGED <<home, entry, marked, toMark, toUnmark, controls>>

Closed(t) == [t EXCEPT !.open = FALSE]

(* The handler's await of the solve is over; a task that panicked leaves    *)
(* run_problem_task through `?` with its record open.  Then the release.    *)
EndTask(r) ==
  /\ solve[r] \in {"ok", "err", "lost"}
  /\ BeginRelease(r)
  /\ task' = IF solve[r] = "lost" THEN task
             ELSE [task EXCEPT ![home[r]] = Closed(@)]
  /\ UNCHANGED <<home, solve, entry, marked, toMark, toUnmark, controls>>

(* Mutant: a drop guard closes the record with the handler.                 *)
HangUpClosing(r) ==
  /\ Drop(r)
  /\ task' = [task EXCEPT ![home[r]] = Closed(@)]
  /\ UNCHANGED <<home, solve, entry, marked, toMark, toUnmark, controls>>

HangUp(r) == Drop(r) /\ UNCHANGED <<registry, controls>>

-----------------------------------------------------------------------------
(* The solve's calls of the registry.                                       *)

(* Mutant: only solves nobody asked to cancel keep the problem busy.        *)
BusyRunning(m) == \E s \in Locals(m) : entry[s] = "running"

Busy(m) == \E s \in Locals(m) : entry[s] \in Unfinished

(* track_solve_started, then track_runtime_task_solve on whatever record is *)
(* there.                                                                   *)
StartSolve(r) ==
  /\ solve[r] = "spawned" /\ ~Busy(home[r])
  /\ solve' = [solve EXCEPT ![r] = "running"]
  /\ entry' = [entry EXCEPT ![r] = "running"]
  /\ task' = [task EXCEPT ![home[r]] =
                IF @ = NoTask THEN @ ELSE [@ EXCEPT !.solve = r]]
  /\ UNCHANGED <<home, lockVars, marked, toMark, toUnmark, controls>>

(* An error before the entry is made, the busy problem among them.          *)
RefuseSolve(r) ==
  /\ solve[r] = "spawned"
  /\ solve' = [solve EXCEPT ![r] = "err"]
  /\ UNCHANGED <<home, lockVars, entry, marked, toMark, toUnmark, task, controls>>

(* track_solve_finished with the aggregated status.                         *)
FinishSolve(r) ==
  /\ solve[r] = "running"
  /\ solve' = [solve EXCEPT ![r] = "ok"]
  /\ \E s \in {"finished", "partial"} : entry' = [entry EXCEPT ![r] = s]
  /\ UNCHANGED <<home, lockVars, marked, toMark, toUnmark, task, controls>>

(* Mutant: the cancelled solve's entry is left as the cancel put it.        *)
SeeCancelOnly(r) ==
  /\ solve[r] = "running" /\ r \in marked
  /\ solve' = [solve EXCEPT ![r] = "ok"]
  /\ UNCHANGED <<home, lockVars, entry, marked, toMark, toUnmark, task, controls>>

(* solve_cancel_info has something: finish_cancelled_solve.                 *)
SeeCancel(r) ==
  /\ solve[r] = "running" /\ r \in marked
  /\ solve' = [solve EXCEPT ![r] = "ok"]
  /\ entry' = [entry EXCEPT ![r] = "cancelled"]
  /\ UNCHANGED <<home, lockVars, marked, toMark, toUnmark, task, controls>>

(* `?` after track_solve_started: the entry stays as it is.                 *)
FailSolve(r) ==
  /\ solve[r] = "running"
  /\ solve' = [solve EXCEPT ![r] = "err"]
  /\ UNCHANGED <<home, lockVars, entry, marked, toMark, toUnmark, task, controls>>

(* The task panics; its handler gets a JoinError.                           *)
PanicSolve(r) ==
  /\ Fault
  /\ solve[r] \in {"spawned", "running"}
  /\ solve' = [solve EXCEPT ![r] = "lost"]
  /\ UNCHANGED <<held, stage, granted, late, unsure, lapsed,
                 home, entry, marked, toMark, toUnmark, task, controls>>

-----------------------------------------------------------------------------
(* Cancels and cleanups.                                                    *)

Control == controls < MaxControls /\ controls' = controls + 1

Cancelling(e) == IF e \in Unfinished THEN "cancelling" ELSE e

(* request_solve_cancel under the lock of solves: refused when the solve is *)
(* terminal, unless it was cancelled.                                       *)
RequestCancel(r) ==
  /\ Control
  /\ entry[r] \in Unfinished \cup {"partial", "cancelled"}
  /\ entry' = [entry EXCEPT ![r] = Cancelling(@)]
  /\ toMark' = toMark \cup {r}
  /\ UNCHANGED <<home, lockVars, solve, marked, toUnmark, task>>

(* record_cancel_control_frame with a solveId: recorded whatever the        *)
(* registry says.                                                           *)
CancelFrame(r) ==
  /\ Control
  /\ solve[r] # "none"
  /\ entry' = [entry EXCEPT ![r] = Cancelling(@)]
  /\ toMark' = toMark \cup {r}
  /\ UNCHANGED <<home, lockVars, solve, marked, toUnmark, task>>

(* The second lock of either.                                               *)
RecordCancel(r) ==
  /\ r \in toMark
  /\ marked' = marked \cup {r}
  /\ toMark' = toMark \ {r}
  /\ UNCHANGED <<home, lockVars, solve, entry, toUnmark, task, controls>>

(* Mutant: the cancel is forgotten before the entry is looked at.           *)
CleanUpUnmarkFirst(r) ==
  /\ Control
  /\ entry[r] # "none"
  /\ marked' = marked \ {r}
  /\ entry' = [entry EXCEPT ![r] = IF @ \in Finished THEN "none" ELSE @]
  /\ UNCHANGED <<home, lockVars, solve, toMark, toUnmark, task>>

(* DELETE of a solve: cleanup_finished_solve under the lock of solves.      *)
CleanUp(r) ==
  /\ Control
  /\ entry[r] \in Finished
  /\ entry' = [entry EXCEPT ![r] = "none"]
  /\ toUnmark' = toUnmark \cup {r}
  /\ UNCHANGED <<home, lockVars, solve, marked, toMark, task>>

(* The second lock of the cleanup.                                          *)
Unmark(r) ==
  /\ r \in toUnmark
  /\ marked' = marked \ {r}
  /\ toUnmark' = toUnmark \ {r}
  /\ UNCHANGED <<home, lockVars, solve, entry, toMark, task, controls>>

(* prune_runtime_tasks_locked: a closed record past its retention.          *)
PruneTask(m) ==
  /\ task[m] # NoTask /\ ~task[m].open
  /\ task' = [task EXCEPT ![m] = NoTask]
  /\ UNCHANGED <<home, lockVars, solve, entry, marked, toMark, toUnmark, controls>>

-----------------------------------------------------------------------------
(* The process of master m dies and starts again: handlers, solves and maps *)
(* are gone, the keys stay until their TTL.                                 *)
Crash(m) ==
  LET gone == Locals(m)
  IN  /\ Fault
      /\ stage' = [c \in Client |->
                     IF c \in gone /\ stage[c] \in {"acquire", "holding", "release", "rollback"}
                     THEN "dropped" ELSE stage[c]]
      /\ solve' = [c \in Client |->
                     IF c \in gone /\ solve[c] \in {"spawned", "running"} THEN "lost" ELSE solve[c]]
      /\ entry' = [c \in Client |-> IF c \in gone THEN "none" ELSE entry[c]]
      /\ marked' = marked \ gone /\ toMark' = toMark \ gone /\ toUnmark' = toUnmark \ gone
      /\ task' = [task EXCEPT ![m] = NoTask]
      /\ UNCHANGED <<home, held, granted, late, unsure, lapsed, controls>>

Environment == LockEnvironment /\ UNCHANGED <<registry, controls>>

Handler(r) == Acquiring(r) \/ StartTask(r) \/ EndTask(r) \/ HangUp(r)

SolveStep(r) ==
  StartSolve(r) \/ RefuseSolve(r) \/ FinishSolve(r) \/ SeeCancel(r) \/ FailSolve(r) \/ PanicSolve(r)

Controls(r) == RequestCancel(r) \/ CancelFrame(r) \/ RecordCancel(r) \/ CleanUp(r) \/ Unmark(r)

Next ==
  \/ \E r \in Client : Handler(r) \/ SolveStep(r) \/ Controls(r)
  \/ \E m \in Master : PruneTask(m) \/ Crash(m)
  \/ Environment

Spec == Init /\ [][Next]_vars

-----------------------------------------------------------------------------
Running(r) == solve[r] = "running"

(* Two solves of one problem run at once only if the lock of one of them    *)
(* has expired: neither a second request, nor a client that hung up, nor a  *)
(* crash, nor a late or lost call to a backend lets another solve in        *)
(* (main.rs:6267-6296).  Without backends there is nothing to claim.        *)
SolvesExclude ==
  All > 0 => \A r, s \in Client :
    r # s /\ Running(r) /\ Running(s) => r \in lapsed \/ s \in lapsed

(* Even then, a master runs one solve per problem: track_solve_started      *)
(* refuses while an entry is unfinished, and no cancel or cleanup finishes  *)
(* or removes the entry of a running solve (2915-2922, 2752-2824).          *)
OnePerMaster ==
  \A r, s \in Client :
    r # s /\ home[r] = home[s] /\ Running(r) => ~Running(s)

(* A problem is refused as busy only while its solve runs, or after that    *)
(* solve left through an error or a panic: not by one that has answered,    *)
(* whoever cancelled it and whoever hung up (2826-2850, 3076-3094).         *)
BusyWithReason ==
  \A r \in Client : entry[r] \in Unfinished => solve[r] \in {"running", "err", "lost"}

(* As long as no lock of this master's requests has expired, the runtime    *)
(* task of a problem shows the solve that runs, open: no refused or waiting *)
(* request for the same problem, and no dropped handler, replaces or closes *)
(* it (3096-3190, 6236-6264).                                               *)
TaskShowsSolve ==
  All > 0 => \A r \in Client :
    Running(r) /\ lapsed \cap Locals(home[r]) = {} =>
      task[home[r]] = [by |-> r, solve |-> r, open |-> TRUE]

(* A running solve that the registry shows as cancelling will find the      *)
(* cancel in cancelled_solves: no DELETE or cleanup takes it out, though    *)
(* the two maps are never locked together (2752-2824).                      *)
CancelRemembered ==
  \A r \in Client : Running(r) /\ entry[r] = "cancelling" => r \in marked \cup toMark
=============================================================================
