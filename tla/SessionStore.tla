---------------------------- MODULE SessionStore ----------------------------
(***************************************************************************)
(* One live session on several masters: POST events (stream_session), GET   *)
(* (get_session) and POST solve (solve_session), its row in Postgres, its    *)
(* snapshot in Redis, its copy in every master's memory, and the problem     *)
(* store its solves submit the model to.                                    *)
(*                                                                         *)
(* Every await is a step of its own: what was read before it may be stale    *)
(* after it.  The session's lock is CoordinationLock seen from outside: one  *)
(* holder, until the key expires.  The lock of a solve and the solve itself  *)
(* are in ProblemTask and MasterSolve.                                      *)
(***************************************************************************)
EXTENDS ProblemStore, SequencesExt

CONSTANTS
  NoSession,  \* an absent row, snapshot or map entry
  Nobody,     \* the lock is free
  Casts,      \* bound of the model: which requests post events, use the session, or only the store
  Batches     \* bound of the model: what one POST may carry

(* What apply_stream_command does to the session: "edit" and "open" (an edit *)
(* that leaves an infinite upper bound) are numbered, "half" fails after it   *)
(* has changed the model, "none" is refused or only looks.  An edit that is   *)
(* numbered and then fails validation is an "edit" here.                     *)
Command == {"init", "edit", "open", "half", "none"}

Session == [revision : Nat, model : ModelOrNone]

ASSUME SessionAssumption ==
  /\ Casts \subseteq [Request -> {"events", "session", "store"}]
  /\ Batches \subseteq Seq(Command)
  /\ NoSession \notin Session
  /\ Nobody \notin Request

VARIABLES
  cast,      \* fixed: one of Casts
  row,       \* mip_solver_sessions
  snapshot,  \* the Redis snapshot
  memory,    \* per master, state.sessions
  asks,      \* per request, what it asks for
  pc,        \* per request, the await its handler is at
  loaded,    \* per request, what load_session_model returned
  working,   \* per request, the handler's session
  answer,    \* per request
  holder,    \* the request that holds the session's lock
  lapsed,    \* the lock or the snapshot has expired
  spoilt     \* what has been written that no new revision, or no reader, shows

sessionVars == <<cast, row, snapshot, memory, asks, pc, loaded, working, answer, holder, lapsed, spoilt>>
vars == <<config, home, faults, storeVars, sessionVars>>

SessionOrNone == Session \cup {NoSession}

Awaits == {"pg", "redis", "remember", "memory", "persist", "insert", "cache", "release"}

TypeOK ==
  /\ StoreTypeOK
  /\ cast \in Casts
  /\ row \in SessionOrNone /\ snapshot \in SessionOrNone
  /\ memory \in [Master -> SessionOrNone]
  /\ asks \in [Request -> [what : {"nothing", "events", "get", "solve"}, batch : Batches \cup {<<>>}]]
  /\ pc \in [Request -> Awaits \cup {"idle", "done", "dropped"}]
  /\ loaded \in [Request -> SessionOrNone]
  /\ working \in [Request -> SessionOrNone]
  /\ answer \in [Request -> {"none", "ok", "conflict", "error"}]
  /\ holder \in Request \cup {Nobody}
  /\ lapsed \in BOOLEAN
  /\ spoilt \subseteq {"half", "open"}

NewSession == [revision |-> 0, model |-> NoModel]
Established == [revision |-> 1, model |-> [edits |-> <<>>, open |-> FALSE]]

(* The session does not exist, or was made by an earlier POST to master m.  *)
Init ==
  /\ StoreInit
  /\ cast \in Casts
  /\ \E s \in {NoSession, Established} :
       /\ row = IF config.pg THEN s ELSE NoSession
       /\ snapshot = IF config.redis THEN s ELSE NoSession
       /\ \E m \in Master : memory = [n \in Master |-> IF n = m THEN s ELSE NoSession]
  /\ asks = [r \in Request |-> [what |-> "nothing", batch |-> <<>>]]
  /\ pc = [r \in Request |-> "idle"]
  /\ loaded = [r \in Request |-> NoSession]
  /\ working = [r \in Request |-> NoSession]
  /\ answer = [r \in Request |-> "none"]
  /\ holder = Nobody
  /\ lapsed = FALSE
  /\ spoilt = {}

-----------------------------------------------------------------------------
(* The commands of a POST.                                                  *)

Ignored(s, c) == c = "none" \/ (s.model = NoModel /\ c # "init")

Edited(m, c, r) ==
  [edits |-> IF m = NoModel THEN <<r>> ELSE Append(m.edits, r),
   open  |-> c = "open" \/ (c # "init" /\ m.open)]

(* apply_stream_command; the loop over the commands goes on after an error.  *)
Run(s, c, r) ==
  IF Ignored(s, c) THEN s
  ELSE [revision |-> IF c = "half" THEN s.revision ELSE s.revision + 1,
        model    |-> Edited(s.model, c, r)]

RunAll(s, batch, r) ==
  LET upTo[i \in 0..Len(batch)] == IF i = 0 THEN s ELSE Run(upTo[i - 1], batch[i], r)
  IN  upTo[Len(batch)]

Spoils(before, after) ==
  {k \in {"half", "open"} :
     \/ k = "half" /\ after.revision = before.revision /\ after.model # before.model
     \/ k = "open" /\ after.model # NoModel /\ after.model.open}

(* What a store hands back of the session it was given.                     *)
ReadBack(s) == [s EXCEPT !.model = FromJson(@)]

-----------------------------------------------------------------------------
(* The handlers begin.                                                      *)

AfterPg == IF config.redis THEN "redis" ELSE "memory"
FirstRead == IF config.pg THEN "pg" ELSE AfterPg

Ask(r, what, batch) ==
  /\ pc[r] = "idle" /\ phase[r] = "none"
  /\ asks' = [asks EXCEPT ![r] = [what |-> what, batch |-> batch]]

(* acquire_coordination_lock returns a guard, or None without backends.     *)
Locked(r, what, batch) ==
  /\ Ask(r, what, batch)
  /\ config.lock => holder = Nobody
  /\ holder' = IF config.lock THEN r ELSE holder
  /\ pc' = [pc EXCEPT ![r] = FirstRead]
  /\ UNCHANGED <<config, home, cast, faults, storeVars,
                 row, snapshot, memory, loaded, working, answer, lapsed, spoilt>>

InMemoryOnly == ~config.lock /\ ~config.pg

StartEvents(r) ==
  /\ cast[r] = "events" /\ ~InMemoryOnly
  /\ \E b \in Batches : Locked(r, "events", b)

StartSolve(r) == cast[r] = "session" /\ Locked(r, "solve", <<>>)

(* GET takes no lock.                                                       *)
StartGet(r) ==
  /\ cast[r] = "session"
  /\ Ask(r, "get", <<>>)
  /\ pc' = [pc EXCEPT ![r] = FirstRead]
  /\ UNCHANGED <<config, home, cast, faults, storeVars,
                 row, snapshot, memory, loaded, working, answer, holder, lapsed, spoilt>>

(* Without coordination and Postgres the commands are applied under the      *)
(* mutex of sessions, and the snapshot is written after it.                 *)
EditInMemory(r) ==
  LET m == home[r]
      s == IF memory[m] = NoSession THEN NewSession ELSE memory[m]
  IN  /\ cast[r] = "events" /\ InMemoryOnly
      /\ \E b \in Batches :
           /\ Ask(r, "events", b)
           /\ loaded' = [loaded EXCEPT ![r] = s]
           /\ working' = [working EXCEPT ![r] = RunAll(s, b, r)]
      /\ memory' = [memory EXCEPT ![m] = working'[r]]
      /\ spoilt' = spoilt \cup Spoils(s, working'[r])
      /\ pc' = [pc EXCEPT ![r] = IF config.redis THEN "cache" ELSE "release"]
      /\ answer' = [answer EXCEPT ![r] = IF config.redis THEN @ ELSE "ok"]
      /\ UNCHANGED <<config, home, cast, faults, storeVars, row, snapshot, holder, lapsed>>

-----------------------------------------------------------------------------
(* load_session_model.                                                      *)

(* What the handler does with what was loaded, up to its next await.        *)
Proceed(r, s) ==
  LET given == IF asks[r].what = "events" /\ s = NoSession THEN NewSession ELSE s
      next(w) == IF w = "events" THEN "persist" ELSE IF w = "solve" THEN "release" ELSE "done"
  IN  /\ loaded' = [loaded EXCEPT ![r] = given]
      /\ working' = IF asks[r].what = "events"
                    THEN [working EXCEPT ![r] = RunAll(given, asks[r].batch, r)] ELSE working
      /\ pc' = [pc EXCEPT ![r] = next(asks[r].what)]

Found(r, s) ==
  /\ loaded' = [loaded EXCEPT ![r] = ReadBack(s)]
  /\ pc' = [pc EXCEPT ![r] = "remember"]

Reads(r) == UNCHANGED <<config, home, cast, storeVars, row, snapshot, asks, answer, holder, lapsed, spoilt>>

(* load_pg_session_model; no row and an error both lead to Redis.           *)
ReadRow(r) ==
  /\ pc[r] = "pg"
  /\ \/ row # NoSession /\ Found(r, row) /\ UNCHANGED faults
     \/ /\ OrFails(row = NoSession)
        /\ pc' = [pc EXCEPT ![r] = AfterPg]
        /\ UNCHANGED loaded
  /\ UNCHANGED <<memory, working>> /\ Reads(r)

ReadSnapshot(r) ==
  /\ pc[r] = "redis"
  /\ \/ snapshot # NoSession /\ Found(r, snapshot) /\ UNCHANGED faults
     \/ /\ OrFails(snapshot = NoSession)
        /\ pc' = [pc EXCEPT ![r] = "memory"]
        /\ UNCHANGED loaded
  /\ UNCHANGED <<memory, working>> /\ Reads(r)

(* remember_session_model: whatever the memory holds by now.                *)
Remember(r) ==
  /\ pc[r] = "remember"
  /\ memory' = [memory EXCEPT ![home[r]] = loaded[r]]
  /\ Proceed(r, loaded[r])
  /\ UNCHANGED faults /\ Reads(r)

UseMemory(r) ==
  /\ pc[r] = "memory"
  /\ Proceed(r, memory[home[r]])
  /\ UNCHANGED <<memory, faults>> /\ Reads(r)

-----------------------------------------------------------------------------
(* The rest of stream_session.                                              *)

Upserted(r) == IF config.pg THEN working[r] ELSE row

(* Mutant: the upsert gives way to newer rows only.                         *)
UpsertUnlessNewer(r) == row # NoSession => row.revision <= working[r].revision

(* The condition of the upsert: no row, or the revision that was loaded.    *)
UpsertMatches(r) == row # NoSession => row.revision = loaded[r].revision

(* Mutant: the upsert of persist_session_model, without a condition.        *)
PersistUnchecked(r) ==
  /\ pc[r] = "persist"
  /\ row' = Upserted(r)
  /\ spoilt' = spoilt \cup Spoils(loaded[r], working[r])
  /\ pc' = [pc EXCEPT ![r] = "insert"]
  /\ UNCHANGED <<config, home, cast, faults, storeVars,
                 snapshot, memory, asks, loaded, working, answer, holder, lapsed>>

(* Mutant: a conflict is answered, but remembered and cached all the same.  *)
PersistOrInsert(r) ==
  /\ pc[r] = "persist"
  /\ IF config.pg /\ ~UpsertMatches(r) THEN UNCHANGED <<row, spoilt>>
     ELSE row' = Upserted(r) /\ spoilt' = spoilt \cup Spoils(loaded[r], working[r])
  /\ pc' = [pc EXCEPT ![r] = "insert"]
  /\ UNCHANGED <<config, home, cast, faults, storeVars,
                 snapshot, memory, asks, loaded, working, answer, holder, lapsed>>

(* persist_session_model_checked: Ok(true) without Postgres; an error may    *)
(* hide an upsert that was done.                                            *)
Persist(r) ==
  /\ pc[r] = "persist"
  /\ \/ /\ config.pg => UpsertMatches(r)
        /\ row' = Upserted(r) /\ spoilt' = spoilt \cup Spoils(loaded[r], working[r])
        /\ pc' = [pc EXCEPT ![r] = "insert"]
        /\ UNCHANGED <<answer, faults>>
     \/ /\ config.pg /\ ~UpsertMatches(r)
        /\ pc' = [pc EXCEPT ![r] = "release"]
        /\ answer' = [answer EXCEPT ![r] = "conflict"]
        /\ UNCHANGED <<row, spoilt, faults>>
     \/ /\ config.pg /\ Fault
        /\ pc' = [pc EXCEPT ![r] = "release"]
        /\ answer' = [answer EXCEPT ![r] = "error"]
        /\ \/ UNCHANGED <<row, spoilt>>
           \/ UpsertMatches(r) /\ row' = Upserted(r) /\ spoilt' = spoilt \cup Spoils(loaded[r], working[r])
  /\ UNCHANGED <<config, home, cast, storeVars, snapshot, memory, asks, loaded, working, holder, lapsed>>

Insert(r) ==
  /\ pc[r] = "insert"
  /\ memory' = [memory EXCEPT ![home[r]] = working[r]]
  /\ pc' = [pc EXCEPT ![r] = IF config.redis THEN "cache" ELSE "release"]
  /\ answer' = [answer EXCEPT ![r] = IF config.redis THEN @ ELSE "ok"]
  /\ UNCHANGED <<config, home, cast, faults, storeVars,
                 row, snapshot, asks, loaded, working, holder, lapsed, spoilt>>

(* cache_session_model: an error is only counted.                           *)
Cache(r) ==
  /\ pc[r] = "cache"
  /\ \/ snapshot' = working[r] /\ UNCHANGED faults
     \/ Fault /\ UNCHANGED snapshot
  /\ pc' = [pc EXCEPT ![r] = "release"]
  /\ answer' = [answer EXCEPT ![r] = "ok"]
  /\ UNCHANGED <<config, home, cast, storeVars, row, memory, asks, loaded, working, holder, lapsed, spoilt>>

(* Mutant: the revision is taken from the memory, after the load.           *)
SubmittedNewest(r) ==
  [loaded[r] EXCEPT !.revision = IF memory[home[r]] = NoSession THEN @ ELSE memory[home[r]].revision]

(* What solve_session hands to the solve: the loaded model and its revision. *)
Submitted(r) == loaded[r]

Solvable(r) == loaded[r] # NoSession /\ loaded[r].model # NoModel

(* release_coordination_guard and the answer; a solve goes on with the model *)
(* it loaded, under the session's own problem id.                           *)
Release(r) ==
  /\ pc[r] = "release"
  /\ pc' = [pc EXCEPT ![r] = "done"]
  /\ holder' = IF holder = r THEN Nobody ELSE holder
  /\ loaded' = [loaded EXCEPT ![r] = NoSession]
  /\ \/ asks[r].what = "events" /\ UNCHANGED <<job, phase, answer>>
     \/ /\ asks[r].what = "solve" /\ ~Solvable(r)
        /\ answer' = [answer EXCEPT ![r] = "error"]
        /\ UNCHANGED <<job, phase>>
     \/ /\ asks[r].what = "solve" /\ Solvable(r)
        /\ Submit(r, Submitted(r).revision, Submitted(r).model, FALSE)
        /\ UNCHANGED answer
  /\ UNCHANGED <<config, home, cast, faults, stored, known, ran, expired,
                 row, snapshot, memory, asks, working, lapsed, spoilt>>

-----------------------------------------------------------------------------
(* The store, and what may go wrong.                                        *)

SubmitDirectly(r) ==
  /\ cast[r] = "store"
  /\ Direct(r) \/ SolveStored(r)
  /\ UNCHANGED sessionVars

Store == (\E r \in Request : StoreStep(r)) /\ UNCHANGED sessionVars

(* The TTL of the session's lock, or of its snapshot, passes.               *)
Lapse ==
  /\ \/ holder # Nobody /\ holder' = Nobody /\ UNCHANGED snapshot
     \/ snapshot # NoSession /\ snapshot' = NoSession /\ UNCHANGED holder
  /\ lapsed' = TRUE
  /\ Fault
  /\ UNCHANGED <<config, home, cast, storeVars,
                 row, memory, asks, pc, loaded, working, answer, spoilt>>

(* The client hangs up: the handler's future is dropped, its lock is left.  *)
Drop(r) ==
  /\ Fault
  /\ pc[r] \in Awaits
  /\ pc' = [pc EXCEPT ![r] = "dropped"]
  /\ UNCHANGED <<config, home, cast, storeVars,
                 row, snapshot, memory, asks, loaded, working, answer, holder, lapsed, spoilt>>

(* The process of a node dies and starts again with an empty memory.        *)
Restart(n) ==
  /\ Fault
  /\ memory' = [m \in Master |-> IF m = n THEN NoSession ELSE memory[m]]
  /\ pc' = [r \in Request |-> IF home[r] = n /\ pc[r] \in Awaits THEN "dropped" ELSE pc[r]]
  /\ StoreRestart(n)
  /\ UNCHANGED <<config, home, cast, row, snapshot, asks, loaded, working, answer, holder, lapsed, spoilt>>

Handler(r) ==
  \/ StartEvents(r) \/ StartSolve(r) \/ StartGet(r) \/ EditInMemory(r) \/ SubmitDirectly(r)
  \/ ReadRow(r) \/ ReadSnapshot(r) \/ Remember(r) \/ UseMemory(r)
  \/ Persist(r) \/ Insert(r) \/ Cache(r) \/ Release(r)

Next ==
  \/ \E r \in Request : Handler(r) \/ Drop(r)
  \/ Store
  \/ Lapse
  \/ \E n \in Node : Restart(n)
  \/ (\E k \in Key : ExpireModel(k)) /\ UNCHANGED sessionVars

Spec == Init /\ [][Next]_vars

-----------------------------------------------------------------------------
Acked(r) == asks[r].what = "events" /\ answer[r] = "ok"

(* s has every edit of every POST that was answered with 200, in order.     *)
Keeps(s, R) ==
  \A r \in R : Acked(r) /\ working[r].model # NoModel =>
    /\ s # NoSession /\ s.model # NoModel
    /\ IsPrefix(working[r].model.edits, s.model.edits)

(* An edit answered with 200 is in the session for good: in the row if there *)
(* is Postgres, whatever fails, lapses or is read late; without it in the     *)
(* snapshot as long as the lock, the snapshot and every call hold; with       *)
(* neither in the memory of its master (http_api.rs:774-877, main.rs:4287).  *)
NothingAckedIsLost ==
  /\ config.pg /\ spoilt = {} => Keeps(row, Request)
  /\ ~config.pg /\ config.lock /\ config.redis /\ ~lapsed /\ faults = 0 /\ "open" \notin spoilt =>
       Keeps(snapshot, Request)
  /\ InMemoryOnly /\ ~config.redis /\ faults = 0 =>
       \A m \in Master : Keeps(memory[m], {r \in Request : home[r] = m})

(* The commands of one POST, all of them, applied to what is in the row.    *)
WritesOnePost ==
  \E r \in Request :
    /\ pc[r] = "persist"
    /\ row' = RunAll(IF row = NoSession THEN NewSession ELSE row, asks[r].batch, r)

RowChanges == config.pg /\ spoilt' = {} /\ row' # row

(* Every change of the row is one POST's commands applied to the session that *)
(* is in the row at that moment, wherever and however long ago the handler   *)
(* read the one it applied them to: the edits of all masters have one order  *)
(* (http_api.rs:774-877, main.rs:4301-4319).                                *)
EditsAreSerial == [][RowChanges => WritesOnePost]_vars

Behind(s) ==
  s # NoSession =>
    /\ row # NoSession
    /\ s.revision <= row.revision
    /\ s.revision = row.revision => s.model = row.model
    /\ s.model # NoModel => row.model # NoModel /\ IsPrefix(s.model.edits, row.model.edits)

(* The snapshot and the memories hold earlier states of the row, never one   *)
(* that was refused or not written: falling back to them loses nothing that  *)
(* the next conditional upsert would not notice (main.rs:4257-4331).         *)
CachesBehindRow ==
  config.pg /\ spoilt = {} => Behind(snapshot) /\ \A m \in Master : Behind(memory[m])

(* A session is never refused for a conflict with its own problem: with      *)
(* Postgres, the solves of one revision submit one model, from any master    *)
(* and however late they read it (http_api.rs:1182-1220, main.rs:4116).      *)
SolvesAgree ==
  config.pg /\ spoilt = {} =>
    \A r \in Request : asks[r].what = "solve" => phase[r] # "conflict"

AtWork == {r \in Request : config.lock /\ pc[r] \in Awaits /\ asks[r].what \in {"events", "solve"}}

(* The session's lock is CoordinationLock seen from outside.                *)
Lock == INSTANCE ExpiringLock WITH
  Client <- Request, inside <- AtWork, expired <- lapsed

(* Handlers ask of the lock what it promises and nothing more, and no way    *)
(* through stream_session or solve_session leaves it out: what took the lock *)
(* gives it back, unless it is dropped (http_api.rs:774-877, 1170-1199).     *)
UsesLock == Lock!LockSpec

(* What src/README.md:98 says of session edits: they load the latest         *)
(* snapshot in Postgres before they apply commands.  So the edits that were   *)
(* answered with 200 add up in the row, when nothing fails and every one is   *)
(* numbered; NothingAckedIsLost leaves out models no store can hand back.    *)
EditsBuildOnTheRow ==
  config.pg /\ faults = 0 /\ "half" \notin spoilt => Keeps(row, Request)
=============================================================================
