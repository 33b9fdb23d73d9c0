---------------------------- MODULE ProblemStore ----------------------------
(***************************************************************************)
(* The store of problem models, keyed by problem id and revision: a Redis  *)
(* entry written once with SET NX and a TTL, and a map in the memory of     *)
(* every node.  Masters store what they are about to solve, or what is      *)
(* uploaded, and then publish jobs that only name the model; workers        *)
(* hydrate those jobs.                                                      *)
(*                                                                         *)
(* One problem id is modelled, so a revision is a key.  A GET and the insert *)
(* into memory that follows it are one step: an entry is written once, so   *)
(* what was read is what the key holds until it expires.                    *)
(***************************************************************************)
EXTENDS Integers, Sequences

CONSTANTS
  Request,      \* HTTP requests: uploads, solves, edits, reads
  Master, Worker,
  NoModel,      \* Option::None
  MaxRevision,  \* bound of the model: revisions
  MaxFaults,    \* bound of the model: calls that fail, hang-ups, restarts, expiries
  Configs,      \* what the deployment may be connected to
  Homes         \* to which masters the requests may be sent

ASSUME StoreAssumption ==
  /\ Master \cap Worker = {}
  /\ MaxRevision \in Nat /\ MaxFaults \in Nat
  /\ Configs \subseteq [pg : BOOLEAN, redis : BOOLEAN, lock : BOOLEAN]
  /\ Homes \subseteq [Request -> Master]

VARIABLES
  config,   \* config.redis: Redis and NATS are connected
  home,     \* the master each request is sent to
  stored,   \* the Redis entries
  known,    \* per node, state.problems
  job,      \* per request, the model it submits and its revision
  phase,    \* per request, where its submission is
  ran,      \* per request, the models its jobs were hydrated with
  expired,  \* revisions whose entry has expired
  faults    \* counts towards MaxFaults

storeVars == <<stored, known, job, phase, ran, expired>>

Node == Master \cup Worker
Key == 0..MaxRevision

(* The edits a model is made of, in order, which tell models apart; open: an *)
(* upper bound is infinite.                                                 *)
Model == [edits : Seq(Request), open : BOOLEAN]
ModelOrNone == Model \cup {NoModel}

ASSUME ModelAssumption == NoModel \notin Model

Phase == {"none", "check", "set", "reload", "stored", "embedded", "conflict", "refused", "gone"}

StoreTypeOK ==
  /\ config \in Configs
  /\ home \in Homes
  /\ stored \in [Key -> ModelOrNone]
  /\ known \in [Node -> [Key -> ModelOrNone]]
  /\ job \in [Request -> [key : Key, model : ModelOrNone, upload : BOOLEAN]]
  /\ phase \in [Request -> Phase]
  /\ ran \in [Request -> SUBSET Model]
  /\ expired \subseteq Key
  /\ faults \in 0..MaxFaults

NoJob == [key |-> 0, model |-> NoModel, upload |-> FALSE]

StoreInit ==
  /\ config \in Configs
  /\ home \in Homes
  /\ stored = [k \in Key |-> NoModel]
  /\ known = [n \in Node |-> [k \in Key |-> NoModel]]
  /\ job = [r \in Request |-> NoJob]
  /\ phase = [r \in Request |-> "none"]
  /\ ran = [r \in Request |-> {}]
  /\ expired = {}
  /\ faults = 0

Fault == faults < MaxFaults /\ faults' = faults + 1

(* A reply that says P, or no reply: the caller goes on in the same way.    *)
OrFails(P) == (P /\ UNCHANGED faults) \/ Fault

(* session_problem_from_json of what json_value wrote: serde_json writes an  *)
(* infinite bound as null, and does not read null as a number.              *)
FromJson(m) == IF m = NoModel \/ m.open THEN NoModel ELSE m

Remembered(n, k, m) == [known EXCEPT ![n][k] = m]

Entry(r) == stored[job[r].key]

(* A submission that ends without the store: an upload or a conflict is an   *)
(* error; a solve goes on with the model embedded in its jobs.              *)
Unstored(r) == IF job[r].upload THEN "refused" ELSE "embedded"

Submit(r, k, m, upload) ==
  /\ k \in Key
  /\ job' = [job EXCEPT ![r] = [key |-> k, model |-> m, upload |-> upload]]
  /\ phase' = [phase EXCEPT ![r] = "check"]

(* The submission moves on.                                                 *)
Turn(r, p) == phase' = [phase EXCEPT ![r] = p]

-----------------------------------------------------------------------------
(* store_problem_model, over Redis.                                         *)

Settled(r, m) ==
  IF m = job[r].model
  THEN /\ Turn(r, "stored")
       /\ known' = Remembered(home[r], job[r].key, m)
  ELSE Turn(r, "conflict") /\ UNCHANGED known

(* GET: an entry is compared, none (or none that can be read) leads to SET. *)
Check(r) ==
  /\ phase[r] = "check" /\ config.redis
  /\ LET m == FromJson(Entry(r))
     IN  \/ m # NoModel /\ Settled(r, m) /\ UNCHANGED faults
         \/ /\ OrFails(m = NoModel)
            /\ Turn(r, "set") /\ UNCHANGED known
  /\ UNCHANGED <<config, home, stored, job, ran, expired>>

Write(r) ==
  /\ stored' = [stored EXCEPT ![job[r].key] = job[r].model]
  /\ Turn(r, "stored")
  /\ known' = Remembered(home[r], job[r].key, job[r].model)

(* Mutant: SET without NX.                                                  *)
SetAlways(r) ==
  /\ phase[r] = "set"
  /\ Write(r)
  /\ UNCHANGED <<config, home, job, ran, expired, faults>>

(* SET NX EX: created, or the key is there and is read again.  An error may  *)
(* hide a SET that was done.                                                *)
SetNx(r) ==
  /\ phase[r] = "set"
  /\ \/ Entry(r) = NoModel /\ Write(r) /\ UNCHANGED faults
     \/ Entry(r) # NoModel /\ Turn(r, "reload") /\ UNCHANGED <<stored, known, faults>>
     \/ /\ Fault /\ Turn(r, Unstored(r)) /\ UNCHANGED known
        /\ stored' \in {stored, [stored EXCEPT ![job[r].key] =
                                   IF @ = NoModel THEN job[r].model ELSE @]}
  /\ UNCHANGED <<config, home, job, ran, expired>>

(* Mutant: what another master stored is taken for the request's own.       *)
ReloadUnchecked(r) ==
  /\ phase[r] = "reload"
  /\ Turn(r, "stored")
  /\ UNCHANGED <<config, home, stored, known, job, ran, expired, faults>>

(* GET after the lost race: "could not be reloaded", or compared.           *)
Reload(r) ==
  /\ phase[r] = "reload"
  /\ LET m == FromJson(Entry(r))
     IN  \/ m # NoModel /\ Settled(r, m) /\ UNCHANGED faults
         \/ /\ OrFails(m = NoModel)
            /\ Turn(r, Unstored(r)) /\ UNCHANGED known
  /\ UNCHANGED <<config, home, stored, job, ran, expired>>

(* Without Redis: ensure_local_problem_model for an upload, and for a solve  *)
(* remember_problem_model, whatever was there.                              *)
StoreLocally(r) ==
  LET mine == known[home[r]][job[r].key]
  IN  /\ phase[r] = "check" /\ ~config.redis
      /\ IF job[r].upload
         THEN IF mine = NoModel THEN Turn(r, "stored") /\ known' = Remembered(home[r], job[r].key, job[r].model)
              ELSE Turn(r, IF mine = job[r].model THEN "stored" ELSE "conflict") /\ UNCHANGED known
         ELSE Turn(r, "embedded") /\ known' = Remembered(home[r], job[r].key, job[r].model)
      /\ UNCHANGED <<config, home, stored, job, ran, expired, faults>>

-----------------------------------------------------------------------------
(* The callers.                                                             *)

(* POST /problems/:id, or POST /solve with a problem: revision 0.           *)
Direct(r) ==
  /\ phase[r] = "none"
  /\ \E e \in {<<>>, <<r>>}, upload \in BOOLEAN :
        Submit(r, 0, [edits |-> e, open |-> FALSE], upload)
  /\ UNCHANGED <<config, home, stored, known, ran, expired, faults>>

(* load_problem_model: memory first, then Redis, remembered.                *)
Loads(n, k, m) ==
  IF known[n][k] # NoModel
  THEN m = known[n][k] /\ UNCHANGED known
  ELSE m = FromJson(stored[k]) /\ known' = IF m = NoModel THEN known ELSE Remembered(n, k, m)

(* POST /problems/:id/solve.                                                *)
SolveStored(r) ==
  /\ phase[r] = "none"
  /\ \E m \in {known[home[r]][0], FromJson(stored[0])} :
        /\ Loads(home[r], 0, m)
        /\ IF m = NoModel THEN Turn(r, "refused") /\ UNCHANGED job
           ELSE Submit(r, 0, m, FALSE)
  /\ UNCHANGED <<config, home, stored, ran, expired, faults>>

(* hydrate_subproblem_job of a job that names its model, on worker w.       *)
Hydrate(r, w) ==
  /\ phase[r] = "stored" /\ ~job[r].upload
  /\ \E m \in {known[w][job[r].key], FromJson(Entry(r))} \ {NoModel} :
        Loads(w, job[r].key, m) /\ ran' = [ran EXCEPT ![r] = @ \cup {m}]
  /\ UNCHANGED <<config, home, stored, job, phase, expired, faults>>

StoreStep(r) ==
  \/ Check(r) \/ SetNx(r) \/ Reload(r) \/ StoreLocally(r)
  \/ \E w \in Worker : Hydrate(r, w)

(* The TTL of an entry passes; being read does not renew it.                *)
ExpireModel(k) ==
  /\ stored[k] # NoModel
  /\ stored' = [stored EXCEPT ![k] = NoModel]
  /\ expired' = expired \cup {k}
  /\ Fault
  /\ UNCHANGED <<config, home, known, job, phase, ran>>

(* What is left on node n after its process has started again.              *)
StoreRestart(n) ==
  /\ known' = [known EXCEPT ![n] = [k \in Key |-> NoModel]]
  /\ phase' = [r \in Request |->
                 IF home[r] = n /\ phase[r] \in {"check", "set", "reload"} THEN "gone" ELSE phase[r]]
  /\ UNCHANGED <<stored, job, ran, expired>>

-----------------------------------------------------------------------------
(* Over Redis and until its entry expires, a revision names one model on     *)
(* every node: no race of two masters, and no failed call, leaves a second   *)
(* model in a memory that later answers for it (main.rs:4116-4182).         *)
OneModel ==
  config.redis => \A n \in Node, k \in Key \ expired :
    known[n][k] \in {NoModel, stored[k]}

(* A job that names its model is solved on the model its master split       *)
(* (4184-4204), as long as the entry has not expired.                       *)
RanOnItsModel ==
  \A r \in Request : job[r].key \notin expired => ran[r] \subseteq {job[r].model}
=============================================================================
