-------------------------- MODULE SessionStoreProofs --------------------------
(***************************************************************************)
(* First the problem store, under everything the sessions and the direct   *)
(* requests do with it: a revision names one model on every node, and a job *)
(* that names its model is solved on it, until the entry expires.           *)
(*                                                                         *)
(* Then the sessions: what a batch of commands makes of one, for batches of  *)
(* any length; the types; and, one after the other, what holds of the row    *)
(* when there is Postgres, of the snapshot under a lock, and of a memory     *)
(* alone.                                                                   *)
(***************************************************************************)
EXTENDS SessionStore, SequenceTheorems, WellFoundedInduction, TLAPS

(* The maps keep their domains, whatever is in them.                        *)
Shapes ==
  /\ stored = [k \in Key |-> stored[k]]
  /\ known = [n \in Node |-> [k \in Key |-> known[n][k]]]
  /\ job = [r \in Request |-> job[r]]
  /\ phase = [r \in Request |-> phase[r]]
  /\ ran = [r \in Request |-> ran[r]]

(* What OneModel needs of the submissions: a solve is "stored" only through  *)
(* Redis, and then its model is the entry's.                                *)
Submission(r) ==
  /\ job[r].key \in Key
  /\ phase[r] \in {"check", "set", "reload", "stored"} => job[r].model # NoModel
  /\ phase[r] \in {"set", "reload"} => config.redis
  /\ phase[r] # "stored" => ran[r] = {}
  /\ phase[r] = "stored" /\ ~job[r].upload =>
       /\ config.redis
       /\ job[r].key \notin expired => stored[job[r].key] = job[r].model

StoreInv ==
  /\ Shapes
  /\ OneModel
  /\ \A r \in Request : Submission(r)
  /\ RanOnItsModel

-----------------------------------------------------------------------------
(* What one insert into a memory changes.                                   *)
LEMMA RememberedShape ==
  ASSUME Shapes, NEW h, NEW k, NEW m,
         NEW f, f = Remembered(h, k, m)
  PROVE  /\ f = [n \in Node |-> [j \in Key |-> f[n][j]]]
         /\ \A n \in Node, j \in Key : f[n][j] = IF n = h /\ j = k THEN m ELSE known[n][j]
<1>1. \A n \in Node : known[n] = [j \in Key |-> known[n][j]]
  BY DEF Shapes
<1>2. f = [n \in Node |-> IF n = h THEN [known[n] EXCEPT ![k] = m] ELSE known[n]]
  BY DEF Shapes, Remembered
<1>3. \A n \in Node : f[n] = IF n = h THEN [known[n] EXCEPT ![k] = m] ELSE known[n]
  BY <1>2
<1>4. ASSUME NEW n \in Node
      PROVE  /\ f[n] = [j \in Key |-> f[n][j]]
             /\ \A j \in Key : f[n][j] = IF n = h /\ j = k THEN m ELSE known[n][j]
  <2>1. [known[n] EXCEPT ![k] = m] = [j \in Key |-> IF j = k THEN m ELSE known[n][j]]
    BY <1>1
  <2> QED BY <1>1, <1>3, <2>1
<1> QED BY <1>2, <1>4

-----------------------------------------------------------------------------
(* A handler at one of its awaits has not submitted anything yet.           *)
Handlers ==
  /\ pc = [r \in Request |-> pc[r]]
  /\ \A r \in Request : pc[r] \in Awaits => phase[r] = "none" /\ cast[r] # "store"

(* A step that leaves the store alone.                                      *)
LEMMA OffStore ==
  ASSUME StoreInv, UNCHANGED config, UNCHANGED storeVars
  PROVE  StoreInv'
BY DEF StoreInv, Shapes, OneModel, Submission, RanOnItsModel, storeVars

(* A step of request r that at most moves it on, to a phase other than       *)
(* "stored".                                                                *)
LEMMA MovesOn ==
  ASSUME StoreInv, NEW r \in Request, NEW p,
         phase[r] # "stored", p # "stored", p = "check" => FALSE,
         p \in {"set", "reload"} => phase[r] \in {"check", "set"}, p \in {"set", "reload"} => config.redis,
         Turn(r, p), UNCHANGED <<config, stored, known, job, ran, expired>>
  PROVE  StoreInv'
<1>1. Shapes' /\ OneModel' /\ RanOnItsModel'
  BY DEF StoreInv, Shapes, OneModel, RanOnItsModel, Turn
<1>2. ASSUME NEW s \in Request PROVE Submission(s)'
  <2>1. CASE s = r BY <2>1 DEF StoreInv, Shapes, Submission, Turn
  <2>2. CASE s # r BY <2>2 DEF StoreInv, Shapes, Submission, Turn
  <2> QED BY <2>1, <2>2
<1> QED
  BY <1>1, <1>2 DEF StoreInv

(* A request that submits had no job before.                                *)
LEMMA Submits ==
  ASSUME StoreInv, NEW r \in Request, NEW k, NEW m, NEW u \in BOOLEAN,
         phase[r] # "stored", Submit(r, k, m, u), m # NoModel,
         UNCHANGED <<config, stored, ran, expired>>,
         Shapes', OneModel'
  PROVE  StoreInv'
<1>1. /\ job'[r].key = k /\ k \in Key
      /\ phase'[r] = "check"
      /\ \A s \in Request \ {r} : job'[s] = job[s] /\ phase'[s] = phase[s]
  BY DEF StoreInv, Shapes, Submit
<1>2. ran[r] = {}
  BY DEF StoreInv, Submission
<1>3. ASSUME NEW s \in Request PROVE Submission(s)'
  <2>1. CASE s = r BY <1>1, <1>2, <2>1 DEF Submission, Submit, StoreInv, Shapes
  <2>2. CASE s # r BY <1>1, <2>2 DEF StoreInv, Submission
  <2> QED BY <2>1, <2>2
<1>4. RanOnItsModel'
  BY <1>1, <1>2 DEF StoreInv, RanOnItsModel
<1> QED
  BY <1>3, <1>4 DEF StoreInv

(* The entry of r is its model, and its master remembers it.                *)
LEMMA Settles ==
  ASSUME StoreInv, NEW r \in Request, config.redis, phase[r] \in {"check", "reload"},
         Entry(r) = job[r].model,
         Turn(r, "stored"), known' = Remembered(home[r], job[r].key, job[r].model),
         UNCHANGED <<config, stored, job, ran, expired>>
  PROVE  StoreInv'
<1>1. \A n \in Node, k \in Key :
        \/ known'[n][k] = known[n][k]
        \/ k = job[r].key /\ known'[n][k] = job[r].model
  BY RememberedShape DEF StoreInv, Shapes
<1>2. Shapes'
  <2>1. known' = [n \in Node |-> [k \in Key |-> known'[n][k]]]
    BY RememberedShape DEF StoreInv
  <2>2. phase' = [s \in Request |-> phase'[s]]
    BY DEF StoreInv, Shapes, Turn
  <2> QED
    BY <2>1, <2>2 DEF StoreInv, Shapes
<1>3. OneModel'
  BY <1>1 DEF StoreInv, OneModel, Entry
<1>4. ASSUME NEW s \in Request PROVE Submission(s)'
  <2>1. CASE s = r BY <2>1 DEF StoreInv, Shapes, Submission, Turn, Entry
  <2>2. CASE s # r BY <2>2 DEF StoreInv, Shapes, Submission, Turn
  <2> QED BY <2>1, <2>2
<1>5. RanOnItsModel'
  BY DEF StoreInv, RanOnItsModel
<1> QED
  BY <1>2, <1>3, <1>4, <1>5 DEF StoreInv
-----------------------------------------------------------------------------
(* The steps of the store.                                                  *)

LEMMA CheckStep ==
  ASSUME StoreInv, NEW r \in Request, Check(r)
  PROVE  StoreInv'
<1>1. CASE Turn(r, "set") /\ UNCHANGED known
  BY <1>1, MovesOn DEF Check
<1>2. CASE Turn(r, "conflict") /\ UNCHANGED known
  BY <1>2, MovesOn DEF Check
<1>3. CASE /\ FromJson(Entry(r)) # NoModel /\ FromJson(Entry(r)) = job[r].model
           /\ Turn(r, "stored")
           /\ known' = Remembered(home[r], job[r].key, FromJson(Entry(r)))
  <2>1. Entry(r) = job[r].model
    BY <1>3 DEF FromJson
  <2> QED
    BY <1>3, <2>1, Settles DEF Check
<1> QED
  BY <1>1, <1>2, <1>3 DEF Check, Settled

LEMMA ReloadStep ==
  ASSUME StoreInv, NEW r \in Request, Reload(r)
  PROVE  StoreInv'
<1>1. CASE Turn(r, Unstored(r)) /\ UNCHANGED known
  BY <1>1, MovesOn DEF Reload, Unstored
<1>2. CASE Turn(r, "conflict") /\ UNCHANGED known
  BY <1>2, MovesOn DEF Reload
<1>3. CASE /\ FromJson(Entry(r)) # NoModel /\ FromJson(Entry(r)) = job[r].model
           /\ Turn(r, "stored")
           /\ known' = Remembered(home[r], job[r].key, FromJson(Entry(r)))
  <2>1. Entry(r) = job[r].model
    BY <1>3 DEF FromJson
  <2>2. config.redis
    BY DEF StoreInv, Submission, Reload
  <2> QED
    BY <1>3, <2>1, <2>2, Settles DEF Reload
<1> QED
  BY <1>1, <1>2, <1>3 DEF Reload, Settled

(* An absent entry is written: no memory has a model for it, and no stored   *)
(* solve names it, unless it has expired before.                            *)
LEMMA Creates ==
  ASSUME StoreInv, NEW r \in Request, phase[r] = "set", Entry(r) = NoModel,
         stored' = [stored EXCEPT ![job[r].key] = job[r].model],
         UNCHANGED <<config, job, ran, expired>>,
         NEW p, p = "stored" \/ p \notin {"stored", "set", "reload"}, Turn(r, p),
         known' = known \/ known' = Remembered(home[r], job[r].key, job[r].model)
  PROVE  StoreInv'
<1>1. job[r].key \in Key /\ config.redis
  BY DEF StoreInv, Submission
<1>2. /\ stored'[job[r].key] = job[r].model
      /\ \A k \in Key \ {job[r].key} : stored'[k] = stored[k]
  BY <1>1 DEF StoreInv, Shapes
<1>3. \A n \in Node, k \in Key :
        \/ known'[n][k] = known[n][k]
        \/ k = job[r].key /\ known'[n][k] = job[r].model
  BY RememberedShape DEF StoreInv, Shapes
<1>4. Shapes'
  <2>1. known' = [n \in Node |-> [k \in Key |-> known'[n][k]]]
    BY RememberedShape DEF StoreInv, Shapes
  <2>2. phase' = [s \in Request |-> phase'[s]]
    BY DEF StoreInv, Shapes, Turn
  <2>3. stored' = [k \in Key |-> stored'[k]]
    BY DEF StoreInv, Shapes
  <2> QED
    BY <2>1, <2>2, <2>3 DEF StoreInv, Shapes
<1>5. OneModel'
  BY <1>1, <1>2, <1>3 DEF StoreInv, OneModel, Entry
<1>6. ASSUME NEW s \in Request PROVE Submission(s)'
  <2>1. CASE s = r BY <1>1, <1>2, <2>1 DEF StoreInv, Shapes, Submission, Turn
  <2>2. CASE s # r
    <3>1. phase'[s] = phase[s]
      BY <2>2 DEF StoreInv, Shapes, Turn
    <3>2. CASE job[s].key # job[r].key
      BY <1>2, <3>1, <3>2 DEF StoreInv, Submission
    <3>3. CASE job[s].key = job[r].key
      BY <1>1, <1>2, <3>1, <3>3 DEF StoreInv, Submission, Entry
    <3> QED BY <3>2, <3>3
  <2> QED BY <2>1, <2>2
<1>7. RanOnItsModel'
  BY DEF StoreInv, RanOnItsModel
<1> QED
  BY <1>4, <1>5, <1>6, <1>7 DEF StoreInv
LEMMA SetNxStep ==
  ASSUME StoreInv, NEW r \in Request, SetNx(r)
  PROVE  StoreInv'
<1> USE DEF SetNx
<1>1. CASE Entry(r) = NoModel /\ Write(r)
  BY <1>1, Creates DEF Write
<1>2. CASE Turn(r, "reload") /\ UNCHANGED <<stored, known>>
  BY <1>2, MovesOn DEF StoreInv, Submission
<1>3. CASE Turn(r, Unstored(r)) /\ UNCHANGED <<stored, known>>
  BY <1>3, MovesOn DEF Unstored
<1>4. CASE /\ Turn(r, Unstored(r)) /\ UNCHANGED known
           /\ stored' = [stored EXCEPT ![job[r].key] = IF @ = NoModel THEN job[r].model ELSE @]
  <2>1. CASE Entry(r) = NoModel
    BY <1>4, <2>1, Creates DEF Entry, Unstored
  <2>2. CASE Entry(r) # NoModel
    <3>1. stored' = stored
      BY <1>4, <2>2 DEF Entry, StoreInv, Shapes
    <3> QED BY <1>4, <3>1, MovesOn DEF Unstored
  <2> QED BY <2>1, <2>2
<1> QED
  BY <1>1, <1>2, <1>3, <1>4

(* Without Redis no solve is ever "stored", and OneModel says nothing.      *)
LEMMA StoreLocallyStep ==
  ASSUME StoreInv, NEW r \in Request, StoreLocally(r)
  PROVE  StoreInv'
<1>1. \/ known' = known \/ known' = Remembered(home[r], job[r].key, job[r].model)
  BY DEF StoreLocally
<1>2. PICK p : /\ Turn(r, p) /\ p \in {"stored", "conflict", "embedded"}
               /\ p = "stored" => job[r].upload
  BY DEF StoreLocally
<1>3. Shapes'
  <2>1. known' = [n \in Node |-> [k \in Key |-> known'[n][k]]]
    BY <1>1, RememberedShape DEF StoreInv, Shapes
  <2>2. phase' = [s \in Request |-> phase'[s]]
    BY <1>2 DEF StoreInv, Shapes, Turn
  <2> QED
    BY <2>1, <2>2 DEF StoreInv, Shapes, StoreLocally
<1>4. OneModel'
  BY DEF OneModel, StoreLocally
<1>5. ASSUME NEW s \in Request PROVE Submission(s)'
  <2>1. CASE s = r BY <1>2, <2>1 DEF StoreInv, Shapes, Submission, Turn, StoreLocally
  <2>2. CASE s # r BY <1>2, <2>2 DEF StoreInv, Shapes, Submission, Turn, StoreLocally
  <2> QED BY <2>1, <2>2
<1>6. RanOnItsModel'
  BY DEF StoreInv, RanOnItsModel, StoreLocally
<1> QED
  BY <1>3, <1>4, <1>5, <1>6 DEF StoreInv

(* load_problem_model finds what the entry holds.                           *)
LEMMA LoadsKeeps ==
  ASSUME StoreInv, NEW n, NEW k \in Key, NEW m, m # NoModel, Loads(n, k, m),
         UNCHANGED <<config, stored, expired>>
  PROVE  /\ known' = [i \in Node |-> [j \in Key |-> known'[i][j]]]
         /\ OneModel'
         /\ config.redis /\ k \notin expired /\ n \in Node => m = stored[k]
<1>1. \/ known' = known /\ m = known[n][k]
      \/ known' = Remembered(n, k, m) /\ m = stored[k]
  BY DEF Loads, FromJson
<1>2. known' = [i \in Node |-> [j \in Key |-> known'[i][j]]]
  BY <1>1, RememberedShape DEF StoreInv, Shapes
<1>3. \A i \in Node, j \in Key :
        known'[i][j] = known[i][j] \/ (j = k /\ known'[i][j] = stored[k])
  BY <1>1, RememberedShape DEF StoreInv
<1>4. OneModel'
  BY <1>3 DEF StoreInv, OneModel
<1> QED
  BY <1>1, <1>2, <1>4 DEF StoreInv, OneModel

LEMMA HydrateStep ==
  ASSUME StoreInv, NEW r \in Request, NEW w \in Worker, Hydrate(r, w)
  PROVE  StoreInv'
<1>1. PICK m \in {known[w][job[r].key], FromJson(Entry(r))} \ {NoModel} :
        Loads(w, job[r].key, m) /\ ran' = [ran EXCEPT ![r] = @ \cup {m}]
  BY DEF Hydrate
<1>2. /\ phase[r] = "stored" /\ ~job[r].upload
      /\ UNCHANGED <<config, stored, job, phase, expired>>
  BY DEF Hydrate
<1>3. /\ job[r].key \in Key /\ config.redis
      /\ job[r].key \notin expired => stored[job[r].key] = job[r].model
  BY <1>2 DEF StoreInv, Submission
<1>4. /\ known' = [i \in Node |-> [j \in Key |-> known'[i][j]]]
      /\ OneModel'
      /\ job[r].key \notin expired => m = job[r].model
  BY <1>1, <1>2, <1>3, LoadsKeeps DEF Node
<1>5. /\ ran' = [s \in Request |-> ran'[s]]
      /\ \A s \in Request : ran'[s] = IF s = r THEN ran[r] \cup {m} ELSE ran[s]
  BY <1>1 DEF StoreInv, Shapes
<1>6. Shapes'
  BY <1>2, <1>4, <1>5 DEF StoreInv, Shapes
<1>7. \A s \in Request : Submission(s)'
  BY <1>2, <1>5 DEF StoreInv, Submission
<1>8. RanOnItsModel'
  BY <1>2, <1>4, <1>5 DEF StoreInv, RanOnItsModel
<1> QED
  BY <1>4, <1>6, <1>7, <1>8 DEF StoreInv

LEMMA DirectStep ==
  ASSUME StoreInv, NEW r \in Request, Direct(r)
  PROVE  StoreInv'
<1>1. PICK e \in {<<>>, <<r>>}, upload \in BOOLEAN :
        Submit(r, 0, [edits |-> e, open |-> FALSE], upload)
  BY DEF Direct
<1>2. [edits |-> e, open |-> FALSE] # NoModel
  <2>1. <<>> \in Seq(Request) /\ <<r>> \in Seq(Request)
    OBVIOUS
  <2>2. [edits |-> e, open |-> FALSE] \in Model
    BY <2>1 DEF Model
  <2> QED BY <2>2, ModelAssumption
<1>3. Shapes'
  <2>1. /\ UNCHANGED <<stored, known, ran>>
        /\ job' = [job EXCEPT ![r] = [key |-> 0, model |-> [edits |-> e, open |-> FALSE],
                                     upload |-> upload]]
        /\ phase' = [phase EXCEPT ![r] = "check"]
    BY <1>1 DEF Direct, Submit
  <2> QED BY <2>1 DEF StoreInv, Shapes
<1>4. OneModel'
  BY DEF StoreInv, OneModel, Direct
<1> QED
  BY <1>1, <1>2, <1>3, <1>4, Submits DEF Direct

LEMMA SolveStoredStep ==
  ASSUME StoreInv, NEW r \in Request, SolveStored(r)
  PROVE  StoreInv'
<1>1. PICK m : /\ Loads(home[r], 0, m)
               /\ IF m = NoModel THEN Turn(r, "refused") /\ UNCHANGED job
                  ELSE Submit(r, 0, m, FALSE)
  BY DEF SolveStored
<1>2. phase[r] = "none" /\ UNCHANGED <<config, stored, ran, expired>>
  BY DEF SolveStored
<1>3. CASE m = NoModel
  <2>1. UNCHANGED known
    BY <1>1, <1>3 DEF Loads
  <2> QED BY <1>1, <1>2, <1>3, <2>1, MovesOn
<1>4. CASE m # NoModel
  <2>1. Submit(r, 0, m, FALSE) /\ 0 \in Key
    BY <1>1, <1>4 DEF Submit
  <2>2. /\ known' = [i \in Node |-> [j \in Key |-> known'[i][j]]]
        /\ OneModel'
    BY <1>1, <1>2, <1>4, <2>1, LoadsKeeps
  <2>3. Shapes'
    BY <1>2, <2>1, <2>2 DEF StoreInv, Shapes, Submit
  <2> QED BY <1>2, <1>4, <2>1, <2>2, <2>3, Submits
<1> QED
  BY <1>3, <1>4

LEMMA ExpireStep ==
  ASSUME StoreInv, NEW k \in Key, ExpireModel(k)
  PROVE  StoreInv'
<1>1. /\ stored' = [stored EXCEPT ![k] = NoModel] /\ expired' = expired \cup {k}
      /\ UNCHANGED <<config, known, job, phase, ran>>
  BY DEF ExpireModel
<1>2. Shapes'
  BY <1>1 DEF StoreInv, Shapes
<1>3. \A l \in Key \ expired' : l \notin expired /\ stored'[l] = stored[l]
  BY <1>1 DEF StoreInv, Shapes
<1>4. OneModel'
  BY <1>1, <1>3 DEF StoreInv, OneModel
<1>5. ASSUME NEW r \in Request PROVE Submission(r)'
  <2>1. Submission(r)
    BY DEF StoreInv
  <2> QED
    BY <1>1, <1>3, <2>1 DEF Submission
<1>6. RanOnItsModel'
  BY <1>1 DEF StoreInv, RanOnItsModel
<1> QED
  BY <1>2, <1>4, <1>5, <1>6 DEF StoreInv

(* A memory that is empty again has no model the entry does not have.       *)
LEMMA RestartStep ==
  ASSUME StoreInv, NEW n \in Node, StoreRestart(n), UNCHANGED config
  PROVE  StoreInv'
<1>1. \A i \in Node, k \in Key : known'[i][k] \in {known[i][k], NoModel}
  BY DEF StoreInv, Shapes, StoreRestart
<1>2. Shapes'
  BY DEF StoreInv, Shapes, StoreRestart
<1>3. OneModel'
  BY <1>1 DEF StoreInv, OneModel, StoreRestart
<1>4. \A r \in Request : phase'[r] \in {phase[r], "gone"} /\ (phase[r] = "stored" => phase'[r] = "stored")
  BY DEF StoreRestart
<1>5. \A r \in Request : Submission(r)'
  BY <1>4 DEF StoreInv, Submission, StoreRestart
<1>6. RanOnItsModel'
  BY DEF StoreInv, RanOnItsModel, StoreRestart
<1> QED
  BY <1>2, <1>3, <1>5, <1>6 DEF StoreInv

(* A session's solve submits what it loaded; the other ends of a handler     *)
(* leave the store alone.                                                   *)
LEMMA ReleaseStep ==
  ASSUME StoreInv, NEW r \in Request, Release(r), phase[r] # "stored"
  PROVE  StoreInv'
<1>1. CASE UNCHANGED <<job, phase>>
  BY <1>1, OffStore DEF Release, storeVars
<1>2. CASE Solvable(r) /\ Submit(r, Submitted(r).revision, Submitted(r).model, FALSE)
  <2>1. Submitted(r).model # NoModel
    BY <1>2 DEF Solvable, Submitted
  <2>2. Shapes' /\ OneModel'
    BY <1>2 DEF StoreInv, Shapes, OneModel, Release, Submit
  <2> QED BY <1>2, <2>1, <2>2, Submits DEF Release
<1> QED
  BY <1>1, <1>2 DEF Release

-----------------------------------------------------------------------------
(* The whole specification.                                                 *)

LEMMA StoreSteps ==
  ASSUME StoreInv, NEW r \in Request, StoreStep(r)
  PROVE  StoreInv'
BY CheckStep, SetNxStep, ReloadStep, StoreLocallyStep, HydrateStep DEF StoreStep

(* The steps of a handler before it releases the lock.                      *)
Upstream(r) ==
  \/ StartEvents(r) \/ StartSolve(r) \/ StartGet(r) \/ EditInMemory(r)
  \/ ReadRow(r) \/ ReadSnapshot(r) \/ Remember(r) \/ UseMemory(r)
  \/ Persist(r) \/ Insert(r) \/ Cache(r) \/ Drop(r)

LEMMA UpstreamOffStore ==
  ASSUME NEW r \in Request, Upstream(r)
  PROVE  UNCHANGED config /\ UNCHANGED storeVars
BY DEF Upstream, StartEvents, StartSolve, StartGet, EditInMemory, Locked, ReadRow, ReadSnapshot,
       Remember, UseMemory, Reads, Persist, Insert, Cache, Drop

LEMMA UpstreamHandlers ==
  ASSUME Handlers, NEW r \in Request, Upstream(r)
  PROVE  Handlers'
<1>1. UNCHANGED <<phase, cast>>
  BY DEF Upstream, StartEvents, StartSolve, StartGet, EditInMemory, Locked, ReadRow, ReadSnapshot,
         Remember, UseMemory, Reads, Persist, Insert, Cache, Drop, storeVars
<1>2. \E p : pc' = [pc EXCEPT ![r] = p]
  BY DEF Upstream, StartEvents, StartSolve, StartGet, EditInMemory, Locked, ReadRow, ReadSnapshot,
         Found, Proceed, Remember, UseMemory, Persist, Insert, Cache, Drop
<1>3. CASE pc[r] \in Awaits
  BY <1>1, <1>2, <1>3 DEF Handlers
<1>4. CASE phase[r] = "none" /\ cast[r] # "store"
  BY <1>1, <1>2, <1>4 DEF Handlers
<1>5. pc[r] \in Awaits \/ (phase[r] = "none" /\ cast[r] # "store")
  BY DEF Upstream, StartEvents, StartSolve, StartGet, EditInMemory, Locked, Ask, ReadRow, ReadSnapshot,
         Remember, UseMemory, Persist, Insert, Cache, Drop, Awaits
<1> QED
  BY <1>3, <1>4, <1>5

LEMMA NextKeeps ==
  ASSUME StoreInv, Handlers, [Next]_vars
  PROVE  StoreInv' /\ Handlers'
<1>1. CASE UNCHANGED vars
  BY <1>1, OffStore DEF vars, Handlers, storeVars, sessionVars
<1>2. ASSUME NEW r \in Request, Upstream(r) PROVE StoreInv' /\ Handlers'
  BY <1>2, OffStore, UpstreamOffStore, UpstreamHandlers
<1>3. ASSUME NEW r \in Request, Release(r) PROVE StoreInv' /\ Handlers'
  <2>1. phase[r] # "stored"
    BY <1>3 DEF Release, Handlers, Awaits
  <2>2. Handlers'
    BY <1>3 DEF Release, Handlers, Awaits, Submit, StoreInv, Shapes
  <2> QED BY <1>3, <2>1, <2>2, ReleaseStep
<1>4. ASSUME NEW r \in Request, SubmitDirectly(r) PROVE StoreInv' /\ Handlers'
  <2>1. StoreInv'
    BY <1>4, DirectStep, SolveStoredStep DEF SubmitDirectly
  <2>2. \A s \in Request \ {r} : phase'[s] = phase[s]
    BY <1>4 DEF SubmitDirectly, Direct, SolveStored, Submit, Turn, StoreInv, Shapes
  <2>3. Handlers'
    BY <1>4, <2>2 DEF SubmitDirectly, sessionVars, Handlers
  <2> QED BY <2>1, <2>3
<1>5. CASE Store
  <2>1. PICK r \in Request : StoreStep(r) /\ UNCHANGED sessionVars
    BY <1>5 DEF Store
  <2>2. \A s \in Request : phase'[s] = phase[s] \/ (s = r /\ phase[r] # "none")
    BY <2>1 DEF StoreStep, Check, Settled, SetNx, Write, Reload, StoreLocally, Hydrate, Turn, StoreInv, Shapes
  <2>3. Handlers'
    BY <2>1, <2>2 DEF sessionVars, Handlers
  <2> QED BY <2>1, <2>3, StoreSteps
<1>6. CASE Lapse
  BY <1>6, OffStore DEF Lapse, Handlers, storeVars
<1>7. ASSUME NEW n \in Node, Restart(n) PROVE StoreInv' /\ Handlers'
  <2>1. StoreInv'
    BY <1>7, RestartStep DEF Restart
  <2>2. /\ pc' = [r \in Request |-> pc'[r]]
        /\ \A r \in Request : pc'[r] \in {pc[r], "dropped"}
        /\ \A r \in Request : phase[r] = "none" => phase'[r] = "none"
    BY <1>7 DEF Restart, StoreRestart
  <2>3. Handlers'
    BY <1>7, <2>2 DEF Restart, Handlers, Awaits
  <2> QED BY <2>1, <2>3
<1>8. ASSUME NEW k \in Key, ExpireModel(k), UNCHANGED sessionVars PROVE StoreInv' /\ Handlers'
  BY <1>8, ExpireStep DEF ExpireModel, sessionVars, Handlers
<1> QED
  BY <1>1, <1>2, <1>3, <1>4, <1>5, <1>6, <1>7, <1>8 DEF Next, Handler, Upstream

LEMMA StoreStart == Init => StoreInv /\ Handlers
<1> SUFFICES ASSUME Init PROVE StoreInv /\ Handlers
  OBVIOUS
<1>1. StoreInit /\ pc = [r \in Request |-> "idle"]
  BY DEF Init
<1>2. Shapes /\ OneModel /\ RanOnItsModel
  BY <1>1 DEF StoreInit, Shapes, OneModel, RanOnItsModel
<1>3. 0 \in Key
  BY StoreAssumption DEF Key
<1>4. \A r \in Request : Submission(r)
  BY <1>1, <1>3 DEF StoreInit, Submission, NoJob
<1>5. Handlers
  BY <1>1 DEF Handlers, Awaits
<1> QED
  BY <1>2, <1>4, <1>5 DEF StoreInv

LEMMA StoreKept == Spec => []StoreInv
<1>1. StoreInv /\ Handlers /\ [Next]_vars => (StoreInv /\ Handlers)'
  BY NextKeeps
<1> QED
  BY StoreStart, <1>1, PTL DEF Spec

(* Over Redis a revision names one model on every node until its entry       *)
(* expires, for any number of masters, workers, requests and faults          *)
(* (main.rs:4116-4182).                                                     *)
THEOREM OneModelEverywhere == Spec => []OneModel
<1>1. StoreInv => OneModel
  BY DEF StoreInv
<1> QED
  BY StoreKept, <1>1, PTL

(* A job that only names its model is solved on the model its master split,  *)
(* by whatever worker and after whatever races and failed calls             *)
(* (main.rs:4184-4204, 5602-5612).                                          *)
THEOREM JobsRunOnTheirModel == Spec => []RanOnItsModel
<1>1. StoreInv => RanOnItsModel
  BY DEF StoreInv
<1> QED
  BY StoreKept, <1>1, PTL

-----------------------------------------------------------------------------
(* Induction over the natural numbers, for a set: a number outside S would   *)
(* have a least one, whose predecessor is in S.                             *)
LEMMA SetInduction ==
  ASSUME NEW S, 0 \in S, \A n \in Nat : n \in S => n + 1 \in S
  PROVE  Nat \subseteq S
<1> DEFINE R == OpToRel(<, Nat)
<1>1. IsWellFoundedOn(R, Nat)
  BY NatLessThanWellFounded
<1>2. \A i, j \in Nat : i < j => <<i, j>> \in R
  BY DEF OpToRel
<1> HIDE DEF R
<1>3. SUFFICES ASSUME Nat \ S # {} PROVE FALSE
  OBVIOUS
<1>4. PICK m \in Nat \ S : \A k \in Nat \ S : ~(<<k, m>> \in R)
  BY <1>1, <1>3, WFMin
<1>5. m # 0 /\ m - 1 \in Nat
  BY <1>4
<1>6. <<m - 1, m>> \in R
  BY <1>2, <1>5
<1>7. m - 1 \in S
  BY <1>4, <1>5, <1>6
<1> QED
  BY <1>4, <1>5, <1>7

(* The sessions a POST goes through: f[i] is the session after i commands.  *)
Trace(f, n, s, batch, r) ==
  f = [i \in 0..n |-> IF i = 0 THEN s ELSE Run(f[i - 1], batch[i], r)]

LEMMA TraceExists ==
  ASSUME NEW s, NEW batch, NEW r, NEW n \in Nat
  PROVE  \E f : Trace(f, n, s, batch, r)
<1> DEFINE S == {k \in Nat : \E f : Trace(f, k, s, batch, r)}
<1>1. 0 \in S
  <2>1. Trace([i \in 0..0 |-> s], 0, s, batch, r)
    BY DEF Trace
  <2> QED BY <2>1
<1>2. ASSUME NEW k \in Nat, k \in S PROVE k + 1 \in S
  <2>1. PICK f : Trace(f, k, s, batch, r)
    BY <1>2
  <2> DEFINE g == [i \in 0..(k + 1) |-> IF i = k + 1 THEN Run(f[k], batch[i], r) ELSE f[i]]
  <2>2. \A i \in 0..k : f[i] = IF i = 0 THEN s ELSE Run(f[i - 1], batch[i], r)
    BY <2>1 DEF Trace
  <2>3. \A i \in 0..k : g[i] = f[i]
    OBVIOUS
  <2>4. ASSUME NEW i \in 0..(k + 1)
        PROVE  g[i] = IF i = 0 THEN s ELSE Run(g[i - 1], batch[i], r)
    <3>1. CASE i = k + 1
      <4>1. g[i] = Run(f[k], batch[i], r)
        BY <3>1
      <4>2. g[i - 1] = f[k]
        BY <3>1, <2>3
      <4> HIDE DEF g
      <4> QED BY <3>1, <4>1, <4>2
    <3>2. CASE i # k + 1
      <4>1. i \in 0..k /\ (i # 0 => i - 1 \in 0..k)
        BY <3>2
      <4> HIDE DEF g
      <4> QED BY <4>1, <2>2, <2>3
    <3> QED BY <3>1, <3>2
  <2>5. g = [i \in 0..(k + 1) |-> g[i]]
    OBVIOUS
  <2> HIDE DEF g
  <2>6. Trace(g, k + 1, s, batch, r)
    BY <2>4, <2>5 DEF Trace
  <2> QED BY <2>6
<1> HIDE DEF S
<1>3. Nat \subseteq S
  BY <1>1, <1>2, SetInduction
<1> QED BY <1>3 DEF S

(* A property that every command keeps is kept by every batch.              *)
LEMMA RunAllCarries ==
  ASSUME NEW batch \in Seq(Command), NEW r, NEW Good, NEW s \in Good,
         \A t \in Good, c \in Command : Run(t, c, r) \in Good
  PROVE  RunAll(s, batch, r) \in Good
<1>1. PICK f : f = [i \in 0..Len(batch) |-> IF i = 0 THEN s ELSE Run(f[i - 1], batch[i], r)]
  <2>1. Len(batch) \in Nat
    BY LenProperties
  <2>2. \E f : Trace(f, Len(batch), s, batch, r)
    BY <2>1, TraceExists
  <2> QED BY <2>2 DEF Trace
<1> DEFINE h == CHOOSE g : g = [i \in 0..Len(batch) |-> IF i = 0 THEN s ELSE Run(g[i - 1], batch[i], r)]
<1>2. h = [i \in 0..Len(batch) |-> IF i = 0 THEN s ELSE Run(h[i - 1], batch[i], r)]
  BY <1>1
<1>3. RunAll(s, batch, r) = h[Len(batch)]
  BY DEF RunAll
<1> HIDE DEF h
<1> DEFINE S == {k \in Nat : k <= Len(batch) => h[k] \in Good}
<1>4. 0 \in S
  BY <1>2
<1>5. ASSUME NEW k \in Nat, k \in S PROVE k + 1 \in S
  <2> SUFFICES ASSUME k + 1 <= Len(batch) PROVE h[k + 1] \in Good
    OBVIOUS
  <2>1. h[k] \in Good
    BY <1>5
  <2>2. h[k + 1] = Run(h[k], batch[k + 1], r)
    BY <1>2
  <2>3. batch[k + 1] \in Command
    BY ElementOfSeq
  <2> QED BY <2>1, <2>2, <2>3
<1> HIDE DEF S
<1>6. Nat \subseteq S
  BY <1>4, <1>5, SetInduction
<1> QED BY <1>3, <1>6, LenProperties DEF S
(* Prefixes, position by position.                                          *)
LEMMA PrefixIsPointwise ==
  ASSUME NEW s \in Seq(Request), NEW t \in Seq(Request)
  PROVE  IsPrefix(s, t) <=> Len(s) <= Len(t) /\ \A i \in 1..Len(s) : s[i] = t[i]
<1>1. SubSeq(s, 1, Len(s)) = s
  BY SubSeqFull
<1>2. ASSUME Len(s) <= Len(t)
      PROVE  SubSeq(t, 1, Len(s)) = s <=> \A i \in 1..Len(s) : s[i] = t[i]
  <2>1. Len(s) \in Nat /\ Len(t) \in Nat
    BY LenProperties
  <2>2. /\ SubSeq(t, 1, Len(s)) \in Seq(Request)
        /\ Len(SubSeq(t, 1, Len(s))) = Len(s)
        /\ \A i \in 1..Len(s) : SubSeq(t, 1, Len(s))[i] = t[i]
    BY <1>2, <2>1
  <2>3. CASE \A i \in 1..Len(s) : s[i] = t[i]
    <3>1. SubSeq(t, 1, Len(s)) = s
      BY <2>2, <2>3, SeqEqual
    <3> QED BY <2>3, <3>1
  <2>4. CASE SubSeq(t, 1, Len(s)) = s
    BY <2>2, <2>4
  <2> QED BY <2>3, <2>4
<1> QED BY <1>1, <1>2 DEF IsPrefix

LEMMA PrefixOfItself ==
  ASSUME NEW s \in Seq(Request)
  PROVE  IsPrefix(s, s)
BY PrefixIsPointwise, LenProperties

LEMMA PrefixTransitive ==
  ASSUME NEW s \in Seq(Request), NEW t \in Seq(Request), NEW u \in Seq(Request),
         IsPrefix(s, t), IsPrefix(t, u)
  PROVE  IsPrefix(s, u)
<1>1. Len(s) \in Nat /\ Len(t) \in Nat /\ Len(u) \in Nat
  BY LenProperties
<1>2. Len(s) <= Len(t) /\ \A i \in 1..Len(s) : s[i] = t[i]
  BY PrefixIsPointwise
<1>3. Len(t) <= Len(u) /\ \A i \in 1..Len(t) : t[i] = u[i]
  BY PrefixIsPointwise
<1>4. Len(s) <= Len(u) /\ \A i \in 1..Len(s) : s[i] = u[i]
  BY <1>1, <1>2, <1>3
<1> QED BY <1>4, PrefixIsPointwise

LEMMA PrefixOfAppend ==
  ASSUME NEW s \in Seq(Request), NEW r \in Request
  PROVE  Append(s, r) \in Seq(Request) /\ IsPrefix(s, Append(s, r))
<1> DEFINE t == Append(s, r)
<1>1. /\ t \in Seq(Request)
      /\ Len(t) = Len(s) + 1
      /\ \A i \in 1..Len(s) : s[i] = t[i]
      /\ Len(s) \in Nat
  BY AppendProperties, LenProperties
<1> HIDE DEF t
<1>2. IsPrefix(s, t)
  BY <1>1, PrefixIsPointwise
<1> QED BY <1>1, <1>2 DEF t

-----------------------------------------------------------------------------
(* What one session becomes by commands only: numbered on, edits kept.      *)
Grown(s, t) ==
  /\ s.revision <= t.revision
  /\ s.model # NoModel => t.model # NoModel /\ IsPrefix(s.model.edits, t.model.edits)

(* An untouched session has no model yet.                                   *)
Counted(s) == s.revision = 0 => s.model = NoModel

LEMMA SessionParts ==
  ASSUME NEW s \in Session
  PROVE  /\ s.revision \in Nat /\ s.model \in ModelOrNone
         /\ s.model # NoModel => s.model \in Model /\ s.model.edits \in Seq(Request) /\ s.model.open \in BOOLEAN
         /\ s = [revision |-> s.revision, model |-> s.model]
         /\ s # NoSession
BY SessionAssumption DEF Session, ModelOrNone, Model

LEMMA GrownFromItself ==
  ASSUME NEW s \in Session
  PROVE  Grown(s, s)
BY SessionParts, PrefixOfItself DEF Grown

LEMMA GrownTransitive ==
  ASSUME NEW s \in Session, NEW t \in Session, NEW u \in Session, Grown(s, t), Grown(t, u)
  PROVE  Grown(s, u)
<1>1. s.revision <= u.revision
  BY SessionParts DEF Grown
<1>2. ASSUME s.model # NoModel
      PROVE  u.model # NoModel /\ IsPrefix(s.model.edits, u.model.edits)
  <2>1. t.model # NoModel /\ IsPrefix(s.model.edits, t.model.edits)
    BY <1>2 DEF Grown
  <2>2. u.model # NoModel /\ IsPrefix(t.model.edits, u.model.edits)
    BY <2>1 DEF Grown
  <2> QED BY <1>2, <2>1, <2>2, SessionParts, PrefixTransitive
<1> QED BY <1>1, <1>2 DEF Grown

(* One command, whatever it does to the model.                              *)
LEMMA RunGrows ==
  ASSUME NEW s \in Session, NEW c \in Command, NEW r \in Request
  PROVE  /\ Run(s, c, r) \in Session
         /\ Grown(s, Run(s, c, r))
         /\ Counted(s) => Counted(Run(s, c, r))
<1>1. CASE Ignored(s, c)
  BY <1>1, GrownFromItself DEF Run
<1>2. CASE ~Ignored(s, c)
  <2> DEFINE m == Edited(s.model, c, r)
  <2>1. Run(s, c, r) = [revision |-> IF c = "half" THEN s.revision ELSE s.revision + 1, model |-> m]
    BY <1>2 DEF Run
  <2>2. m.open \in BOOLEAN /\ m = [edits |-> m.edits, open |-> m.open]
    <3>1. s.model = NoModel => c = "init"
      BY <1>2 DEF Ignored
    <3> QED BY <3>1, SessionParts DEF Edited
  <2>3. /\ m.edits \in Seq(Request)
        /\ s.model # NoModel => IsPrefix(s.model.edits, m.edits)
    <3>1. CASE s.model = NoModel
      <4>1. m.edits = <<r>>
        BY <3>1 DEF Edited
      <4> QED BY <3>1, <4>1
    <3>2. CASE s.model # NoModel
      <4>1. m.edits = Append(s.model.edits, r)
        BY <3>2 DEF Edited
      <4> QED BY <3>2, <4>1, SessionParts, PrefixOfAppend
    <3> QED BY <3>1, <3>2
  <2>4. m \in Model /\ m # NoModel
    <3>1. m \in Model
      BY <2>2, <2>3 DEF Model
    <3> QED BY <3>1, ModelAssumption
  <2>5. s.revision \in Nat
    BY SessionParts
  <2> HIDE DEF m
  <2>6. Run(s, c, r) \in Session
    BY <2>1, <2>4, <2>5 DEF Session, ModelOrNone
  <2>7. Run(s, c, r).revision = (IF c = "half" THEN s.revision ELSE s.revision + 1) /\ Run(s, c, r).model = m
    BY <2>1
  <2>8. Grown(s, Run(s, c, r))
    BY <2>3, <2>4, <2>5, <2>7 DEF Grown
  <2>9. Counted(s) => Counted(Run(s, c, r))
    BY <1>2, <2>5, <2>7 DEF Counted, Ignored
  <2> QED BY <2>6, <2>8, <2>9
<1> QED BY <1>1, <1>2

(* A whole POST, of any number of commands: the session it makes is the one  *)
(* it began with and more (http_api.rs:832-847, main.rs:1900-2116).         *)
THEOREM RunAllGrows ==
  ASSUME NEW s \in Session, NEW batch \in Seq(Command), NEW r \in Request
  PROVE  /\ RunAll(s, batch, r) \in Session
         /\ Grown(s, RunAll(s, batch, r))
         /\ Counted(s) => Counted(RunAll(s, batch, r))
<1> DEFINE Good == {t \in Session : Grown(s, t) /\ (Counted(s) => Counted(t))}
<1>1. s \in Good
  BY GrownFromItself
<1>2. ASSUME NEW t \in Good, NEW c \in Command
      PROVE  Run(t, c, r) \in Good
  <2>1. t \in Session /\ Grown(s, t) /\ (Counted(s) => Counted(t))
    OBVIOUS
  <2>2. Run(t, c, r) \in Session /\ Grown(t, Run(t, c, r)) /\ (Counted(t) => Counted(Run(t, c, r)))
    BY <2>1, RunGrows
  <2>3. Grown(s, Run(t, c, r))
    BY <2>1, <2>2, GrownTransitive
  <2> QED BY <2>1, <2>2, <2>3
<1> HIDE DEF Good
<1>3. RunAll(s, batch, r) \in Good
  BY <1>1, <1>2, RunAllCarries
<1> QED BY <1>3 DEF Good

-----------------------------------------------------------------------------
(* Types.                                                                   *)

LEMMA FaultType ==
  ASSUME faults \in 0..MaxFaults, UNCHANGED faults \/ Fault
  PROVE  faults' \in 0..MaxFaults
BY StoreAssumption DEF Fault

LEMMA RememberedType ==
  ASSUME StoreTypeOK, NEW n, NEW k, NEW m \in ModelOrNone
  PROVE  Remembered(n, k, m) \in [Node -> [Key -> ModelOrNone]]
<1>1. known \in [Node -> [Key -> ModelOrNone]]
  BY DEF StoreTypeOK
<1>2. ASSUME NEW i \in Node PROVE Remembered(n, k, m)[i] \in [Key -> ModelOrNone]
  BY <1>1 DEF Remembered
<1> QED BY <1>1, <1>2 DEF Remembered

LEMMA TurnType ==
  ASSUME StoreTypeOK, NEW r, NEW p \in Phase, Turn(r, p)
  PROVE  phase' \in [Request -> Phase]
BY DEF StoreTypeOK, Turn

LEMMA SubmitType ==
  ASSUME StoreTypeOK, NEW r, NEW k, NEW m \in ModelOrNone, NEW u \in BOOLEAN, Submit(r, k, m, u)
  PROVE  /\ job' \in [Request -> [key : Key, model : ModelOrNone, upload : BOOLEAN]]
         /\ phase' \in [Request -> Phase]
<1>1. [key |-> k, model |-> m, upload |-> u] \in [key : Key, model : ModelOrNone, upload : BOOLEAN]
  BY DEF Submit
<1>2. "check" \in Phase
  BY DEF Phase
<1> QED BY <1>1, <1>2 DEF StoreTypeOK, Submit

(* What a request finds in the store.                                       *)
LEMMA EntryType ==
  ASSUME StoreTypeOK, NEW r \in Request
  PROVE  /\ Entry(r) \in ModelOrNone
         /\ FromJson(Entry(r)) \in ModelOrNone
         /\ job[r].key \in Key /\ job[r].model \in ModelOrNone
BY DEF StoreTypeOK, Entry, FromJson, ModelOrNone

LEMMA LoadsType ==
  ASSUME StoreTypeOK, NEW n \in Node, NEW k \in Key, NEW m, Loads(n, k, m)
  PROVE  /\ m \in ModelOrNone
         /\ known' \in [Node -> [Key -> ModelOrNone]]
<1>1. known \in [Node -> [Key -> ModelOrNone]] /\ stored \in [Key -> ModelOrNone]
  BY DEF StoreTypeOK
<1>2. known[n][k] \in ModelOrNone /\ FromJson(stored[k]) \in ModelOrNone
  BY <1>1 DEF FromJson, ModelOrNone
<1>3. m \in ModelOrNone
  BY <1>2 DEF Loads
<1>4. known' = known \/ known' = Remembered(n, k, m)
  BY DEF Loads
<1> QED BY <1>1, <1>3, <1>4, RememberedType

LEMMA StoreStepType ==
  ASSUME StoreTypeOK, NEW r \in Request, StoreStep(r)
  PROVE  StoreTypeOK'
<1>1. CASE Check(r) \/ Reload(r)
  <2>1. /\ UNCHANGED <<config, home, stored, job, ran, expired>>
        /\ UNCHANGED faults \/ Fault
    BY <1>1 DEF Check, Reload, OrFails
  <2>2. /\ \E p \in Phase : Turn(r, p)
        /\ known' = known \/ known' = Remembered(home[r], job[r].key, FromJson(Entry(r)))
    BY <1>1 DEF Check, Reload, Settled, Unstored, Phase
  <2>3. known' \in [Node -> [Key -> ModelOrNone]]
    BY <2>2, EntryType, RememberedType DEF StoreTypeOK
  <2>4. phase' \in [Request -> Phase]
    BY <2>2, TurnType
  <2>5. faults' \in 0..MaxFaults
    BY <2>1, FaultType DEF StoreTypeOK
  <2> QED BY <2>1, <2>3, <2>4, <2>5 DEF StoreTypeOK
<1>2. CASE SetNx(r)
  <2>1. /\ UNCHANGED <<config, home, job, ran, expired>>
        /\ UNCHANGED faults \/ Fault
    BY <1>2 DEF SetNx
  <2>2. /\ \E p \in Phase : Turn(r, p)
        /\ known' = known \/ known' = Remembered(home[r], job[r].key, job[r].model)
        /\ \/ stored' = stored
           \/ stored' = [stored EXCEPT ![job[r].key] = job[r].model]
           \/ stored' = [stored EXCEPT ![job[r].key] = IF @ = NoModel THEN job[r].model ELSE @]
    BY <1>2 DEF SetNx, Write, Unstored, Phase
  <2>3. known' \in [Node -> [Key -> ModelOrNone]]
    BY <2>2, EntryType, RememberedType DEF StoreTypeOK
  <2>4. phase' \in [Request -> Phase]
    BY <2>2, TurnType
  <2>5. stored' \in [Key -> ModelOrNone]
    BY <2>2, EntryType DEF StoreTypeOK
  <2>6. faults' \in 0..MaxFaults
    BY <2>1, FaultType DEF StoreTypeOK
  <2> QED BY <2>1, <2>3, <2>4, <2>5, <2>6 DEF StoreTypeOK
<1>3. CASE StoreLocally(r)
  <2>1. UNCHANGED <<config, home, stored, job, ran, expired, faults>>
    BY <1>3 DEF StoreLocally
  <2>2. /\ \E p \in Phase : Turn(r, p)
        /\ known' = known \/ known' = Remembered(home[r], job[r].key, job[r].model)
    BY <1>3 DEF StoreLocally, Phase
  <2>3. known' \in [Node -> [Key -> ModelOrNone]]
    BY <2>2, EntryType, RememberedType DEF StoreTypeOK
  <2>4. phase' \in [Request -> Phase]
    BY <2>2, TurnType
  <2> QED BY <2>1, <2>3, <2>4 DEF StoreTypeOK
<1>4. ASSUME NEW w \in Worker, Hydrate(r, w) PROVE StoreTypeOK'
  <2>1. PICK m \in {known[w][job[r].key], FromJson(Entry(r))} \ {NoModel} :
          Loads(w, job[r].key, m) /\ ran' = [ran EXCEPT ![r] = @ \cup {m}]
    BY <1>4 DEF Hydrate
  <2>2. m \in ModelOrNone /\ known' \in [Node -> [Key -> ModelOrNone]]
    BY <2>1, EntryType, LoadsType DEF Node
  <2>3. m \in Model
    BY <2>1, <2>2 DEF ModelOrNone
  <2>4. ran' \in [Request -> SUBSET Model]
    BY <2>1, <2>3 DEF StoreTypeOK
  <2> QED BY <1>4, <2>2, <2>4 DEF Hydrate, StoreTypeOK
<1> QED BY <1>1, <1>2, <1>3, <1>4 DEF StoreStep

LEMMA DirectType ==
  ASSUME StoreTypeOK, NEW r \in Request, Direct(r) \/ SolveStored(r)
  PROVE  StoreTypeOK'
<1>1. CASE Direct(r)
  <2>1. PICK e \in {<<>>, <<r>>}, upload \in BOOLEAN : Submit(r, 0, [edits |-> e, open |-> FALSE], upload)
    BY <1>1 DEF Direct
  <2>2. [edits |-> e, open |-> FALSE] \in ModelOrNone
    <3>1. <<>> \in Seq(Request) /\ <<r>> \in Seq(Request)
      OBVIOUS
    <3> QED BY <3>1 DEF Model, ModelOrNone
  <2>3. /\ job' \in [Request -> [key : Key, model : ModelOrNone, upload : BOOLEAN]]
        /\ phase' \in [Request -> Phase]
    BY <2>1, <2>2, SubmitType
  <2> QED BY <1>1, <2>3 DEF Direct, StoreTypeOK
<1>2. CASE SolveStored(r)
  <2>1. PICK m : /\ Loads(home[r], 0, m)
                 /\ IF m = NoModel THEN Turn(r, "refused") /\ UNCHANGED job ELSE Submit(r, 0, m, FALSE)
    BY <1>2 DEF SolveStored
  <2>2. home[r] \in Node /\ 0 \in Key
    BY StoreAssumption DEF StoreTypeOK, Node, Key
  <2>3. m \in ModelOrNone /\ known' \in [Node -> [Key -> ModelOrNone]]
    BY <2>1, <2>2, LoadsType
  <2>4. /\ job' \in [Request -> [key : Key, model : ModelOrNone, upload : BOOLEAN]]
        /\ phase' \in [Request -> Phase]
    <3>1. CASE m = NoModel
      <4>1. "refused" \in Phase
        BY DEF Phase
      <4> QED BY <2>1, <3>1, <4>1, TurnType DEF StoreTypeOK
    <3>2. CASE m # NoModel
      BY <2>1, <2>3, <3>2, SubmitType
    <3> QED BY <3>1, <3>2
  <2> QED BY <1>2, <2>3, <2>4 DEF SolveStored, StoreTypeOK
<1> QED BY <1>1, <1>2

LEMMA ExpireType ==
  ASSUME StoreTypeOK, NEW k \in Key, ExpireModel(k)
  PROVE  StoreTypeOK'
<1>1. stored' \in [Key -> ModelOrNone]
  BY DEF ExpireModel, StoreTypeOK, ModelOrNone
<1>2. faults' \in 0..MaxFaults
  BY FaultType DEF ExpireModel, StoreTypeOK
<1> QED BY <1>1, <1>2 DEF ExpireModel, StoreTypeOK

LEMMA RestartType ==
  ASSUME StoreTypeOK, NEW n, StoreRestart(n), UNCHANGED <<config, home>>, Fault
  PROVE  StoreTypeOK'
<1>1. [k \in Key |-> NoModel] \in [Key -> ModelOrNone]
  BY DEF ModelOrNone
<1>2. known' \in [Node -> [Key -> ModelOrNone]]
  BY <1>1 DEF StoreRestart, StoreTypeOK
<1>3. phase' \in [Request -> Phase]
  BY DEF StoreRestart, StoreTypeOK, Phase
<1>4. faults' \in 0..MaxFaults
  BY FaultType DEF StoreTypeOK
<1> QED BY <1>2, <1>3, <1>4 DEF StoreRestart, StoreTypeOK

(* TypeOK without the store's part.                                         *)
SessionTypeOK ==
  /\ cast \in Casts
  /\ row \in SessionOrNone /\ snapshot \in SessionOrNone
  /\ memory \in [Master -> SessionOrNone]
  /\ asks \in [Request -> [what : {"nothing", "events", "get", "solve"}, batch : Batches \cup {<<>>}]]
  /\ pc \in [Request -> Awaits \cup {"idle", "done", "dropped"}]
  /\ loaded \in [Request -> SessionOrNone]
  /\ working \in [Request -> SessionOrNone]
  /\ answer \in [Request -> {"none", "ok", "conflict", "error"}]
  /\ holder \in Request \cup {Nobody}
  /\ lapsed \in BOOLEAN
  /\ spoilt \subseteq {"half", "open"}

LEMMA TypeParts ==
  /\ TypeOK <=> StoreTypeOK /\ SessionTypeOK
  /\ TypeOK' <=> StoreTypeOK' /\ SessionTypeOK'
BY DEF TypeOK, SessionTypeOK

LEMMA NewSessionType == NewSession \in Session /\ Established \in Session
<1>1. [edits |-> <<>>, open |-> FALSE] \in Model
  <2>1. <<>> \in Seq(Request)
    OBVIOUS
  <2> QED BY <2>1 DEF Model
<1> QED BY <1>1 DEF NewSession, Established, Session, ModelOrNone

LEMMA BatchType ==
  ASSUME SessionTypeOK, NEW r \in Request
  PROVE  asks[r].batch \in Seq(Command)
<1>1. asks[r].batch \in Batches \cup {<<>>}
  BY DEF SessionTypeOK
<1>2. <<>> \in Seq(Command)
  OBVIOUS
<1> QED BY <1>1, <1>2, SessionAssumption

LEMMA StartTypes ==
  ASSUME TypeOK, NEW r \in Request, StartEvents(r) \/ StartSolve(r) \/ StartGet(r)
  PROVE  TypeOK'
<1>1. PICK what \in {"events", "get", "solve"}, batch \in Batches \cup {<<>>} :
        asks' = [asks EXCEPT ![r] = [what |-> what, batch |-> batch]]
  BY DEF StartEvents, StartSolve, StartGet, Locked, Ask
<1>2. /\ pc' = [pc EXCEPT ![r] = FirstRead]
      /\ holder' \in {r, holder}
      /\ UNCHANGED <<config, home, cast, faults, storeVars, row, snapshot, memory, loaded, working, answer, lapsed, spoilt>>
  BY DEF StartEvents, StartSolve, StartGet, Locked
<1>3. StoreTypeOK'
  BY <1>2, TypeParts DEF StoreTypeOK, storeVars
<1>4. SessionTypeOK'
  <2>1. asks' \in [Request -> [what : {"nothing", "events", "get", "solve"}, batch : Batches \cup {<<>>}]]
    BY <1>1, TypeParts DEF SessionTypeOK
  <2>2. pc' \in [Request -> Awaits \cup {"idle", "done", "dropped"}]
    BY <1>2, TypeParts DEF SessionTypeOK, FirstRead, AfterPg, Awaits
  <2> QED BY <1>2, <2>1, <2>2, TypeParts DEF SessionTypeOK
<1> QED BY <1>3, <1>4, TypeParts

LEMMA SpoilsType ==
  ASSUME NEW s, NEW t
  PROVE  Spoils(s, t) \subseteq {"half", "open"}
BY DEF Spoils

LEMMA EditInMemoryType ==
  ASSUME TypeOK, NEW r \in Request, EditInMemory(r)
  PROVE  TypeOK'
<1> DEFINE s == IF memory[home[r]] = NoSession THEN NewSession ELSE memory[home[r]]
<1>1. home[r] \in Master
  BY StoreAssumption, TypeParts DEF StoreTypeOK
<1>2. s \in Session
  BY <1>1, NewSessionType, TypeParts DEF SessionTypeOK, SessionOrNone
<1>3. PICK b \in Batches :
        /\ asks' = [asks EXCEPT ![r] = [what |-> "events", batch |-> b]]
        /\ loaded' = [loaded EXCEPT ![r] = s]
        /\ working' = [working EXCEPT ![r] = RunAll(s, b, r)]
  BY DEF EditInMemory, Ask
<1>4. b \in Seq(Command)
  BY SessionAssumption
<1> HIDE DEF s
<1>5. RunAll(s, b, r) \in Session
  BY <1>2, <1>4, RunAllGrows
<1>6. StoreTypeOK'
  BY TypeParts DEF StoreTypeOK, storeVars, EditInMemory
<1>7. /\ loaded' \in [Request -> SessionOrNone]
      /\ working' \in [Request -> SessionOrNone]
      /\ asks' \in [Request -> [what : {"nothing", "events", "get", "solve"}, batch : Batches \cup {<<>>}]]
  BY <1>2, <1>3, <1>5, TypeParts DEF SessionTypeOK, SessionOrNone
<1>8. memory' \in [Master -> SessionOrNone]
  <2>1. memory' = [memory EXCEPT ![home[r]] = working'[r]]
    BY DEF EditInMemory
  <2>2. working'[r] \in SessionOrNone
    BY <1>7
  <2> QED BY <2>1, <2>2, TypeParts DEF SessionTypeOK
<1>9. spoilt' \subseteq {"half", "open"}
  BY SpoilsType, TypeParts DEF SessionTypeOK, EditInMemory
<1>10. /\ pc' \in [Request -> Awaits \cup {"idle", "done", "dropped"}]
       /\ answer' \in [Request -> {"none", "ok", "conflict", "error"}]
  BY TypeParts DEF SessionTypeOK, EditInMemory, Awaits
<1>11. UNCHANGED <<cast, row, snapshot, holder, lapsed>>
  BY DEF EditInMemory
<1>12. SessionTypeOK'
  BY <1>7, <1>8, <1>9, <1>10, <1>11, TypeParts DEF SessionTypeOK
<1> QED BY <1>6, <1>12, TypeParts

(* The steps of a handler leave the store's maps alone.                     *)
LEMMA StoreTypeKept ==
  ASSUME TypeOK, UNCHANGED <<config, home, storeVars>>, UNCHANGED faults \/ Fault
  PROVE  StoreTypeOK'
<1>1. faults' \in 0..MaxFaults
  BY FaultType, TypeParts DEF StoreTypeOK
<1> QED BY <1>1, TypeParts DEF StoreTypeOK, storeVars

LEMMA ReadTypes ==
  ASSUME TypeOK, NEW r \in Request, ReadRow(r) \/ ReadSnapshot(r)
  PROVE  TypeOK'
<1>1. /\ UNCHANGED <<config, home, cast, storeVars, row, snapshot, asks, answer, holder, lapsed, spoilt, memory, working>>
      /\ UNCHANGED faults \/ Fault
  BY DEF ReadRow, ReadSnapshot, Reads, OrFails
<1>2. \/ UNCHANGED loaded
      \/ row # NoSession /\ loaded' = [loaded EXCEPT ![r] = ReadBack(row)]
      \/ snapshot # NoSession /\ loaded' = [loaded EXCEPT ![r] = ReadBack(snapshot)]
  BY DEF ReadRow, ReadSnapshot, Found
<1>3. ASSUME NEW s \in Session PROVE ReadBack(s) \in Session
  BY DEF ReadBack, FromJson, Session, ModelOrNone
<1>4. loaded' \in [Request -> SessionOrNone]
  BY <1>2, <1>3, TypeParts DEF SessionTypeOK, SessionOrNone
<1>5. pc' \in [Request -> Awaits \cup {"idle", "done", "dropped"}]
  BY TypeParts DEF SessionTypeOK, ReadRow, ReadSnapshot, Found, AfterPg, Awaits
<1>6. SessionTypeOK'
  BY <1>1, <1>4, <1>5, TypeParts DEF SessionTypeOK
<1> QED BY <1>1, <1>6, StoreTypeKept, TypeParts

LEMMA ProceedTypes ==
  ASSUME TypeOK, NEW r \in Request, Remember(r) \/ UseMemory(r)
  PROVE  TypeOK'
<1>1. PICK s \in SessionOrNone :
        /\ Proceed(r, s)
        /\ memory' = memory \/ memory' = [memory EXCEPT ![home[r]] = s]
  <2>1. CASE Remember(r)
    BY <2>1, TypeParts DEF Remember, SessionTypeOK
  <2>2. CASE UseMemory(r)
    <3>1. home[r] \in Master
      BY StoreAssumption, TypeParts DEF StoreTypeOK
    <3> QED BY <2>2, <3>1, TypeParts DEF UseMemory, SessionTypeOK
  <2> QED BY <2>1, <2>2
<1>2. UNCHANGED <<config, home, cast, storeVars, row, snapshot, asks, answer, holder, lapsed, spoilt, faults>>
  BY DEF Remember, UseMemory, Reads
<1> DEFINE given == IF asks[r].what = "events" /\ s = NoSession THEN NewSession ELSE s
<1>3. given \in SessionOrNone /\ (asks[r].what = "events" => given \in Session)
  BY <1>1, NewSessionType DEF SessionOrNone
<1>4. /\ loaded' = [loaded EXCEPT ![r] = given]
      /\ working' = IF asks[r].what = "events"
                    THEN [working EXCEPT ![r] = RunAll(given, asks[r].batch, r)] ELSE working
  BY <1>1 DEF Proceed
<1> HIDE DEF given
<1>5. asks[r].what = "events" => RunAll(given, asks[r].batch, r) \in Session
  BY <1>3, BatchType, RunAllGrows, TypeParts
<1>6. /\ loaded' \in [Request -> SessionOrNone]
      /\ working' \in [Request -> SessionOrNone]
      /\ memory' \in [Master -> SessionOrNone]
  BY <1>1, <1>3, <1>4, <1>5, TypeParts DEF SessionTypeOK, SessionOrNone
<1>7. pc' \in [Request -> Awaits \cup {"idle", "done", "dropped"}]
  BY <1>1, TypeParts DEF SessionTypeOK, Proceed, Awaits
<1>8. SessionTypeOK'
  BY <1>2, <1>6, <1>7, TypeParts DEF SessionTypeOK
<1> QED BY <1>2, <1>8, StoreTypeKept, TypeParts

LEMMA WriteTypes ==
  ASSUME TypeOK, NEW r \in Request, Persist(r) \/ Insert(r) \/ Cache(r)
  PROVE  TypeOK'
<1>1. /\ UNCHANGED <<config, home, cast, storeVars, asks, loaded, working, holder, lapsed>>
      /\ UNCHANGED faults \/ Fault
  BY DEF Persist, Insert, Cache
<1>2. /\ row' \in SessionOrNone /\ snapshot' \in SessionOrNone
      /\ memory' \in [Master -> SessionOrNone]
  BY TypeParts DEF SessionTypeOK, Persist, Insert, Cache, Upserted
<1>3. spoilt' \subseteq {"half", "open"}
  BY SpoilsType, TypeParts DEF SessionTypeOK, Persist, Insert, Cache
<1>4. /\ pc' \in [Request -> Awaits \cup {"idle", "done", "dropped"}]
      /\ answer' \in [Request -> {"none", "ok", "conflict", "error"}]
  BY TypeParts DEF SessionTypeOK, Persist, Insert, Cache, Awaits
<1>5. SessionTypeOK'
  BY <1>1, <1>2, <1>3, <1>4, TypeParts DEF SessionTypeOK
<1> QED BY <1>1, <1>5, StoreTypeKept, TypeParts

LEMMA ReleaseType ==
  ASSUME TypeOK, NEW r \in Request, Release(r)
  PROVE  TypeOK'
<1>1. UNCHANGED <<config, home, cast, faults, stored, known, ran, expired,
                  row, snapshot, memory, asks, working, lapsed, spoilt>>
  BY DEF Release
<1>2. /\ pc' = [pc EXCEPT ![r] = "done"]
      /\ holder' \in {holder, Nobody}
      /\ loaded' = [loaded EXCEPT ![r] = NoSession]
      /\ answer' = answer \/ answer' = [answer EXCEPT ![r] = "error"]
  BY DEF Release
<1>3. SessionTypeOK'
  BY <1>1, <1>2, TypeParts DEF SessionTypeOK, SessionOrNone
<1>4. /\ job' \in [Request -> [key : Key, model : ModelOrNone, upload : BOOLEAN]]
      /\ phase' \in [Request -> Phase]
  <2>1. CASE UNCHANGED <<job, phase>>
    BY <2>1, TypeParts DEF StoreTypeOK
  <2>2. CASE Solvable(r) /\ Submit(r, Submitted(r).revision, Submitted(r).model, FALSE)
    <3>1. Submitted(r).model \in ModelOrNone
      BY <2>2, TypeParts DEF SessionTypeOK, SessionOrNone, Session, Solvable, Submitted
    <3> QED BY <2>2, <3>1, SubmitType, TypeParts
  <2> QED BY <2>1, <2>2 DEF Release
<1>5. StoreTypeOK'
  BY <1>1, <1>4, TypeParts DEF StoreTypeOK
<1> QED BY <1>3, <1>5, TypeParts

(* What fails, expires or starts again.                                     *)
LEMMA FaultTypes ==
  ASSUME TypeOK,
         Lapse \/ (\E r \in Request : Drop(r)) \/ (\E n \in Node : Restart(n))
  PROVE  TypeOK'
<1>1. CASE Lapse
  <2>1. UNCHANGED <<config, home, cast, storeVars, row, memory, asks, pc, loaded, working, answer, spoilt>> /\ Fault
    BY <1>1 DEF Lapse
  <2>2. SessionTypeOK'
    BY <1>1, TypeParts DEF Lapse, SessionTypeOK, SessionOrNone
  <2> QED BY <2>1, <2>2, StoreTypeKept, TypeParts
<1>2. ASSUME NEW r \in Request, Drop(r) PROVE TypeOK'
  <2>1. UNCHANGED <<config, home, storeVars>> /\ Fault
    BY <1>2 DEF Drop
  <2>2. SessionTypeOK'
    BY <1>2, TypeParts DEF Drop, SessionTypeOK
  <2> QED BY <2>1, <2>2, StoreTypeKept, TypeParts
<1>3. ASSUME NEW n \in Node, Restart(n) PROVE TypeOK'
  <2>1. StoreTypeOK'
    BY <1>3, RestartType, TypeParts DEF Restart
  <2>2. memory' \in [Master -> SessionOrNone]
    BY <1>3, TypeParts DEF Restart, SessionTypeOK, SessionOrNone
  <2>3. pc' \in [Request -> Awaits \cup {"idle", "done", "dropped"}]
    BY <1>3, TypeParts DEF Restart, SessionTypeOK
  <2>4. SessionTypeOK'
    BY <1>3, <2>2, <2>3, TypeParts DEF Restart, SessionTypeOK
  <2> QED BY <2>1, <2>4, TypeParts
<1> QED BY <1>1, <1>2, <1>3

(* The steps of the store alone.                                            *)
LEMMA StoreAloneTypes ==
  ASSUME TypeOK, UNCHANGED sessionVars,
         \/ \E r \in Request : StoreStep(r) \/ Direct(r) \/ SolveStored(r)
         \/ \E k \in Key : ExpireModel(k)
  PROVE  TypeOK'
<1>1. StoreTypeOK'
  BY StoreStepType, DirectType, ExpireType, TypeParts
<1>2. SessionTypeOK'
  BY TypeParts DEF SessionTypeOK, sessionVars
<1> QED BY <1>1, <1>2, TypeParts

LEMMA TypeStep == TypeOK /\ [Next]_vars => TypeOK'
<1> SUFFICES ASSUME TypeOK, [Next]_vars PROVE TypeOK'
  OBVIOUS
<1>1. CASE UNCHANGED vars
  BY <1>1 DEF vars, TypeOK, StoreTypeOK, storeVars, sessionVars
<1>2. ASSUME NEW r \in Request, Handler(r) PROVE TypeOK'
  BY <1>2, StartTypes, EditInMemoryType, ReadTypes, ProceedTypes, WriteTypes, ReleaseType, StoreAloneTypes
  DEF Handler, SubmitDirectly
<1>3. CASE Store
  BY <1>3, StoreAloneTypes DEF Store
<1>4. CASE (\E k \in Key : ExpireModel(k)) /\ UNCHANGED sessionVars
  BY <1>4, StoreAloneTypes
<1> QED BY <1>1, <1>2, <1>3, <1>4, FaultTypes DEF Next

LEMMA TypeStart == Init => TypeOK
<1> SUFFICES ASSUME Init PROVE TypeOK
  OBVIOUS
<1>1. StoreTypeOK
  <2>1. NoJob \in [key : Key, model : ModelOrNone, upload : BOOLEAN]
    BY StoreAssumption DEF NoJob, Key, ModelOrNone
  <2>2. StoreInit
    BY DEF Init
  <2> QED BY <2>1, <2>2, StoreAssumption DEF StoreInit, StoreTypeOK, ModelOrNone, Phase
<1>2. PICK s \in {NoSession, Established} :
        /\ row = IF config.pg THEN s ELSE NoSession
        /\ snapshot = IF config.redis THEN s ELSE NoSession
        /\ \E m \in Master : memory = [n \in Master |-> IF n = m THEN s ELSE NoSession]
  BY DEF Init
<1>3. s \in SessionOrNone /\ NoSession \in SessionOrNone
  BY <1>2, NewSessionType DEF SessionOrNone
<1>4. SessionTypeOK
  BY <1>2, <1>3 DEF Init, SessionTypeOK
<1> QED BY <1>1, <1>4, TypeParts

(* Every variable stays in its set, for any number of masters, workers and   *)
(* requests, and batches of any length.                                     *)
THEOREM SessionTypes == Spec => []TypeOK
BY TypeStart, TypeStep, PTL DEF Spec

-----------------------------------------------------------------------------
(* Where a handler is, against what it asks for and has in hand.            *)
Placed(r) ==
  /\ pc[r] \in Awaits => asks[r].what # "nothing"
  /\ cast[r] = "store" => asks[r].what = "nothing"
  /\ pc[r] = "remember" => loaded[r] \in Session
  /\ pc[r] \in {"persist", "insert", "cache"} => asks[r].what = "events" /\ working[r] \in Session
  /\ pc[r] = "persist" =>
       /\ loaded[r] \in Session /\ Grown(loaded[r], working[r])
       /\ Counted(loaded[r]) => Counted(working[r])
  /\ answer[r] = "ok" => pc[r] \in {"release", "done", "dropped"}
  /\ Acked(r) => working[r] \in Session
  /\ asks[r].what = "solve" /\ phase[r] # "none" => ~job[r].upload

AllPlaced == \A r \in Request : Placed(r)

(* What belongs to request q does not change.                               *)
Same(q) ==
  /\ asks'[q] = asks[q] /\ pc'[q] = pc[q] /\ loaded'[q] = loaded[q] /\ working'[q] = working[q]
  /\ answer'[q] = answer[q] /\ job'[q] = job[q] /\ phase'[q] = phase[q] /\ cast'[q] = cast[q]

LEMMA SamePlaced ==
  ASSUME NEW q, Placed(q), Same(q)
  PROVE  Placed(q)'
BY DEF Placed, Same, Acked, Grown, Counted

(* A step of one request leaves the others where they are.                  *)
LEMMA OthersSame ==
  ASSUME TypeOK, NEW r \in Request, Handler(r) \/ Drop(r)
  PROVE  UNCHANGED <<config, home, cast>> /\ \A q \in Request \ {r} : Same(q)
<1>1. UNCHANGED <<config, home, cast>>
  BY DEF Handler, StartEvents, StartSolve, StartGet, Locked, EditInMemory, SubmitDirectly, Direct, SolveStored,
         sessionVars, ReadRow, ReadSnapshot, Remember, UseMemory, Reads, Persist, Insert, Cache, Release, Drop
<1>2. /\ pc' = pc \/ \E x : pc' = [pc EXCEPT ![r] = x]
      /\ asks' = asks \/ \E x : asks' = [asks EXCEPT ![r] = x]
  BY DEF Handler, StartEvents, StartSolve, StartGet, Locked, Ask, EditInMemory, SubmitDirectly, sessionVars,
         ReadRow, ReadSnapshot, Found, Remember, UseMemory, Proceed, Reads, Persist, Insert, Cache, Release, Drop
<1>3. /\ loaded' = loaded \/ \E x : loaded' = [loaded EXCEPT ![r] = x]
      /\ working' = working \/ \E x : working' = [working EXCEPT ![r] = x]
  BY DEF Handler, StartEvents, StartSolve, StartGet, Locked, EditInMemory, SubmitDirectly, sessionVars,
         ReadRow, ReadSnapshot, Found, Remember, UseMemory, Proceed, Persist, Insert, Cache, Release, Drop
<1>4. answer' = answer \/ \E x : answer' = [answer EXCEPT ![r] = x]
  BY DEF Handler, StartEvents, StartSolve, StartGet, Locked, EditInMemory, SubmitDirectly, sessionVars,
         ReadRow, ReadSnapshot, Remember, UseMemory, Reads, Persist, Insert, Cache, Release, Drop
<1>5. /\ job' = job \/ \E x : job' = [job EXCEPT ![r] = x]
      /\ phase' = phase \/ \E x : phase' = [phase EXCEPT ![r] = x]
  BY DEF Handler, StartEvents, StartSolve, StartGet, Locked, EditInMemory, SubmitDirectly, Direct, SolveStored,
         Submit, Turn, storeVars, ReadRow, ReadSnapshot, Remember, UseMemory, Reads, Persist, Insert, Cache, Release, Drop
<1>6. /\ pc \in [Request -> Awaits \cup {"idle", "done", "dropped"}]
      /\ asks \in [Request -> [what : {"nothing", "events", "get", "solve"}, batch : Batches \cup {<<>>}]]
      /\ loaded \in [Request -> SessionOrNone] /\ working \in [Request -> SessionOrNone]
      /\ answer \in [Request -> {"none", "ok", "conflict", "error"}]
      /\ job \in [Request -> [key : Key, model : ModelOrNone, upload : BOOLEAN]]
      /\ phase \in [Request -> Phase]
  BY DEF TypeOK, StoreTypeOK
<1>7. ASSUME NEW q \in Request \ {r}
      PROVE  /\ asks'[q] = asks[q] /\ pc'[q] = pc[q] /\ loaded'[q] = loaded[q] /\ working'[q] = working[q]
             /\ answer'[q] = answer[q] /\ job'[q] = job[q] /\ phase'[q] = phase[q]
  BY <1>2, <1>3, <1>4, <1>5, <1>6
<1> QED BY <1>1, <1>7 DEF Same

(* A handler that has its session: the commands of a POST are applied, and   *)
(* what they make is the session and more.                                  *)
LEMMA ProceedResult ==
  ASSUME TypeOK, NEW r \in Request, NEW s \in SessionOrNone, Proceed(r, s),
         pc[r] \in Awaits, AllPlaced
  PROVE  /\ asks[r].what = "events" =>
              /\ pc'[r] = "persist"
              /\ loaded'[r] = IF s = NoSession THEN NewSession ELSE s
              /\ loaded'[r] \in Session /\ working'[r] \in Session
              /\ Grown(loaded'[r], working'[r])
              /\ Counted(loaded'[r]) => Counted(working'[r])
         /\ asks[r].what # "events" =>
              /\ pc'[r] = IF asks[r].what = "solve" THEN "release" ELSE "done"
              /\ loaded'[r] = s /\ working' = working
<1>1. /\ pc \in [Request -> Awaits \cup {"idle", "done", "dropped"}]
      /\ loaded \in [Request -> SessionOrNone] /\ working \in [Request -> SessionOrNone]
  BY DEF TypeOK
<1>2. CASE asks[r].what # "events"
  BY <1>1, <1>2 DEF Proceed
<1>3. CASE asks[r].what = "events"
  <2> DEFINE given == IF s = NoSession THEN NewSession ELSE s
  <2>1. given \in Session
    BY NewSessionType DEF SessionOrNone
  <2>2. /\ pc'[r] = "persist" /\ loaded'[r] = given
        /\ working'[r] = RunAll(given, asks[r].batch, r)
    BY <1>1, <1>3 DEF Proceed
  <2>3. asks[r].batch \in Seq(Command)
    BY BatchType, TypeParts
  <2> HIDE DEF given
  <2>4. /\ RunAll(given, asks[r].batch, r) \in Session
        /\ Grown(given, RunAll(given, asks[r].batch, r))
        /\ Counted(given) => Counted(RunAll(given, asks[r].batch, r))
    BY <2>1, <2>3, RunAllGrows
  <2>5. loaded'[r] = IF s = NoSession THEN NewSession ELSE s
    BY <2>2 DEF given
  <2> QED BY <1>3, <2>1, <2>2, <2>4, <2>5
<1> QED BY <1>2, <1>3

(* The memory a handler at "memory" turns to, and the session it then has.   *)
LEMMA ProceedsFrom ==
  ASSUME TypeOK, NEW r \in Request, Remember(r) \/ UseMemory(r)
  PROVE  \E s \in SessionOrNone :
           /\ Proceed(r, s)
           /\ \/ pc[r] = "remember" /\ s = loaded[r] /\ memory' = [memory EXCEPT ![home[r]] = s]
              \/ pc[r] = "memory" /\ s = memory[home[r]] /\ UNCHANGED memory
<1>1. home[r] \in Master
  BY StoreAssumption DEF TypeOK, StoreTypeOK
<1>2. loaded[r] \in SessionOrNone /\ memory[home[r]] \in SessionOrNone
  BY <1>1 DEF TypeOK
<1> QED BY <1>2 DEF Remember, UseMemory

LEMMA EditResult ==
  ASSUME TypeOK, NEW r \in Request, EditInMemory(r)
  PROVE  /\ asks'[r].what = "events"
         /\ loaded'[r] = IF memory[home[r]] = NoSession THEN NewSession ELSE memory[home[r]]
         /\ loaded'[r] \in Session /\ working'[r] \in Session
         /\ Grown(loaded'[r], working'[r])
         /\ pc'[r] = IF config.redis THEN "cache" ELSE "release"
         /\ answer'[r] = IF config.redis THEN answer[r] ELSE "ok"
         /\ memory' = [memory EXCEPT ![home[r]] = working'[r]]
<1> DEFINE s == IF memory[home[r]] = NoSession THEN NewSession ELSE memory[home[r]]
<1>1. s \in Session
  BY StoreAssumption, NewSessionType DEF TypeOK, StoreTypeOK, SessionOrNone
<1>2. PICK b \in Batches :
        /\ asks' = [asks EXCEPT ![r] = [what |-> "events", batch |-> b]]
        /\ loaded' = [loaded EXCEPT ![r] = s]
        /\ working' = [working EXCEPT ![r] = RunAll(s, b, r)]
  BY DEF EditInMemory, Ask
<1>3. b \in Seq(Command)
  BY SessionAssumption
<1> HIDE DEF s
<1>4. RunAll(s, b, r) \in Session /\ Grown(s, RunAll(s, b, r))
  BY <1>1, <1>3, RunAllGrows
<1>5. /\ asks'[r].what = "events"
      /\ loaded'[r] = s /\ working'[r] = RunAll(s, b, r)
  BY <1>2 DEF TypeOK
<1>6. /\ pc'[r] = IF config.redis THEN "cache" ELSE "release"
      /\ answer'[r] = IF config.redis THEN answer[r] ELSE "ok"
      /\ memory' = [memory EXCEPT ![home[r]] = working'[r]]
  BY DEF EditInMemory, TypeOK
<1> QED BY <1>1, <1>4, <1>5, <1>6 DEF s

LEMMA HandlerPlaced ==
  ASSUME TypeOK, Handlers, AllPlaced, NEW r \in Request, Handler(r) \/ Drop(r)
  PROVE  AllPlaced'
<1> SUFFICES Placed(r)'
  BY OthersSame, SamePlaced DEF AllPlaced
<1>1. Placed(r)
  BY DEF AllPlaced
<1>2. CASE StartEvents(r) \/ StartSolve(r) \/ StartGet(r)
  <2>1. /\ pc[r] = "idle" /\ phase[r] = "none" /\ cast[r] # "store"
        /\ UNCHANGED <<cast, storeVars, loaded, working, answer>>
        /\ pc' = [pc EXCEPT ![r] = FirstRead]
        /\ \E what \in {"events", "solve", "get"} : \E b : asks' = [asks EXCEPT ![r] = [what |-> what, batch |-> b]]
    BY <1>2 DEF StartEvents, StartSolve, StartGet, Locked, Ask
  <2>2. pc'[r] \in {"pg", "redis", "memory"} /\ asks'[r].what \in {"events", "solve", "get"}
    BY <2>1 DEF FirstRead, AfterPg, TypeOK
  <2>3. answer[r] # "ok"
    BY <1>1, <2>1 DEF Placed
  <2> QED BY <2>1, <2>2, <2>3 DEF Placed, Acked, storeVars
<1>3. CASE EditInMemory(r)
  <2>1. pc[r] = "idle" /\ cast'[r] # "store"
    BY <1>3 DEF EditInMemory, Ask
  <2>2. answer[r] # "ok"
    BY <1>1, <2>1 DEF Placed
  <2> QED BY <1>3, <2>1, <2>2, EditResult DEF Placed
<1>4. CASE SubmitDirectly(r)
  <2>1. asks[r].what = "nothing"
    BY <1>1, <1>4 DEF Placed, SubmitDirectly
  <2> QED BY <1>1, <1>4, <2>1 DEF SubmitDirectly, sessionVars, Placed, Acked, Grown, Counted
<1>5. CASE ReadRow(r) \/ ReadSnapshot(r)
  <2>1. /\ pc[r] \in Awaits /\ UNCHANGED <<cast, storeVars, asks, answer, working>>
        /\ \/ pc'[r] = "remember" /\ row # NoSession /\ loaded'[r] = ReadBack(row)
           \/ pc'[r] = "remember" /\ snapshot # NoSession /\ loaded'[r] = ReadBack(snapshot)
           \/ pc'[r] \in {"redis", "memory"} /\ UNCHANGED loaded
    BY <1>5 DEF ReadRow, ReadSnapshot, Found, Reads, AfterPg, Awaits, TypeOK
  <2>2. pc'[r] = "remember" => loaded'[r] \in Session
    BY <2>1 DEF TypeOK, SessionOrNone, ReadBack, FromJson, Session, ModelOrNone
  <2>3. pc[r] \notin {"release", "done", "dropped"}
    BY <1>5 DEF ReadRow, ReadSnapshot
  <2> QED BY <1>1, <2>1, <2>2, <2>3 DEF Placed, Acked, storeVars
<1>6. CASE Remember(r) \/ UseMemory(r)
  <2>1. /\ pc[r] \in {"remember", "memory"} /\ UNCHANGED <<cast, storeVars, asks, answer>>
        /\ \E s \in SessionOrNone : Proceed(r, s)
    BY <1>6, ProceedsFrom DEF Remember, UseMemory, Reads
  <2>2. answer[r] # "ok" /\ asks[r].what # "nothing" /\ phase[r] = "none"
    BY <1>1, <2>1 DEF Placed, Awaits, Handlers
  <2>3. \/ /\ asks[r].what = "events" /\ pc'[r] = "persist"
           /\ loaded'[r] \in Session /\ working'[r] \in Session
           /\ Grown(loaded'[r], working'[r])
           /\ Counted(loaded'[r]) => Counted(working'[r])
        \/ pc'[r] \in {"release", "done"}
    BY <2>1, ProceedResult DEF Awaits
  <2> QED BY <1>1, <2>1, <2>2, <2>3 DEF Placed, Acked, storeVars, Grown, Counted
<1>7. CASE Persist(r) \/ Insert(r) \/ Cache(r)
  <2>1. /\ pc[r] \in {"persist", "insert", "cache"}
        /\ UNCHANGED <<cast, storeVars, asks, loaded, working>>
        /\ \/ pc'[r] \in {"insert", "cache"} /\ answer'[r] = answer[r]
           \/ pc'[r] = "release"
    BY <1>7 DEF Persist, Insert, Cache, TypeOK
  <2>2. answer[r] # "ok" /\ asks[r].what = "events" /\ working[r] \in Session
    BY <1>1, <2>1 DEF Placed
  <2> QED BY <1>1, <2>1, <2>2 DEF Placed, Acked, Awaits, storeVars
<1>8. CASE Release(r)
  <2>1. /\ pc[r] = "release" /\ pc'[r] = "done"
        /\ UNCHANGED <<cast, asks, working>>
        /\ answer'[r] = answer[r] \/ answer'[r] = "error"
    BY <1>8 DEF Release, TypeOK
  <2>2. UNCHANGED <<job, phase>> \/ ~job'[r].upload
    BY <1>8 DEF Release, Submit, TypeOK, StoreTypeOK
  <2> QED BY <1>1, <2>1, <2>2 DEF Placed, Acked, Awaits
<1>9. CASE Drop(r)
  <2>1. /\ pc'[r] = "dropped" /\ UNCHANGED <<cast, storeVars, asks, loaded, working, answer>>
    BY <1>9 DEF Drop, TypeOK
  <2> QED BY <1>1, <2>1 DEF Placed, Acked, Awaits, storeVars
<1> QED BY <1>2, <1>3, <1>4, <1>5, <1>6, <1>7, <1>8, <1>9 DEF Handler

LEMMA PlacedStep ==
  ASSUME TypeOK, Handlers, AllPlaced, [Next]_vars
  PROVE  AllPlaced'
<1>1. CASE UNCHANGED vars
  BY <1>1 DEF vars, sessionVars, storeVars, AllPlaced, Placed, Acked, Grown, Counted
<1>2. CASE Store
  <2>1. UNCHANGED sessionVars /\ UNCHANGED job
    BY <1>2 DEF Store, StoreStep, Check, SetNx, Reload, StoreLocally, Hydrate
  <2>2. \A q \in Request : phase[q] = "none" => phase'[q] = "none"
    BY <1>2 DEF Store, StoreStep, Check, Settled, SetNx, Write, Reload, StoreLocally, Hydrate, Turn, TypeOK, StoreTypeOK
  <2> QED BY <2>1, <2>2 DEF sessionVars, AllPlaced, Placed, Acked, Grown, Counted
<1>3. CASE Lapse
  BY <1>3 DEF Lapse, storeVars, AllPlaced, Placed, Acked, Grown, Counted
<1>4. ASSUME NEW n \in Node, Restart(n) PROVE AllPlaced'
  <2>1. /\ UNCHANGED <<cast, asks, loaded, working, answer, job>>
        /\ \A q \in Request : pc'[q] \in {pc[q], "dropped"} /\ (phase[q] = "none" => phase'[q] = "none")
    BY <1>4 DEF Restart, StoreRestart
  <2> QED BY <2>1 DEF AllPlaced, Placed, Acked, Awaits, Grown, Counted
<1>5. CASE (\E k \in Key : ExpireModel(k)) /\ UNCHANGED sessionVars
  BY <1>5 DEF ExpireModel, sessionVars, AllPlaced, Placed, Acked, Grown, Counted
<1> QED BY <1>1, <1>2, <1>3, <1>4, <1>5, HandlerPlaced DEF Next

-----------------------------------------------------------------------------
(* With Postgres: everything that is an earlier state of the row.           *)

(* A store can hand back what it was given.                                 *)
Readable(s) == s.model # NoModel => ~s.model.open

Named(k, m) == [revision |-> k, model |-> m]

(* The session r has loaded will be remembered, built on or solved.         *)
Carries(r) ==
  \/ pc[r] = "remember"
  \/ pc[r] = "persist" /\ loaded[r] # NewSession
  \/ pc[r] = "release" /\ asks[r].what = "solve"

(* The session r has made is in the row.                                    *)
Made(r) == pc[r] \in {"insert", "cache"} \/ Acked(r)

Holds(r) ==
  {s \in Session : \/ Carries(r) /\ s = loaded[r]
                   \/ Made(r) /\ s = working[r]
                   \/ job[r].key # 0 /\ s = Named(job[r].key, job[r].model)}

Entries == {s \in Session : s.revision \in Key \ {0} /\ s.model = stored[s.revision] /\ s.model # NoModel}

(* Every copy of the session there is, wherever it waits to be used.        *)
Observed ==
  {s \in Session : \/ s = row \/ s = snapshot \/ s \in Entries
                   \/ \E m \in Master : s = memory[m]
                   \/ \E r \in Request : s \in Holds(r)}

Watched == config.pg /\ spoilt = {}

AllBehind == \A s \in Observed : Readable(s) /\ Counted(s) /\ Behind(s)
OneModelEach == \A s, t \in Observed : s.revision = t.revision => s.model = t.model

(* The solves of the session go by its revision, and none is refused.       *)
Solves(r) == asks[r].what = "solve" /\ phase[r] # "none" => job[r].key # 0 /\ phase[r] # "conflict"

RowLeads == Watched => AllBehind /\ OneModelEach /\ \A r \in Request : Solves(r)

LEMMA ObservedSessions == Observed \subseteq Session
BY DEF Observed

(* A step that only copies sessions from one place to another.              *)
LEMMA CopyKeeps ==
  ASSUME RowLeads, UNCHANGED <<config, row>>, spoilt \subseteq spoilt',
         Watched => Observed' \subseteq Observed,
         Watched => \A r \in Request : Solves(r)'
  PROVE  RowLeads'
<1> SUFFICES ASSUME Watched' PROVE (AllBehind /\ OneModelEach /\ \A r \in Request : Solves(r))'
  BY DEF RowLeads
<1>1. Watched
  BY DEF Watched
<1>2. AllBehind'
  BY <1>1 DEF RowLeads, AllBehind, Behind, Readable, Counted
<1>3. OneModelEach'
  BY <1>1 DEF RowLeads, OneModelEach
<1> QED BY <1>1, <1>2, <1>3

LEMMA SameHolds ==
  ASSUME NEW q, Same(q)
  PROVE  Holds(q)' = Holds(q)
BY DEF Same, Holds, Carries, Made, Acked

LEMMA ObservedWithin ==
  ASSUME NEW W, Observed \subseteq W,
         \A s \in Session : s = row' => s \in W,
         \A s \in Session : s = snapshot' => s \in W,
         \A s \in Session, m \in Master : s = memory'[m] => s \in W,
         Entries' \subseteq W,
         \A q \in Request : Same(q) \/ Holds(q)' \subseteq W
  PROVE  Observed' \subseteq W
<1>1. ASSUME NEW q \in Request PROVE Holds(q)' \subseteq W
  <2>1. Holds(q) \subseteq W
    BY DEF Observed, Holds
  <2> QED BY <2>1, SameHolds
<1> QED BY <1>1 DEF Observed

(* Everything that is behind the row is behind what is built on it.          *)
LEMMA BuiltOnRow ==
  ASSUME TypeOK, AllPlaced, AllBehind, OneModelEach, NEW r \in Request, pc[r] = "persist",
         UpsertMatches(r), Spoils(loaded[r], working[r]) = {}
  PROVE  /\ Readable(working[r]) /\ Counted(working[r])
         /\ \A s \in Observed : /\ Grown(s, working[r])
                                /\ s.revision = working[r].revision => s.model = working[r].model
<1>1. /\ loaded[r] \in Session /\ working[r] \in Session /\ Grown(loaded[r], working[r])
      /\ Counted(loaded[r]) => Counted(working[r])
  BY DEF AllPlaced, Placed
<1>2. /\ working[r].revision = loaded[r].revision => working[r].model = loaded[r].model
      /\ working[r].model # NoModel => ~working[r].model.open
  BY DEF Spoils
<1>3. loaded[r] # NewSession => loaded[r] \in Observed
  BY <1>1 DEF Observed, Holds, Carries
<1>4. Counted(loaded[r])
  BY <1>3 DEF AllBehind, Counted, NewSession
<1>5. ASSUME NEW s \in Observed
      PROVE  /\ Grown(s, working[r])
             /\ s.revision = working[r].revision => s.model = working[r].model
  <2>1. s \in Session /\ row # NoSession /\ Behind(s)
    BY <1>5, SessionParts, ObservedSessions DEF AllBehind, Behind
  <2>2. row \in Session /\ row \in Observed
    BY <2>1 DEF TypeOK, SessionOrNone, Observed
  <2>3. row.revision = loaded[r].revision
    BY <2>1 DEF UpsertMatches
  <2>4. row.model = loaded[r].model
    <3>1. CASE loaded[r] = NewSession
      <4>1. row.revision = 0 /\ loaded[r].model = NoModel
        BY <2>3, <3>1 DEF NewSession
      <4> QED BY <4>1, <2>2 DEF AllBehind, Counted
    <3>2. CASE loaded[r] # NewSession
      BY <1>3, <2>2, <2>3, <3>2 DEF OneModelEach
    <3> QED BY <3>1, <3>2
  <2>5. Grown(s, row) /\ (s.revision = row.revision => s.model = row.model)
    BY <2>1, SessionParts DEF Behind, Grown
  <2>6. Grown(row, working[r])
    BY <1>1, <2>3, <2>4 DEF Grown
  <2>7. Grown(s, working[r])
    BY <1>1, <2>1, <2>2, <2>5, <2>6, GrownTransitive
  <2>8. /\ s.revision \in Nat /\ row.revision \in Nat /\ working[r].revision \in Nat
        /\ s.revision <= row.revision /\ row.revision <= working[r].revision
    BY <1>1, <2>1, <2>2, <2>5, <2>6, SessionParts DEF Grown
  <2>9. ASSUME s.revision = working[r].revision PROVE s.model = working[r].model
    <3>1. s.revision = row.revision /\ row.revision = working[r].revision
      BY <2>8, <2>9
    <3> QED BY <3>1, <2>3, <2>4, <2>5, <1>2
  <2> QED BY <2>7, <2>9
<1>6. Readable(working[r]) /\ Counted(working[r])
  BY <1>1, <1>2, <1>4 DEF Readable
<1> QED BY <1>5, <1>6

(* The conditional upsert.                                                  *)
LEMMA UpsertKeeps ==
  ASSUME TypeOK, AllPlaced, RowLeads, NEW r \in Request, pc[r] = "persist",
         UNCHANGED config, UpsertMatches(r), row' = Upserted(r),
         spoilt' = spoilt \cup Spoils(loaded[r], working[r]),
         Watched => Observed' \subseteq Observed \cup {working[r]},
         Watched => \A q \in Request : Solves(q)'
  PROVE  RowLeads'
<1> SUFFICES ASSUME Watched' PROVE (AllBehind /\ OneModelEach /\ \A q \in Request : Solves(q))'
  BY DEF RowLeads
<1>1. Watched /\ Spoils(loaded[r], working[r]) = {}
  BY DEF Watched
<1>2. AllBehind /\ OneModelEach
  BY <1>1 DEF RowLeads
<1>3. /\ Readable(working[r]) /\ Counted(working[r])
      /\ \A s \in Observed : /\ Grown(s, working[r])
                             /\ s.revision = working[r].revision => s.model = working[r].model
  BY <1>1, <1>2, BuiltOnRow
<1>4. row' = working[r] /\ working[r] \in Session /\ working[r] # NoSession
  BY <1>1, SessionParts DEF Upserted, Watched, AllPlaced, Placed
<1>5. Grown(working[r], working[r])
  BY <1>4, GrownFromItself
<1>6. ASSUME NEW s, s \in Observed'
      PROVE  /\ Readable(s) /\ Counted(s)
             /\ Grown(s, working[r]) /\ (s.revision = working[r].revision => s.model = working[r].model)
  BY <1>1, <1>2, <1>3, <1>5, <1>6 DEF AllBehind
<1>7. AllBehind'
  <2>1. ASSUME NEW s, s \in Observed' PROVE Behind(s)'
    BY <1>4, <1>6, <2>1 DEF Behind, Grown
  <2> QED BY <1>6, <2>1 DEF AllBehind, Readable, Counted
<1>8. OneModelEach'
  BY <1>1, <1>2, <1>3 DEF OneModelEach
<1> QED BY <1>1, <1>7, <1>8

LEMMA SameSolves ==
  ASSUME NEW q, Same(q), Solves(q)
  PROVE  Solves(q)'
BY DEF Same, Solves

(* The store's entries are those it had.                                    *)
LEMMA SameEntries ==
  ASSUME UNCHANGED stored
  PROVE  Entries' = Entries
BY DEF Entries

(* A handler that changes no store and no submission: what it has in hand    *)
(* must be a copy.                                                          *)
LEMMA HandCopies ==
  ASSUME RowLeads, NEW r \in Request, \A q \in Request \ {r} : Same(q),
         UNCHANGED <<config, row, snapshot, memory, stored, job, phase>>, spoilt \subseteq spoilt',
         asks'[r].what = asks[r].what \/ phase[r] = "none",
         Watched => Holds(r)' \subseteq Observed
  PROVE  RowLeads'
<1>1. ASSUME Watched PROVE Observed' \subseteq Observed
  <2>1. \A q \in Request : Same(q) \/ Holds(q)' \subseteq Observed
    BY <1>1
  <2>2. Entries' \subseteq Observed
    BY SameEntries DEF Observed, Entries
  <2> QED BY <2>1, <2>2, ObservedWithin DEF Observed
<1>2. ASSUME Watched, NEW q \in Request PROVE Solves(q)'
  <2>1. Solves(q)
    BY <1>2 DEF RowLeads
  <2>2. CASE q = r
    BY <2>1, <2>2 DEF Solves
  <2>3. CASE q # r
    BY <2>1, <2>3, SameSolves
  <2> QED BY <2>2, <2>3
<1> QED BY <1>1, <1>2, CopyKeeps

LEMMA StartLeads ==
  ASSUME TypeOK, AllPlaced, RowLeads, NEW r \in Request, StartEvents(r) \/ StartSolve(r) \/ StartGet(r)
  PROVE  RowLeads'
<1>1. \A q \in Request \ {r} : Same(q)
  BY OthersSame DEF Handler
<1>2. /\ UNCHANGED <<config, row, snapshot, memory, stored, job, phase, spoilt, answer>>
      /\ pc[r] = "idle" /\ phase[r] = "none" /\ pc'[r] \in {"pg", "redis", "memory"}
  BY DEF StartEvents, StartSolve, StartGet, Locked, Ask, storeVars, FirstRead, AfterPg, TypeOK
<1>3. answer[r] # "ok"
  BY <1>2 DEF AllPlaced, Placed
<1>4. Holds(r)' \subseteq Observed
  BY <1>2, <1>3 DEF Holds, Carries, Made, Acked, Observed
<1> QED BY <1>1, <1>2, <1>4, HandCopies

LEMMA ReadLeads ==
  ASSUME TypeOK, AllPlaced, RowLeads, NEW r \in Request, ReadRow(r) \/ ReadSnapshot(r)
  PROVE  RowLeads'
<1>1. \A q \in Request \ {r} : Same(q)
  BY OthersSame DEF Handler
<1>2. /\ UNCHANGED <<config, row, snapshot, memory, stored, job, phase, spoilt, asks, answer, working>>
      /\ pc[r] \in {"pg", "redis"}
  BY DEF ReadRow, ReadSnapshot, Reads, storeVars
<1>3. \/ /\ pc'[r] = "remember"
         /\ \E s \in {row, snapshot} \ {NoSession} : loaded'[r] = ReadBack(s)
      \/ pc'[r] \in {"redis", "memory"}
  BY DEF ReadRow, ReadSnapshot, Found, AfterPg, TypeOK
<1>4. ~Acked(r)
  BY <1>2 DEF AllPlaced, Placed, Acked
<1>5. ASSUME Watched PROVE Holds(r)' \subseteq Observed
  <2>1. ASSUME NEW s \in {row, snapshot} \ {NoSession} PROVE ReadBack(s) \in Observed
    <3>1. s \in Observed /\ s \in Session
      BY DEF Observed, TypeOK, SessionOrNone
    <3>2. Readable(s)
      BY <1>5, <3>1 DEF RowLeads, AllBehind
    <3>3. ReadBack(s) = s
      BY <3>1, <3>2 DEF ReadBack, FromJson, Readable, Session
    <3> QED BY <3>1, <3>3
  <2> QED BY <1>2, <1>3, <1>4, <2>1 DEF Holds, Carries, Made, Acked, Observed
<1> QED BY <1>1, <1>2, <1>5, HandCopies

LEMMA ProceedLeads ==
  ASSUME TypeOK, AllPlaced, RowLeads, NEW r \in Request, Remember(r) \/ UseMemory(r)
  PROVE  RowLeads'
<1>1. \A q \in Request \ {r} : Same(q)
  BY OthersSame DEF Handler
<1>2. /\ UNCHANGED <<config, row, snapshot, stored, job, phase, spoilt, asks, answer>>
      /\ pc[r] \in {"remember", "memory"}
  BY DEF Remember, UseMemory, Reads, storeVars
<1>3. PICK s \in SessionOrNone :
        /\ Proceed(r, s)
        /\ \/ pc[r] = "remember" /\ s = loaded[r] /\ memory' = [memory EXCEPT ![home[r]] = s]
           \/ pc[r] = "memory" /\ s = memory[home[r]] /\ UNCHANGED memory
  BY ProceedsFrom
<1>4. ~Acked(r) /\ ~Acked(r)'
  BY <1>2 DEF AllPlaced, Placed, Acked
<1>5. s \in Session => s \in Observed
  <2>1. home[r] \in Master
    BY StoreAssumption DEF TypeOK, StoreTypeOK
  <2> QED BY <1>3, <2>1 DEF Observed, Holds, Carries
<1>6. Holds(r)' \subseteq Observed
  <2>1. /\ asks[r].what = "events" => pc'[r] = "persist" /\ loaded'[r] = IF s = NoSession THEN NewSession ELSE s
        /\ asks[r].what # "events" => pc'[r] \in {"release", "done"} /\ loaded'[r] = s
    BY <1>2, <1>3, ProceedResult DEF Awaits
  <2>2. ASSUME NEW t \in Session, Carries(r)', t = loaded'[r] PROVE t \in Observed
    BY <1>2, <1>3, <1>5, <2>1, <2>2 DEF Carries, SessionOrNone
  <2>3. ~Made(r)'
    BY <1>4, <2>1 DEF Made
  <2> QED BY <1>2, <2>2, <2>3 DEF Holds, Observed
<1>7. \A t \in Session, m \in Master : t = memory'[m] => t \in Observed
  BY <1>3, <1>5 DEF Observed, TypeOK
<1>8. Observed' \subseteq Observed
  <2>1. Entries' \subseteq Observed
    BY <1>2, SameEntries DEF Observed, Entries
  <2> QED BY <1>1, <1>2, <1>6, <1>7, <2>1, ObservedWithin DEF Observed
<1>9. ASSUME Watched, NEW q \in Request PROVE Solves(q)'
  BY <1>2, <1>9 DEF RowLeads, Solves
<1> QED BY <1>2, <1>8, <1>9, CopyKeeps

LEMMA PersistLeads ==
  ASSUME TypeOK, AllPlaced, RowLeads, NEW r \in Request, Persist(r)
  PROVE  RowLeads'
<1>1. \A q \in Request \ {r} : Same(q)
  BY OthersSame DEF Handler
<1>2. /\ UNCHANGED <<config, snapshot, memory, stored, job, phase, asks, working, loaded>>
      /\ pc[r] = "persist" /\ asks[r].what = "events"
  BY DEF Persist, storeVars, AllPlaced, Placed
<1>3. pc'[r] = "release" \/ (pc'[r] = "insert" /\ UNCHANGED answer)
  BY DEF Persist, TypeOK
<1>4. ~Acked(r)
  BY <1>2 DEF AllPlaced, Placed, Acked
<1>5. ~Acked(r)'
  BY <1>4 DEF Persist, Acked, TypeOK
<1>6. Holds(r)' \subseteq Observed \cup {working[r]} /\ (pc'[r] = "release" => Holds(r)' \subseteq Observed)
  BY <1>2, <1>3, <1>5 DEF Holds, Carries, Made, Observed
<1>7. CASE UNCHANGED <<row, spoilt>> /\ pc'[r] = "release"
  BY <1>1, <1>2, <1>6, <1>7, HandCopies
<1>8. CASE /\ config.pg => UpsertMatches(r)
           /\ row' = Upserted(r) /\ spoilt' = spoilt \cup Spoils(loaded[r], working[r])
  <2>1. ASSUME Watched PROVE Observed' \subseteq Observed \cup {working[r]}
    <3>1. Entries' \subseteq Observed
      BY <1>2, SameEntries DEF Observed, Entries
    <3>2. \A s \in Session : s = row' => s \in Observed \cup {working[r]}
      BY <1>8 DEF Upserted, Observed
    <3> QED BY <1>1, <1>2, <1>6, <3>1, <3>2, ObservedWithin DEF Observed
  <2>2. ASSUME Watched, NEW q \in Request PROVE Solves(q)'
    BY <1>2, <2>2 DEF RowLeads, Solves
  <2>3. CASE config.pg
    BY <1>2, <1>8, <2>1, <2>2, <2>3, UpsertKeeps
  <2>4. CASE ~config.pg
    BY <1>2, <2>4 DEF RowLeads, Watched
  <2> QED BY <2>3, <2>4
<1> QED BY <1>7, <1>8 DEF Persist, TypeOK

LEMMA InsertLeads ==
  ASSUME TypeOK, AllPlaced, RowLeads, NEW r \in Request, Insert(r) \/ Cache(r)
  PROVE  RowLeads'
<1>1. \A q \in Request \ {r} : Same(q)
  BY OthersSame DEF Handler
<1>2. /\ UNCHANGED <<config, row, stored, job, phase, asks, working, spoilt>>
      /\ pc[r] \in {"insert", "cache"} /\ asks[r].what = "events" /\ pc'[r] \in {"cache", "release"}
  BY DEF Insert, Cache, storeVars, AllPlaced, Placed, TypeOK
<1>3. working[r] \in Session /\ working[r] \in Observed
  BY <1>2 DEF AllPlaced, Placed, Observed, Holds, Made
<1>4. Holds(r)' \subseteq Observed
  BY <1>2, <1>3 DEF Holds, Carries, Observed
<1>5. \A s \in Session, m \in Master : s = memory'[m] => s \in Observed
  BY <1>3 DEF Insert, Cache, Observed, TypeOK
<1>6. \A s \in Session : s = snapshot' => s \in Observed
  BY <1>3 DEF Insert, Cache, Observed
<1>7. Observed' \subseteq Observed
  <2>1. Entries' \subseteq Observed
    BY <1>2, SameEntries DEF Observed, Entries
  <2> QED BY <1>1, <1>2, <1>4, <1>5, <1>6, <2>1, ObservedWithin DEF Observed
<1>8. ASSUME Watched, NEW q \in Request PROVE Solves(q)'
  BY <1>2, <1>8 DEF RowLeads, Solves
<1> QED BY <1>2, <1>7, <1>8, CopyKeeps

LEMMA ReleaseLeads ==
  ASSUME TypeOK, AllPlaced, RowLeads, NEW r \in Request, Release(r)
  PROVE  RowLeads'
<1>1. \A q \in Request \ {r} : Same(q)
  BY OthersSame DEF Handler
<1>2. /\ UNCHANGED <<config, row, snapshot, memory, stored, asks, working, spoilt>>
      /\ pc[r] = "release" /\ pc'[r] = "done"
      /\ answer' = answer \/ answer' = [answer EXCEPT ![r] = "error"]
  BY DEF Release, TypeOK
<1>3. Acked(r)' => Acked(r)
  BY <1>2 DEF Acked, TypeOK
<1>4. CASE UNCHANGED <<job, phase>>
  <2>1. Holds(r)' \subseteq Observed
    BY <1>2, <1>3, <1>4 DEF Holds, Carries, Made, Observed
  <2> QED BY <1>1, <1>2, <1>4, <2>1, HandCopies
<1>5. CASE asks[r].what = "solve" /\ Solvable(r) /\ Submit(r, Submitted(r).revision, Submitted(r).model, FALSE)
  <2>1. loaded[r] \in Session /\ loaded[r].model # NoModel
    BY <1>5 DEF Solvable, TypeOK, SessionOrNone
  <2>2. loaded[r] \in Observed
    BY <1>2, <1>5, <2>1 DEF Observed, Holds, Carries
  <2>3. /\ job'[r] = [key |-> loaded[r].revision, model |-> loaded[r].model, upload |-> FALSE]
        /\ phase'[r] = "check"
    BY <1>5 DEF Submit, Submitted, TypeOK, StoreTypeOK
  <2>4. Named(job'[r].key, job'[r].model) = loaded[r]
    BY <2>1, <2>3, SessionParts DEF Named
  <2>5. Holds(r)' \subseteq Observed
    BY <1>2, <1>3, <2>2, <2>4 DEF Holds, Carries, Made, Observed
  <2>6. Observed' \subseteq Observed
    <3>1. Entries' \subseteq Observed
      BY <1>2, SameEntries DEF Observed, Entries
    <3> QED BY <1>1, <1>2, <2>5, <3>1, ObservedWithin DEF Observed
  <2>7. ASSUME Watched, NEW q \in Request PROVE Solves(q)'
    <3>1. CASE q = r
      <4>1. loaded[r].revision # 0
        BY <2>1, <2>2, <2>7 DEF RowLeads, AllBehind, Counted
      <4> QED BY <2>3, <3>1, <4>1 DEF Solves
    <3>2. CASE q # r
      BY <1>1, <2>7, <3>2, SameSolves DEF RowLeads
    <3> QED BY <3>1, <3>2
  <2> QED BY <1>2, <2>6, <2>7, CopyKeeps
<1> QED BY <1>4, <1>5 DEF Release

LEMMA DirectLeads ==
  ASSUME TypeOK, AllPlaced, RowLeads, NEW r \in Request, SubmitDirectly(r)
  PROVE  RowLeads'
<1>1. \A q \in Request \ {r} : Same(q)
  BY OthersSame DEF Handler
<1>2. /\ UNCHANGED <<config, row, snapshot, memory, stored, asks, working, spoilt, pc, loaded, answer>>
      /\ asks[r].what = "nothing"
  BY DEF SubmitDirectly, Direct, SolveStored, sessionVars, AllPlaced, Placed
<1>3. job'[r].key = 0 \/ UNCHANGED job
  BY DEF SubmitDirectly, Direct, SolveStored, Submit, TypeOK, StoreTypeOK
<1>4. Holds(r)' \subseteq Observed
  BY <1>2, <1>3 DEF Holds, Carries, Made, Acked, Observed
<1>5. Observed' \subseteq Observed
  <2>1. Entries' \subseteq Observed
    BY <1>2, SameEntries DEF Observed, Entries
  <2> QED BY <1>1, <1>2, <1>4, <2>1, ObservedWithin DEF Observed
<1>6. ASSUME Watched, NEW q \in Request PROVE Solves(q)'
  <2>1. CASE q = r
    BY <1>2, <2>1 DEF Solves
  <2>2. CASE q # r
    BY <1>1, <1>6, <2>2, SameSolves DEF RowLeads
  <2> QED BY <2>1, <2>2
<1> QED BY <1>2, <1>5, <1>6, CopyKeeps

(* The store: an entry is written from a submission, and a submission under  *)
(* the revision of an entry has its model.                                  *)
LEMMA StoreLeads ==
  ASSUME TypeOK, AllPlaced, RowLeads, NEW r \in Request, StoreStep(r), UNCHANGED sessionVars
  PROVE  RowLeads'
<1>1. /\ UNCHANGED <<config, job, row, snapshot, memory, asks, pc, loaded, working, answer, spoilt>>
      /\ \A q \in Request \ {r} : phase'[q] = phase[q]
  BY DEF StoreStep, Check, Settled, SetNx, Write, Reload, StoreLocally, Hydrate, Turn, sessionVars, TypeOK, StoreTypeOK
<1>2. \A q \in Request : Holds(q)' = Holds(q)
  BY <1>1 DEF Holds, Carries, Made, Acked
<1>3. \A k \in Key : stored'[k] = stored[k] \/ (k = job[r].key /\ stored'[k] = job[r].model)
  BY DEF StoreStep, Check, SetNx, Write, Reload, StoreLocally, Hydrate, TypeOK, StoreTypeOK
<1>4. Entries' \subseteq Observed
  <2>1. ASSUME NEW s \in Entries' PROVE s \in Observed
    <3>1. s \in Session /\ s.revision \in Key /\ s.revision # 0 /\ s.model = stored'[s.revision] /\ s.model # NoModel
      BY DEF Entries
    <3>2. CASE stored'[s.revision] = stored[s.revision]
      BY <3>1, <3>2 DEF Observed, Entries
    <3>3. CASE s.revision = job[r].key /\ stored'[s.revision] = job[r].model
      <4>1. s = Named(job[r].key, job[r].model) /\ job[r].key # 0
        BY <3>1, <3>3, SessionParts DEF Named
      <4> QED BY <3>1, <4>1 DEF Observed, Holds
    <3> QED BY <1>3, <3>1, <3>2, <3>3
  <2> QED BY <2>1
<1>5. Observed' \subseteq Observed
  <2>1. \A q \in Request : Holds(q)' \subseteq Observed
    BY <1>2 DEF Observed, Holds
  <2> QED BY <1>1, <1>4, <2>1, ObservedWithin DEF Observed
<1>6. ASSUME Watched, NEW q \in Request PROVE Solves(q)'
  <2>1. Solves(q) /\ OneModelEach /\ AllBehind
    BY <1>6 DEF RowLeads
  <2>2. CASE q # r
    BY <1>1, <2>1, <2>2 DEF Solves
  <2>3. CASE q = r
    <3> SUFFICES ASSUME asks[r].what = "solve", phase'[r] # "none"
                 PROVE  job[r].key # 0 /\ phase'[r] # "conflict"
      BY <1>1, <2>3 DEF Solves
    <3>1. phase[r] \in {"check", "set", "reload", "stored"}
      BY DEF StoreStep, Check, SetNx, Reload, StoreLocally, Hydrate
    <3>2. job[r].key # 0 /\ phase[r] # "conflict" /\ ~job[r].upload
      BY <2>1, <2>3, <3>1 DEF Solves, AllPlaced, Placed
    <3> SUFFICES ASSUME phase'[r] = "conflict" PROVE FALSE
      BY <3>2
    <3>3. FromJson(Entry(r)) # NoModel /\ FromJson(Entry(r)) # job[r].model
      <4>1. CASE Check(r) \/ Reload(r)
        BY <4>1 DEF Check, Reload, Settled, Turn, Unstored, TypeOK, StoreTypeOK
      <4>2. CASE SetNx(r)
        BY <4>2 DEF SetNx, Write, Turn, Unstored, TypeOK, StoreTypeOK
      <4>3. CASE StoreLocally(r)
        BY <3>2, <4>3 DEF StoreLocally, Turn, TypeOK, StoreTypeOK
      <4>4. CASE \E w \in Worker : Hydrate(r, w)
        BY <3>2, <4>4 DEF Hydrate
      <4> QED BY <4>1, <4>2, <4>3, <4>4 DEF StoreStep
    <3>4. /\ job[r].key \in Key /\ job[r].model \in ModelOrNone /\ Entry(r) \in ModelOrNone
          /\ FromJson(Entry(r)) = Entry(r)
      BY <3>3, EntryType, TypeParts DEF FromJson
    <3> DEFINE s == Named(job[r].key, Entry(r))
               t == Named(job[r].key, job[r].model)
    <3>5. s \in Session /\ t \in Session
      BY <3>4 DEF Named, Session, Key
    <3>6. /\ s.revision = job[r].key /\ s.model = Entry(r)
          /\ t.revision = job[r].key /\ t.model = job[r].model
      BY DEF Named
    <3>7. t \in Holds(r)
      BY <3>2, <3>5 DEF Holds
    <3> HIDE DEF s, t
    <3>8. s \in Entries
      BY <3>2, <3>3, <3>4, <3>5, <3>6 DEF Entries, Entry
    <3>9. s.model = t.model
      BY <2>1, <3>5, <3>6, <3>7, <3>8 DEF OneModelEach, Observed
    <3> QED BY <3>3, <3>4, <3>6, <3>9
  <2> QED BY <2>2, <2>3
<1> QED BY <1>1, <1>5, <1>6, CopyKeeps

(* What expires, is dropped or starts again only leaves fewer copies.        *)
LEMMA FewerLeads ==
  ASSUME TypeOK, RowLeads,
         UNCHANGED <<config, row, asks, loaded, working, answer, job, spoilt>>,
         snapshot' \in {snapshot, NoSession},
         \A m \in Master : memory'[m] \in {memory[m], NoSession},
         \A k \in Key : stored'[k] \in {stored[k], NoModel},
         \A q \in Request : pc'[q] \in {pc[q], "dropped"},
         \A q \in Request : phase'[q] = phase[q] \/ (phase[q] # "none" /\ phase'[q] = "gone")
  PROVE  RowLeads'
<1>1. \A q \in Request : Holds(q)' \subseteq Holds(q)
  BY DEF Holds, Carries, Made, Acked
<1>2. Entries' \subseteq Entries
  BY DEF Entries
<1>3. Observed' \subseteq Observed
  <2>1. \A s \in Session : s # NoSession
    BY SessionParts
  <2>2. \A q \in Request : Holds(q)' \subseteq Observed
    BY <1>1 DEF Observed, Holds
  <2>3. Entries' \subseteq Observed
    BY <1>2 DEF Observed, Entries
  <2> QED BY <2>1, <2>2, <2>3, ObservedWithin DEF Observed
<1>4. ASSUME Watched, NEW q \in Request PROVE Solves(q)'
  BY <1>4 DEF RowLeads, Solves
<1> QED BY <1>3, <1>4, CopyKeeps

LEMMA RowStep ==
  ASSUME TypeOK, AllPlaced, RowLeads, [Next]_vars
  PROVE  RowLeads'
<1>1. CASE UNCHANGED vars
  BY <1>1, FewerLeads DEF vars, sessionVars, storeVars
<1>2. ASSUME NEW r \in Request, Handler(r) PROVE RowLeads'
  <2>1. CASE EditInMemory(r)
    BY <2>1 DEF EditInMemory, InMemoryOnly, RowLeads, Watched
  <2> QED BY <1>2, <2>1, StartLeads, ReadLeads, ProceedLeads, PersistLeads, InsertLeads, ReleaseLeads, DirectLeads
          DEF Handler
<1>3. CASE Store
  BY <1>3, StoreLeads DEF Store
<1>4. CASE Lapse
  BY <1>4, FewerLeads DEF Lapse, storeVars
<1>5. ASSUME NEW r \in Request, Drop(r) PROVE RowLeads'
  <2>1. \A q \in Request : pc'[q] \in {pc[q], "dropped"}
    BY <1>5 DEF Drop, TypeOK
  <2> QED BY <1>5, <2>1, FewerLeads DEF Drop, storeVars
<1>6. ASSUME NEW n \in Node, Restart(n) PROVE RowLeads'
  <2>1. UNCHANGED <<config, row, snapshot, stored, asks, loaded, working, answer, job, spoilt>>
    BY <1>6 DEF Restart, StoreRestart
  <2>2. /\ \A m \in Master : memory'[m] \in {memory[m], NoSession}
        /\ \A q \in Request : pc'[q] \in {pc[q], "dropped"}
        /\ \A q \in Request : phase'[q] = phase[q] \/ (phase[q] # "none" /\ phase'[q] = "gone")
    BY <1>6 DEF Restart, StoreRestart
  <2> QED BY <2>1, <2>2, FewerLeads
<1>7. ASSUME NEW k \in Key, ExpireModel(k), UNCHANGED sessionVars PROVE RowLeads'
  <2>1. /\ UNCHANGED <<config, row, snapshot, memory, asks, pc, loaded, working, answer, job, phase, spoilt>>
        /\ \A j \in Key : stored'[j] \in {stored[j], NoModel}
    BY <1>7 DEF ExpireModel, sessionVars, TypeOK, StoreTypeOK
  <2> QED BY <2>1, FewerLeads
<1> QED BY <1>1, <1>2, <1>3, <1>4, <1>5, <1>6, <1>7 DEF Next

LEMMA RowStart == Init => RowLeads /\ AllPlaced
<1> SUFFICES ASSUME Init PROVE RowLeads /\ AllPlaced
  OBVIOUS
<1>1. TypeOK
  BY TypeStart
<1>2. AllPlaced
  BY DEF Init, StoreInit, AllPlaced, Placed, Acked, Awaits
<1>3. ASSUME Watched, NEW s \in Observed PROVE s = row /\ s = Established
  <2>1. s \notin Entries
    BY DEF Init, StoreInit, Entries
  <2>2. \A r \in Request : s \notin Holds(r)
    BY DEF Init, StoreInit, NoJob, Holds, Carries, Made, Acked
  <2>3. s \in Session /\ s # NoSession
    BY ObservedSessions, SessionParts
  <2>4. s = row \/ s = snapshot \/ \E m \in Master : s = memory[m]
    BY <2>1, <2>2 DEF Observed
  <2> QED BY <1>3, <2>3, <2>4 DEF Init, Watched
<1>4. Readable(Established) /\ Counted(Established)
  BY DEF Readable, Counted, Established
<1>5. ASSUME NEW s \in Session, s = row PROVE Behind(s)
  BY <1>5, SessionParts, GrownFromItself DEF Behind, Grown
<1>6. Watched => AllBehind /\ OneModelEach
  BY <1>3, <1>4, <1>5, ObservedSessions DEF AllBehind, OneModelEach
<1>7. \A r \in Request : Solves(r)
  BY DEF Init, StoreInit, Solves
<1> QED BY <1>2, <1>6, <1>7 DEF RowLeads

-----------------------------------------------------------------------------
(* Without Postgres, under a lock that nothing takes away: the snapshot.     *)

Sole == ~config.pg /\ config.lock /\ config.redis /\ ~lapsed /\ faults = 0 /\ "open" \notin spoilt

Base == IF snapshot = NoSession THEN NewSession ELSE snapshot

Excludes(r) == pc[r] \in Awaits /\ asks[r].what \in {"events", "solve"} => holder = r

(* A POST builds on the snapshot as it still is.                            *)
BuildsOnSnapshot(r) ==
  /\ pc[r] # "pg"
  /\ pc[r] = "remember" => snapshot # NoSession
  /\ asks[r].what = "events" =>
       /\ pc[r] = "remember" => loaded[r] = snapshot
       /\ pc[r] = "memory" => snapshot = NoSession
       /\ pc[r] = "persist" => loaded[r] = Base
       /\ pc[r] \in {"persist", "insert", "cache"} => Grown(Base, working[r])
       /\ pc[r] \in {"insert", "cache"} => Readable(working[r])

(* No memory is ahead of a snapshot that is not there, unless it is being    *)
(* written.                                                                 *)
NoneAhead ==
  snapshot = NoSession => (\A m \in Master : memory[m] = NoSession) \/ (\E r \in Request : pc[r] = "cache")

SnapshotReadable == snapshot # NoSession => Readable(snapshot)

UnderLock ==
  /\ \A r \in Request : Excludes(r) /\ BuildsOnSnapshot(r)
  /\ SnapshotReadable
  /\ NoneAhead
  /\ Keeps(snapshot, Request)

SnapshotLeads == Sole => UnderLock

(* A Fault is counted.                                                      *)
LEMMA NoFault ==
  ASSUME TypeOK, faults' = 0, UNCHANGED faults \/ Fault
  PROVE  UNCHANGED faults /\ faults = 0 /\ ~Fault
BY DEF TypeOK, StoreTypeOK, Fault

(* A step of request r that leaves the snapshot alone.                      *)
LEMMA UnderLockMoves ==
  ASSUME TypeOK, UnderLock, NEW r \in Request, \A q \in Request \ {r} : Same(q),
         UNCHANGED snapshot, Excludes(r)', BuildsOnSnapshot(r)', NoneAhead',
         holder' = holder \/ holder = Nobody \/ holder = r,
         Acked(r)' => Acked(r) /\ working'[r] = working[r]
  PROVE  UnderLock'
<1>1. ASSUME NEW q \in Request PROVE (Excludes(q) /\ BuildsOnSnapshot(q))'
  <2>1. CASE q = r
    BY <2>1
  <2>2. CASE q # r
    <3>1. Excludes(q) /\ BuildsOnSnapshot(q) /\ Same(q)
      BY <2>2 DEF UnderLock
    <3>2. Excludes(q)'
      BY <2>2, <3>1, SessionAssumption DEF Excludes, Same
    <3>3. BuildsOnSnapshot(q)'
      BY <3>1 DEF BuildsOnSnapshot, Same, Base, Grown, Readable
    <3> QED BY <3>2, <3>3
  <2> QED BY <2>1, <2>2
<1>2. SnapshotReadable'
  BY DEF UnderLock, SnapshotReadable, Readable
<1>3. \A q \in Request : Acked(q)' => Acked(q) /\ working'[q] = working[q]
  BY DEF Same, Acked
<1>4. Keeps(snapshot, Request)'
  BY <1>3 DEF UnderLock, Keeps
<1> QED BY <1>1, <1>2, <1>4 DEF UnderLock

LEMMA UnderLockStart ==
  ASSUME TypeOK, AllPlaced, UnderLock, Sole, NEW r \in Request, StartEvents(r) \/ StartSolve(r) \/ StartGet(r)
  PROVE  UnderLock'
<1>1. \A q \in Request \ {r} : Same(q)
  BY OthersSame DEF Handler
<1>2. /\ UNCHANGED <<snapshot, memory, answer, working>> /\ pc[r] = "idle" /\ pc'[r] = "redis"
      /\ \A q \in Request \ {r} : pc'[q] = pc[q]
  BY DEF StartEvents, StartSolve, StartGet, Locked, Ask, FirstRead, AfterPg, TypeOK, Sole
<1>3. \/ holder = Nobody /\ holder' = r
      \/ holder' = holder /\ asks'[r].what = "get"
  BY DEF StartEvents, StartSolve, StartGet, Locked, Ask, TypeOK, Sole
<1>4. Excludes(r)' /\ BuildsOnSnapshot(r)'
  BY <1>2, <1>3 DEF Excludes, BuildsOnSnapshot
<1>5. ~Acked(r)'
  BY <1>2 DEF AllPlaced, Placed, Acked
<1>6. NoneAhead'
  BY <1>2 DEF UnderLock, NoneAhead
<1> QED BY <1>1, <1>2, <1>3, <1>4, <1>5, <1>6, UnderLockMoves

LEMMA UnderLockRead ==
  ASSUME TypeOK, AllPlaced, UnderLock, faults' = 0, NEW r \in Request, ReadRow(r) \/ ReadSnapshot(r)
  PROVE  UnderLock'
<1>1. \A q \in Request \ {r} : Same(q)
  BY OthersSame DEF Handler
<1>2. Excludes(r) /\ BuildsOnSnapshot(r) /\ SnapshotReadable /\ NoneAhead
  BY DEF UnderLock
<1>3. ReadSnapshot(r)
  BY <1>2 DEF ReadRow, BuildsOnSnapshot
<1>4. UNCHANGED <<snapshot, memory, asks, answer, holder, working>> /\ pc[r] = "redis"
  BY <1>3 DEF ReadSnapshot, Reads
<1>5. \/ snapshot # NoSession /\ pc'[r] = "remember" /\ loaded'[r] = ReadBack(snapshot)
      \/ snapshot = NoSession /\ pc'[r] = "memory"
  BY <1>3, NoFault DEF ReadSnapshot, Found, OrFails, TypeOK
<1>6. snapshot # NoSession => ReadBack(snapshot) = snapshot
  BY <1>2 DEF SnapshotReadable, Readable, ReadBack, FromJson, TypeOK, SessionOrNone, Session
<1>7. Excludes(r)' /\ BuildsOnSnapshot(r)'
  BY <1>2, <1>4, <1>5, <1>6 DEF Excludes, BuildsOnSnapshot, Awaits
<1>8. ~Acked(r)'
  BY <1>4 DEF AllPlaced, Placed, Acked
<1>9. NoneAhead'
  <2>1. \A q \in Request : pc[q] = "cache" => pc'[q] = "cache"
    BY <1>1, <1>4 DEF Same
  <2> QED BY <1>2, <1>4, <2>1 DEF NoneAhead
<1> QED BY <1>1, <1>4, <1>7, <1>8, <1>9, UnderLockMoves

LEMMA UnderLockProceed ==
  ASSUME TypeOK, AllPlaced, UnderLock, NEW r \in Request, Remember(r) \/ UseMemory(r)
  PROVE  UnderLock'
<1>1. \A q \in Request \ {r} : Same(q)
  BY OthersSame DEF Handler
<1>2. Excludes(r) /\ BuildsOnSnapshot(r) /\ NoneAhead
  BY DEF UnderLock
<1>3. UNCHANGED <<snapshot, asks, answer, holder>> /\ pc[r] \in {"remember", "memory"}
  BY DEF Remember, UseMemory, Reads
<1>4. PICK s \in SessionOrNone :
        /\ Proceed(r, s)
        /\ \/ pc[r] = "remember" /\ s = loaded[r] /\ memory' = [memory EXCEPT ![home[r]] = s]
           \/ pc[r] = "memory" /\ s = memory[home[r]] /\ UNCHANGED memory
  BY ProceedsFrom
<1>5. ~Acked(r)'
  BY <1>3 DEF AllPlaced, Placed, Acked
<1>6. NoneAhead'
  <2>1. \A q \in Request : pc[q] = "cache" => pc'[q] = "cache"
    BY <1>1, <1>3 DEF Same
  <2>2. CASE pc[r] = "remember"
    BY <1>2, <1>3, <2>2 DEF BuildsOnSnapshot, NoneAhead
  <2>3. CASE pc[r] = "memory"
    BY <1>2, <1>3, <1>4, <2>1, <2>3 DEF NoneAhead
  <2> QED BY <1>3, <2>2, <2>3
<1>7. asks[r].what = "events" => (IF s = NoSession THEN NewSession ELSE s) = Base
  <2> SUFFICES ASSUME asks[r].what = "events" PROVE (IF s = NoSession THEN NewSession ELSE s) = Base
    OBVIOUS
  <2>1. CASE pc[r] = "remember"
    BY <1>2, <1>4, <2>1 DEF BuildsOnSnapshot, Base
  <2>2. CASE pc[r] = "memory"
    <3>1. snapshot = NoSession /\ s = memory[home[r]]
      BY <1>2, <1>4, <2>2 DEF BuildsOnSnapshot
    <3>2. ASSUME NEW q \in Request, pc[q] = "cache" PROVE FALSE
      <4>1. holder = q
        BY <3>2 DEF UnderLock, Excludes, AllPlaced, Placed, Awaits
      <4>2. holder = r
        BY <1>2, <2>2 DEF Excludes, Awaits
      <4> QED BY <3>2, <2>2, <4>1, <4>2
    <3>3. home[r] \in Master
      BY StoreAssumption DEF TypeOK, StoreTypeOK
    <3> QED BY <1>2, <3>1, <3>2, <3>3 DEF NoneAhead, Base
  <2> QED BY <1>3, <2>1, <2>2
<1>8. \/ /\ asks[r].what = "events" /\ pc'[r] = "persist"
         /\ loaded'[r] = Base /\ Grown(Base, working'[r])
      \/ asks[r].what # "events" /\ pc'[r] \in {"release", "done"}
  BY <1>3, <1>4, <1>7, ProceedResult DEF Awaits
<1>9. Excludes(r)' /\ BuildsOnSnapshot(r)'
  BY <1>2, <1>3, <1>8 DEF Excludes, BuildsOnSnapshot, Awaits, Base, Grown
<1> QED BY <1>1, <1>3, <1>5, <1>6, <1>9, UnderLockMoves

LEMMA UnderLockPersist ==
  ASSUME TypeOK, AllPlaced, UnderLock, Sole, "open" \notin spoilt', NEW r \in Request, Persist(r) \/ Insert(r)
  PROVE  UnderLock'
<1>1. \A q \in Request \ {r} : Same(q)
  BY OthersSame DEF Handler
<1>2. Excludes(r) /\ BuildsOnSnapshot(r) /\ NoneAhead
  BY DEF UnderLock
<1>3. /\ UNCHANGED <<snapshot, asks, answer, holder, working, loaded>> /\ pc[r] \in {"persist", "insert"}
      /\ pc'[r] = (IF pc[r] = "persist" THEN "insert" ELSE "cache")
      /\ pc[r] = "persist" => UNCHANGED memory
  BY DEF Persist, Insert, Sole, TypeOK
<1>4. Readable(working[r])
  <2>1. CASE Persist(r)
    BY <2>1 DEF Persist, Sole, Spoils, Readable
  <2>2. CASE Insert(r)
    BY <1>2, <2>2 DEF Insert, BuildsOnSnapshot, AllPlaced, Placed
  <2> QED BY <2>1, <2>2
<1>5. Excludes(r)' /\ BuildsOnSnapshot(r)'
  BY <1>2, <1>3, <1>4 DEF Excludes, BuildsOnSnapshot, Awaits, Base, Grown, Readable
<1>6. ~Acked(r)'
  BY <1>3 DEF AllPlaced, Placed, Acked
<1>7. NoneAhead'
  <2>1. CASE pc[r] = "insert"
    BY <1>3, <2>1 DEF NoneAhead
  <2>2. CASE pc[r] = "persist"
    <3>1. \A q \in Request : pc[q] = "cache" => pc'[q] = "cache"
      BY <1>1, <2>2 DEF Same
    <3> QED BY <1>2, <1>3, <2>2, <3>1 DEF NoneAhead
  <2> QED BY <1>3, <2>1, <2>2
<1> QED BY <1>1, <1>3, <1>5, <1>6, <1>7, UnderLockMoves

(* The edits that s kept, what has grown from it keeps.                     *)
LEMMA KeepsGrown ==
  ASSUME AllPlaced, NEW R, R \subseteq Request, NEW s \in SessionOrNone, NEW t \in Session,
         Keeps(s, R), s # NoSession => Grown(s, t)
  PROVE  Keeps(t, R)
<1> SUFFICES ASSUME NEW r \in R, Acked(r), working[r].model # NoModel
             PROVE  t # NoSession /\ t.model # NoModel /\ IsPrefix(working[r].model.edits, t.model.edits)
  BY DEF Keeps
<1>1. r \in Request /\ working[r] \in Session
  BY DEF AllPlaced, Placed
<1>2. s # NoSession /\ s.model # NoModel /\ IsPrefix(working[r].model.edits, s.model.edits)
  BY DEF Keeps
<1>3. s \in Session /\ Grown(s, t)
  BY <1>2 DEF SessionOrNone
<1>4. t.model # NoModel /\ IsPrefix(s.model.edits, t.model.edits)
  BY <1>2, <1>3 DEF Grown
<1>5. working[r].model.edits \in Seq(Request) /\ s.model.edits \in Seq(Request) /\ t.model.edits \in Seq(Request)
  BY <1>1, <1>2, <1>3, <1>4, SessionParts
<1>6. IsPrefix(working[r].model.edits, t.model.edits)
  BY <1>2, <1>4, <1>5, PrefixTransitive
<1> QED BY <1>4, <1>6, SessionParts

LEMMA UnderLockCache ==
  ASSUME TypeOK, AllPlaced, UnderLock, faults' = 0, NEW r \in Request, Cache(r)
  PROVE  UnderLock'
<1>1. \A q \in Request \ {r} : Same(q)
  BY OthersSame DEF Handler
<1>2. Excludes(r) /\ BuildsOnSnapshot(r)
  BY DEF UnderLock
<1>3. /\ snapshot' = working[r] /\ pc[r] = "cache" /\ pc'[r] = "release"
      /\ UNCHANGED <<asks, working, loaded, holder, memory>>
  BY NoFault DEF Cache, TypeOK
<1>4. asks[r].what = "events" /\ working[r] \in Session /\ holder = r
  BY <1>2, <1>3 DEF AllPlaced, Placed, Excludes, Awaits
<1>5. working[r] # NoSession /\ Readable(working[r]) /\ Grown(Base, working[r])
  BY <1>2, <1>3, <1>4, SessionParts DEF BuildsOnSnapshot
<1>6. ASSUME NEW q \in Request PROVE (Excludes(q) /\ BuildsOnSnapshot(q))'
  <2>1. CASE q = r
    BY <1>3, <1>4, <2>1 DEF Excludes, BuildsOnSnapshot
  <2>2. CASE q # r
    <3>1. Excludes(q) /\ BuildsOnSnapshot(q) /\ Same(q)
      BY <1>1, <2>2 DEF UnderLock
    <3>2. ~(pc[q] \in Awaits /\ asks[q].what = "events")
      BY <1>4, <2>2, <3>1 DEF Excludes
    <3> QED BY <1>3, <1>5, <3>1, <3>2 DEF Excludes, BuildsOnSnapshot, Same, Awaits
  <2> QED BY <2>1, <2>2
<1>7. SnapshotReadable' /\ NoneAhead'
  BY <1>3, <1>5 DEF SnapshotReadable, NoneAhead, Readable
<1>8. Keeps(snapshot, Request)'
  <2>1. Keeps(working[r], Request)
    <3>1. snapshot # NoSession => Grown(snapshot, working[r])
      BY <1>5 DEF Base
    <3>2. snapshot \in SessionOrNone /\ Keeps(snapshot, Request)
      BY DEF TypeOK, UnderLock
    <3> QED BY <1>4, <3>1, <3>2, KeepsGrown
  <2>2. working[r].model # NoModel => IsPrefix(working[r].model.edits, working[r].model.edits)
    BY <1>4, SessionParts, PrefixOfItself
  <2>3. \A q \in Request \ {r} : Acked(q)' => Acked(q)
    BY <1>1 DEF Same, Acked
  <2> QED BY <1>3, <1>5, <2>1, <2>2, <2>3 DEF Keeps
<1> QED BY <1>6, <1>7, <1>8 DEF UnderLock

LEMMA UnderLockRelease ==
  ASSUME TypeOK, AllPlaced, UnderLock, NEW r \in Request, Release(r)
  PROVE  UnderLock'
<1>1. \A q \in Request \ {r} : Same(q)
  BY OthersSame DEF Handler
<1>2. /\ UNCHANGED <<snapshot, memory, asks, working>> /\ pc[r] = "release" /\ pc'[r] = "done"
      /\ holder' = holder \/ holder = r
      /\ answer' = answer \/ answer' = [answer EXCEPT ![r] = "error"]
  BY DEF Release, TypeOK
<1>3. Acked(r)' => Acked(r) /\ working'[r] = working[r]
  BY <1>2 DEF Acked, TypeOK
<1>4. Excludes(r)' /\ BuildsOnSnapshot(r)'
  BY <1>2 DEF Excludes, BuildsOnSnapshot, Awaits
<1>5. NoneAhead'
  <2>1. \A q \in Request : pc[q] = "cache" => pc'[q] = "cache"
    BY <1>1, <1>2 DEF Same
  <2> QED BY <1>2, <2>1 DEF UnderLock, NoneAhead
<1> QED BY <1>1, <1>2, <1>3, <1>4, <1>5, UnderLockMoves

(* Nothing of the sessions changes.                                         *)
LEMMA UnderLockStays ==
  ASSUME UnderLock, UNCHANGED sessionVars
  PROVE  UnderLock'
BY DEF UnderLock, sessionVars, Excludes, BuildsOnSnapshot, Base, Grown, Readable, SnapshotReadable, NoneAhead,
       Keeps, Acked

(* What is only counted up, or set for good.                                *)
LEMMA NextOnward ==
  ASSUME TypeOK, [Next]_vars
  PROVE  /\ UNCHANGED <<config, home>>
         /\ UNCHANGED faults \/ Fault
         /\ UNCHANGED lapsed \/ Fault
         /\ spoilt \subseteq spoilt'
<1>1. ASSUME NEW r \in Request, Handler(r) \/ Drop(r)
      PROVE  /\ UNCHANGED <<config, home, lapsed>>
             /\ UNCHANGED faults \/ Fault
             /\ spoilt \subseteq spoilt'
  BY <1>1 DEF Handler, StartEvents, StartSolve, StartGet, Locked, EditInMemory, SubmitDirectly, Direct, SolveStored,
         sessionVars, ReadRow, ReadSnapshot, Remember, UseMemory, Reads, OrFails, Persist, Insert, Cache, Release, Drop
<1>2. CASE Store
  BY <1>2 DEF Store, StoreStep, Check, SetNx, Reload, StoreLocally, Hydrate, OrFails, sessionVars
<1>3. CASE Lapse \/ (\E n \in Node : Restart(n))
  BY <1>3 DEF Lapse, Restart
<1>4. CASE (\E k \in Key : ExpireModel(k)) /\ UNCHANGED sessionVars
  BY <1>4 DEF ExpireModel, sessionVars
<1> QED BY <1>1, <1>2, <1>3, <1>4 DEF Next, vars, sessionVars

LEMMA SnapshotStep ==
  ASSUME TypeOK, AllPlaced, SnapshotLeads, [Next]_vars
  PROVE  SnapshotLeads'
<1> SUFFICES ASSUME Sole' PROVE UnderLock'
  BY DEF SnapshotLeads
<1>1. faults' = 0 /\ "open" \notin spoilt' /\ ~Fault
  BY NextOnward, NoFault DEF Sole
<1>2. Sole /\ UnderLock
  BY <1>1, NextOnward DEF Sole, SnapshotLeads
<1>3. ASSUME NEW r \in Request, Handler(r) PROVE UnderLock'
  <2>1. ~EditInMemory(r)
    BY <1>2 DEF EditInMemory, InMemoryOnly, Sole
  <2> QED BY <1>1, <1>2, <1>3, <2>1, UnderLockStart, UnderLockRead, UnderLockProceed, UnderLockPersist, UnderLockCache,
           UnderLockRelease, UnderLockStays DEF Handler, SubmitDirectly
<1>4. CASE Store \/ UNCHANGED vars
  BY <1>2, <1>4, UnderLockStays DEF Store, vars
<1>5. ~Lapse /\ (\A r \in Request : ~Drop(r)) /\ (\A n \in Node : ~Restart(n)) /\ (\A k \in Key : ~ExpireModel(k))
  BY <1>1 DEF Lapse, Drop, Restart, ExpireModel
<1> QED BY <1>3, <1>4, <1>5 DEF Next

LEMMA SnapshotStart == Init => SnapshotLeads
<1> SUFFICES ASSUME Init, Sole PROVE UnderLock
  BY DEF SnapshotLeads
<1>1. \A r \in Request : pc[r] = "idle" /\ ~Acked(r)
  BY DEF Init, Acked
<1>2. \A r \in Request : Excludes(r) /\ BuildsOnSnapshot(r)
  BY <1>1 DEF Excludes, BuildsOnSnapshot, Awaits
<1>3. Keeps(snapshot, Request)
  BY <1>1 DEF Keeps
<1>4. SnapshotReadable /\ NoneAhead
  BY DEF Init, Sole, SnapshotReadable, Readable, Established, NoneAhead
<1> QED BY <1>2, <1>3, <1>4 DEF UnderLock

-----------------------------------------------------------------------------
(* Alone on one master, in memory only.                                     *)

Alone == InMemoryOnly /\ ~config.redis /\ faults = 0

InMemory(r) ==
  /\ pc[r] \in {"idle", "memory", "release", "done"}
  /\ pc[r] = "memory" => asks[r].what # "events"

OneMemory ==
  /\ \A r \in Request : InMemory(r)
  /\ \A m \in Master : Keeps(memory[m], {r \in Request : home[r] = m})

MemoryLeads == Alone => OneMemory

(* A step that leaves the memories alone and answers no POST.               *)
LEMMA OneMemoryMoves ==
  ASSUME OneMemory, UNCHANGED <<home, memory>>,
         \A q \in Request : InMemory(q)',
         \A q \in Request : Acked(q)' => Acked(q) /\ working'[q] = working[q]
  PROVE  OneMemory'
BY DEF OneMemory, Keeps

(* An edit under the mutex of the sessions.                                 *)
LEMMA OneMemoryEdit ==
  ASSUME TypeOK, AllPlaced, OneMemory, Alone, NEW r \in Request, EditInMemory(r)
  PROVE  OneMemory'
<1> DEFINE m == home[r]
           R == {q \in Request : home[q] = m}
<1>1. \A q \in Request \ {r} : Same(q)
  BY OthersSame DEF Handler
<1>2. /\ m \in Master /\ UNCHANGED home
      /\ memory[m] \in SessionOrNone
      /\ \A n \in Master : memory'[n] = IF n = m THEN working'[r] ELSE memory[n]
  BY EditResult, StoreAssumption DEF EditInMemory, TypeOK, StoreTypeOK
<1>3. /\ working'[r] \in Session /\ pc'[r] = "release"
      /\ memory[m] # NoSession => Grown(memory[m], working'[r])
  BY EditResult DEF Alone
<1>4. Keeps(memory[m], R)
  BY <1>2 DEF OneMemory
<1> HIDE DEF m, R
<1>5. Keeps(working'[r], R)
  BY <1>2, <1>3, <1>4, KeepsGrown DEF R
<1>6. working'[r].model # NoModel => IsPrefix(working'[r].model.edits, working'[r].model.edits)
  BY <1>3, SessionParts, PrefixOfItself
<1>7. \A q \in Request \ {r} : (Acked(q)' <=> Acked(q)) /\ working'[q] = working[q]
  BY <1>1 DEF Same, Acked
<1>8. ASSUME NEW n \in Master PROVE Keeps(memory[n], {q \in Request : home[q] = n})'
  <2>1. CASE n = m
    <3>1. working'[r] # NoSession
      BY <1>3, SessionParts
    <3> QED BY <1>2, <1>5, <1>6, <1>7, <2>1, <3>1 DEF Keeps, R
  <2>2. CASE n # m
    <3>1. Keeps(memory[n], {q \in Request : home[q] = n}) /\ home[r] # n
      BY <2>2 DEF OneMemory, m
    <3> QED BY <1>2, <1>7, <2>2, <3>1 DEF Keeps
  <2> QED BY <2>1, <2>2
<1>9. \A q \in Request : InMemory(q)'
  BY <1>1, <1>3 DEF OneMemory, InMemory, Same
<1> QED BY <1>8, <1>9 DEF OneMemory

LEMMA MemoryStep ==
  ASSUME TypeOK, AllPlaced, MemoryLeads, [Next]_vars
  PROVE  MemoryLeads'
<1> SUFFICES ASSUME Alone' PROVE OneMemory'
  BY DEF MemoryLeads
<1>1. faults' = 0 /\ ~Fault
  BY NextOnward, NoFault DEF Alone
<1>2. Alone /\ OneMemory /\ UNCHANGED home
  BY <1>1, NextOnward DEF Alone, InMemoryOnly, MemoryLeads
<1>3. ASSUME NEW r \in Request, Handler(r) PROVE OneMemory'
  <2>1. \A q \in Request \ {r} : Same(q)
    BY <1>3, OthersSame
  <2>2. CASE EditInMemory(r)
    BY <1>2, <2>2, OneMemoryEdit
  <2>3. CASE StartEvents(r) \/ StartSolve(r) \/ StartGet(r)
    <3>1. /\ UNCHANGED <<memory, answer, working>> /\ pc[r] = "idle" /\ pc'[r] = "memory"
          /\ asks'[r].what # "events"
      BY <1>2, <2>3 DEF StartEvents, StartSolve, StartGet, Locked, Ask, FirstRead, AfterPg, TypeOK, Alone, InMemoryOnly
    <3>2. ~Acked(r)'
      BY <3>1 DEF AllPlaced, Placed, Acked
    <3> QED BY <1>2, <2>1, <3>1, <3>2, OneMemoryMoves DEF OneMemory, InMemory, Same, Acked
  <2>4. CASE UseMemory(r)
    <3>1. /\ pc[r] = "memory" /\ asks[r].what # "events"
          /\ UNCHANGED <<memory, asks, answer>>
      BY <1>2, <2>4 DEF UseMemory, Reads, OneMemory, InMemory
    <3>2. pc'[r] \in {"release", "done"} /\ UNCHANGED working
      BY <2>4, <3>1 DEF UseMemory, Proceed, TypeOK
    <3> QED BY <1>2, <2>1, <3>1, <3>2, OneMemoryMoves DEF OneMemory, InMemory, Same, Acked
  <2>5. CASE Release(r)
    <3>1. /\ pc'[r] = "done" /\ UNCHANGED <<memory, asks, working>>
          /\ answer' = answer \/ answer' = [answer EXCEPT ![r] = "error"]
      BY <2>5 DEF Release, TypeOK
    <3>2. Acked(r)' => Acked(r)
      BY <3>1 DEF Acked, TypeOK
    <3> QED BY <1>2, <2>1, <3>1, <3>2, OneMemoryMoves DEF OneMemory, InMemory, Same, Acked
  <2>6. CASE SubmitDirectly(r)
    BY <1>2, <2>6, OneMemoryMoves DEF SubmitDirectly, sessionVars, OneMemory, InMemory, Acked
  <2>7. pc[r] \in {"idle", "memory", "release", "done"}
    BY <1>2 DEF OneMemory, InMemory
  <2> QED BY <1>3, <2>2, <2>3, <2>4, <2>5, <2>6, <2>7 DEF Handler, ReadRow, ReadSnapshot, Remember, Persist, Insert, Cache
<1>4. CASE Store \/ UNCHANGED vars
  BY <1>2, <1>4, OneMemoryMoves DEF Store, vars, sessionVars, OneMemory, InMemory, Acked
<1>5. ~Lapse /\ (\A r \in Request : ~Drop(r)) /\ (\A n \in Node : ~Restart(n)) /\ (\A k \in Key : ~ExpireModel(k))
  BY <1>1 DEF Lapse, Drop, Restart, ExpireModel
<1> QED BY <1>3, <1>4, <1>5 DEF Next

LEMMA MemoryStart == Init => MemoryLeads
<1> SUFFICES ASSUME Init PROVE OneMemory
  BY DEF MemoryLeads
<1>1. \A r \in Request : pc[r] = "idle" /\ ~Acked(r)
  BY DEF Init, Acked
<1> QED BY <1>1 DEF OneMemory, InMemory, Keeps

-----------------------------------------------------------------------------
(* What a handler is about to write is what its commands make of the session  *)
(* it loaded: nothing else gets in between.                                  *)
Prepared(r) == pc[r] = "persist" => working[r] = RunAll(loaded[r], asks[r].batch, r)

AllPrepared == \A r \in Request : Prepared(r)

LEMMA PreparedByProceed ==
  ASSUME TypeOK, AllPlaced, NEW r \in Request, Remember(r) \/ UseMemory(r)
  PROVE  Prepared(r)'
<1>1. PICK s \in SessionOrNone : Proceed(r, s)
  BY ProceedsFrom
<1>2. UNCHANGED asks /\ pc[r] \in Awaits
  BY DEF Remember, UseMemory, Reads, Awaits
<1> SUFFICES ASSUME pc'[r] = "persist" PROVE working'[r] = RunAll(loaded'[r], asks'[r].batch, r)
  BY DEF Prepared
<1>3. asks[r].what = "events"
  BY <1>1 DEF Proceed, TypeOK
<1> DEFINE given == IF s = NoSession THEN NewSession ELSE s
<1>4. loaded'[r] = given /\ working'[r] = RunAll(given, asks[r].batch, r)
  BY <1>1, <1>3 DEF Proceed, TypeOK
<1> QED BY <1>2, <1>4

LEMMA PreparedStep ==
  ASSUME TypeOK, AllPlaced, AllPrepared, [Next]_vars
  PROVE  AllPrepared'
<1>1. ASSUME NEW r \in Request, Handler(r) \/ Drop(r) PROVE AllPrepared'
  <2>1. \A q \in Request \ {r} : Prepared(q)'
    BY <1>1, OthersSame DEF AllPrepared, Prepared, Same
  <2>2. ASSUME Remember(r) \/ UseMemory(r) PROVE Prepared(r)'
    BY <2>2, PreparedByProceed
  <2>3. ASSUME SubmitDirectly(r) PROVE Prepared(r)'
    BY <2>3 DEF SubmitDirectly, sessionVars, AllPrepared, Prepared
  <2>4. ASSUME ~(Remember(r) \/ UseMemory(r) \/ SubmitDirectly(r)) PROVE Prepared(r)'
    <3>1. pc'[r] # "persist"
      BY <1>1, <2>4 DEF Handler, StartEvents, StartSolve, StartGet, Locked, FirstRead, AfterPg, EditInMemory,
           ReadRow, ReadSnapshot, Found, Persist, Insert, Cache, Release, Drop, TypeOK
    <3> QED BY <3>1 DEF Prepared
  <2> QED BY <2>1, <2>2, <2>3, <2>4 DEF AllPrepared
<1>2. CASE Store \/ Lapse \/ UNCHANGED vars \/ ((\E k \in Key : ExpireModel(k)) /\ UNCHANGED sessionVars)
  BY <1>2 DEF Store, Lapse, vars, sessionVars, AllPrepared, Prepared
<1>3. ASSUME NEW n \in Node, Restart(n) PROVE AllPrepared'
  BY <1>3 DEF Restart, AllPrepared, Prepared, Awaits
<1> QED BY <1>1, <1>2, <1>3 DEF Next

LEMMA PreparedStart == Init => AllPrepared
BY DEF Init, AllPrepared, Prepared

(* What a matching upsert was made from is what the row holds: a revision     *)
(* tells.                                                                    *)
LEMMA BuiltFromRow ==
  ASSUME TypeOK, AllPlaced, RowLeads, Watched, NEW r \in Request, pc[r] = "persist", UpsertMatches(r)
  PROVE  loaded[r] = IF row = NoSession THEN NewSession ELSE row
<1>1. loaded[r] \in Session /\ AllBehind /\ OneModelEach
  BY DEF AllPlaced, Placed, RowLeads
<1>2. loaded[r] # NewSession => loaded[r] \in Observed
  BY <1>1 DEF Observed, Holds, Carries
<1>3. CASE row = NoSession
  BY <1>1, <1>2, <1>3, SessionParts DEF AllBehind, Behind
<1>4. CASE row # NoSession
  <2>1. row \in Session /\ row \in Observed /\ row.revision = loaded[r].revision
    BY <1>4 DEF TypeOK, SessionOrNone, Observed, UpsertMatches
  <2>2. row.model = loaded[r].model
    <3>1. CASE loaded[r] = NewSession
      <4>1. row.revision = 0 /\ loaded[r].model = NoModel
        BY <2>1, <3>1 DEF NewSession
      <4> QED BY <1>1, <2>1, <4>1 DEF AllBehind, Counted
    <3>2. CASE loaded[r] # NewSession
      BY <1>1, <1>2, <2>1, <3>2 DEF OneModelEach
    <3> QED BY <3>1, <3>2
  <2>3. row = [revision |-> row.revision, model |-> row.model]
        /\ loaded[r] = [revision |-> loaded[r].revision, model |-> loaded[r].model]
    BY <1>1, <2>1, SessionParts
  <2>4. loaded[r] = row
    BY <2>1, <2>2, <2>3
  <2> QED BY <1>4, <2>4
<1> QED BY <1>3, <1>4

(* Only the upsert changes the row.                                         *)
LEMMA RowByUpsert ==
  ASSUME [Next]_vars, config.pg, row' # row
  PROVE  \E r \in Request : pc[r] = "persist" /\ UpsertMatches(r) /\ row' = working[r]
<1>1. PICK r \in Request : Persist(r)
  BY DEF Next, vars, sessionVars, Handler, StartEvents, StartSolve, StartGet, Locked, EditInMemory, SubmitDirectly,
     ReadRow, ReadSnapshot, Remember, UseMemory, Reads, Insert, Cache, Release, Drop, Store, Lapse, Restart
<1> QED BY <1>1 DEF Persist, Upserted

-----------------------------------------------------------------------------
(* The sessions, all together.                                              *)

SessionInv ==
  /\ TypeOK /\ StoreInv /\ Handlers /\ AllPlaced
  /\ RowLeads /\ SnapshotLeads /\ MemoryLeads /\ AllPrepared

LEMMA SessionKept == Spec => []SessionInv
<1>1. Init => SessionInv
  BY TypeStart, StoreStart, RowStart, SnapshotStart, MemoryStart, PreparedStart DEF SessionInv
<1>2. SessionInv /\ [Next]_vars => SessionInv'
  BY TypeStep, NextKeeps, PlacedStep, RowStep, SnapshotStep, MemoryStep, PreparedStep DEF SessionInv
<1> QED BY <1>1, <1>2, PTL DEF Spec

(* An edit answered with 200 stays: in the row, whatever fails, expires or is *)
(* dropped; without Postgres in the snapshot, as long as the lock and every  *)
(* call hold; with neither in its master's memory.  For any number of        *)
(* masters, requests and faults, and POSTs of any number of commands         *)
(* (http_api.rs:774-877, main.rs:4287-4331).                                *)
THEOREM AckedEditsStay == Spec => []NothingAckedIsLost
<1>1. SessionInv => NothingAckedIsLost
  <2> SUFFICES ASSUME SessionInv PROVE NothingAckedIsLost
    OBVIOUS
  <2>1. ASSUME Watched PROVE Keeps(row, Request)
    <3> SUFFICES ASSUME NEW r \in Request, Acked(r), working[r].model # NoModel
                 PROVE  /\ row # NoSession /\ row.model # NoModel
                        /\ IsPrefix(working[r].model.edits, row.model.edits)
      BY DEF Keeps
    <3>1. working[r] \in Session
      BY DEF SessionInv, AllPlaced, Placed
    <3>2. working[r] \in Observed
      BY <3>1 DEF Observed, Holds, Made
    <3>3. Behind(working[r])
      BY <2>1, <3>2 DEF SessionInv, RowLeads, AllBehind
    <3> QED BY <3>1, <3>3, SessionParts DEF Behind
  <2>2. Sole => Keeps(snapshot, Request)
    BY DEF SessionInv, SnapshotLeads, UnderLock
  <2>3. Alone => \A m \in Master : Keeps(memory[m], {r \in Request : home[r] = m})
    BY DEF SessionInv, MemoryLeads, OneMemory
  <2> QED BY <2>1, <2>2, <2>3 DEF NothingAckedIsLost, Watched, Sole, Alone
<1> QED BY <1>1, SessionKept, PTL

(* No snapshot and no memory is ahead of the row, or differs from it under    *)
(* its revision, however late it was written (main.rs:4237-4331).           *)
THEOREM CachesFollow == Spec => []CachesBehindRow
<1>1. SessionInv => CachesBehindRow
  <2> SUFFICES ASSUME SessionInv, Watched
               PROVE  Behind(snapshot) /\ \A m \in Master : Behind(memory[m])
    BY DEF CachesBehindRow, Watched
  <2>1. \A s \in SessionOrNone : s = snapshot \/ (\E m \in Master : s = memory[m]) => s = NoSession \/ s \in Observed
    BY DEF SessionOrNone, Observed
  <2>2. snapshot \in SessionOrNone /\ \A m \in Master : memory[m] \in SessionOrNone
    BY DEF SessionInv, TypeOK
  <2>3. \A s \in Observed : Behind(s)
    BY DEF SessionInv, RowLeads, AllBehind
  <2> QED BY <2>1, <2>2, <2>3 DEF Behind
<1> QED BY <1>1, SessionKept, PTL

(* Two solves of one revision of a session submit one model, so neither is    *)
(* refused by the problem store (http_api.rs:1182-1220, main.rs:4116-4182). *)
THEOREM SolvesNeverClash == Spec => []SolvesAgree
<1>1. SessionInv => SolvesAgree
  BY DEF SessionInv, RowLeads, Watched, Solves, SolvesAgree
<1> QED BY <1>1, SessionKept, PTL

(* The edits of all masters have one order: what a POST writes is its        *)
(* commands applied to what is in the row at that moment, though it read     *)
(* long before, from Postgres, a snapshot or memory, and whoever else writes  *)
(* or fails meanwhile (http_api.rs:774-877, main.rs:4301-4319).             *)
THEOREM EditsInOneOrder == Spec => EditsAreSerial
<1>1. SessionInv /\ [Next]_vars => [RowChanges => WritesOnePost]_vars
  <2> SUFFICES ASSUME SessionInv, [Next]_vars, RowChanges PROVE WritesOnePost
    OBVIOUS
  <2>1. PICK r \in Request : pc[r] = "persist" /\ UpsertMatches(r) /\ row' = working[r]
    BY RowByUpsert DEF RowChanges
  <2>2. Watched
    BY NextOnward DEF Watched, SessionInv, RowChanges
  <2>3. loaded[r] = IF row = NoSession THEN NewSession ELSE row
    BY <2>1, <2>2, BuiltFromRow DEF SessionInv
  <2>4. working[r] = RunAll(loaded[r], asks[r].batch, r)
    BY <2>1 DEF SessionInv, AllPrepared, Prepared
  <2> QED BY <2>1, <2>3, <2>4 DEF WritesOnePost
<1> QED BY <1>1, SessionKept, PTL DEF Spec, EditsAreSerial

-----------------------------------------------------------------------------
(* The lock of the session, seen from outside.                              *)
NoLockNoHolder == ~config.lock => holder = Nobody

LockStep == [Lock!LockNext]_(Lock!lvars)

LEMMA LockAbandons ==
  ASSUME UNCHANGED <<holder, lapsed>>, AtWork' \subseteq AtWork
  PROVE  LockStep
<1> DEFINE C == AtWork \ AtWork'
<1>1. C \in SUBSET Request /\ AtWork' = AtWork \ C
  BY DEF AtWork
<1>2. Lock!Abandon(C)
  BY <1>1 DEF Lock!Abandon
<1> QED BY <1>1, <1>2 DEF LockStep, Lock!LockNext

LEMMA LockEntered ==
  ASSUME TypeOK, NEW r \in Request, StartEvents(r) \/ StartSolve(r)
  PROVE  LockStep
<1>1. /\ pc[r] = "idle" /\ UNCHANGED <<config, lapsed>>
      /\ config.lock => holder = Nobody
      /\ holder' = IF config.lock THEN r ELSE holder
      /\ pc'[r] \in {"pg", "redis", "memory"} /\ asks'[r].what \in {"events", "solve"}
  BY DEF StartEvents, StartSolve, Locked, Ask, FirstRead, AfterPg, TypeOK
<1>2. \A q \in Request \ {r} : Same(q)
  BY OthersSame DEF Handler
<1>3. CASE config.lock
  <2>1. r \notin AtWork
    BY <1>1 DEF AtWork, Awaits
  <2>2. AtWork' = AtWork \cup {r}
    BY <1>1, <1>2, <1>3 DEF AtWork, Awaits, Same
  <2>3. Lock!Enter(r)
    BY <1>1, <1>3, <2>1, <2>2 DEF Lock!Enter
  <2> QED BY <2>3 DEF LockStep, Lock!LockNext
<1>4. CASE ~config.lock
  BY <1>1, <1>4, LockAbandons DEF AtWork
<1> QED BY <1>3, <1>4

LEMMA LockLeft ==
  ASSUME TypeOK, NoLockNoHolder, NEW r \in Request, Release(r)
  PROVE  LockStep
<1>1. /\ pc[r] = "release" /\ pc'[r] = "done" /\ UNCHANGED <<config, lapsed, asks>>
      /\ asks[r].what \in {"events", "solve"}
      /\ holder' = IF holder = r THEN Nobody ELSE holder
  BY DEF Release, TypeOK
<1>2. \A q \in Request \ {r} : Same(q)
  BY OthersSame DEF Handler
<1>3. CASE config.lock
  <2>1. r \in AtWork
    BY <1>1, <1>3 DEF AtWork, Awaits
  <2>2. AtWork' = AtWork \ {r}
    BY <1>1, <1>2, <1>3 DEF AtWork, Awaits, Same
  <2>3. Lock!Leave(r)
    BY <1>1, <2>1, <2>2 DEF Lock!Leave
  <2> QED BY <2>3 DEF LockStep, Lock!LockNext
<1>4. CASE ~config.lock
  BY <1>1, <1>4, LockAbandons, SessionAssumption DEF NoLockNoHolder, AtWork
<1> QED BY <1>3, <1>4

LEMMA LockHandler ==
  ASSUME TypeOK, AllPlaced, NoLockNoHolder, NEW r \in Request, Handler(r) \/ Drop(r)
  PROVE  LockStep
<1>1. CASE StartEvents(r) \/ StartSolve(r)
  BY <1>1, LockEntered
<1>2. CASE Release(r)
  BY <1>2, LockLeft
<1>3. CASE EditInMemory(r)
  BY <1>3, LockAbandons DEF EditInMemory, InMemoryOnly, AtWork
<1>4. ASSUME ~(StartEvents(r) \/ StartSolve(r) \/ Release(r) \/ EditInMemory(r))
      PROVE  LockStep
  <2>1. UNCHANGED <<config, holder, lapsed>>
    BY <1>4 DEF Handler, StartGet, SubmitDirectly, sessionVars, Direct, SolveStored, ReadRow, ReadSnapshot, Remember, UseMemory, Reads,
         Persist, Insert, Cache, Drop
  <2>2. \A q \in Request \ {r} : Same(q)
    BY OthersSame
  <2>3. r \in AtWork' => r \in AtWork
    <3>1. CASE StartGet(r)
      BY <3>1 DEF StartGet, Ask, AtWork, TypeOK
    <3>2. CASE SubmitDirectly(r)
      BY <3>2, <2>1 DEF SubmitDirectly, sessionVars, AtWork
    <3>3. CASE ~StartGet(r) /\ ~SubmitDirectly(r)
      <4>1. UNCHANGED asks /\ pc[r] \in Awaits
        BY <1>4, <3>3 DEF Handler, ReadRow, ReadSnapshot, Remember, UseMemory, Reads, Persist, Insert, Cache, Drop, Awaits
      <4> QED BY <2>1, <4>1 DEF AtWork
    <3> QED BY <3>1, <3>2, <3>3
  <2>4. AtWork' \subseteq AtWork
    BY <2>1, <2>2, <2>3 DEF AtWork, Same
  <2> QED BY <2>1, <2>4, LockAbandons
<1> QED BY <1>1, <1>2, <1>3, <1>4

LEMMA LockNextStep ==
  ASSUME TypeOK, AllPlaced, NoLockNoHolder, [Next]_vars
  PROVE  LockStep /\ NoLockNoHolder'
<1>1. LockStep
  <2>1. ASSUME NEW r \in Request, Handler(r) \/ Drop(r) PROVE LockStep
    BY <2>1, LockHandler
  <2>2. CASE Store \/ UNCHANGED vars \/ ((\E k \in Key : ExpireModel(k)) /\ UNCHANGED sessionVars)
    <3>1. UNCHANGED config
      BY <2>2 DEF Store, StoreStep, Check, Settled, SetNx, Write, Reload, StoreLocally, Hydrate, vars, ExpireModel
    <3> QED BY <2>2, <3>1, LockAbandons DEF Store, vars, sessionVars, AtWork
  <2>3. CASE Lapse
    <3>1. AtWork' = AtWork /\ holder' \in {holder, Nobody} /\ lapsed' = TRUE
      BY <2>3 DEF Lapse, AtWork
    <3>2. Lock!LoseToTTL
      BY <3>1 DEF Lock!LoseToTTL
    <3> QED BY <3>2 DEF LockStep, Lock!LockNext
  <2>4. ASSUME NEW n \in Node, Restart(n) PROVE LockStep
    <3>1. AtWork' \subseteq AtWork
      BY <2>4 DEF Restart, AtWork, Awaits
    <3> QED BY <2>4, <3>1, LockAbandons DEF Restart
  <2> QED BY <2>1, <2>2, <2>3, <2>4 DEF Next
<1>2. UNCHANGED config
  BY NextOnward
<1>3. ~config.lock => holder' \in {holder, Nobody}
  BY DEF Next, Handler, StartEvents, StartSolve, StartGet, Locked, EditInMemory, SubmitDirectly,
     ReadRow, ReadSnapshot, Remember, UseMemory, Reads, Persist, Insert, Cache, Release, Drop, Store, Lapse, Restart, vars, sessionVars
<1> QED BY <1>1, <1>2, <1>3 DEF NoLockNoHolder

(* A session's requests use the coordination lock for what it promises: they *)
(* work under it from the moment they hold it until they give it back, are   *)
(* dropped or die.  With BackendsAreOneLock of ProblemTaskProofs this is why *)
(* the session's model needs no backends (http_api.rs:774-877, 1170-1199).  *)
THEOREM SessionsUseTheLock == Spec => UsesLock
<1>1. SessionInv /\ NoLockNoHolder /\ [Next]_vars => NoLockNoHolder' /\ [Lock!LockNext]_(Lock!lvars)
  BY LockNextStep DEF SessionInv, LockStep
<1>2. Init => NoLockNoHolder /\ Lock!LockFree
  BY DEF Init, NoLockNoHolder, Lock!LockFree, AtWork, Awaits
<1> QED BY <1>1, <1>2, SessionKept, PTL DEF Spec, UsesLock, Lock!LockSpec
=============================================================================
