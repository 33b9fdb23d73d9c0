------------------------- MODULE ProblemTaskProofs -------------------------
(***************************************************************************)
(* The lock and the registry, for any number of requests, masters, backends *)
(* and faults: two inductive invariants, LockInv of the lock alone and      *)
(* TaskInv of the registry on top of it, and the properties that follow.    *)
(***************************************************************************)
EXTENDS ProblemTask, TLAPS

(* A key is held by its client's guard, or by a call nobody heard of.       *)
KeysExplained ==
  \A c \in Client, b \in Backend :
    held[b] = c => \/ <<c, b>> \in unsure
                   \/ \E i \in 1..granted[c] : Backends[i] = b

GuardLength ==
  \A c \in Client :
    /\ stage[c] \in {"idle", "answered", "refused"} => granted[c] = 0
    /\ stage[c] = "holding" => granted[c] = All

LockInv ==
  /\ LockTypeOK
  /\ GuardIntact
  /\ late \subseteq unsure
  /\ KeysExplained
  /\ GuardLength

-----------------------------------------------------------------------------
(* The backends are numbered without repetition.                            *)
LEMMA BackendFacts ==
  /\ All \in Nat
  /\ \A i \in 1..All : Backends[i] \in Backend
  /\ \A i, j \in 1..All : Backends[i] = Backends[j] => i = j
BY LockAssumption DEF All, Backend

LEMMA LockStarts == LockInit => LockInv
BY BackendFacts, LockAssumption
   DEF LockInit, LockInv, LockTypeOK, GuardIntact, KeysExplained, GuardLength, Stage

LEMMA ArriveKeeps ==
  ASSUME LockInv, NEW c \in Client, Arrive(c) PROVE LockInv'
BY DEF LockInv, LockTypeOK, GuardIntact, KeysExplained, GuardLength, Stage, Arrive

LEMMA EnterKeeps ==
  ASSUME LockInv, NEW c \in Client, Enter(c) PROVE LockInv'
BY DEF LockInv, LockTypeOK, GuardIntact, KeysExplained, GuardLength, Stage, Enter

LEMMA BeginReleaseKeeps ==
  ASSUME LockInv, NEW c \in Client, BeginRelease(c) PROVE LockInv'
BY DEF LockInv, LockTypeOK, GuardIntact, KeysExplained, GuardLength, Stage, BeginRelease

LEMMA ReplyKeeps ==
  ASSUME LockInv, NEW c \in Client, Reply(c) PROVE LockInv'
BY DEF LockInv, LockTypeOK, GuardIntact, KeysExplained, GuardLength, Stage, Reply

LEMMA AskedFacts ==
  ASSUME LockInv, NEW c \in Client, Asking(c)
  PROVE  /\ granted[c] \in 0..All /\ granted[c] + 1 \in 1..All
         /\ Asked(c) \in Backend
BY BackendFacts DEF LockInv, LockTypeOK, Asking, Asked

LEMMA GrantKeeps ==
  ASSUME LockInv, NEW c \in Client, Grant(c) PROVE LockInv'
<1>0. Asking(c) BY DEF Grant
<1>1. /\ granted[c] \in 0..All /\ granted[c] + 1 \in 1..All
      /\ Asked(c) \in Backend
  BY <1>0, AskedFacts
<1>2. LockTypeOK'
  BY <1>1 DEF LockInv, LockTypeOK, Grant
<1>3. GuardIntact'
  <2> SUFFICES ASSUME NEW d \in Client, d \notin lapsed, NEW i \in 1..granted'[d]
               PROVE  held'[Backends[i]] = d
    BY DEF GuardIntact, Grant
  <2>1. granted[d] \in 0..All BY DEF LockInv, LockTypeOK
  <2>2. CASE i \in 1..granted[d]
    <3>1. held[Backends[i]] = d BY <2>2 DEF LockInv, GuardIntact
    <3>2. Backends[i] # Asked(c) BY <3>1, LockAssumption DEF Grant
    <3> QED BY <3>1, <3>2 DEF Grant
  <2>3. CASE i \notin 1..granted[d]
    <3>1. d = c /\ i = granted[c] + 1 BY <2>1, <2>3, <1>1 DEF Grant, LockInv, LockTypeOK
    <3> QED BY <3>1, <1>1 DEF Grant, Asked, LockInv, LockTypeOK
  <2> QED BY <2>2, <2>3
<1>4. KeysExplained'
  <2> SUFFICES ASSUME NEW d \in Client, NEW b \in Backend, held'[b] = d
               PROVE  <<d, b>> \in unsure \/ \E i \in 1..granted'[d] : Backends[i] = b
    BY DEF KeysExplained, Grant
  <2>1. granted[d] \in 0..All /\ granted'[d] \in 0..All /\ granted[d] <= granted'[d]
    BY <1>1, <1>2 DEF LockInv, LockTypeOK, Grant
  <2>2. CASE b = Asked(c)
    <3>1. d = c BY <2>2, <1>1 DEF Grant, LockInv, LockTypeOK
    <3>2. granted'[d] = granted[c] + 1 BY <3>1 DEF Grant, LockInv, LockTypeOK
    <3> QED BY <2>2, <3>1, <3>2, <1>1 DEF Asked
  <2>3. CASE b # Asked(c)
    <3>1. held[b] = d BY <2>3, <1>1 DEF Grant, LockInv, LockTypeOK
    <3> QED BY <3>1, <2>1 DEF LockInv, KeysExplained
  <2> QED BY <2>2, <2>3
<1>5. GuardLength'
  BY <1>0, <1>1 DEF LockInv, LockTypeOK, GuardLength, Grant, Asking
<1> QED BY <1>2, <1>3, <1>4, <1>5 DEF LockInv, Grant

LEMMA RefuseKeeps ==
  ASSUME LockInv, NEW c \in Client, Refuse(c) PROVE LockInv'
<1>1. Asked(c) \in Backend BY AskedFacts DEF Refuse
<1>2. unsure \subseteq unsure' /\ UNCHANGED <<held, granted, lapsed>>
  BY DEF Refuse, GiveUpAsking
<1>3. LockTypeOK' /\ (late \subseteq unsure)'
  BY <1>1, LockAssumption DEF LockInv, LockTypeOK, Refuse, GiveUpAsking, Stage, Fault
<1>4. GuardIntact' /\ KeysExplained'
  BY <1>2 DEF LockInv, GuardIntact, KeysExplained
<1>5. GuardLength'
  BY <1>2 DEF LockInv, LockTypeOK, GuardLength, Refuse
<1> QED BY <1>3, <1>4, <1>5 DEF LockInv

LEMMA DropKeeps ==
  ASSUME LockInv, NEW c \in Client, Drop(c) PROVE LockInv'
<1>1. Asking(c) => Asked(c) \in Backend BY AskedFacts
<1>2. unsure \subseteq unsure' /\ UNCHANGED <<held, granted, lapsed>>
  BY DEF Drop
<1>3. LockTypeOK' /\ (late \subseteq unsure)'
  BY <1>1, LockAssumption DEF LockInv, LockTypeOK, Drop, Stage, Fault
<1>4. GuardIntact' /\ KeysExplained'
  BY <1>2 DEF LockInv, GuardIntact, KeysExplained
<1>5. GuardLength'
  BY <1>2 DEF LockInv, LockTypeOK, GuardLength, Drop
<1> QED BY <1>3, <1>4, <1>5 DEF LockInv

LEMMA LateGrantKeeps ==
  ASSUME LockInv, NEW c \in Client, NEW b \in Backend, LateGrant(c, b) PROVE LockInv'
<1>1. <<c, b>> \in unsure BY DEF LateGrant, LockInv
<1>2. LockTypeOK' /\ (late \subseteq unsure)'
  BY DEF LockInv, LockTypeOK, LateGrant
<1>3. GuardIntact'
  BY LockAssumption DEF LockInv, LockTypeOK, GuardIntact, LateGrant
<1>4. KeysExplained'
  BY <1>1 DEF LockInv, LockTypeOK, KeysExplained, LateGrant
<1>5. GuardLength'
  BY DEF LockInv, GuardLength, LateGrant
<1> QED BY <1>2, <1>3, <1>4, <1>5 DEF LockInv

LEMMA ExpireKeeps ==
  ASSUME LockInv, NEW b \in Backend, Expire(b) PROVE LockInv'
<1>1. LockTypeOK' /\ (late \subseteq unsure)'
  BY DEF LockInv, LockTypeOK, Expire
<1>2. GuardIntact'
  BY DEF LockInv, LockTypeOK, GuardIntact, Expire
<1>3. KeysExplained'
  BY LockAssumption DEF LockInv, LockTypeOK, KeysExplained, Expire
<1>4. GuardLength'
  BY DEF LockInv, GuardLength, Expire
<1> QED BY <1>1, <1>2, <1>3, <1>4 DEF LockInv

LEMMA ReleaseOneKeeps ==
  ASSUME LockInv, NEW c \in Client, ReleaseOne(c) PROVE LockInv'
<1> DEFINE b == Backends[granted[c]]
<1>1. granted[c] \in 1..All BY BackendFacts DEF LockInv, LockTypeOK, ReleaseOne
<1>2. b \in Backend BY <1>1, BackendFacts
<1>3. granted' = [granted EXCEPT ![c] = granted[c] - 1] BY DEF ReleaseOne
<1>4. \/ held' = held /\ unsure' = unsure \cup {<<c, b>>}
      \/ held[b] # c /\ held' = held /\ unsure' = unsure
      \/ held[b] = c /\ held' = [held EXCEPT ![b] = Nobody] /\ unsure' = unsure
  BY DEF ReleaseOne, DeleteOwn
<1>5. LockTypeOK' /\ (late \subseteq unsure)'
  <2>1. granted' \in [Client -> 0..All] BY <1>1, <1>3, BackendFacts DEF LockInv, LockTypeOK
  <2>2. faults' \in 0..MaxFaults BY LockAssumption DEF LockInv, LockTypeOK, ReleaseOne, Fault
  <2>3. held' \in [Backend -> Client \cup {Nobody}] BY <1>2, <1>4 DEF LockInv, LockTypeOK
  <2>4. unsure' \subseteq Client \X Backend BY <1>2, <1>4 DEF LockInv, LockTypeOK
  <2> QED BY <1>4, <2>1, <2>2, <2>3, <2>4 DEF LockInv, LockTypeOK, ReleaseOne
<1>6. GuardIntact'
  <2> SUFFICES ASSUME NEW d \in Client, d \notin lapsed, NEW i \in 1..granted'[d]
               PROVE  held'[Backends[i]] = d
    BY DEF GuardIntact, ReleaseOne
  <2>1. granted[d] \in 0..All BY DEF LockInv, LockTypeOK
  <2>2. i \in 1..granted[d] /\ (d = c => i # granted[c])
    BY <1>1, <1>3, <2>1, BackendFacts DEF LockInv, LockTypeOK
  <2>3. held[Backends[i]] = d BY <2>2 DEF LockInv, GuardIntact
  <2>4. d = c => Backends[i] # b BY <1>1, <2>1, <2>2, BackendFacts
  <2>5. Backends[i] \in Backend BY <2>1, <2>2, BackendFacts
  <2> QED BY <1>2, <1>4, <2>3, <2>4, <2>5 DEF LockInv, LockTypeOK
<1>7. KeysExplained'
  <2> SUFFICES ASSUME NEW d \in Client, NEW a \in Backend, held'[a] = d
               PROVE  <<d, a>> \in unsure' \/ \E i \in 1..granted'[d] : Backends[i] = a
    BY DEF KeysExplained
  <2>1. held[a] = d BY <1>2, <1>4, LockAssumption DEF LockInv, LockTypeOK
  <2>2. CASE <<d, a>> \in unsure BY <2>2, <1>4
  <2>3. CASE <<d, a>> \notin unsure
    <3>1. PICK i \in 1..granted[d] : Backends[i] = a BY <2>1, <2>3 DEF LockInv, KeysExplained
    <3>2. CASE d = c /\ i = granted[c]
      <4>1. a = b BY <3>1, <3>2
      <4>2. <<d, a>> \in unsure' \/ (held[b] = c /\ held'[b] = Nobody)
        BY <1>2, <1>4, <2>1, <3>2, <4>1 DEF LockInv, LockTypeOK
      <4> QED BY <4>1, <4>2, <3>2, LockAssumption
    <3>3. CASE ~(d = c /\ i = granted[c])
      <4>1. i \in 1..granted'[d] BY <1>1, <1>3, <3>3, BackendFacts DEF LockInv, LockTypeOK
      <4> QED BY <3>1, <4>1
    <3> QED BY <3>2, <3>3
  <2> QED BY <2>2, <2>3
<1>8. GuardLength'
  BY <1>3 DEF LockInv, LockTypeOK, GuardLength, ReleaseOne
<1> QED BY <1>5, <1>6, <1>7, <1>8 DEF LockInv

LEMMA LockStepKeeps ==
  ASSUME LockInv, NEW c \in Client, LockStep(c) PROVE LockInv'
BY ArriveKeeps, GrantKeeps, RefuseKeeps, ReleaseOneKeeps, ReplyKeeps DEF LockStep

LEMMA LockEnvironmentKeeps == LockInv /\ LockEnvironment => LockInv'
BY ExpireKeeps, LateGrantKeeps DEF LockEnvironment

(* A crash drops handlers and takes no key.                                 *)
LEMMA CrashKeepsLock ==
  ASSUME LockInv, NEW m \in Master, Crash(m) PROVE LockInv'
<1>1. UNCHANGED <<held, granted, late, unsure, lapsed>> BY DEF Crash
<1>2. LockTypeOK'
  BY <1>1, LockAssumption DEF LockInv, LockTypeOK, Crash, Fault, Stage
<1>3. GuardLength' BY <1>1 DEF LockInv, LockTypeOK, GuardLength, Crash
<1>4. GuardIntact' /\ KeysExplained' BY <1>1 DEF LockInv, GuardIntact, KeysExplained
<1> QED BY <1>1, <1>2, <1>3, <1>4 DEF LockInv

LEMMA LockUntouched == LockInv /\ UNCHANGED lockVars => LockInv'
BY DEF LockInv, LockTypeOK, GuardIntact, KeysExplained, GuardLength, lockVars

(* Of two clients whose keys have not expired, one at most has its guard.   *)
LEMMA GuardsExclude ==
  ASSUME LockInv, All > 0, NEW c \in Client, NEW d \in Client,
         c \notin lapsed, d \notin lapsed, granted[c] = All, granted[d] = All
  PROVE  c = d
<1>1. 1 \in 1..All BY BackendFacts
<1>2. held[Backends[1]] = c /\ held[Backends[1]] = d BY <1>1 DEF LockInv, GuardIntact
<1> QED BY <1>2

-----------------------------------------------------------------------------
(* A solve is spawned under the full guard, and outlives its handler only   *)
(* when that is dropped.                                                    *)
SolveUnderLock ==
  \A r \in Client :
    /\ solve[r] \in {"spawned", "running"} =>
         stage[r] \in {"holding", "dropped"} /\ granted[r] = All
    /\ stage[r] \in {"idle", "acquire"} => solve[r] = "none"

EntryFollowsSolve ==
  \A r \in Client :
    /\ solve[r] = "running" => entry[r] \in Unfinished
    /\ entry[r] \in Unfinished => solve[r] \in {"running", "err", "lost"}
    /\ solve[r] \in {"none", "spawned"} => entry[r] = "none"

OneUnfinished ==
  \A r, s \in Client :
    r # s /\ home[r] = home[s] /\ entry[r] \in Unfinished => entry[s] \notin Unfinished

CleanedUp ==
  \A r \in toUnmark : entry[r] = "none" /\ solve[r] \in {"ok", "err", "lost"}

RecordOf(r) == [by |-> r, solve |-> IF solve[r] = "running" THEN r ELSE Nobody, open |-> TRUE]

TaskShown ==
  All > 0 => \A r \in Client :
    solve[r] \in {"spawned", "running"} /\ lapsed \cap Locals(home[r]) = {} =>
      task[home[r]] = RecordOf(r)

TaskInv ==
  /\ LockInv
  /\ TypeOK
  /\ SolveUnderLock
  /\ EntryFollowsSolve
  /\ OneUnfinished
  /\ CleanedUp
  /\ CancelRemembered
  /\ TaskShown

(* What a record shows depends on the solves under way only.                *)
LEMMA TaskShownStable ==
  ASSUME TaskShown, UNCHANGED <<home, task>>, lapsed \subseteq lapsed',
         \A r \in Client : solve'[r] \in {"spawned", "running"} => solve[r] = solve'[r]
  PROVE  TaskShown'
<1> SUFFICES ASSUME All > 0, NEW r \in Client, solve'[r] \in {"spawned", "running"},
                    lapsed' \cap Locals(home[r])' = {}
             PROVE  task'[home'[r]] = RecordOf(r)'
  BY DEF TaskShown
<1>1. Locals(home[r])' = Locals(home[r]) BY DEF Locals
<1>2. task[home[r]] = RecordOf(r) BY <1>1 DEF TaskShown
<1> QED BY <1>2 DEF RecordOf

LEMMA TaskStarts == Init => TaskInv
<1> SUFFICES ASSUME Init PROVE TaskInv
  OBVIOUS
<1>1. LockInv BY LockStarts DEF Init
<1>2. TypeOK
  BY <1>1, TaskAssumption DEF Init, TypeOK, LockInv, SolveState, EntryState, TaskRecord, NoTask
<1>3. SolveUnderLock /\ EntryFollowsSolve /\ OneUnfinished /\ CleanedUp
  BY DEF Init, LockInit, SolveUnderLock, EntryFollowsSolve, OneUnfinished, CleanedUp, Unfinished
<1>4. CancelRemembered /\ TaskShown
  BY DEF Init, CancelRemembered, Running, TaskShown
<1> QED BY <1>1, <1>2, <1>3, <1>4 DEF TaskInv

LEMMA AcquiringKeepsTask ==
  ASSUME TaskInv, NEW r \in Client, Acquiring(r) PROVE TaskInv'
<1>1. LockInv' BY LockStepKeeps DEF TaskInv, Acquiring
<1>2. TypeOK'
  BY <1>1 DEF TaskInv, LockInv, TypeOK, Acquiring, registry
<1>3. SolveUnderLock'
  BY DEF TaskInv, LockInv, LockTypeOK, TypeOK, SolveUnderLock, Acquiring, registry, vars, lockVars, LockStep, Arrive, Grant, Refuse, GiveUpAsking, ReleaseOne, Reply, Asking
<1>4. EntryFollowsSolve'
  BY DEF TaskInv, TypeOK, EntryFollowsSolve, Acquiring, registry, vars, Unfinished, Finished, LockStep, Arrive, Grant, Refuse, GiveUpAsking, ReleaseOne, Reply, Asking
<1>5. OneUnfinished'
  BY DEF TaskInv, TypeOK, OneUnfinished, Acquiring, registry, vars, Unfinished, Finished, Locals, LockStep, Arrive, Grant, Refuse, GiveUpAsking, ReleaseOne, Reply, Asking
<1>6. CleanedUp'
  BY DEF TaskInv, TypeOK, CleanedUp, EntryFollowsSolve, Acquiring, registry, vars, Unfinished, Finished, LockStep, Arrive, Grant, Refuse, GiveUpAsking, ReleaseOne, Reply, Asking
<1>7. CancelRemembered'
  BY DEF TaskInv, TypeOK, CancelRemembered, CleanedUp, Running, Acquiring, registry, vars, Unfinished, Finished, LockStep, Arrive, Grant, Refuse, GiveUpAsking, ReleaseOne, Reply, Asking
<1>8. TaskShown'
  BY DEF TaskInv, TypeOK, TaskShown, RecordOf, Locals, Acquiring, registry, vars, NoTask, SolveUnderLock, LockStep, Arrive, Grant, Refuse, GiveUpAsking, ReleaseOne, Reply, Asking
<1> QED BY <1>1, <1>2, <1>3, <1>4, <1>5, <1>6, <1>7, <1>8 DEF TaskInv

LEMMA StartTaskKeepsTask ==
  ASSUME TaskInv, NEW r \in Client, StartTask(r) PROVE TaskInv'
<1>1. LockInv' BY EnterKeeps DEF TaskInv, StartTask
<1>2. TypeOK'
  BY <1>1, TaskAssumption DEF TaskInv, LockInv, TypeOK, StartTask, SolveState, EntryState, TaskRecord, NoTask, Control, Finished, Unfinished, Enter, OpenRecord
<1>3. SolveUnderLock'
  BY DEF TaskInv, LockInv, LockTypeOK, TypeOK, SolveUnderLock, StartTask, registry, vars, lockVars, Enter, OpenRecord
<1>4. EntryFollowsSolve'
  BY DEF TaskInv, TypeOK, EntryFollowsSolve, SolveUnderLock, StartTask, Enter, Unfinished
<1>5. OneUnfinished'
  BY DEF TaskInv, TypeOK, OneUnfinished, StartTask, registry, vars, Unfinished, Finished, Locals, Enter, OpenRecord
<1>6. CleanedUp'
  BY DEF TaskInv, TypeOK, CleanedUp, SolveUnderLock, StartTask, Enter
<1>7. CancelRemembered'
  BY DEF TaskInv, TypeOK, CancelRemembered, CleanedUp, Running, StartTask, registry, vars, Unfinished, Finished, Enter, OpenRecord
<1>8. TaskShown'
  <2> SUFFICES ASSUME All > 0, NEW s \in Client, solve'[s] \in {"spawned", "running"},
                      lapsed' \cap Locals(home[s])' = {}
               PROVE  task'[home'[s]] = RecordOf(s)'
    BY DEF TaskShown
  <2>1. UNCHANGED <<home, lapsed, granted>> /\ granted[r] = All BY DEF StartTask, Enter
  <2>2. Locals(home[s])' = Locals(home[s]) BY <2>1 DEF Locals
  <2>3. CASE s = r
    BY <2>3 DEF TaskInv, TypeOK, StartTask, OpenRecord, RecordOf
  <2>4. CASE s # r
    <3>1. solve'[s] = solve[s] BY <2>4 DEF StartTask, TaskInv, TypeOK
    <3>2. granted[s] = All BY <3>1 DEF TaskInv, SolveUnderLock
    <3>3. home[s] # home[r]
      BY <2>1, <2>2, <2>4, <3>2, GuardsExclude DEF TaskInv, TypeOK, Locals
    <3>4. task[home[s]] = RecordOf(s) BY <2>1, <2>2, <3>1 DEF TaskInv, TaskShown
    <3> QED BY <2>1, <3>1, <3>3, <3>4 DEF StartTask, RecordOf, TaskInv, TypeOK
  <2> QED BY <2>3, <2>4
<1> QED BY <1>1, <1>2, <1>3, <1>4, <1>5, <1>6, <1>7, <1>8 DEF TaskInv

LEMMA EndTaskKeepsTask ==
  ASSUME TaskInv, NEW r \in Client, EndTask(r) PROVE TaskInv'
<1>1. LockInv' BY BeginReleaseKeeps DEF TaskInv, EndTask
<1>2. TypeOK'
  BY <1>1, TaskAssumption DEF TaskInv, LockInv, TypeOK, EndTask, SolveState, EntryState, TaskRecord, NoTask, Control, Finished, Unfinished, BeginRelease, Closed
<1>3. SolveUnderLock'
  BY DEF TaskInv, LockInv, LockTypeOK, TypeOK, SolveUnderLock, EndTask, registry, vars, lockVars, BeginRelease, Closed
<1>4. EntryFollowsSolve'
  BY DEF TaskInv, TypeOK, EntryFollowsSolve, EndTask, registry, vars, Unfinished, Finished, BeginRelease, Closed
<1>5. OneUnfinished'
  BY DEF TaskInv, TypeOK, OneUnfinished, EndTask, registry, vars, Unfinished, Finished, Locals, BeginRelease, Closed
<1>6. CleanedUp'
  BY DEF TaskInv, TypeOK, CleanedUp, EntryFollowsSolve, EndTask, registry, vars, Unfinished, Finished, BeginRelease, Closed
<1>7. CancelRemembered'
  BY DEF TaskInv, TypeOK, CancelRemembered, CleanedUp, Running, EndTask, registry, vars, Unfinished, Finished, BeginRelease, Closed
<1>8. TaskShown'
  <2> SUFFICES ASSUME All > 0, NEW s \in Client, solve'[s] \in {"spawned", "running"},
                      lapsed' \cap Locals(home[s])' = {}
               PROVE  task'[home'[s]] = RecordOf(s)'
    BY DEF TaskShown
  <2>1. UNCHANGED <<home, lapsed, solve>> /\ granted[r] = All
    BY DEF EndTask, BeginRelease, TaskInv, LockInv, GuardLength
  <2>2. Locals(home[s])' = Locals(home[s]) BY <2>1 DEF Locals
  <2>3. s # r BY <2>1 DEF EndTask
  <2>4. granted[s] = All BY <2>1 DEF TaskInv, SolveUnderLock
  <2>5. home[s] # home[r]
    BY <2>1, <2>2, <2>3, <2>4, GuardsExclude DEF TaskInv, TypeOK, Locals
  <2>6. task[home[s]] = RecordOf(s) BY <2>1, <2>2 DEF TaskInv, TaskShown
  <2> QED BY <2>1, <2>5, <2>6 DEF EndTask, RecordOf, TaskInv, TypeOK
<1> QED BY <1>1, <1>2, <1>3, <1>4, <1>5, <1>6, <1>7, <1>8 DEF TaskInv

LEMMA HangUpKeepsTask ==
  ASSUME TaskInv, NEW r \in Client, HangUp(r) PROVE TaskInv'
<1>1. LockInv' BY DropKeeps DEF TaskInv, HangUp
<1>2. TypeOK'
  BY <1>1 DEF TaskInv, LockInv, TypeOK, HangUp, registry
<1>3. SolveUnderLock'
  BY DEF TaskInv, LockInv, LockTypeOK, TypeOK, SolveUnderLock, HangUp, registry, vars, lockVars, Drop, Asking
<1>4. EntryFollowsSolve'
  BY DEF TaskInv, TypeOK, EntryFollowsSolve, HangUp, registry, vars, Unfinished, Finished, Drop, Asking
<1>5. OneUnfinished'
  BY DEF TaskInv, TypeOK, OneUnfinished, HangUp, registry, vars, Unfinished, Finished, Locals, Drop, Asking
<1>6. CleanedUp'
  BY DEF TaskInv, TypeOK, CleanedUp, EntryFollowsSolve, HangUp, registry, vars, Unfinished, Finished, Drop, Asking
<1>7. CancelRemembered'
  BY DEF TaskInv, TypeOK, CancelRemembered, CleanedUp, Running, HangUp, registry, vars, Unfinished, Finished, Drop, Asking
<1>8. TaskShown'
  BY DEF TaskInv, TypeOK, TaskShown, RecordOf, Locals, HangUp, registry, vars, NoTask, SolveUnderLock, Drop, Asking
<1> QED BY <1>1, <1>2, <1>3, <1>4, <1>5, <1>6, <1>7, <1>8 DEF TaskInv

LEMMA StartSolveKeepsTask ==
  ASSUME TaskInv, NEW r \in Client, StartSolve(r) PROVE TaskInv'
<1>1. LockInv' BY LockUntouched DEF TaskInv, StartSolve
<1>2. TypeOK'
  <2>1. home' \in [Client -> Master] /\ solve' \in [Client -> SolveState]
    BY DEF TaskInv, TypeOK, StartSolve, SolveState
  <2>2. entry' \in [Client -> EntryState]
    BY DEF TaskInv, TypeOK, StartSolve, EntryState
  <2>3. task' \in [Master -> TaskRecord]
    <3>1. task \in [Master -> TaskRecord] /\ home[r] \in Master
      BY DEF TaskInv, TypeOK
    <3>2. [task[home[r]] EXCEPT !.solve = r] \in TaskRecord
      BY <3>1 DEF TaskRecord
    <3> QED
      BY <3>1, <3>2 DEF StartSolve
  <2>4. /\ marked' \subseteq Client /\ toMark' \subseteq Client /\ toUnmark' \subseteq Client
        /\ controls' \in 0..MaxControls
    BY DEF TaskInv, TypeOK, StartSolve
  <2> QED
    BY <1>1, <2>1, <2>2, <2>3, <2>4 DEF LockInv, TypeOK
<1>3. SolveUnderLock'
  BY DEF TaskInv, LockInv, LockTypeOK, TypeOK, SolveUnderLock, StartSolve, registry, vars, lockVars, Busy
<1>4. EntryFollowsSolve'
  BY DEF TaskInv, TypeOK, EntryFollowsSolve, StartSolve, registry, vars, Unfinished, Finished, Busy
<1>5. OneUnfinished'
  BY DEF TaskInv, TypeOK, OneUnfinished, StartSolve, registry, vars, Unfinished, Finished, Locals, Busy
<1>6. CleanedUp'
  BY DEF TaskInv, TypeOK, CleanedUp, EntryFollowsSolve, StartSolve, registry, vars, Unfinished, Finished, Busy
<1>7. CancelRemembered'
  BY DEF TaskInv, TypeOK, CancelRemembered, CleanedUp, Running, StartSolve, registry, vars, Unfinished, Finished, Busy
<1>8. TaskShown'
  <2> SUFFICES ASSUME All > 0, NEW s \in Client, solve'[s] \in {"spawned", "running"},
                      lapsed' \cap Locals(home[s])' = {}
               PROVE  task'[home'[s]] = RecordOf(s)'
    BY DEF TaskShown
  <2>1. UNCHANGED <<home, lapsed, granted>> /\ granted[r] = All
    BY DEF StartSolve, lockVars, TaskInv, SolveUnderLock
  <2>2. Locals(home[s])' = Locals(home[s]) BY <2>1 DEF Locals
  <2>3. CASE s = r
    <3>1. task[home[r]] = RecordOf(r) BY <2>1, <2>2, <2>3 DEF StartSolve, TaskInv, TaskShown
    <3>2. task[home[r]] # NoTask BY <3>1 DEF NoTask, RecordOf
    <3>3. task'[home[r]] = [task[home[r]] EXCEPT !.solve = r]
      BY <3>2 DEF StartSolve, TaskInv, TypeOK
    <3>4. solve'[r] = "running" BY DEF StartSolve, TaskInv, TypeOK
    <3>5. RecordOf(r)' = [by |-> r, solve |-> r, open |-> TRUE] BY <3>4 DEF RecordOf
    <3>6. task[home[r]] = [by |-> r, solve |-> Nobody, open |-> TRUE]
      BY <3>1 DEF RecordOf, StartSolve
    <3>7. task'[home[r]] = [by |-> r, solve |-> r, open |-> TRUE]
      <4> DEFINE old == task[home[r]]
                 new == task'[home[r]]
      <4>1. new = [old EXCEPT !.solve = r] BY <3>3
      <4>2. old = [by |-> r, solve |-> Nobody, open |-> TRUE] BY <3>6
      <4> HIDE DEF old, new
      <4>3. new = [by |-> r, solve |-> r, open |-> TRUE] BY <4>1, <4>2
      <4> QED BY <4>3 DEF new
    <3> QED BY <2>1, <2>3, <3>5, <3>7
  <2>4. CASE s # r
    <3>1. solve'[s] = solve[s] BY <2>4 DEF StartSolve, TaskInv, TypeOK
    <3>2. granted[s] = All BY <3>1 DEF TaskInv, SolveUnderLock
    <3>3. home[s] # home[r]
      BY <2>1, <2>2, <2>4, <3>2, GuardsExclude DEF TaskInv, TypeOK, Locals
    <3>4. task[home[s]] = RecordOf(s) BY <2>1, <2>2, <3>1 DEF TaskInv, TaskShown
    <3> QED BY <2>1, <3>1, <3>3, <3>4 DEF StartSolve, RecordOf, TaskInv, TypeOK
  <2> QED BY <2>3, <2>4
<1> QED BY <1>1, <1>2, <1>3, <1>4, <1>5, <1>6, <1>7, <1>8 DEF TaskInv

LEMMA RefuseSolveKeepsTask ==
  ASSUME TaskInv, NEW r \in Client, RefuseSolve(r) PROVE TaskInv'
<1>1. LockInv' BY LockUntouched DEF TaskInv, RefuseSolve
<1>2. TypeOK'
  BY <1>1, TaskAssumption DEF TaskInv, LockInv, TypeOK, RefuseSolve, SolveState, EntryState, TaskRecord, NoTask, Control, Finished, Unfinished
<1>3. SolveUnderLock'
  BY DEF TaskInv, LockInv, LockTypeOK, TypeOK, SolveUnderLock, RefuseSolve, registry, vars, lockVars
<1>4. EntryFollowsSolve'
  BY DEF TaskInv, TypeOK, EntryFollowsSolve, RefuseSolve, registry, vars, Unfinished, Finished
<1>5. OneUnfinished'
  BY DEF TaskInv, TypeOK, OneUnfinished, RefuseSolve, registry, vars, Unfinished, Finished, Locals
<1>6. CleanedUp'
  BY DEF TaskInv, TypeOK, CleanedUp, EntryFollowsSolve, RefuseSolve, registry, vars, Unfinished, Finished
<1>7. CancelRemembered'
  BY DEF TaskInv, TypeOK, CancelRemembered, CleanedUp, Running, RefuseSolve, registry, vars, Unfinished, Finished
<1>8. TaskShown'
  BY TaskShownStable DEF TaskInv, TypeOK, RefuseSolve, lockVars
<1> QED BY <1>1, <1>2, <1>3, <1>4, <1>5, <1>6, <1>7, <1>8 DEF TaskInv

LEMMA FinishSolveKeepsTask ==
  ASSUME TaskInv, NEW r \in Client, FinishSolve(r) PROVE TaskInv'
<1>1. LockInv' BY LockUntouched DEF TaskInv, FinishSolve
<1>2. TypeOK'
  BY <1>1, TaskAssumption DEF TaskInv, LockInv, TypeOK, FinishSolve, SolveState, EntryState, TaskRecord, NoTask, Control, Finished, Unfinished
<1>3. SolveUnderLock'
  BY DEF TaskInv, LockInv, LockTypeOK, TypeOK, SolveUnderLock, FinishSolve, registry, vars, lockVars
<1>4. EntryFollowsSolve'
  BY DEF TaskInv, TypeOK, EntryFollowsSolve, FinishSolve, registry, vars, Unfinished, Finished
<1>5. OneUnfinished'
  BY DEF TaskInv, TypeOK, OneUnfinished, FinishSolve, registry, vars, Unfinished, Finished, Locals
<1>6. CleanedUp'
  BY DEF TaskInv, TypeOK, CleanedUp, EntryFollowsSolve, FinishSolve, registry, vars, Unfinished, Finished
<1>7. CancelRemembered'
  BY DEF TaskInv, TypeOK, CancelRemembered, CleanedUp, Running, FinishSolve, registry, vars, Unfinished, Finished
<1>8. TaskShown'
  BY TaskShownStable DEF TaskInv, TypeOK, FinishSolve, lockVars
<1> QED BY <1>1, <1>2, <1>3, <1>4, <1>5, <1>6, <1>7, <1>8 DEF TaskInv

LEMMA SeeCancelKeepsTask ==
  ASSUME TaskInv, NEW r \in Client, SeeCancel(r) PROVE TaskInv'
<1>1. LockInv' BY LockUntouched DEF TaskInv, SeeCancel
<1>2. TypeOK'
  BY <1>1, TaskAssumption DEF TaskInv, LockInv, TypeOK, SeeCancel, SolveState, EntryState, TaskRecord, NoTask, Control, Finished, Unfinished
<1>3. SolveUnderLock'
  BY DEF TaskInv, LockInv, LockTypeOK, TypeOK, SolveUnderLock, SeeCancel, registry, vars, lockVars
<1>4. EntryFollowsSolve'
  BY DEF TaskInv, TypeOK, EntryFollowsSolve, SeeCancel, registry, vars, Unfinished, Finished
<1>5. OneUnfinished'
  BY DEF TaskInv, TypeOK, OneUnfinished, SeeCancel, registry, vars, Unfinished, Finished, Locals
<1>6. CleanedUp'
  BY DEF TaskInv, TypeOK, CleanedUp, EntryFollowsSolve, SeeCancel, registry, vars, Unfinished, Finished
<1>7. CancelRemembered'
  BY DEF TaskInv, TypeOK, CancelRemembered, CleanedUp, Running, SeeCancel, registry, vars, Unfinished, Finished
<1>8. TaskShown'
  BY TaskShownStable DEF TaskInv, TypeOK, SeeCancel, lockVars
<1> QED BY <1>1, <1>2, <1>3, <1>4, <1>5, <1>6, <1>7, <1>8 DEF TaskInv

LEMMA FailSolveKeepsTask ==
  ASSUME TaskInv, NEW r \in Client, FailSolve(r) PROVE TaskInv'
<1>1. LockInv' BY LockUntouched DEF TaskInv, FailSolve
<1>2. TypeOK'
  BY <1>1, TaskAssumption DEF TaskInv, LockInv, TypeOK, FailSolve, SolveState, EntryState, TaskRecord, NoTask, Control, Finished, Unfinished
<1>3. SolveUnderLock'
  BY DEF TaskInv, LockInv, LockTypeOK, TypeOK, SolveUnderLock, FailSolve, registry, vars, lockVars
<1>4. EntryFollowsSolve'
  BY DEF TaskInv, TypeOK, EntryFollowsSolve, FailSolve, registry, vars, Unfinished, Finished
<1>5. OneUnfinished'
  BY DEF TaskInv, TypeOK, OneUnfinished, FailSolve, registry, vars, Unfinished, Finished, Locals
<1>6. CleanedUp'
  BY DEF TaskInv, TypeOK, CleanedUp, EntryFollowsSolve, FailSolve, registry, vars, Unfinished, Finished
<1>7. CancelRemembered'
  BY DEF TaskInv, TypeOK, CancelRemembered, CleanedUp, Running, FailSolve, registry, vars, Unfinished, Finished
<1>8. TaskShown'
  BY TaskShownStable DEF TaskInv, TypeOK, FailSolve, lockVars
<1> QED BY <1>1, <1>2, <1>3, <1>4, <1>5, <1>6, <1>7, <1>8 DEF TaskInv

LEMMA PanicSolveKeepsTask ==
  ASSUME TaskInv, NEW r \in Client, PanicSolve(r) PROVE TaskInv'
<1>1. LockInv'
  BY LockAssumption
     DEF TaskInv, LockInv, LockTypeOK, GuardIntact, KeysExplained, GuardLength, Fault, PanicSolve
<1>2. TypeOK'
  BY <1>1, TaskAssumption DEF TaskInv, LockInv, TypeOK, PanicSolve, SolveState, EntryState, TaskRecord, NoTask, Control, Finished, Unfinished
<1>3. SolveUnderLock'
  BY DEF TaskInv, LockInv, LockTypeOK, TypeOK, SolveUnderLock, PanicSolve, registry, vars, lockVars
<1>4. EntryFollowsSolve'
  BY DEF TaskInv, TypeOK, EntryFollowsSolve, PanicSolve, registry, vars, Unfinished, Finished
<1>5. OneUnfinished'
  BY DEF TaskInv, TypeOK, OneUnfinished, PanicSolve, registry, vars, Unfinished, Finished, Locals
<1>6. CleanedUp'
  BY DEF TaskInv, TypeOK, CleanedUp, EntryFollowsSolve, PanicSolve, registry, vars, Unfinished, Finished
<1>7. CancelRemembered'
  BY DEF TaskInv, TypeOK, CancelRemembered, CleanedUp, Running, PanicSolve, registry, vars, Unfinished, Finished
<1>8. TaskShown'
  BY TaskShownStable DEF TaskInv, TypeOK, PanicSolve, lockVars
<1> QED BY <1>1, <1>2, <1>3, <1>4, <1>5, <1>6, <1>7, <1>8 DEF TaskInv

LEMMA RequestCancelKeepsTask ==
  ASSUME TaskInv, NEW r \in Client, RequestCancel(r) PROVE TaskInv'
<1>1. LockInv' BY LockUntouched DEF TaskInv, RequestCancel
<1>2. TypeOK'
  BY <1>1, TaskAssumption DEF TaskInv, LockInv, TypeOK, RequestCancel, SolveState, EntryState, TaskRecord, NoTask, Control, Finished, Unfinished, Cancelling
<1>3. SolveUnderLock'
  BY DEF TaskInv, LockInv, LockTypeOK, TypeOK, SolveUnderLock, RequestCancel, registry, vars, lockVars, Cancelling
<1>4. EntryFollowsSolve'
  BY DEF TaskInv, TypeOK, EntryFollowsSolve, RequestCancel, registry, vars, Unfinished, Finished, Cancelling
<1>5. OneUnfinished'
  BY DEF TaskInv, TypeOK, OneUnfinished, RequestCancel, registry, vars, Unfinished, Finished, Locals, Cancelling
<1>6. CleanedUp'
  BY DEF TaskInv, TypeOK, CleanedUp, EntryFollowsSolve, RequestCancel, registry, vars, Unfinished, Finished, Cancelling
<1>7. CancelRemembered'
  BY DEF TaskInv, TypeOK, CancelRemembered, CleanedUp, Running, RequestCancel, registry, vars, Unfinished, Finished, Cancelling
<1>8. TaskShown'
  BY TaskShownStable DEF TaskInv, TypeOK, RequestCancel, lockVars
<1> QED BY <1>1, <1>2, <1>3, <1>4, <1>5, <1>6, <1>7, <1>8 DEF TaskInv

LEMMA CancelFrameKeepsTask ==
  ASSUME TaskInv, NEW r \in Client, CancelFrame(r) PROVE TaskInv'
<1>1. LockInv' BY LockUntouched DEF TaskInv, CancelFrame
<1>2. TypeOK'
  BY <1>1, TaskAssumption DEF TaskInv, LockInv, TypeOK, CancelFrame, SolveState, EntryState, TaskRecord, NoTask, Control, Finished, Unfinished, Cancelling
<1>3. SolveUnderLock'
  BY DEF TaskInv, LockInv, LockTypeOK, TypeOK, SolveUnderLock, CancelFrame, registry, vars, lockVars, Cancelling
<1>4. EntryFollowsSolve'
  BY DEF TaskInv, TypeOK, EntryFollowsSolve, CancelFrame, registry, vars, Unfinished, Finished, Cancelling
<1>5. OneUnfinished'
  BY DEF TaskInv, TypeOK, OneUnfinished, CancelFrame, registry, vars, Unfinished, Finished, Locals, Cancelling
<1>6. CleanedUp'
  BY DEF TaskInv, TypeOK, CleanedUp, EntryFollowsSolve, CancelFrame, registry, vars, Unfinished, Finished, Cancelling
<1>7. CancelRemembered'
  BY DEF TaskInv, TypeOK, CancelRemembered, CleanedUp, Running, CancelFrame, registry, vars, Unfinished, Finished, Cancelling
<1>8. TaskShown'
  BY TaskShownStable DEF TaskInv, TypeOK, CancelFrame, lockVars
<1> QED BY <1>1, <1>2, <1>3, <1>4, <1>5, <1>6, <1>7, <1>8 DEF TaskInv

LEMMA RecordCancelKeepsTask ==
  ASSUME TaskInv, NEW r \in Client, RecordCancel(r) PROVE TaskInv'
<1>1. LockInv' BY LockUntouched DEF TaskInv, RecordCancel
<1>2. TypeOK'
  BY <1>1, TaskAssumption DEF TaskInv, LockInv, TypeOK, RecordCancel, SolveState, EntryState, TaskRecord, NoTask, Control, Finished, Unfinished
<1>3. SolveUnderLock'
  BY DEF TaskInv, LockInv, LockTypeOK, TypeOK, SolveUnderLock, RecordCancel, registry, vars, lockVars
<1>4. EntryFollowsSolve'
  BY DEF TaskInv, TypeOK, EntryFollowsSolve, RecordCancel, registry, vars, Unfinished, Finished
<1>5. OneUnfinished'
  BY DEF TaskInv, TypeOK, OneUnfinished, RecordCancel, registry, vars, Unfinished, Finished, Locals
<1>6. CleanedUp'
  BY DEF TaskInv, TypeOK, CleanedUp, EntryFollowsSolve, RecordCancel, registry, vars, Unfinished, Finished
<1>7. CancelRemembered'
  BY DEF TaskInv, TypeOK, CancelRemembered, CleanedUp, Running, RecordCancel, registry, vars, Unfinished, Finished
<1>8. TaskShown'
  BY TaskShownStable DEF TaskInv, TypeOK, RecordCancel, lockVars
<1> QED BY <1>1, <1>2, <1>3, <1>4, <1>5, <1>6, <1>7, <1>8 DEF TaskInv

LEMMA CleanUpKeepsTask ==
  ASSUME TaskInv, NEW r \in Client, CleanUp(r) PROVE TaskInv'
<1>1. LockInv' BY LockUntouched DEF TaskInv, CleanUp
<1>2. TypeOK'
  BY <1>1, TaskAssumption DEF TaskInv, LockInv, TypeOK, CleanUp, SolveState, EntryState, TaskRecord, NoTask, Control, Finished, Unfinished
<1>3. SolveUnderLock'
  BY DEF TaskInv, LockInv, LockTypeOK, TypeOK, SolveUnderLock, CleanUp, registry, vars, lockVars
<1>4. EntryFollowsSolve'
  BY DEF TaskInv, TypeOK, EntryFollowsSolve, CleanUp, registry, vars, Unfinished, Finished
<1>5. OneUnfinished'
  BY DEF TaskInv, TypeOK, OneUnfinished, CleanUp, registry, vars, Unfinished, Finished, Locals
<1>6. CleanedUp'
  <2>1. solve[r] \in {"ok", "err", "lost"}
    BY DEF TaskInv, TypeOK, SolveState, EntryFollowsSolve, CleanUp, Unfinished, Finished
  <2> QED BY <2>1 DEF TaskInv, TypeOK, CleanedUp, CleanUp
<1>7. CancelRemembered'
  BY DEF TaskInv, TypeOK, CancelRemembered, CleanedUp, Running, CleanUp, registry, vars, Unfinished, Finished
<1>8. TaskShown'
  BY TaskShownStable DEF TaskInv, TypeOK, CleanUp, lockVars
<1> QED BY <1>1, <1>2, <1>3, <1>4, <1>5, <1>6, <1>7, <1>8 DEF TaskInv

LEMMA UnmarkKeepsTask ==
  ASSUME TaskInv, NEW r \in Client, Unmark(r) PROVE TaskInv'
<1>1. LockInv' BY LockUntouched DEF TaskInv, Unmark
<1>2. TypeOK'
  BY <1>1, TaskAssumption DEF TaskInv, LockInv, TypeOK, Unmark, SolveState, EntryState, TaskRecord, NoTask, Control, Finished, Unfinished
<1>3. SolveUnderLock'
  BY DEF TaskInv, LockInv, LockTypeOK, TypeOK, SolveUnderLock, Unmark, registry, vars, lockVars
<1>4. EntryFollowsSolve'
  BY DEF TaskInv, TypeOK, EntryFollowsSolve, Unmark, registry, vars, Unfinished, Finished
<1>5. OneUnfinished'
  BY DEF TaskInv, TypeOK, OneUnfinished, Unmark, registry, vars, Unfinished, Finished, Locals
<1>6. CleanedUp'
  BY DEF TaskInv, TypeOK, CleanedUp, EntryFollowsSolve, Unmark, registry, vars, Unfinished, Finished
<1>7. CancelRemembered'
  BY DEF TaskInv, TypeOK, CancelRemembered, CleanedUp, Running, Unmark, registry, vars, Unfinished, Finished
<1>8. TaskShown'
  BY TaskShownStable DEF TaskInv, TypeOK, Unmark, lockVars
<1> QED BY <1>1, <1>2, <1>3, <1>4, <1>5, <1>6, <1>7, <1>8 DEF TaskInv

LEMMA PruneTaskKeeps ==
  ASSUME TaskInv, NEW m \in Master, PruneTask(m) PROVE TaskInv'
<1>1. LockInv' BY LockUntouched DEF TaskInv, PruneTask
<1>2. TypeOK'
  BY <1>1 DEF TaskInv, LockInv, TypeOK, PruneTask, TaskRecord, NoTask
<1>3. SolveUnderLock' /\ EntryFollowsSolve' /\ OneUnfinished' /\ CleanedUp' /\ CancelRemembered'
  BY DEF TaskInv, SolveUnderLock, EntryFollowsSolve, OneUnfinished, CleanedUp,
         CancelRemembered, Running, PruneTask, lockVars
<1>4. TaskShown'
  <2> SUFFICES ASSUME All > 0, NEW s \in Client, solve[s] \in {"spawned", "running"},
                      lapsed \cap Locals(home[s]) = {}
               PROVE  task'[home[s]] = RecordOf(s)
    BY DEF TaskShown, PruneTask, lockVars, RecordOf, Locals
  <2>1. task[home[s]] = RecordOf(s) BY DEF TaskInv, TaskShown
  <2>2. home[s] # m BY <2>1 DEF PruneTask, RecordOf
  <2> QED BY <2>1, <2>2 DEF PruneTask, TaskInv, TypeOK
<1> QED BY <1>1, <1>2, <1>3, <1>4 DEF TaskInv

LEMMA CrashKeepsTask ==
  ASSUME TaskInv, NEW m \in Master, Crash(m) PROVE TaskInv'
<1>1. LockInv' BY CrashKeepsLock DEF TaskInv
<1>2. TypeOK'
  BY <1>1 DEF TaskInv, LockInv, TypeOK, Crash, SolveState, EntryState, TaskRecord, NoTask
<1>3. SolveUnderLock'
  BY DEF TaskInv, TypeOK, LockTypeOK, SolveUnderLock, Crash, Locals
<1>4. EntryFollowsSolve'
  BY DEF TaskInv, TypeOK, EntryFollowsSolve, Crash, Locals, Unfinished
<1>5. OneUnfinished'
  BY DEF TaskInv, TypeOK, OneUnfinished, Crash, Locals, Unfinished
<1>6. CleanedUp' /\ CancelRemembered'
  BY DEF TaskInv, TypeOK, CleanedUp, CancelRemembered, Running, Crash, Locals
<1>7. TaskShown'
  <2> SUFFICES ASSUME All > 0, NEW s \in Client, solve'[s] \in {"spawned", "running"},
                      lapsed \cap Locals(home[s]) = {}
               PROVE  task'[home[s]] = RecordOf(s)'
    BY DEF TaskShown, Crash, Locals
  <2>1. home[s] # m /\ solve'[s] = solve[s] BY DEF Crash, Locals
  <2>2. task[home[s]] = RecordOf(s) BY <2>1 DEF TaskInv, TaskShown
  <2> QED BY <2>1, <2>2 DEF Crash, RecordOf, TaskInv, TypeOK
<1> QED BY <1>1, <1>2, <1>3, <1>4, <1>5, <1>6, <1>7 DEF TaskInv

LEMMA EnvironmentKeepsTask == TaskInv /\ Environment => TaskInv'
<1> SUFFICES ASSUME TaskInv, Environment PROVE TaskInv'
  OBVIOUS
<1>1. LockInv' BY LockEnvironmentKeeps DEF TaskInv, Environment
<1>2. UNCHANGED <<stage, granted, registry>> /\ lapsed \subseteq lapsed'
  BY DEF Environment, LockEnvironment, Expire, LateGrant
<1>3. TypeOK'
  BY <1>1, <1>2 DEF TaskInv, LockInv, TypeOK, Environment, registry
<1>4. SolveUnderLock' /\ EntryFollowsSolve' /\ OneUnfinished' /\ CleanedUp' /\ CancelRemembered'
  BY <1>2 DEF TaskInv, SolveUnderLock, EntryFollowsSolve, OneUnfinished, CleanedUp,
         CancelRemembered, Running, registry
<1>5. TaskShown' BY <1>2, TaskShownStable DEF TaskInv, registry
<1> QED BY <1>1, <1>3, <1>4, <1>5 DEF TaskInv

LEMMA NothingMovesTask == TaskInv /\ UNCHANGED vars => TaskInv'
<1> SUFFICES ASSUME TaskInv, UNCHANGED vars PROVE TaskInv'
  OBVIOUS
<1>1. LockInv' BY LockUntouched DEF TaskInv, vars
<1>2. TypeOK'
  BY <1>1 DEF TaskInv, LockInv, TypeOK, vars, registry
<1>3. SolveUnderLock' /\ EntryFollowsSolve' /\ OneUnfinished' /\ CleanedUp' /\ CancelRemembered'
  BY DEF TaskInv, SolveUnderLock, EntryFollowsSolve, OneUnfinished, CleanedUp,
         CancelRemembered, Running, registry, vars, lockVars
<1>4. TaskShown' BY TaskShownStable DEF TaskInv, registry, vars, lockVars
<1> QED BY <1>1, <1>2, <1>3, <1>4 DEF TaskInv

-----------------------------------------------------------------------------
(* The invariant of lock and registry: it holds at the start and every step *)
(* of the handlers, the solves, the controls, the backends and a crash      *)
(* keeps it.                                                                *)
THEOREM TaskInductive == Spec => []TaskInv
<1>1. Init => TaskInv BY TaskStarts
<1>2. TaskInv /\ [Next]_vars => TaskInv'
  <2> SUFFICES ASSUME TaskInv, [Next]_vars PROVE TaskInv'
    OBVIOUS
  <2>1. ASSUME NEW r \in Client, Handler(r) PROVE TaskInv'
    BY <2>1, AcquiringKeepsTask, StartTaskKeepsTask, EndTaskKeepsTask, HangUpKeepsTask DEF Handler
  <2>2. ASSUME NEW r \in Client, SolveStep(r) PROVE TaskInv'
    BY <2>2, StartSolveKeepsTask, RefuseSolveKeepsTask, FinishSolveKeepsTask,
       SeeCancelKeepsTask, FailSolveKeepsTask, PanicSolveKeepsTask DEF SolveStep
  <2>3. ASSUME NEW r \in Client, Controls(r) PROVE TaskInv'
    BY <2>3, RequestCancelKeepsTask, CancelFrameKeepsTask, RecordCancelKeepsTask,
       CleanUpKeepsTask, UnmarkKeepsTask DEF Controls
  <2>4. ASSUME NEW m \in Master, PruneTask(m) \/ Crash(m) PROVE TaskInv'
    BY <2>4, PruneTaskKeeps, CrashKeepsTask
  <2>5. CASE Environment BY <2>5, EnvironmentKeepsTask
  <2>6. CASE UNCHANGED vars BY <2>6, NothingMovesTask
  <2> QED BY <2>1, <2>2, <2>3, <2>4, <2>5, <2>6 DEF Next
<1> QED BY <1>1, <1>2, PTL DEF Spec

(* Type correctness of lock, registry and runtime tasks.                    *)
THEOREM TaskTypes == Spec => []TypeOK
<1>1. TaskInv => TypeOK BY DEF TaskInv
<1> QED BY <1>1, TaskInductive, PTL

(* No release, rollback or late call takes a key from a guard that has not  *)
(* expired.                                                                 *)
THEOREM GuardKept == Spec => []GuardIntact
<1>1. TaskInv => GuardIntact BY DEF TaskInv, LockInv
<1> QED BY <1>1, TaskInductive, PTL

(* An answered or refused request holds no key but by an unanswered call.   *)
THEOREM LeavesNothing == Spec => []NothingLeftBehind
<1>1. TaskInv => NothingLeftBehind
  BY DEF TaskInv, LockInv, KeysExplained, GuardLength, NothingLeftBehind
<1> QED BY <1>1, TaskInductive, PTL

(* Two solves of a problem overlap only after a lock of theirs expired.     *)
THEOREM Exclusion == Spec => []SolvesExclude
<1>1. TaskInv => SolvesExclude
  BY GuardsExclude DEF TaskInv, SolveUnderLock, SolvesExclude, Running
<1> QED BY <1>1, TaskInductive, PTL

(* One master never runs two solves of a problem, expired locks or not.     *)
THEOREM MasterExclusion == Spec => []OnePerMaster
<1>1. TaskInv => OnePerMaster
  BY DEF TaskInv, EntryFollowsSolve, OneUnfinished, OnePerMaster, Running
<1> QED BY <1>1, TaskInductive, PTL

(* A problem is busy only for a solve that runs or that failed.             *)
THEOREM BusyExplained == Spec => []BusyWithReason
<1>1. TaskInv => BusyWithReason BY DEF TaskInv, EntryFollowsSolve, BusyWithReason
<1> QED BY <1>1, TaskInductive, PTL

(* The runtime task shows the solve that runs.                              *)
THEOREM TaskTruthful == Spec => []TaskShowsSolve
<1>1. TaskInv => TaskShowsSolve
  BY DEF TaskInv, TaskShown, TaskShowsSolve, Running, RecordOf
<1> QED BY <1>1, TaskInductive, PTL

(* A running solve that is shown as cancelling will find its cancel.        *)
THEOREM CancelFound == Spec => []CancelRemembered
<1>1. TaskInv => CancelRemembered BY DEF TaskInv
<1> QED BY <1>1, TaskInductive, PTL

-----------------------------------------------------------------------------
(* The lock from outside.                                                   *)

(* A call nobody waits for belongs to a handler that got no full guard and   *)
(* never will.                                                              *)
LateIsLate ==
  \A c \in Client, b \in Backend :
    <<c, b>> \in late => granted[c] < All /\ stage[c] \notin {"idle", "acquire"}

OutsideStep == [Outside!LockNext]_(Outside!lvars)

LEMMA HolderIsWhole ==
  ASSUME NEW c \in Client, Whole(c)
  PROVE  Holder = c
<1>1. Backends[1] \in Backend
  BY BackendFacts DEF Whole
<1> QED BY <1>1 DEF Holder, Whole

LEMMA NobodyIsWhole ==
  ASSUME \A c \in Client : ~Whole(c)
  PROVE  Holder = Nobody
BY DEF Holder

(* Who holds the lock depends on who is whole, and on nothing else.          *)
LEMMA SameHolder ==
  ASSUME \A c \in Client : Whole(c)' <=> Whole(c)
  PROVE  Holder' = Holder
<1>1. CASE \E c \in Client : Whole(c)
  <2>1. PICK c \in Client : Whole(c)
    BY <1>1
  <2>2. Whole(c)'
    BY <2>1
  <2>3. Backends[1] \in Backend
    BY <2>1, BackendFacts DEF Whole
  <2>4. held[Backends[1]] = c /\ held'[Backends[1]] = c
    BY <2>1, <2>2, <2>3 DEF Whole
  <2> QED BY <2>1, <2>2, <2>4 DEF Holder
<1>2. CASE \A c \in Client : ~Whole(c)
  BY <1>2 DEF Holder
<1> QED BY <1>1, <1>2

(* Steps that only end or drop handlers.                                    *)
LEMMA OutsideAbandons ==
  ASSUME Holder' = Holder, AtWork' \subseteq AtWork, UNCHANGED lapsed
  PROVE  OutsideStep
<1> DEFINE C == AtWork \ AtWork'
<1>1. C \in SUBSET Client /\ AtWork' = AtWork \ C
  BY DEF AtWork
<1>2. Outside!Abandon(C)
  BY <1>1 DEF Outside!Abandon
<1> QED BY <1>1, <1>2 DEF OutsideStep, Outside!LockNext

LEMMA OutsideKeeps ==
  ASSUME UNCHANGED <<held, granted, lapsed>>,
         \A c \in Client : stage[c] = "dropped" => stage'[c] = "dropped"
  PROVE  OutsideStep
<1>1. Holder' = Holder
  BY DEF Holder, Whole
<1>2. AtWork' \subseteq AtWork
  BY DEF AtWork
<1> QED BY <1>1, <1>2, OutsideAbandons

LEMMA OutsideGrant ==
  ASSUME LockInv, NEW c \in Client, Grant(c)
  PROVE  OutsideStep
<1>1. Asking(c) /\ held[Asked(c)] = Nobody /\ Asked(c) \in Backend
  BY AskedFacts DEF Grant
<1>2. /\ granted[c] < All /\ All > 0
      /\ granted' = [granted EXCEPT ![c] = granted[c] + 1] /\ UNCHANGED <<stage, lapsed>>
      /\ stage[c] = "acquire" /\ held'[Asked(c)] = c
  BY <1>1, BackendFacts, AskedFacts DEF Grant, Asking, LockInv, LockTypeOK
<1>3. \A d \in Client : ~Whole(d)
  BY <1>1, LockAssumption DEF Whole
<1>4. \A d \in Client : Whole(d)' => d = c
  BY <1>1, <1>2 DEF Whole
<1>5. \A d \in Client : granted'[d] = IF d = c THEN granted[c] + 1 ELSE granted[d]
  BY <1>2 DEF LockInv, LockTypeOK
<1>6. CASE granted[c] + 1 # All
  <2>0. granted'[c] # All
    BY <1>5, <1>6
  <2>1. ~Whole(c)'
    BY <2>0 DEF Whole
  <2>2. Holder' = Holder
    BY <1>3, <1>4, <2>1, SameHolder
  <2>3. AtWork' \subseteq AtWork
    BY <1>2, <1>5, <2>0 DEF AtWork
  <2> QED BY <1>2, <2>2, <2>3, OutsideAbandons
<1>7. CASE granted[c] + 1 = All
  <2>1. granted'[c] = All /\ granted[c] # All
    BY <1>2, <1>5, <1>7, BackendFacts
  <2>2. c \notin AtWork /\ AtWork' = AtWork \cup {c}
    BY <1>2, <1>5, <2>1 DEF AtWork
  <2>3. Holder = Nobody
    BY <1>3, NobodyIsWhole
  <2>4. Holder' = c \/ (lapsed # {} /\ Holder' = Nobody)
    <3>1. CASE Whole(c)'
      <4>1. Backends[1] \in Backend
        BY <1>2, BackendFacts
      <4> QED BY <3>1, <4>1 DEF Holder, Whole
    <3>2. CASE ~Whole(c)'
      <4>1. Holder' = Nobody
        BY <1>4, <3>2 DEF Holder
      <4>2. c \in lapsed
        <5> SUFFICES ASSUME c \notin lapsed PROVE FALSE
          OBVIOUS
        <5>1. GuardIntact' /\ c \notin lapsed'
          BY <1>2, GrantKeeps DEF LockInv
        <5>2. \A i \in 1..All : held'[Backends[i]] = c
          BY <2>1, <5>1 DEF GuardIntact
        <5>3. \A b \in Backend : held'[b] = c
          BY <5>2, LockAssumption DEF Backend, All
        <5> QED BY <1>2, <2>1, <3>2, <5>3 DEF Whole
      <4> QED BY <4>1, <4>2
    <3> QED BY <3>1, <3>2
  <2>5. Outside!Enter(c)
    BY <1>2, <2>2, <2>3, <2>4 DEF Outside!Enter
  <2> QED BY <2>5 DEF OutsideStep, Outside!LockNext
<1> QED BY <1>6, <1>7

LEMMA OutsideRelease ==
  ASSUME LockInv, NEW c \in Client, ReleaseOne(c)
  PROVE  OutsideStep
<1>1. /\ granted[c] > 0 /\ granted[c] \in 0..All
      /\ granted' = [granted EXCEPT ![c] = granted[c] - 1]
      /\ UNCHANGED <<stage, lapsed>> /\ stage[c] # "dropped"
  BY DEF ReleaseOne, LockInv, LockTypeOK
<1>2. \A b \in Backend : held'[b] = held[b] \/ (held[b] = c /\ held'[b] = Nobody)
  BY DEF ReleaseOne, DeleteOwn, LockInv, LockTypeOK
<1>3. \A d \in Client : granted'[d] = IF d = c THEN granted[c] - 1 ELSE granted[d]
  BY <1>1 DEF LockInv, LockTypeOK
<1>4. granted'[c] # All
  BY <1>1, <1>3, BackendFacts
<1>5. \A d \in Client : d # c => (Whole(d)' <=> Whole(d))
  <2> SUFFICES ASSUME NEW d \in Client, d # c
               PROVE  \A b \in Backend : held'[b] = d <=> held[b] = d
    BY <1>3 DEF Whole
  <2> QED BY <1>2, LockAssumption
<1>6. ~Whole(c)'
  BY <1>4 DEF Whole
<1>7. CASE granted[c] = All
  <2>1. All > 0
    BY <1>1, <1>7
  <2>2. c \in AtWork /\ AtWork' = AtWork \ {c}
    BY <1>1, <1>3, <1>4, <1>7, <2>1 DEF AtWork
  <2>3. Holder' = IF Holder = c THEN Nobody ELSE Holder
    <3>1. CASE Whole(c)
      <4>1. Holder = c
        BY <3>1, HolderIsWhole
      <4>2. \A d \in Client : d # c => ~Whole(d)
        <5>1. \A d \in Client : Whole(d) => Holder = d
          BY HolderIsWhole
        <5> QED BY <4>1, <5>1
      <4>3. Holder' = Nobody
        BY <1>5, <1>6, <4>2 DEF Holder
      <4> QED BY <4>1, <4>3
    <3>2. CASE ~Whole(c)
      <4>1. Holder' = Holder
        BY <1>5, <1>6, <3>2, SameHolder
      <4>2. Holder # c
        <5>1. (\E d \in Client : Whole(d)) \/ Holder = Nobody
          BY NobodyIsWhole
        <5>2. \A d \in Client : Whole(d) => Holder = d
          BY HolderIsWhole
        <5> QED BY <3>2, <5>1, <5>2, LockAssumption
      <4> QED BY <4>1, <4>2
    <3> QED BY <3>1, <3>2
  <2>4. Outside!Leave(c)
    BY <1>1, <2>2, <2>3 DEF Outside!Leave
  <2> QED BY <2>4 DEF OutsideStep, Outside!LockNext
<1>8. CASE granted[c] # All
  <2>1. Holder' = Holder
    BY <1>5, <1>6, <1>8, SameHolder DEF Whole
  <2>2. AtWork' \subseteq AtWork
    BY <1>1, <1>3, <1>4 DEF AtWork
  <2> QED BY <1>1, <2>1, <2>2, OutsideAbandons
<1> QED BY <1>7, <1>8

LEMMA OutsideExpire ==
  ASSUME LockInv, NEW b \in Backend, Expire(b)
  PROVE  OutsideStep
<1>1. held'[b] = Nobody /\ UNCHANGED <<stage, granted>> /\ lapsed' # {}
  BY DEF Expire, LockInv, LockTypeOK
<1>2. \A d \in Client : ~Whole(d)'
  BY <1>1, LockAssumption DEF Whole
<1>3. Holder' = Nobody
  BY <1>2 DEF Holder
<1>4. AtWork' = AtWork
  BY <1>1 DEF AtWork
<1>5. Outside!LoseToTTL
  BY <1>1, <1>3, <1>4 DEF Outside!LoseToTTL
<1> QED BY <1>5 DEF OutsideStep, Outside!LockNext

LEMMA OutsideLateGrant ==
  ASSUME LockInv, LateIsLate, NEW c \in Client, NEW b \in Backend, LateGrant(c, b)
  PROVE  OutsideStep
<1>1. granted[c] < All /\ UNCHANGED <<stage, granted, lapsed>>
      /\ held' = IF held[b] = Nobody THEN [held EXCEPT ![b] = c] ELSE held
  BY DEF LateGrant, LateIsLate
<1>2. \A d \in Client : Whole(d)' <=> Whole(d)
  <2>1. CASE held[b] = Nobody
    <3>1. held'[b] = c
      BY <1>1, <2>1 DEF LockInv, LockTypeOK
    <3>2. \A d \in Client : ~Whole(d)
      BY <2>1, LockAssumption DEF Whole
    <3>3. ~Whole(c)'
      BY <1>1 DEF Whole, LockInv, LockTypeOK
    <3> QED BY <3>1, <3>2, <3>3 DEF Whole
  <2>2. CASE held[b] # Nobody
    BY <1>1, <2>2 DEF Whole
  <2> QED BY <2>1, <2>2
<1>3. Holder' = Holder
  BY <1>2, SameHolder
<1>4. AtWork' \subseteq AtWork
  BY <1>1 DEF AtWork
<1> QED BY <1>1, <1>3, <1>4, OutsideAbandons

LEMMA LateIsLateStep ==
  ASSUME TaskInv, LateIsLate, [Next]_vars
  PROVE  LateIsLate'
<1>0. LockTypeOK /\ All \in Nat
  BY BackendFacts DEF TaskInv, LockInv
<1>1. ASSUME UNCHANGED <<late, granted>>, \A c \in Client : stage'[c] \in {"idle", "acquire"} => stage[c] \in {"idle", "acquire"}
      PROVE  LateIsLate'
  BY <1>1 DEF LateIsLate
<1>2. ASSUME NEW c \in Client, Arrive(c) \/ Reply(c) \/ Enter(c) \/ BeginRelease(c)
      PROVE  LateIsLate'
  BY <1>0, <1>1, <1>2 DEF Arrive, Reply, Enter, BeginRelease, LockTypeOK
<1>3. ASSUME NEW c \in Client, Grant(c) PROVE LateIsLate'
  BY <1>0, <1>3 DEF Grant, Asking, LateIsLate, LockTypeOK
<1>4. ASSUME NEW c \in Client, Refuse(c) \/ Drop(c) PROVE LateIsLate'
  <2>1. /\ UNCHANGED granted
        /\ \A d \in Client : stage'[d] \in {stage[d], "rollback", "dropped"}
        /\ late' = late \/ (late' = late \cup {<<c, Asked(c)>>} /\ granted[c] < All)
        /\ stage'[c] \notin {"idle", "acquire"}
    BY <1>0, <1>4 DEF Refuse, Drop, GiveUpAsking, Asking, LockTypeOK
  <2> QED BY <2>1 DEF LateIsLate
<1>5. ASSUME NEW c \in Client, ReleaseOne(c) PROVE LateIsLate'
  BY <1>0, <1>5 DEF ReleaseOne, LateIsLate, LockTypeOK
<1>6. ASSUME Environment PROVE LateIsLate'
  BY <1>6 DEF Environment, LockEnvironment, Expire, LateGrant, LateIsLate
<1>7. ASSUME NEW m \in Master, Crash(m) PROVE LateIsLate'
  BY <1>1, <1>7 DEF Crash
<1>8. ASSUME NEW r \in Client, Handler(r) PROVE LateIsLate'
  BY <1>2, <1>3, <1>4, <1>5, <1>8 DEF Handler, Acquiring, LockStep, StartTask, EndTask, HangUp
<1>9. ASSUME NEW r \in Client, SolveStep(r) \/ Controls(r) PROVE UNCHANGED <<late, granted, stage>>
  BY <1>9 DEF SolveStep, StartSolve, RefuseSolve, FinishSolve, SeeCancel, FailSolve, PanicSolve,
     Controls, RequestCancel, CancelFrame, RecordCancel, CleanUp, Unmark, lockVars
<1>10. ASSUME NEW m \in Master, PruneTask(m) PROVE LateIsLate'
  BY <1>1, <1>10 DEF PruneTask, lockVars
<1>11. CASE UNCHANGED vars
  BY <1>1, <1>11 DEF vars, lockVars
<1> QED BY <1>1, <1>6, <1>7, <1>8, <1>9, <1>10, <1>11 DEF Next

LEMMA OutsideNext ==
  ASSUME TaskInv, LateIsLate, [Next]_vars
  PROVE  OutsideStep
<1>0. LockInv /\ LockTypeOK
  BY DEF TaskInv, LockInv
<1>1. ASSUME NEW c \in Client, Arrive(c) \/ Refuse(c) \/ Reply(c) \/ Drop(c) \/ Enter(c) \/ BeginRelease(c)
      PROVE  OutsideStep
  BY <1>0, <1>1, OutsideKeeps DEF Arrive, Refuse, Reply, Drop, Enter, BeginRelease, Asking, LockTypeOK
<1>2. ASSUME NEW r \in Client, Handler(r) PROVE OutsideStep
  BY <1>0, <1>1, <1>2, OutsideGrant, OutsideRelease DEF Handler, Acquiring, LockStep, StartTask, EndTask, HangUp
<1>3. ASSUME NEW r \in Client, SolveStep(r) \/ Controls(r) PROVE OutsideStep
  <2>1. UNCHANGED <<held, granted, lapsed, stage>>
    BY <1>3 DEF SolveStep, StartSolve, RefuseSolve, FinishSolve, SeeCancel, FailSolve, PanicSolve,
       Controls, RequestCancel, CancelFrame, RecordCancel, CleanUp, Unmark, lockVars
  <2> QED BY <2>1, OutsideKeeps
<1>4. ASSUME NEW m \in Master, PruneTask(m) \/ Crash(m) PROVE OutsideStep
  BY <1>4, OutsideKeeps DEF PruneTask, Crash, lockVars
<1>5. CASE Environment
  BY <1>0, <1>5, OutsideExpire, OutsideLateGrant DEF Environment, LockEnvironment
<1>6. CASE UNCHANGED vars
  BY <1>6, OutsideKeeps DEF vars, lockVars
<1> QED BY <1>2, <1>3, <1>4, <1>5, <1>6 DEF Next

LEMMA OutsideStarts == Init => LateIsLate /\ Outside!LockFree
<1> SUFFICES ASSUME Init PROVE LateIsLate /\ Outside!LockFree
  OBVIOUS
<1>1. \A c \in Client : granted[c] = 0 /\ lapsed = {} /\ late = {}
  BY DEF Init, LockInit
<1>2. AtWork = {} /\ \A c \in Client : ~Whole(c)
  BY <1>1 DEF AtWork, Whole
<1>3. Holder = Nobody /\ lapsed = {}
  BY <1>2, NobodyIsWhole DEF Init, LockInit
<1> QED BY <1>1, <1>2, <1>3 DEF LateIsLate, Outside!LockFree

(* The backends together, with late and lost calls, rollbacks, expiries,     *)
(* hang-ups and crashes, are one lock that one client holds until it gives   *)
(* it back or its TTL passes (main.rs:4550-4764).                           *)
THEOREM BackendsAreOneLock == Spec => ImplementsLock
<1>1. TaskInv /\ LateIsLate /\ [Next]_vars => LateIsLate'
  BY LateIsLateStep
<1>2. TaskInv /\ LateIsLate /\ [Next]_vars => [Outside!LockNext]_(Outside!lvars)
  BY OutsideNext DEF OutsideStep
<1>3. Init => LateIsLate /\ Outside!LockFree
  BY OutsideStarts
<1> QED BY <1>1, <1>2, <1>3, TaskInductive, PTL DEF Spec, ImplementsLock, Outside!LockSpec
=============================================================================
