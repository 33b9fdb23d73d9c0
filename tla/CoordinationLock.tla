-------------------------- MODULE CoordinationLock --------------------------
(***************************************************************************)
(* The lock a master takes for one key before it works on it:              *)
(* acquire_coordination_lock and release_coordination_guard over the        *)
(* configured backends (Redis, live-mutex), each a key with a TTL.          *)
(*                                                                         *)
(* A client is one acquisition: the token written to the key is made for it *)
(* and never used again.  Clocks are abstracted away: a key may expire, and *)
(* a call may run out of time, at any moment.  A call that ran out of time  *)
(* may still be executed by the backend later.                             *)
(*                                                                         *)
(* What is done under the lock is up to the module that extends this one.   *)
(***************************************************************************)
EXTENDS Integers, Sequences

CONSTANTS
  Client,     \* acquisitions of the key
  Backends,   \* coordination.backends, in the order they are asked
  Nobody,     \* an absent key
  MaxFaults   \* bound of the model: unanswered calls, hang-ups, panics, crashes

ASSUME LockAssumption ==
  /\ Nobody \notin Client
  /\ Backends \in Seq(STRING)
  /\ MaxFaults \in Nat
  /\ \A i, j \in DOMAIN Backends : Backends[i] = Backends[j] => i = j

Backend == {Backends[i] : i \in DOMAIN Backends}
All == Len(Backends)

VARIABLES
  held,      \* per backend, the token the key holds
  stage,     \* per client, where its handler is
  granted,   \* per client, the length of its guard: the backends that said yes
  late,      \* SETs their client gave up and the backend may still execute
  unsure,    \* calls whose outcome their client never learnt
  lapsed,    \* clients that lost a key to its TTL
  faults     \* counts towards MaxFaults

lockVars == <<held, stage, granted, late, unsure, lapsed, faults>>

Stage == {"idle", "acquire", "holding", "release", "rollback",
          "answered", "refused", "dropped"}

LockTypeOK ==
  /\ held \in [Backend -> Client \cup {Nobody}]
  /\ stage \in [Client -> Stage]
  /\ granted \in [Client -> 0..All]
  /\ late \subseteq Client \X Backend
  /\ unsure \subseteq Client \X Backend
  /\ lapsed \subseteq Client
  /\ faults \in 0..MaxFaults

LockInit ==
  /\ held = [b \in Backend |-> Nobody]
  /\ stage = [c \in Client |-> "idle"]
  /\ granted = [c \in Client |-> 0]
  /\ late = {}
  /\ unsure = {}
  /\ lapsed = {}
  /\ faults = 0

Fault == faults < MaxFaults /\ faults' = faults + 1

-----------------------------------------------------------------------------
(* The handler starts to acquire.                                           *)
Arrive(c) ==
  /\ stage[c] = "idle"
  /\ stage' = [stage EXCEPT ![c] = "acquire"]
  /\ UNCHANGED <<held, granted, late, unsure, lapsed, faults>>

Asked(c) == Backends[granted[c] + 1]
Asking(c) == stage[c] = "acquire" /\ granted[c] < All

(* Mutant: SET without NX.                                                  *)
GrantTaken(c) ==
  /\ Asking(c)
  /\ held' = [held EXCEPT ![Asked(c)] = c]
  /\ granted' = [granted EXCEPT ![c] = @ + 1]
  /\ UNCHANGED <<stage, late, unsure, lapsed, faults>>

(* SET NX answers OK, or /v1/lock acquired: the next backend is asked.      *)
Grant(c) ==
  /\ Asking(c)
  /\ held[Asked(c)] = Nobody
  /\ held' = [held EXCEPT ![Asked(c)] = c]
  /\ granted' = [granted EXCEPT ![c] = @ + 1]
  /\ UNCHANGED <<stage, late, unsure, lapsed, faults>>

(* What the backend may make of a call whose client stopped waiting.        *)
GiveUpAsking(c) ==
  \/ UNCHANGED <<late, unsure, faults>>
  \/ /\ Fault
     /\ late' = late \cup {<<c, Asked(c)>>}
     /\ unsure' = unsure \cup {<<c, Asked(c)>>}

(* Mutant: the guard so far is forgotten.                                   *)
RefuseForgetful(c) ==
  /\ Asking(c)
  /\ stage' = [stage EXCEPT ![c] = "rollback"]
  /\ granted' = [granted EXCEPT ![c] = 0]
  /\ GiveUpAsking(c)
  /\ UNCHANGED <<held, lapsed>>

(* Mutant: a call without an answer counts as granted.                      *)
RefuseNever(c) ==
  /\ Asking(c)
  /\ granted' = [granted EXCEPT ![c] = @ + 1]
  /\ GiveUpAsking(c)
  /\ UNCHANGED <<held, stage, lapsed>>

(* Busy until the wait deadline, an error, or no answer in time: the guard  *)
(* so far is released.                                                      *)
Refuse(c) ==
  /\ Asking(c)
  /\ stage' = [stage EXCEPT ![c] = "rollback"]
  /\ GiveUpAsking(c)
  /\ UNCHANGED <<held, granted, lapsed>>

(* The backend executes a SET NX nobody waits for any more.                 *)
LateGrant(c, b) ==
  /\ <<c, b>> \in late
  /\ late' = late \ {<<c, b>>}
  /\ held' = IF held[b] = Nobody THEN [held EXCEPT ![b] = c] ELSE held
  /\ UNCHANGED <<stage, granted, unsure, lapsed, faults>>

(* Mutant: DEL without a look at the token.                                 *)
DeleteAny(c, b) == held' = [held EXCEPT ![b] = Nobody]

(* GET = token, then DEL; /v1/unlock with the lockUuid.                     *)
DeleteOwn(c, b) == held' = IF held[b] = c THEN [held EXCEPT ![b] = Nobody] ELSE held

(* One turn of the release loop, last backend first; a failure is counted   *)
(* and the loop goes on.                                                    *)
ReleaseOne(c) ==
  LET b == Backends[granted[c]]
  IN  /\ stage[c] \in {"release", "rollback"} /\ granted[c] > 0
      /\ granted' = [granted EXCEPT ![c] = @ - 1]
      /\ \/ DeleteOwn(c, b) /\ UNCHANGED <<unsure, faults>>
         \/ Fault /\ unsure' = unsure \cup {<<c, b>>} /\ UNCHANGED held
      /\ UNCHANGED <<stage, late, lapsed>>

(* The guard is empty: the handler answers.                                 *)
Reply(c) ==
  /\ stage[c] \in {"release", "rollback"} /\ granted[c] = 0
  /\ stage' = [stage EXCEPT ![c] = IF @ = "release" THEN "answered" ELSE "refused"]
  /\ UNCHANGED <<held, granted, late, unsure, lapsed, faults>>

(* The client hangs up and the handler's future is dropped at an await:     *)
(* nobody releases the guard.                                               *)
Drop(c) ==
  /\ Fault
  /\ stage[c] \in {"acquire", "holding", "release", "rollback"}
  /\ stage' = [stage EXCEPT ![c] = "dropped"]
  /\ \/ UNCHANGED <<late, unsure>>
     \/ /\ Asking(c)
        /\ late' = late \cup {<<c, Asked(c)>>}
        /\ unsure' = unsure \cup {<<c, Asked(c)>>}
  /\ UNCHANGED <<held, granted, lapsed>>

(* The TTL of the key passes.                                               *)
Expire(b) ==
  /\ held[b] # Nobody
  /\ held' = [held EXCEPT ![b] = Nobody]
  /\ lapsed' = lapsed \cup {held[b]}
  /\ UNCHANGED <<stage, granted, late, unsure, faults>>

(* acquire_coordination_lock returns the guard, or None when no backend is  *)
(* configured.                                                              *)
Enter(c) ==
  /\ stage[c] = "acquire" /\ granted[c] = All
  /\ stage' = [stage EXCEPT ![c] = "holding"]
  /\ UNCHANGED <<held, granted, late, unsure, lapsed, faults>>

BeginRelease(c) ==
  /\ stage[c] = "holding"
  /\ stage' = [stage EXCEPT ![c] = "release"]
  /\ UNCHANGED <<held, granted, late, unsure, lapsed, faults>>

LockStep(c) == Arrive(c) \/ Grant(c) \/ Refuse(c) \/ ReleaseOne(c) \/ Reply(c)

LockEnvironment ==
  \/ \E b \in Backend : Expire(b)
  \/ \E c \in Client, b \in Backend : LateGrant(c, b)

-----------------------------------------------------------------------------
(* A handler that has answered or refused holds no key, unless a call of    *)
(* its own went unanswered: acquire_coordination_lock undoes what the       *)
(* backends before the refusing one granted (main.rs:4729-4741).            *)
NothingLeftBehind ==
  \A c \in Client, b \in Backend :
    stage[c] \in {"answered", "refused"} /\ held[b] = c => <<c, b>> \in unsure

(* The guard of a client whose keys have not expired is intact: nobody      *)
(* else's release, rollback or late SET takes a key from it (4601-4630).    *)
GuardIntact ==
  \A c \in Client : c \notin lapsed =>
    \A i \in 1..granted[c] : held[Backends[i]] = c

(* A guard is whole when every backend said yes and no key of it expired.    *)
Whole(c) == All > 0 /\ granted[c] = All /\ \A b \in Backend : held[b] = c

Holder == IF \E c \in Client : Whole(c) THEN held[Backends[1]] ELSE Nobody

(* A client is at work until it gives the first of its keys back.           *)
AtWork == {c \in Client : All > 0 /\ granted[c] = All /\ stage[c] # "dropped"}

(* The lock as its clients see it.                                          *)
Outside == INSTANCE ExpiringLock WITH
  holder <- Holder, inside <- AtWork, expired <- (lapsed # {})

(* Whatever the backends refuse, grant too late or leave unanswered, and     *)
(* however handlers end, what they make together is one lock with one holder *)
(* (main.rs:4550-4764).                                                    *)
ImplementsLock == Outside!LockSpec
=============================================================================
