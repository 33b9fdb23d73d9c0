---------------------------- MODULE ExpiringLock ----------------------------
(***************************************************************************)
(* The coordination lock seen from outside, whatever it is made of: one      *)
(* client holds it, or nobody; a client at work under it got in when nobody  *)
(* held it; it is lost to its TTL, and to nothing else, before its holder    *)
(* gives it back.                                                          *)
(*                                                                         *)
(* CoordinationLock, over any number of backends, implements this module    *)
(* (ProblemTaskProofs), and it is all SessionStore uses of the lock         *)
(* (SessionStoreProofs).                                                    *)
(***************************************************************************)
CONSTANTS Client, Nobody

VARIABLES
  holder,   \* the client that holds the lock
  inside,   \* clients at work under the lock
  expired   \* a TTL has passed

lvars == <<holder, inside, expired>>

LockFree == holder = Nobody /\ inside = {} /\ expired = FALSE

(* acquire_coordination_lock returns the guard; some of it may have expired  *)
(* on the way.                                                              *)
Enter(c) ==
  /\ holder = Nobody /\ c \notin inside
  /\ holder' = c \/ (expired /\ holder' = Nobody)
  /\ inside' = inside \cup {c}
  /\ UNCHANGED expired

(* release_coordination_guard: a lock that is somebody else's by now is left *)
(* alone.                                                                  *)
Leave(c) ==
  /\ c \in inside
  /\ holder' = IF holder = c THEN Nobody ELSE holder
  /\ inside' = inside \ {c}
  /\ UNCHANGED expired

(* Handlers are dropped, or their process dies: nobody gives the lock back.  *)
Abandon(C) == inside' = inside \ C /\ UNCHANGED <<holder, expired>>

LoseToTTL ==
  /\ holder' \in {holder, Nobody}
  /\ expired' = TRUE
  /\ UNCHANGED inside

LockNext ==
  \/ \E c \in Client : Enter(c) \/ Leave(c)
  \/ \E C \in SUBSET Client : Abandon(C)
  \/ LoseToTTL

LockSpec == LockFree /\ [][LockNext]_lvars
=============================================================================
