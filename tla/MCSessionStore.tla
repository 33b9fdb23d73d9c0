--------------------------- MODULE MCSessionStore ---------------------------
(* Three requests to two masters, one worker.                               *)
EXTENDS SessionStore

CONSTANTS a, b, c, m1, m2, w

Deployed(pg, redis, lock) == [pg |-> pg, redis |-> redis, lock |-> lock]

\* Everything connected; Postgres alone; no Postgres; no coordination.
Deployments ==
  {Deployed(TRUE, TRUE, TRUE), Deployed(TRUE, FALSE, FALSE), Deployed(FALSE, TRUE, TRUE),
   Deployed(FALSE, TRUE, FALSE), Deployed(FALSE, FALSE, FALSE)}

Everything == {Deployed(TRUE, TRUE, TRUE)}

\* A GET or a solve between two POSTs; two between a POST; three requests
\* for the problem store.
Mixes ==
  {[r \in Request |-> IF r = c THEN "session" ELSE "events"],
   [r \in Request |-> IF r = a THEN "events" ELSE "session"],
   [r \in Request |-> "store"]}

TwoEdits == {[r \in Request |-> "events"]}

\* Two of the requests go to one master, the third to the other.
Spread == {[r \in Request |-> IF r = x THEN m2 ELSE m1] : x \in {a, c}}

AnyBatch == {<<"init">>, <<"edit">>, <<"half">>, <<"none", "open">>}
Numbered == {<<"edit">>, <<"open">>}
=============================================================================
