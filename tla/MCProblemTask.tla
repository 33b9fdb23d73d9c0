--------------------------- MODULE MCProblemTask ---------------------------
(* Two requests, each sent to either of two masters.                        *)
EXTENDS ProblemTask, TLC

CONSTANTS r1, r2, m1, m2

MCBackends == <<"redis", "live-mutex">>

Symmetric == Permutations({r1, r2}) \cup Permutations({m1, m2})
=============================================================================
