----------------------------- MODULE MCBranching -----------------------------
(* Two integer variables from -1 to 2, four units to 1.                     *)
EXTENDS Branching

MCVar     == 1..2
MCInteger == {1, 2}
MCLower   == -1
=============================================================================
