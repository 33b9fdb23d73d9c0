---------------------------- MODULE MCLocalSolve ----------------------------
(* Eight integer values, three of them feasible: 15 nodes, 4 levels.        *)
EXTENDS LocalSolve, MCTree

MCNode  == Cuts(8, 1)
MCRoot  == <<0, 7>>
MCKids  == KidsIn(MCNode, 1)
MCBelow == BelowIn(MCNode)
MCDepth == DepthIn(MCNode)
MCPoint == 0..7
MCPts   == PtsIn(MCNode, {4, 6, 7})
MCObj   == [p \in MCPoint |-> p]

LocalAnswers == {"optimal", "infeasible", "split", "error", "iter-limit"}
=============================================================================
