---------------------------- MODULE MCMasterSolve ----------------------------
(* Four integer values cut to pairs and singletons: seven nodes.            *)
EXTENDS MasterSolve, MCTree

MCNode  == Cuts(4, 1)
MCRoot  == <<0, 3>>
MCKids  == KidsIn(MCNode, 1)
MCBelow == BelowIn(MCNode)
MCDepth == DepthIn(MCNode)
MCPoint == 0..3
MCPts   == PtsIn(MCNode, {1, 2})
MCObj   == [p \in MCPoint |-> p]

\* What the pre-split may hand over: one job, or two.
WholeProblem == {<<MCRoot>>}
Halves       == {<< <<0, 1>>, <<2, 3>> >>}

\* What workers answer when nothing goes wrong, when attempts fail, and all
\* they can; "numerical-error" is handled as "iter-limit" is.
PlainAnswers == {"optimal", "infeasible", "split"}
RetryAnswers == PlainAnswers \cup {"error"}
AllAnswers   == ResultStatus \ {"numerical-error"}
=============================================================================
