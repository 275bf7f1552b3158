--------------------- MODULE MCPrimaryFailoverRefinement ---------------------
(* Model-checking instance of the refinement of PrimaryFailoverContract by  *)
(* PrimaryFailover, with the bounds of MCPrimaryFailover.                  *)
EXTENDS PrimaryFailoverRefinement

\* Three members, as in MCPrimaryFailover.
MCMembers == {0, 1, 2}

\* Two transactions per log, as in MCPrimaryFailover.
MCMaxLog == 2

\* Two faults: enough for a pass to fail after its promotion and after one
\* of its reconfigurations.
MCMaxFaults == 2

\* One configuration update, as in MCPrimaryFailover.
MCMaxUpdates == 1
=============================================================================
