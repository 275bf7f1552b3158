-------------------------- MODULE MCPrimaryFailover --------------------------
(* Model-checking instance of PrimaryFailover: three members, every        *)
(* configuration of primary.podIndex and automaticFailover.                *)
EXTENDS PrimaryFailover

\* Three members: after the configured primary fails, two candidates remain
\* for the election.
MCMembers == {0, 1, 2}

\* Two transactions per log: enough for a replica to lag its primary and
\* for two primaries to accept different transactions.
MCMaxLog == 2

\* Two faults: the configured primary fails, and a second member fails or
\* a control operation errs in the middle of the pass that follows.
MCMaxFaults == 2

\* The members are symmetric except through their indexes, which the
\* election compares, so no symmetry reduction is used.

\* One configuration update: enough to move podIndex or switch
\* automaticFailover while a pass is in progress.
MCMaxUpdates == 1
=============================================================================
