--------------------------- MODULE MCGaleraHealth ---------------------------
(* Model-checking instance of GaleraHealth: three Galera members, a poll    *)
(* budget of two ticks, and a small fault budget.                          *)
EXTENDS GaleraHealth

\* Three members: the smallest cluster in which losing one member keeps
\* quorum and losing two does not.
MCReplicas == 3

\* Two polls: enough for a pass to see the cluster change between polls.
MCMaxPolls == 2

\* Three faults: two crashes lose quorum and leave one fault for a failed
\* call; three probe failures take every member out of ReadyReplicas.
MCMaxFaults == 3
=============================================================================
