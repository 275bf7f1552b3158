------------------------ MODULE GaleraStatusContract ------------------------
(***************************************************************************)
(* What the MariaDB status of a Galera cluster goes through (spec.md       *)
(* sections 3, 4.2 and 4.3), seen only through the status: a healthy      *)
(* cluster is marked not ready with both conditions False, a recovery is   *)
(* then started, and its end sets both conditions back to True and clears  *)
(* galeraRecovery in one write. Nothing else ever changes the status.      *)
(***************************************************************************)
VARIABLE status  \* [galeraReady, readyCond, recovery] as in GaleraHealth

\* The three statuses a Galera MariaDB can have.
Healthy    == [galeraReady |-> TRUE,  readyCond |-> TRUE,  recovery |-> FALSE]
NotReady   == [galeraReady |-> FALSE, readyCond |-> FALSE, recovery |-> FALSE]
Recovering == [galeraReady |-> FALSE, readyCond |-> FALSE, recovery |-> TRUE]

Init == status = Healthy

\* The health monitor's pass times out: GaleraReady and Ready become False.
MarkNotReady == status = Healthy /\ status' = NotReady

\* The recovery coordinator sets galeraRecovery.
StartRecovery == status = NotReady /\ status' = Recovering

\* Recovery ends: both conditions True and galeraRecovery cleared at once.
FinishRecovery == status = Recovering /\ status' = Healthy

Next == MarkNotReady \/ StartRecovery \/ FinishRecovery

Spec == Init /\ [][Next]_status

=============================================================================
