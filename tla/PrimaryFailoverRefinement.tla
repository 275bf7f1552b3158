---------------------- MODULE PrimaryFailoverRefinement ----------------------
(***************************************************************************)
(* The multi-step pass of PrimaryFailover implements the atomic pass of    *)
(* PrimaryFailoverContract.                                                *)
(*                                                                         *)
(* preRole and preSource are history variables: the members' roles and    *)
(* sources when the pass in progress started (they follow role and source  *)
(* while no pass runs). Under the mapping the start of a pass is the       *)
(* contract's Observe, its promotion and reconfigurations are stutters,    *)
(* and its effect on the members appears at once when it reports success   *)
(* or fails. Replication positions are hidden.                             *)
(***************************************************************************)
EXTENDS PrimaryFailover

VARIABLES preRole, preSource

hvars == <<vars, preRole, preSource>>

InitH == Init /\ preRole = role /\ preSource = source

NextH ==
    /\ Next
    /\ preRole' = IF pass.pc = "Idle" THEN role ELSE preRole
    /\ preSource' = IF pass.pc = "Idle" THEN source ELSE preSource

SpecH == InitH /\ [][NextH]_hvars

\* The roles and sources the contract sees.
roleBar == IF pass.pc = "Idle" THEN role ELSE preRole
sourceBar == IF pass.pc = "Idle" THEN source ELSE preSource

\* The contract's pass: the observation and target of the pass in progress.
passBar == IF pass.pc = "Idle" THEN [obs |-> {}, target |-> None]
           ELSE [obs |-> pass.observed, target |-> pass.target]

C == INSTANCE PrimaryFailoverContract
         WITH role <- roleBar, source <- sourceBar, pass <- passBar

\* The controller keeps the contract of sections 4.4 and 7: a pass picks
\* its target by the election rule from the members ready when it starts,
\* reports success only after the whole plan computed from exactly that
\* observation is applied, and a failed pass applies a part of that plan
\* and reports nothing.
Refinement == C!Spec

=============================================================================
