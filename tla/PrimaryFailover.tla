--------------------------- MODULE PrimaryFailover ---------------------------
(***************************************************************************)
(* The Primary Failover Controller of replication mode (spec.md section    *)
(* 4.4; its code is not under src/, so every operation here is modelled    *)
(* from the spec), composed with the members it reconfigures.              *)
(*                                                                         *)
(* A member event (a member turning ready or not ready) enqueues a pass.   *)
(* A pass observes which members are ready, picks the target: the          *)
(* configured primary.podIndex if it is ready, else, with                  *)
(* automaticFailover, the ready member with the most advanced replication  *)
(* position, else none (Ready=False). It then promotes the target,         *)
(* reconfigures every other ready member that does not already replicate   *)
(* from it, one control operation at a time, and finally writes            *)
(* currentPrimaryIndex and Ready=True. A failed control operation ends the *)
(* pass with a transient error and the pass is retried (section 7). The    *)
(* user may update primary.podIndex or automaticFailover at any time, also *)
(* while a pass runs (the repository's controller test moves podIndex on a *)
(* running cluster); the update event enqueues a pass, and a pass decides  *)
(* from the configuration it read when it started.                        *)
(*                                                                         *)
(* A member's binary log is a sequence of transactions, each tagged with   *)
(* the member that accepted it as primary; its length is the replication  *)
(* position.                                                               *)
(***************************************************************************)
EXTENDS Naturals, Sequences

CONSTANTS
    Members,    \* member indexes
    None,       \* a null index (currentPrimaryIndex unset)
    MaxLog,     \* bound on the transactions a member's log holds
    MaxFaults,  \* bound on member failures and failed control operations
    MaxUpdates  \* bound on updates of the replication configuration

ASSUME NoneAssumption == None \notin Members
ASSUME MaxLogAssumption == MaxLog \in Nat
ASSUME MaxFaultsAssumption == MaxFaults \in Nat
ASSUME MaxUpdatesAssumption == MaxUpdates \in Nat

VARIABLES
    config,   \* ReplicationConfig: [podIndex, auto] (primary.podIndex, automaticFailover)
    ready,    \* member readiness signal of the platform
    role,     \* "primary" (accepts writes) or "replica"
    source,   \* the member a replica replicates from, or None
    binlog,   \* the transactions each member has applied
    status,   \* ClusterStatus: currentPrimaryIndex and the Ready condition
    pass,     \* the controller's pass in progress
    queued,   \* a member event is waiting for the controller
    faults,
    updates   \* configuration updates so far

vars == <<config, ready, role, source, binlog, status, pass, queued, faults, updates>>

PassIdle == [pc |-> "Idle", target |-> None, observed |-> {}, todo |-> {}]

TypeOK ==
    /\ config \in [podIndex : Members, auto : BOOLEAN]
    /\ ready \in [Members -> BOOLEAN]
    /\ role \in [Members -> {"primary", "replica"}]
    /\ source \in [Members -> Members \cup {None}]
    /\ binlog \in [Members -> Seq(Members)]
    /\ \A i \in Members : Len(binlog[i]) <= MaxLog
    /\ status \in [current : Members \cup {None}, readyCond : BOOLEAN]
    /\ pass \in [pc : {"Idle", "Promote", "Reconfigure"},
                 target : Members \cup {None},
                 observed : SUBSET Members, todo : SUBSET Members]
    /\ queued \in BOOLEAN
    /\ faults \in 0..MaxFaults
    /\ updates \in 0..MaxUpdates

\* Cluster creation: every member ready and unconfigured, the status empty,
\* and the creation event queued.
Init ==
    /\ config \in [podIndex : Members, auto : BOOLEAN]
    /\ ready = [i \in Members |-> TRUE]
    /\ role = [i \in Members |-> "replica"]
    /\ source = [i \in Members |-> None]
    /\ binlog = [i \in Members |-> <<>>]
    /\ status = [current |-> None, readyCond |-> FALSE]
    /\ pass = PassIdle
    /\ queued = TRUE
    /\ faults = 0
    /\ updates = 0

-----------------------------------------------------------------------------
(***************************************************************************)
(* The members and the platform.                                           *)
(***************************************************************************)

\* A member stops being ready (crash, restart, eviction); its lifecycle
\* event enqueues a pass.
MemberDown(i) ==
    /\ ready[i]
    /\ faults < MaxFaults
    /\ ready' = [ready EXCEPT ![i] = FALSE]
    /\ faults' = faults + 1
    /\ queued' = TRUE
    /\ UNCHANGED <<config, role, source, binlog, status, pass, updates>>

\* The member is ready again, with the replication configuration it had.
MemberUp(i) ==
    /\ ~ready[i]
    /\ ready' = [ready EXCEPT ![i] = TRUE]
    /\ queued' = TRUE
    /\ UNCHANGED <<config, role, source, binlog, status, pass, faults, updates>>

\* A ready member in the primary role commits a client transaction.
Write(i) ==
    /\ ready[i]
    /\ role[i] = "primary"
    /\ Len(binlog[i]) < MaxLog
    /\ binlog' = [binlog EXCEPT ![i] = Append(@, i)]
    /\ UNCHANGED <<config, ready, role, source, status, pass, queued, faults, updates>>

\* A ready replica applies the next transaction of its ready source, if its
\* own log is a prefix of the source's (otherwise replication is broken).
Replicate(i) ==
    LET s == source[i] IN
    /\ ready[i]
    /\ role[i] = "replica"
    /\ s \in Members
    /\ ready[s]
    /\ Len(binlog[i]) < Len(binlog[s])
    /\ binlog[i] = SubSeq(binlog[s], 1, Len(binlog[i]))
    /\ binlog' = [binlog EXCEPT ![i] = Append(@, binlog[s][Len(binlog[i]) + 1])]
    /\ UNCHANGED <<config, ready, role, source, status, pass, queued, faults, updates>>

\* The user updates primary.podIndex or automaticFailover; the update of
\* the MariaDB enqueues a pass.
UpdateConfig(c) ==
    /\ updates < MaxUpdates
    /\ c # config
    /\ config' = c
    /\ updates' = updates + 1
    /\ queued' = TRUE
    /\ UNCHANGED <<ready, role, source, binlog, status, pass, faults>>

-----------------------------------------------------------------------------
(***************************************************************************)
(* The controller.                                                         *)
(***************************************************************************)

\* The ready member with the most advanced replication position; ties go to
\* the lowest index, as in recovery candidate selection (section 4.3).
MostAdvanced(obs) ==
    CHOOSE p \in obs :
        \A q \in obs : \/ Len(binlog[q]) < Len(binlog[p])
                       \/ Len(binlog[q]) = Len(binlog[p]) /\ p <= q

\* The member to make primary, given the members observed ready.
Target(obs) ==
    IF config.podIndex \in obs THEN config.podIndex
    ELSE IF config.auto /\ obs # {} THEN MostAdvanced(obs)
    ELSE None

\* Member i already replicates from t: the idempotence check.
Follows(i, t) == role[i] = "replica" /\ source[i] = t

\* Mutant: the idempotence check looks at the role only, so a replica of
\* the old primary counts as configured.
ToReconfigureRoleOnly(obs, t) == {i \in obs \ {t} : role[i] # "replica"}

\* The members a pass targeting t must reconfigure.
ToReconfigure(obs, t) == {i \in obs \ {t} : ~Follows(i, t)}

Observed == {i \in Members : ready[i]}

\* No ready target (Target is None): the configured primary is not ready
\* and automatic failover is off, or nobody is ready. Report Ready=False, leave currentPrimaryIndex.
ReconcileNoTarget ==
    /\ pass.pc = "Idle"
    /\ queued
    /\ Target(Observed) \notin Observed
    /\ queued' = FALSE
    /\ status' = [status EXCEPT !.readyCond = FALSE]
    /\ UNCHANGED <<config, ready, role, source, binlog, pass, faults, updates>>

\* A ready target: observe, and plan the promotion and reconfigurations.
ReconcileStart ==
    /\ pass.pc = "Idle"
    /\ queued
    /\ Target(Observed) \in Observed
    /\ queued' = FALSE
    /\ pass' = [pc |-> "Promote", target |-> Target(Observed),
                observed |-> Observed,
                todo |-> ToReconfigure(Observed, Target(Observed))]
    /\ UNCHANGED <<config, ready, role, source, binlog, status, faults, updates>>

\* Promote the target (stop its replica role); a target already primary is
\* left alone.
Promote ==
    /\ pass.pc = "Promote"
    /\ ready[pass.target]
    /\ role' = [role EXCEPT ![pass.target] = "primary"]
    /\ source' = [source EXCEPT ![pass.target] = None]
    /\ pass' = [pass EXCEPT !.pc = "Reconfigure"]
    /\ UNCHANGED <<config, ready, binlog, status, queued, faults, updates>>

\* Reconfigure one member as a replica of the target.
Reconfigure(i) ==
    /\ pass.pc = "Reconfigure"
    /\ i \in pass.todo
    /\ ready[i]
    /\ role' = [role EXCEPT ![i] = "replica"]
    /\ source' = [source EXCEPT ![i] = pass.target]
    /\ pass' = [pass EXCEPT !.todo = @ \ {i}]
    /\ UNCHANGED <<config, ready, binlog, status, queued, faults, updates>>

\* Mutant: a failed control operation that is not retried.
ControlOpFailsNoRetry(i) ==
    /\ \/ pass.pc = "Promote" /\ i = pass.target
       \/ pass.pc = "Reconfigure" /\ i \in pass.todo
    /\ \/ ~ready[i] /\ UNCHANGED faults
       \/ faults < MaxFaults /\ faults' = faults + 1
    /\ pass' = PassIdle
    /\ UNCHANGED <<config, ready, role, source, binlog, status, queued, updates>>

\* The control operation on member i fails: the member is no longer
\* reachable, or the operation errs. The pass ends with a transient error
\* and is retried.
ControlOpFails(i) ==
    /\ \/ pass.pc = "Promote" /\ i = pass.target
       \/ pass.pc = "Reconfigure" /\ i \in pass.todo
    /\ \/ ~ready[i] /\ UNCHANGED faults
       \/ faults < MaxFaults /\ faults' = faults + 1
    /\ pass' = PassIdle
    /\ queued' = TRUE
    /\ UNCHANGED <<config, ready, role, source, binlog, status, updates>>

\* Mutant: the result is published before every member is reconfigured.
ReportPrimaryEarly ==
    /\ pass.pc = "Reconfigure"
    /\ status' = [current |-> pass.target, readyCond |-> TRUE]
    /\ pass' = PassIdle
    /\ UNCHANGED <<config, ready, role, source, binlog, queued, faults, updates>>

\* Every member is reconfigured: publish the result.
ReportPrimary ==
    /\ pass.pc = "Reconfigure"
    /\ pass.todo = {}
    /\ status' = [current |-> pass.target, readyCond |-> TRUE]
    /\ pass' = PassIdle
    /\ UNCHANGED <<config, ready, role, source, binlog, queued, faults, updates>>

-----------------------------------------------------------------------------
Next ==
    \/ \E i \in Members : MemberDown(i) \/ MemberUp(i) \/ Write(i) \/ Replicate(i)
    \/ ReconcileNoTarget \/ ReconcileStart \/ Promote \/ ReportPrimary
    \/ \E i \in Members : Reconfigure(i) \/ ControlOpFails(i)
    \/ \E c \in [podIndex : Members, auto : BOOLEAN] : UpdateConfig(c)

Spec == Init /\ [][Next]_vars

(***************************************************************************)
(* Fairness: the kubelet restarts members, the work queue hands a queued   *)
(* event to the controller, and a pass in progress keeps going. Failures   *)
(* are bounded by MaxFaults and configuration updates by MaxUpdates.       *)
(***************************************************************************)
Fairness ==
    /\ \A i \in Members : WF_vars(MemberUp(i)) /\ WF_vars(Reconfigure(i))
                          /\ WF_vars(ControlOpFails(i))
    /\ WF_vars(ReconcileNoTarget) /\ WF_vars(ReconcileStart)
    /\ WF_vars(Promote) /\ WF_vars(ReportPrimary)

FairSpec == Spec /\ Fairness

-----------------------------------------------------------------------------
(***************************************************************************)
(* Properties.                                                             *)
(***************************************************************************)

\* Section 4.4, guarantee: replicas are reconfigured to point at exactly the
\* declared primary before the controller reports success. When a pass
\* publishes currentPrimaryIndex = t, the target is primary and every other
\* member it saw ready replicates from t, whatever members went down, came
\* back or failed a control operation in the meantime.
ReplicasFollowOnSuccess ==
    [][ReportPrimary
       => /\ role[pass.target] = "primary"
          /\ \A i \in pass.observed \ {pass.target} :
                role[i] = "replica" /\ source[i] = pass.target]_vars

\* Section 8: if automaticFailover is false and the configured primary is
\* not ready, currentPrimaryIndex is left unchanged (no silent promotion).
NoSilentPromotion ==
    [][~config.auto /\ ~ready[config.podIndex]
       => status'.current = status.current]_vars

\* Once members stop failing and the configuration stops changing, the
\* controller converges: the configured
\* primary is declared, Ready=True, and every other member replicates from
\* it.
Convergence ==
    <>[](/\ status = [current |-> config.podIndex, readyCond |-> TRUE]
         /\ role[config.podIndex] = "primary"
         /\ \A i \in Members \ {config.podIndex} : Follows(i, config.podIndex))

=============================================================================
