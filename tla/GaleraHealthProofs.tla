------------------------- MODULE GaleraHealthProofs -------------------------
(***************************************************************************)
(* Proofs about GaleraHealth for every number of replicas, poll budget and *)
(* fault bound: type correctness, and that the health monitor and the      *)
(* recovery coordinator, reading the MariaDB through a lagging cache,      *)
(* implement GaleraStatusContract.                                         *)
(***************************************************************************)
EXTENDS GaleraHealth, FiniteSetTheorems, TLAPS

USE ReplicasAssumption, MaxPollsAssumption, MaxFaultsAssumption

\* The StatefulSet has exactly Replicas Pods.
LEMMA PodsCardinality ==
    IsFiniteSet(Pods) /\ Cardinality(Pods) = Replicas
<1>1. Replicas - 1 \in Int /\ ~(0 > Replicas - 1)
    OBVIOUS
<1>2. QED
    BY <1>1, FS_Interval DEF Pods

\* The number of Ready Pods the StatefulSet controller publishes is a
\* possible ReadyReplicas.
LEMMA ReadyCountType ==
    ASSUME NEW r \in [Pods -> BOOLEAN]
    PROVE  Cardinality({i \in Pods : r[i]}) \in 0..Replicas
<1> DEFINE R == {i \in Pods : r[i]}
<1>1. IsFiniteSet(R) /\ Cardinality(R) <= Replicas
    BY PodsCardinality, FS_Subset
<1>2. Cardinality(R) \in Nat
    BY <1>1, FS_CardinalityType
<1>3. QED
    BY <1>1, <1>2

\* Losing a member leaves a set of Pods.
LEMMA LoseMemberType ==
    ASSUME NEW c \in SUBSET Pods, NEW i
    PROVE  LoseMember(c, i) \in SUBSET Pods
BY DEF LoseMember

\* The pass a reconcile starts is a well-typed pass.
LEMMA StartedPassType ==
    ASSUME NEW s \in StatusType, NEW n \in 0..Replicas
    PROVE  [pc |-> "Polling", snap |-> s, sts |-> n, polls |-> 0,
            sawHealthy |-> FALSE] \in HMType
BY DEF HMType

-----------------------------------------------------------------------------
(***************************************************************************)
(* Type correctness of the health monitor and its environment.             *)
(***************************************************************************)
THEOREM TypeCorrect == Spec => []TypeOK
<1>1. Init => TypeOK
    BY DEF Init, TypeOK, HMIdle, HMType, HealthyStatus, StatusType
<1>2. TypeOK /\ [Next]_vars => TypeOK'
    <2> SUFFICES ASSUME TypeOK, [Next]_vars PROVE TypeOK'
        OBVIOUS
    <2> USE DEF TypeOK
    <2>0. HMIdle \in HMType /\ HealthyStatus \in StatusType
        BY DEF HMIdle, HMType, HealthyStatus, StatusType
    <2>1. ASSUME NEW i \in Pods, Crash(i) PROVE TypeOK'
        BY <2>1, LoseMemberType DEF Crash
    <2>2. ASSUME NEW i \in Pods, Restart(i) PROVE TypeOK'
        BY <2>2 DEF Restart
    <2>3. ASSUME NEW i \in Pods, Join(i) PROVE TypeOK'
        BY <2>3 DEF Join
    <2>4. ASSUME NEW i \in Pods, Probe(i) PROVE TypeOK'
        BY <2>4 DEF Probe
    <2>5. ASSUME NEW i \in Pods, ProbeFail(i) PROVE TypeOK'
        BY <2>5 DEF ProbeFail
    <2>6. CASE StsStatusSync
        BY <2>6, ReadyCountType DEF StsStatusSync, ReadyCount
    <2>7. CASE Resync \/ CacheSync
        BY <2>7 DEF Resync, CacheSync
    <2>8. CASE ReconcileSkip
        BY <2>8 DEF ReconcileSkip
    <2>9. CASE ReconcileStart
        BY <2>9, StartedPassType DEF ReconcileStart
    <2>10. CASE PollHealthy
        BY <2>10, <2>0 DEF PollHealthy
    <2>11. CASE PollUnhealthy
        <3>1. hm.polls + 1 \in 0..MaxPolls
            BY <2>11 DEF PollUnhealthy, Polling, HMType
        <3>2. hm' \in HMType
            BY <2>11, <3>1 DEF PollUnhealthy, HMType
        <3>3. QED
            BY <2>11, <3>2 DEF PollUnhealthy
    <2>12. CASE PollNoReadyClient
        BY <2>12, <2>0 DEF PollNoReadyClient
    <2>13. CASE PollQueryError
        BY <2>13, <2>0 DEF PollQueryError
    <2>14. CASE Timeout
        <3>1. NotReadyPatch(hm.snap, status) \in StatusType
            BY DEF NotReadyPatch, StatusType, HMType
        <3>2. CASE status' = NotReadyPatch(hm.snap, status)
                   /\ UNCHANGED <<queued, faults>>
            BY <2>14, <2>0, <3>1, <3>2 DEF Timeout
        <3>3. CASE faults < MaxFaults /\ faults' = faults + 1 /\ queued' = TRUE
                   /\ UNCHANGED status
            BY <2>14, <2>0, <3>3 DEF Timeout
        <3>4. QED
            BY <2>14, <3>2, <3>3 DEF Timeout
    <2>15. CASE RecoveryStart
        BY <2>15 DEF RecoveryStart, StatusType
    <2>16. CASE RecoveryBootstrap
        BY <2>16 DEF RecoveryBootstrap
    <2>17. CASE RecoveryDone
        BY <2>17, <2>0 DEF RecoveryDone
    <2>18. CASE UNCHANGED vars
        BY <2>18 DEF vars
    <2>19. QED
        BY <2>1, <2>2, <2>3, <2>4, <2>5, <2>6, <2>7, <2>8, <2>9, <2>10,
           <2>11, <2>12, <2>13, <2>14, <2>15, <2>16, <2>17, <2>18
        DEF Next, Environment, HealthMonitor, Recovery
<1>3. QED
    BY <1>1, <1>2, PTL DEF Spec

-----------------------------------------------------------------------------
(***************************************************************************)
(* The status protocol. StatusInv: the stored status and the cached copy   *)
(* are each one of the contract's three statuses, and a polling pass holds *)
(* the Healthy one. The cache only ever takes a value the store had, and a *)
(* pass starts only from a cached copy that is GaleraReady, which is       *)
(* Healthy. The merge patch computed against Healthy turns a Healthy       *)
(* status into NotReady and leaves NotReady and Recovering as they are,    *)
(* whatever the store holds by then: that is why the protocol survives a   *)
(* stale cache, although the patch may then leave galeraRecovery set.      *)
(***************************************************************************)
StatusInv ==
    /\ status \in {Contract!Healthy, Contract!NotReady, Contract!Recovering}
    /\ cached \in {Contract!Healthy, Contract!NotReady, Contract!Recovering}
    /\ hm.pc = "Polling" => hm.snap = Contract!Healthy

\* Every step keeps StatusInv and changes the status by a step of the
\* contract, or not at all.
LEMMA StatusStep ==
    TypeOK /\ StatusInv /\ [Next]_vars => StatusInv' /\ [Contract!Next]_status
<1> SUFFICES ASSUME TypeOK, StatusInv, [Next]_vars
             PROVE  StatusInv' /\ [Contract!Next]_status
    OBVIOUS
<1> USE DEF StatusInv, Contract!Healthy, Contract!NotReady, Contract!Recovering
\* Steps that leave the status, the cache and the pass alone.
<1>1. CASE UNCHANGED <<status, cached, hm>>
    BY <1>1
\* Steps that leave the status and the cache alone and end the pass.
<1>2. CASE UNCHANGED <<status, cached>> /\ hm' = HMIdle
    BY <1>2 DEF HMIdle
<1>3. CASE PollUnhealthy
    <2>1. hm'.pc = hm.pc /\ hm'.snap = hm.snap
        BY <1>3 DEF PollUnhealthy, TypeOK, HMType
    <2>2. QED
        BY <1>3, <2>1 DEF PollUnhealthy
<1>4. CASE ReconcileStart
    <2>1. cached = Contract!Healthy
        BY <1>4 DEF ReconcileStart
    <2>2. QED
        BY <1>4, <2>1 DEF ReconcileStart
<1>5. CASE CacheSync
    BY <1>5 DEF CacheSync
<1>6. CASE Timeout
    <2>1. hm.snap = Contract!Healthy /\ hm'.pc = "Idle"
        BY <1>6 DEF Timeout, HMIdle
    <2>2. NotReadyPatch(hm.snap, status)
            = IF status = Contract!Healthy THEN Contract!NotReady ELSE status
        <3>1. CASE status = Contract!Healthy
            BY <2>1, <3>1 DEF NotReadyPatch
        <3>2. CASE status = Contract!NotReady
            BY <2>1, <3>2 DEF NotReadyPatch
        <3>3. CASE status = Contract!Recovering
            BY <2>1, <3>3 DEF NotReadyPatch
        <3>4. QED
            BY <3>1, <3>2, <3>3
    <2>3. \/ status = Contract!Healthy /\ status' = Contract!NotReady
          \/ UNCHANGED status
        BY <1>6, <2>2 DEF Timeout
    <2>4. QED
        BY <1>6, <2>1, <2>3 DEF Timeout, Contract!Next, Contract!MarkNotReady
<1>7. CASE RecoveryStart
    <2>1. status = Contract!NotReady
        <3>1. ~status.galeraReady /\ ~status.recovery
            BY <1>7 DEF RecoveryStart
        <3>2. QED
            BY <3>1
    <2>2. status' = Contract!Recovering
        BY <1>7, <2>1 DEF RecoveryStart
    <2>3. QED
        BY <1>7, <2>1, <2>2 DEF RecoveryStart, Contract!Next, Contract!StartRecovery
<1>8. CASE RecoveryDone
    <2>1. status = Contract!Recovering /\ status' = Contract!Healthy
        BY <1>8 DEF RecoveryDone, HealthyStatus
    <2>2. QED
        BY <1>8, <2>1 DEF RecoveryDone, Contract!Next, Contract!FinishRecovery
<1>9. QED
    BY <1>1, <1>2, <1>3, <1>4, <1>5, <1>6, <1>7, <1>8
    DEF Next, Environment, HealthMonitor, Recovery, vars,
        Crash, Restart, Join, Probe, ProbeFail, StsStatusSync, Resync,
        ReconcileSkip, PollHealthy, PollNoReadyClient, PollQueryError,
        RecoveryBootstrap

\* StatusInv holds in every reachable state.
LEMMA StatusInvariant == Spec => [](TypeOK /\ StatusInv)
<1>1. Init => StatusInv
    BY DEF Init, StatusInv, HealthyStatus, HMIdle, Contract!Healthy
<1>2. QED
    BY <1>1, StatusStep, TypeCorrect, PTL DEF Spec

(***************************************************************************)
(* GaleraHealth implements GaleraStatusContract: the health monitor and    *)
(* the recovery coordinator together only move the status from Healthy to  *)
(* NotReady (a timed-out pass), to Recovering, and back to Healthy.        *)
(***************************************************************************)
THEOREM StatusProtocolCorrect == Spec => StatusProtocol
<1>1. Init => Contract!Init
    BY DEF Init, Contract!Init, HealthyStatus, Contract!Healthy
<1>2. QED
    BY <1>1, StatusInvariant, StatusStep, PTL DEF Spec, StatusProtocol, Contract!Spec

=============================================================================
