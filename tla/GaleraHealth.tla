---------------------------- MODULE GaleraHealth ----------------------------
(***************************************************************************)
(* The Galera health monitor of the MariaDB operator                        *)
(* (StatefulSetGaleraReconciler, src/controller/statefulset_galera_        *)
(* controller.go), composed with what it observes and what reacts to it:   *)
(*                                                                         *)
(*  - the Galera cluster: which Pods run mariadbd and which of them form   *)
(*    the Primary component (the engine's wsrep_cluster_status/size);      *)
(*  - the kubelet readiness probe and the StatefulSet controller, which    *)
(*    publish Pod readiness and sts.Status.ReadyReplicas with a lag;       *)
(*  - the work queue that triggers a reconcile on StatefulSet events;      *)
(*  - the MariaDB status in the API server (GaleraReady and Ready          *)
(*    conditions, GaleraRecovery);                                         *)
(*  - a minimal Galera recovery coordinator, modelled from the spec        *)
(*    (section 4.3), which reacts to GaleraReady=False.                    *)
(*                                                                         *)
(* One reconcile pass is: read the StatefulSet and the MariaDB once, poll  *)
(* isHealthy every second until ClusterHealthyTimeout, then, if no poll    *)
(* succeeded, emit an event and merge-patch the status. Both reads go      *)
(* through the manager's informer cache (mgr.GetClient(), main.go), so the *)
(* MariaDB a pass reads may be older than the one in the API server.       *)
(***************************************************************************)
EXTENDS Naturals, FiniteSets

CONSTANTS
    Replicas,   \* mariadb.Spec.Replicas
    MaxPolls,   \* isHealthy calls that fit in ClusterHealthyTimeout (1s interval)
    MaxFaults   \* bound on crashes, probe failures and failed API calls

ASSUME ReplicasAssumption == Replicas \in Nat \ {0}
ASSUME MaxPollsAssumption == MaxPolls \in Nat \ {0}
ASSUME MaxFaultsAssumption == MaxFaults \in Nat

\* Pod indexes of the StatefulSet (statefulset.PodName(mariadb, i)).
Pods == 0..(Replicas - 1)

VARIABLES
    alive,      \* Pods whose mariadbd accepts connections
    comp,       \* members of the Galera Primary component ({} = quorum lost)
    ready,      \* Pod Ready condition, as last published by the probe
    stsReady,   \* sts.Status.ReadyReplicas in the API server
    queued,     \* a request for the StatefulSet is in the work queue
    status,     \* MariaDB status in the API server
    cached,     \* MariaDB status in the manager's informer cache
    hm,         \* the health monitor's reconcile pass
    faults      \* faults of the environment so far

vars == <<alive, comp, ready, stsReady, queued, status, cached, hm, faults>>

(***************************************************************************)
(* MariaDB status: the GaleraReady and Ready conditions (TRUE = True) and   *)
(* whether status.galeraRecovery is non-nil.                               *)
(***************************************************************************)
StatusType == [galeraReady : BOOLEAN, readyCond : BOOLEAN, recovery : BOOLEAN]

(***************************************************************************)
(* A reconcile pass: pc, the MariaDB it read (snap), the ReadyReplicas of  *)
(* the StatefulSet it read (sts), the polls done, and, as a history        *)
(* variable, whether at the last poll every member was in the Primary      *)
(* component and the API server reported every replica ready.             *)
(***************************************************************************)
HMType == [pc : {"Idle", "Polling"}, snap : StatusType, sts : 0..Replicas,
           polls : 0..MaxPolls, sawHealthy : BOOLEAN]

HealthyStatus == [galeraReady |-> TRUE, readyCond |-> TRUE, recovery |-> FALSE]

HMIdle == [pc |-> "Idle", snap |-> HealthyStatus, sts |-> 0, polls |-> 0,
           sawHealthy |-> FALSE]

TypeOK ==
    /\ alive \in SUBSET Pods
    /\ comp \in SUBSET Pods
    /\ ready \in [Pods -> BOOLEAN]
    /\ stsReady \in 0..Replicas
    /\ queued \in BOOLEAN
    /\ status \in StatusType
    /\ cached \in StatusType
    /\ hm \in HMType
    /\ faults \in 0..MaxFaults

Init ==
    /\ alive = Pods
    /\ comp = Pods
    /\ ready = [i \in Pods |-> TRUE]
    /\ stsReady = Replicas
    /\ queued = TRUE                \* the informer's initial list enqueues it
    /\ status = HealthyStatus
    /\ cached = HealthyStatus
    /\ hm = HMIdle
    /\ faults = 0

-----------------------------------------------------------------------------
(***************************************************************************)
(* Environment: the Galera cluster, the kubelet and the StatefulSet        *)
(* controller.                                                             *)
(***************************************************************************)

\* A member leaving ungracefully: the rest keep the Primary component only
\* if they are a strict majority of it, otherwise quorum is lost.
LoseMember(c, i) ==
    IF i \notin c THEN c
    ELSE IF 2 * Cardinality(c \ {i}) > Cardinality(c) THEN c \ {i}
    ELSE {}

Crash(i) ==
    /\ faults < MaxFaults
    /\ i \in alive
    /\ alive' = alive \ {i}
    /\ comp' = LoseMember(comp, i)
    /\ ready' = [ready EXCEPT ![i] = FALSE]
    /\ faults' = faults + 1
    /\ UNCHANGED <<stsReady, queued, status, cached, hm>>

\* The kubelet restarts the container (the StatefulSet uses Parallel
\* pod management, so any Pod may restart at any time).
Restart(i) ==
    /\ i \notin alive
    /\ alive' = alive \cup {i}
    /\ UNCHANGED <<comp, ready, stsReady, queued, status, cached, hm, faults>>

\* A running member joins an existing Primary component (IST/SST).
Join(i) ==
    /\ i \in alive \ comp
    /\ comp # {}
    /\ comp' = comp \cup {i}
    /\ UNCHANGED <<alive, ready, stsReady, queued, status, cached, hm, faults>>

\* The Galera readiness probe passes exactly for members of the Primary
\* component; its result is published with a lag.
Probe(i) ==
    /\ ready[i] # (i \in comp)
    /\ ready' = [ready EXCEPT ![i] = (i \in comp)]
    /\ UNCHANGED <<alive, comp, stsReady, queued, status, cached, hm, faults>>

\* A probe times out on a healthy member.
ProbeFail(i) ==
    /\ faults < MaxFaults
    /\ ready[i]
    /\ ready' = [ready EXCEPT ![i] = FALSE]
    /\ faults' = faults + 1
    /\ UNCHANGED <<alive, comp, stsReady, queued, status, cached, hm>>

ReadyCount == Cardinality({i \in Pods : ready[i]})

\* The StatefulSet controller updates ReadyReplicas; the update event
\* passes the annotation predicate and enqueues the StatefulSet. The event
\* is delivered by the informer that fills the cache, so stsReady is also
\* the ReadyReplicas a later Get of the StatefulSet (l.41) returns.
StsStatusSync ==
    /\ stsReady # ReadyCount
    /\ stsReady' = ReadyCount
    /\ queued' = TRUE
    /\ UNCHANGED <<alive, comp, ready, status, cached, hm, faults>>

\* The informer's periodic resync enqueues the StatefulSet again.
Resync ==
    /\ ~queued
    /\ queued' = TRUE
    /\ UNCHANGED <<alive, comp, ready, stsReady, status, cached, hm, faults>>

\* The MariaDB informer applies the watch events of the status writes in
\* order; the cache holds the newest one it has received.
CacheSync ==
    /\ cached # status
    /\ cached' = status
    /\ UNCHANGED <<alive, comp, ready, stsReady, queued, status, hm, faults>>

-----------------------------------------------------------------------------
(***************************************************************************)
(* The health monitor: StatefulSetGaleraReconciler.                        *)
(***************************************************************************)

\* Reconcile: a queued request whose MariaDB, as the cache holds it, already
\* has GaleraReady=False returns at once.
ReconcileSkip ==
    /\ hm.pc = "Idle"
    /\ queued
    /\ ~cached.galeraReady
    /\ queued' = FALSE
    /\ UNCHANGED <<alive, comp, ready, stsReady, status, cached, hm, faults>>

\* Reconcile: read the StatefulSet and the MariaDB once from the cache,
\* start polling.
ReconcileStart ==
    /\ hm.pc = "Idle"
    /\ queued
    /\ cached.galeraReady
    /\ queued' = FALSE
    /\ hm' = [pc |-> "Polling", snap |-> cached, sts |-> stsReady, polls |-> 0,
              sawHealthy |-> FALSE]
    /\ UNCHANGED <<alive, comp, ready, stsReady, status, cached, faults>>

\* readyClient: the first Pod, by index, that is Ready and accepts a client.
ReadyCandidates == {i \in Pods : ready[i] /\ i \in alive}

ReadyClient == CHOOSE i \in ReadyCandidates : \A j \in ReadyCandidates : i <= j

\* readyClient finds no Ready Pod although the read ReadyReplicas is neither
\* 0 nor Replicas: isHealthy returns an error.
NoReadyClient == hm.sts \notin {0, Replicas} /\ ReadyCandidates = {}

\* Mutant: isHealthy returning true, not false, when ReadyReplicas is 0.
HealthyZeroReady ==
    \/ hm.sts \in {0, Replicas}
    \/ /\ ReadyCandidates # {}
       /\ ReadyClient \in comp
       /\ Cardinality(comp) = Replicas

\* isHealthy, with the ReadyReplicas read at the start of the pass: the
\* client's node reports wsrep_cluster_status Primary and
\* wsrep_cluster_size = Replicas.
Healthy ==
    \/ hm.sts = Replicas
    \/ /\ hm.sts # 0
       /\ ReadyCandidates # {}
       /\ ReadyClient \in comp
       /\ Cardinality(comp) = Replicas

\* Mutant: one poll more than the budget allows.
PollingOffByOne == hm.pc = "Polling" /\ hm.polls <= MaxPolls

Polling == hm.pc = "Polling" /\ hm.polls < MaxPolls

\* A poll succeeds: the pass returns, nothing is written.
PollHealthy ==
    /\ Polling
    /\ Healthy
    /\ hm' = HMIdle
    /\ UNCHANGED <<alive, comp, ready, stsReady, queued, status, cached, faults>>

\* A poll returns false: wait for the next tick.
PollUnhealthy ==
    /\ Polling
    /\ ~Healthy
    /\ ~NoReadyClient
    /\ hm' = [hm EXCEPT !.polls = @ + 1, !.sawHealthy = (comp = Pods /\ stsReady = Replicas)]
    /\ UNCHANGED <<alive, comp, ready, stsReady, queued, status, cached, faults>>

\* readyClient returns "no Ready Pods were found": the poll stops with the
\* error, Reconcile returns it and the request is requeued; no status is
\* written.
PollNoReadyClient ==
    /\ Polling
    /\ NoReadyClient
    /\ hm' = HMIdle
    /\ queued' = TRUE
    /\ UNCHANGED <<alive, comp, ready, stsReady, status, cached, faults>>

\* GaleraClusterStatus or GaleraClusterSize fails on the client (a lost
\* connection, or the 5s client deadline): same error path.
PollQueryError ==
    /\ Polling
    /\ hm.sts \notin {0, Replicas}
    /\ ReadyCandidates # {}
    /\ faults < MaxFaults
    /\ faults' = faults + 1
    /\ hm' = HMIdle
    /\ queued' = TRUE
    /\ UNCHANGED <<alive, comp, ready, stsReady, status, cached>>

\* Mutant: the patch sets GaleraReady but leaves the Ready condition.
NotReadyPatchGaleraOnly(snap, cur) ==
    [galeraReady |-> FALSE,
     readyCond   |-> cur.readyCond,
     recovery    |-> IF snap.recovery THEN FALSE ELSE cur.recovery]

\* The merge patch of patchStatus: computed against the MariaDB read at the
\* start of the pass, it sets both conditions to False (the conditions list
\* is replaced as a whole) and clears galeraRecovery only if the read copy
\* had it set.
NotReadyPatch(snap, cur) ==
    [galeraReady |-> FALSE,
     readyCond   |-> FALSE,
     recovery    |-> IF snap.recovery THEN FALSE ELSE cur.recovery]

\* The poll times out: emit the event and patch the status, or fail the
\* patch and requeue.
Timeout ==
    /\ hm.pc = "Polling"
    /\ hm.polls = MaxPolls
    /\ hm' = HMIdle
    /\ \/ /\ status' = NotReadyPatch(hm.snap, status)
          /\ UNCHANGED <<queued, faults>>
       \/ /\ faults < MaxFaults
          /\ faults' = faults + 1
          /\ queued' = TRUE
          /\ UNCHANGED status
    /\ UNCHANGED <<alive, comp, ready, stsReady, cached>>

-----------------------------------------------------------------------------
(***************************************************************************)
(* Galera recovery coordinator, from the spec (section 4.3): started by    *)
(* GaleraReady=False, bootstraps a new Primary component from a running    *)
(* member when quorum is lost, and clears galeraRecovery together with     *)
(* setting the conditions back to True once every member has joined.       *)
(***************************************************************************)
RecoveryStart ==
    /\ ~status.galeraReady
    /\ ~status.recovery
    /\ status' = [status EXCEPT !.recovery = TRUE]
    /\ UNCHANGED <<alive, comp, ready, stsReady, queued, cached, hm, faults>>

RecoveryBootstrap ==
    /\ status.recovery
    /\ comp = {}
    /\ \E j \in alive : comp' = {j}
    /\ UNCHANGED <<alive, ready, stsReady, queued, status, cached, hm, faults>>

RecoveryDone ==
    /\ status.recovery
    /\ comp = Pods
    /\ status' = HealthyStatus
    /\ UNCHANGED <<alive, comp, ready, stsReady, queued, cached, hm, faults>>

-----------------------------------------------------------------------------
Environment ==
    \/ \E i \in Pods : Crash(i) \/ Restart(i) \/ Join(i) \/ Probe(i) \/ ProbeFail(i)
    \/ StsStatusSync
    \/ Resync
    \/ CacheSync

HealthMonitor ==
    \/ ReconcileSkip \/ ReconcileStart
    \/ PollHealthy \/ PollUnhealthy \/ PollNoReadyClient \/ PollQueryError
    \/ Timeout

Recovery == RecoveryStart \/ RecoveryBootstrap \/ RecoveryDone

Next == Environment \/ HealthMonitor \/ Recovery

Spec == Init /\ [][Next]_vars

(***************************************************************************)
(* Fairness: the work queue hands every queued request to the reconciler,  *)
(* the poll ticks every second, the kubelet keeps restarting crashed       *)
(* containers and probing, the StatefulSet controller publishes            *)
(* ReadyReplicas, the informer delivers watch events and, since main.go    *)
(* sets no SyncPeriod, resyncs every StatefulSet at controller-runtime's   *)
(* default period; members keep trying to join, and the recovery           *)
(* coordinator requeues itself. Faults are bounded by MaxFaults, so no     *)
(* fairness is needed to rule out endless failures.                        *)
(***************************************************************************)
Fairness ==
    /\ \A i \in Pods : WF_vars(Restart(i)) /\ WF_vars(Join(i)) /\ WF_vars(Probe(i))
    /\ WF_vars(StsStatusSync) /\ WF_vars(CacheSync) /\ WF_vars(Resync)
    /\ WF_vars(ReconcileSkip) /\ WF_vars(ReconcileStart)
    /\ WF_vars(PollHealthy \/ PollUnhealthy \/ PollNoReadyClient)
    /\ WF_vars(Timeout)
    /\ WF_vars(RecoveryStart) /\ WF_vars(RecoveryBootstrap) /\ WF_vars(RecoveryDone)

FairSpec == Spec /\ Fairness

-----------------------------------------------------------------------------
(***************************************************************************)
(* Properties.                                                             *)
(***************************************************************************)

\* Spec section 4.2 (a): a poll at which the platform reports every member
\* ready is trivially healthy. So the health monitor never marks GaleraReady
\* False after a pass whose last poll found every member in the Primary
\* component and ReadyReplicas equal to Replicas in the API server.
NotReadyOnlyIfUnhealthy ==
    [][(status.galeraReady /\ ~status'.galeraReady) => ~hm.sawHealthy]_vars

\* Spec section 4.2: on timeout the health monitor clears galeraRecovery
\* (discarding stale recovery bookkeeping) and sets GaleraReady and Ready to
\* False. So a pass that times out (Polling with the poll budget spent, back
\* to Idle) and does not fail its patch leaves galeraRecovery nil.
TimeoutClearsRecovery ==
    [][(hm.pc = "Polling" /\ hm.polls = MaxPolls /\ hm'.pc = "Idle"
        /\ faults' = faults) => ~status'.recovery]_vars

\* The status only goes around the cycle of GaleraStatusContract: healthy,
\* marked not ready by a timed-out pass, recovering, healthy again.
Contract == INSTANCE GaleraStatusContract

StatusProtocol == Contract!Spec

\* Once faults stop, the health monitor and the recovery coordinator
\* together bring the cluster back: eventually every member is in the
\* Primary component and GaleraReady stays True.
Convergence == <>[](comp = Pods /\ status.galeraReady)

=============================================================================
