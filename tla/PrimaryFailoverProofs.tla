------------------------ MODULE PrimaryFailoverProofs ------------------------
(***************************************************************************)
(* Proofs about PrimaryFailover for every set of members and every bound   *)
(* on logs and faults, and the proof that it implements the contract       *)
(* PrimaryFailoverContract under the mapping of PrimaryFailoverRefinement. *)
(***************************************************************************)
EXTENDS PrimaryFailoverRefinement, TLAPS

USE NoneAssumption, MaxLogAssumption, MaxFaultsAssumption, MaxUpdatesAssumption

-----------------------------------------------------------------------------
(***************************************************************************)
(* Type correctness.                                                       *)
(***************************************************************************)
THEOREM TypeCorrect == Spec => []TypeOK
<1>1. Init => TypeOK
    BY DEF Init, TypeOK, PassIdle
<1>2. TypeOK /\ [Next]_vars => TypeOK'
    <2> SUFFICES ASSUME TypeOK, [Next]_vars PROVE TypeOK'
        OBVIOUS
    <2>1. ASSUME NEW i \in Members, MemberDown(i) PROVE TypeOK'
        BY <2>1 DEF MemberDown, TypeOK
    <2>2. ASSUME NEW i \in Members, MemberUp(i) PROVE TypeOK'
        BY <2>2 DEF MemberUp, TypeOK
    <2>3. ASSUME NEW i \in Members, Write(i) PROVE TypeOK'
        BY <2>3 DEF Write, TypeOK
    <2>4. ASSUME NEW i \in Members, Replicate(i) PROVE TypeOK'
        BY <2>4 DEF Replicate, TypeOK
    <2>5. CASE ReconcileNoTarget
        BY <2>5 DEF ReconcileNoTarget, TypeOK
    <2>6. CASE ReconcileStart
        BY <2>6 DEF ReconcileStart, TypeOK, ToReconfigure, Observed
    <2>7. CASE Promote
        BY <2>7 DEF Promote, TypeOK
    <2>8. ASSUME NEW i \in Members, Reconfigure(i) PROVE TypeOK'
        BY <2>8 DEF Reconfigure, TypeOK
    <2>9. ASSUME NEW i \in Members, ControlOpFails(i) PROVE TypeOK'
        BY <2>9 DEF ControlOpFails, TypeOK, PassIdle
    <2>10. CASE ReportPrimary
        BY <2>10 DEF ReportPrimary, TypeOK, PassIdle
    <2>11. CASE UNCHANGED vars
        BY <2>11 DEF vars, TypeOK
    <2>12. ASSUME NEW c \in [podIndex : Members, auto : BOOLEAN], UpdateConfig(c)
           PROVE  TypeOK'
        BY <2>12 DEF UpdateConfig, TypeOK
    <2>13. QED
        BY <2>1, <2>2, <2>3, <2>4, <2>5, <2>6, <2>7, <2>8, <2>9, <2>10, <2>11,
           <2>12
        DEF Next
<1>3. QED
    BY <1>1, <1>2, PTL DEF Spec

-----------------------------------------------------------------------------
(***************************************************************************)
(* The invariant of a pass in progress: its target is a member it saw      *)
(* ready, its to-do list holds the other observed members, every observed member      *)
(* already done replicates from the target, and after the promotion step   *)
(* the target is primary. Only the controller changes roles and sources,   *)
(* and one pass runs at a time, so nothing undoes the pass's work. A       *)
(* configuration update in the middle of a pass changes none of this.      *)
(***************************************************************************)
PassInv ==
    pass.pc # "Idle" =>
        /\ pass.observed \subseteq Members
        /\ pass.target \in pass.observed
        /\ pass.todo \subseteq pass.observed \ {pass.target}
        /\ \A i \in pass.observed \ ({pass.target} \cup pass.todo) :
               Follows(i, pass.target)
        /\ pass.pc = "Reconfigure" => role[pass.target] = "primary"

IInv == TypeOK /\ PassInv

\* An idle pass keeps PassInv whatever roles and sources are.
LEMMA IdlePassInv ==
    ASSUME pass'.pc = "Idle" PROVE PassInv'
BY DEF PassInv

\* A step that leaves the pass, the roles and the sources alone keeps
\* PassInv.
LEMMA FrameInv ==
    ASSUME PassInv, UNCHANGED <<pass, role, source>>
    PROVE  PassInv'
BY DEF PassInv, Follows

LEMMA PassInvariant == Spec => []IInv
<1>1. Init => IInv
    BY DEF Init, IInv, TypeOK, PassInv, PassIdle
<1>2. IInv /\ [Next]_vars => PassInv'
    <2> SUFFICES ASSUME TypeOK, PassInv, [Next]_vars PROVE PassInv'
        BY DEF IInv
    <2>1. ASSUME NEW i \in Members,
                 MemberDown(i) \/ MemberUp(i) \/ Write(i) \/ Replicate(i)
          PROVE  PassInv'
        BY <2>1, FrameInv DEF MemberDown, MemberUp, Write, Replicate
    <2>2. CASE ReconcileNoTarget
        BY <2>2, FrameInv DEF ReconcileNoTarget
    <2>3. CASE ReconcileStart
        <3>1. Target(Observed) \in Observed
            BY <2>3 DEF ReconcileStart
        <3>2. QED
            BY <2>3, <3>1
            DEF ReconcileStart, PassInv, ToReconfigure, Observed, Follows
    <2>4. CASE Promote
        BY <2>4 DEF Promote, PassInv, Follows, TypeOK
    <2>5. ASSUME NEW i \in Members, Reconfigure(i) PROVE PassInv'
        BY <2>5 DEF Reconfigure, PassInv, Follows, TypeOK
    <2>6. ASSUME NEW i \in Members, ControlOpFails(i) PROVE PassInv'
        BY <2>6, IdlePassInv DEF ControlOpFails, PassIdle
    <2>7. CASE ReportPrimary
        BY <2>7, IdlePassInv DEF ReportPrimary, PassIdle
    <2>8. CASE UNCHANGED vars
        BY <2>8, FrameInv DEF vars
    <2>9. ASSUME NEW c \in [podIndex : Members, auto : BOOLEAN], UpdateConfig(c)
          PROVE  PassInv'
        BY <2>9, FrameInv DEF UpdateConfig
    <2>10. QED
        BY <2>1, <2>2, <2>3, <2>4, <2>5, <2>6, <2>7, <2>8, <2>9 DEF Next
<1>3. QED
    BY <1>1, <1>2, TypeCorrect, PTL DEF Spec, IInv

-----------------------------------------------------------------------------
(***************************************************************************)
(* ReplicasFollowOnSuccess for every cluster size: when the controller     *)
(* reports success, the declared primary is primary and every member the   *)
(* pass saw ready replicates from it. The to-do list is empty at the       *)
(* report, so PassInv says every observed member is done.                  *)
(***************************************************************************)
THEOREM ReplicasFollowCorrect == Spec => ReplicasFollowOnSuccess
<1> DEFINE Followed == /\ role[pass.target] = "primary"
                       /\ \A i \in pass.observed \ {pass.target} :
                              role[i] = "replica" /\ source[i] = pass.target
<1>1. IInv /\ [Next]_vars => [ReportPrimary => Followed]_vars
    BY DEF IInv, PassInv, ReportPrimary, Follows
<1>2. QED
    BY <1>1, PassInvariant, PTL DEF Spec, ReplicasFollowOnSuccess

-----------------------------------------------------------------------------
(***************************************************************************)
(* The refinement. While a pass runs, the members' roles and sources are   *)
(* its plan, computed from the snapshot preRole/preSource, applied to the  *)
(* snapshot: the promotion once the pass is past it, and the               *)
(* reconfigurations of the members no longer in its to-do list.            *)
(***************************************************************************)
PlanPre == {i \in pass.observed \ {pass.target} :
               ~(preRole[i] = "replica" /\ preSource[i] = pass.target)}

Done == PlanPre \ pass.todo

Promoted == pass.pc = "Reconfigure"

\* The snapshot with the part of the plan done so far applied to it.
PlannedRole == [i \in Members |->
                  IF i \in Done THEN "replica"
                  ELSE IF i = pass.target /\ Promoted THEN "primary"
                  ELSE preRole[i]]

PlannedSource == [i \in Members |->
                    IF i \in Done THEN pass.target
                    ELSE IF i = pass.target /\ Promoted THEN None
                    ELSE preSource[i]]

HistoryInv ==
    /\ preRole \in [Members -> {"primary", "replica"}]
    /\ preSource \in [Members -> Members \cup {None}]
    /\ pass.pc # "Idle" =>
         /\ pass.todo \subseteq PlanPre
         /\ pass.pc = "Promote" => pass.todo = PlanPre
         /\ role = PlannedRole
         /\ source = PlannedSource

RInv == TypeOK /\ PassInv /\ HistoryInv

\* The history-augmented specification allows every behaviour of Spec.
LEMMA SpecHImpliesSpec == SpecH => Spec
<1>1. InitH => Init
    BY DEF InitH
<1>2. [NextH]_hvars => [Next]_vars
    BY DEF NextH, hvars
<1>3. QED
    BY <1>1, <1>2, PTL DEF SpecH, Spec

\* Steps that leave the pass, the roles and the sources alone keep
\* HistoryInv.
LEMMA HistoryFrame ==
    ASSUME TypeOK, HistoryInv, [NextH]_hvars,
           UNCHANGED <<pass, role, source>>
    PROVE  HistoryInv'
<1>1. preRole' \in [Members -> {"primary", "replica"}]
      /\ preSource' \in [Members -> Members \cup {None}]
    BY DEF NextH, hvars, vars, HistoryInv, TypeOK
<1>2. CASE pass.pc = "Idle"
    BY <1>1, <1>2 DEF HistoryInv
<1>3. CASE pass.pc # "Idle"
    <2>1. preRole' = preRole /\ preSource' = preSource
        BY <1>3 DEF NextH, hvars, vars
    <2>2. QED
        BY <1>1, <1>3, <2>1 DEF HistoryInv, PlanPre, Done, Promoted,
           PlannedRole, PlannedSource
<1>4. QED
    BY <1>2, <1>3

LEMMA HistoryInvariant == SpecH => []RInv
<1>1. InitH => HistoryInv
    BY DEF InitH, Init, HistoryInv, PassIdle
<1>2. RInv /\ [NextH]_hvars => HistoryInv'
    <2>1. RInv /\ UNCHANGED hvars => HistoryInv'
        BY HistoryFrame DEF RInv, hvars, vars
    <2>2. RInv /\ NextH => HistoryInv'
        <3> SUFFICES ASSUME TypeOK, PassInv, HistoryInv, NextH
                     PROVE  HistoryInv'
            BY DEF RInv
        <3> USE DEF TypeOK
        <3>1. ASSUME NEW i \in Members,
                     MemberDown(i) \/ MemberUp(i) \/ Write(i) \/ Replicate(i)
              PROVE  HistoryInv'
            BY <3>1, HistoryFrame DEF MemberDown, MemberUp, Write, Replicate
        <3>2. CASE ReconcileNoTarget
            BY <3>2, HistoryFrame DEF ReconcileNoTarget
        <3>3. CASE ReconcileStart
            <4>1. preRole' = role /\ preSource' = source
                BY <3>3 DEF NextH, ReconcileStart
            <4>5. /\ pass' = [pc |-> "Promote", target |-> Target(Observed),
                              observed |-> Observed,
                              todo |-> ToReconfigure(Observed, Target(Observed))]
                  /\ role' = role /\ source' = source /\ config' = config
                BY <3>3 DEF ReconcileStart
            <4>6. PlanPre' = pass'.todo
                BY <4>1, <4>5 DEF PlanPre, ToReconfigure, Follows
            <4>7. Done' = {} /\ ~Promoted'
                BY <4>5, <4>6 DEF Done, Promoted
            <4>8. role' = PlannedRole' /\ source' = PlannedSource'
                BY <4>1, <4>5, <4>7 DEF PlannedRole, PlannedSource
            <4>9. QED
                BY <4>1, <4>5, <4>6, <4>8 DEF HistoryInv
        <3>4. CASE Promote
            <4>1. preRole' = preRole /\ preSource' = preSource
                BY <3>4 DEF NextH, Promote
            <4>2. /\ pass'.target = pass.target /\ pass'.observed = pass.observed
                  /\ pass'.todo = pass.todo /\ pass'.pc = "Reconfigure"
                BY <3>4 DEF Promote
            <4>3. PlanPre' = PlanPre /\ Done' = {} /\ Done = {}
                BY <3>4, <4>1, <4>2 DEF Promote, HistoryInv, PlanPre, Done
            <4>4. pass.target \in Members
                BY <3>4 DEF Promote, PassInv
            <4>5. /\ \A j \in Members : role[j] = preRole[j]
                  /\ \A j \in Members : source[j] = preSource[j]
                BY <3>4, <4>3 DEF Promote, HistoryInv, Promoted, PlannedRole,
                   PlannedSource
            <4>6. /\ Promoted'
                  /\ \A j \in Members :
                        role'[j] = IF j = pass.target THEN "primary" ELSE preRole[j]
                  /\ \A j \in Members :
                        source'[j] = IF j = pass.target THEN None ELSE preSource[j]
                BY <3>4, <4>2, <4>4, <4>5 DEF Promote, Promoted
            <4>10. /\ role' \in [Members -> {"primary", "replica"}]
                   /\ source' \in [Members -> Members \cup {None}]
                BY <3>4, <4>4 DEF Promote
            <4>7. role' = PlannedRole'
                BY <4>1, <4>2, <4>3, <4>6, <4>10 DEF PlannedRole
            <4>8. source' = PlannedSource'
                BY <4>1, <4>2, <4>3, <4>6, <4>10 DEF PlannedSource
            <4>9. /\ pass'.todo \subseteq PlanPre'
                  /\ pass'.pc # "Idle" /\ pass'.pc # "Promote"
                BY <3>4, <4>2, <4>3 DEF Promote, HistoryInv
            <4>12. QED
                BY <4>1, <4>2, <4>7, <4>8, <4>9 DEF HistoryInv
        <3>5. ASSUME NEW i \in Members, Reconfigure(i) PROVE HistoryInv'
            <4>1. preRole' = preRole /\ preSource' = preSource
                BY <3>5 DEF NextH, Reconfigure
            <4>2. /\ pass'.target = pass.target /\ pass'.observed = pass.observed
                  /\ pass'.todo = pass.todo \ {i} /\ pass'.pc = "Reconfigure"
                BY <3>5 DEF Reconfigure
            <4>3. PlanPre' = PlanPre
                BY <4>1, <4>2 DEF PlanPre
            <4>4. i \in PlanPre /\ i # pass.target /\ Done' = Done \cup {i}
                BY <3>5, <4>2, <4>3 DEF Reconfigure, HistoryInv, PlanPre, Done
            <4>5. /\ Promoted /\ Promoted'
                  /\ pass.target \in Members
                BY <3>5, <4>2 DEF Reconfigure, Promoted, PassInv
            <4>6. /\ \A j \in Members :
                        role'[j] = IF j = i THEN "replica" ELSE role[j]
                  /\ \A j \in Members :
                        source'[j] = IF j = i THEN pass.target ELSE source[j]
                  /\ role' \in [Members -> {"primary", "replica"}]
                  /\ source' \in [Members -> Members \cup {None}]
                BY <3>5, <4>5 DEF Reconfigure
            <4>7. /\ \A j \in Members :
                        role[j] = IF j \in Done THEN "replica"
                                  ELSE IF j = pass.target THEN "primary"
                                  ELSE preRole[j]
                  /\ \A j \in Members :
                        source[j] = IF j \in Done THEN pass.target
                                    ELSE IF j = pass.target THEN None
                                    ELSE preSource[j]
                BY <3>5, <4>5 DEF Reconfigure, HistoryInv, PlannedRole,
                   PlannedSource, Promoted
            <4>8. role' = PlannedRole'
                BY <4>1, <4>2, <4>4, <4>5, <4>6, <4>7 DEF PlannedRole
            <4>9. source' = PlannedSource'
                BY <4>1, <4>2, <4>4, <4>5, <4>6, <4>7 DEF PlannedSource
            <4>10. pass'.todo \subseteq PlanPre'
                BY <3>5, <4>2, <4>3 DEF Reconfigure, HistoryInv
            <4>11. QED
                BY <3>5, <4>1, <4>2, <4>5, <4>8, <4>9, <4>10
                DEF HistoryInv, Promoted, Reconfigure
        <3>6. ASSUME NEW i \in Members, ControlOpFails(i) PROVE HistoryInv'
            BY <3>6 DEF ControlOpFails, NextH, HistoryInv, PassIdle
        <3>7. CASE ReportPrimary
            BY <3>7 DEF ReportPrimary, NextH, HistoryInv, PassIdle
        <3>9. ASSUME NEW c \in [podIndex : Members, auto : BOOLEAN], UpdateConfig(c)
              PROVE  HistoryInv'
            BY <3>9, HistoryFrame DEF UpdateConfig
        <3>8. QED
            BY <3>1, <3>2, <3>3, <3>4, <3>5, <3>6, <3>7, <3>9 DEF NextH, Next
    <2>3. QED
        BY <2>1, <2>2
<1>3. QED
    BY <1>1, <1>2, SpecHImpliesSpec, PassInvariant, PTL DEF SpecH, RInv, IInv

\* The contract's view of a pass in progress is its snapshot.
LEMMA BarDuringPass ==
    ASSUME pass.pc # "Idle"
    PROVE  roleBar = preRole /\ sourceBar = preSource
BY DEF roleBar, sourceBar

\* The contract's view while no pass runs is the members' configuration.
LEMMA BarWhileIdle ==
    ASSUME pass.pc = "Idle"
    PROVE  roleBar = role /\ sourceBar = source
BY DEF roleBar, sourceBar

\* A step that changes neither the pass, the roles, the sources nor the
\* snapshot of a running pass changes nothing the contract sees of them.
LEMMA BarFrame ==
    ASSUME [NextH]_hvars, UNCHANGED <<pass, role, source>>
    PROVE  UNCHANGED <<roleBar, sourceBar, passBar>>
<1>1. CASE pass.pc = "Idle"
    BY <1>1 DEF roleBar, sourceBar, passBar
<1>2. CASE pass.pc # "Idle"
    <2>1. preRole' = preRole /\ preSource' = preSource
        BY <1>2 DEF NextH, hvars, vars
    <2>2. QED
        BY <1>2, <2>1 DEF roleBar, sourceBar, passBar
<1>3. QED
    BY <1>1, <1>2

\* The contract sees a running pass as one in progress, with the pass's
\* observation and target.
LEMMA PassBarRunning ==
    ASSUME PassInv, pass.pc # "Idle"
    PROVE  /\ passBar # C!NoPass
           /\ passBar.obs = pass.observed /\ passBar.target = pass.target
           /\ pass.target \in Members
<1>1. pass.target \in Members
    BY DEF PassInv
<1>2. QED
    BY <1>1, NoneAssumption DEF passBar, C!NoPass

\* A failed pass of the contract is a step of the contract.
LEMMA FailedPassStep ==
    ASSUME NEW p \in BOOLEAN, NEW d \in SUBSET Members, C!FailedPass(p, d)
    PROVE  C!Next
BY DEF C!Next

(***************************************************************************)
(* PrimaryFailover implements PrimaryFailoverContract. The start of a pass *)
(* is Observe: its target is the one Target picks, which the election rule *)
(* allows for the members ready at that moment. The promotion and the      *)
(* reconfigurations are stutters of the contract; a failed pass is         *)
(* FailedPass with the promotion if it was done and the reconfigurations   *)
(* done, which HistoryInv shows are a part of the plan of the pass's       *)
(* observation; a reported pass is Failover, the whole of that plan; a     *)
(* pass with no target is NoTarget, because a ready configured primary is  *)
(* a target; a configuration update is UpdateConfig.                       *)
(***************************************************************************)
THEOREM Implements == SpecH => Refinement
<1>1. InitH => C!Init
    BY DEF InitH, Init, C!Init, roleBar, sourceBar, passBar, PassIdle, C!NoPass
<1>2. RInv /\ [NextH]_hvars => [C!Next]_(C!cvars)
    <2> SUFFICES ASSUME RInv, [NextH]_hvars PROVE [C!Next]_(C!cvars)
        OBVIOUS
    <2> USE DEF RInv, TypeOK
    <2>1. CASE UNCHANGED hvars
        BY <2>1, BarFrame DEF hvars, vars, C!cvars
    <2> SUFFICES ASSUME NextH PROVE [C!Next]_(C!cvars)
        BY <2>1
    <2>0. /\ Next
          /\ preRole' = IF pass.pc = "Idle" THEN role ELSE preRole
          /\ preSource' = IF pass.pc = "Idle" THEN source ELSE preSource
        BY DEF NextH
    <2>2. ASSUME NEW i \in Members, MemberDown(i) \/ MemberUp(i) PROVE C!Next
        <3>1. UNCHANGED <<roleBar, sourceBar, passBar>>
            BY <2>2, BarFrame DEF MemberDown, MemberUp
        <3>2. C!MemberDown(i) \/ C!MemberUp(i)
            BY <2>2, <3>1 DEF MemberDown, MemberUp, C!MemberDown, C!MemberUp
        <3>3. QED
            BY <3>2 DEF C!Next
    <2>3. ASSUME NEW i \in Members, Write(i) \/ Replicate(i)
          PROVE  UNCHANGED C!cvars
        BY <2>3, BarFrame DEF Write, Replicate, C!cvars
    <2>10. ASSUME NEW c \in [podIndex : Members, auto : BOOLEAN], UpdateConfig(c)
           PROVE  C!Next
        <3>1. UNCHANGED <<roleBar, sourceBar, passBar>>
            BY <2>10, BarFrame DEF UpdateConfig
        <3>2. C!UpdateConfig(c)
            BY <2>10, <3>1 DEF UpdateConfig, C!UpdateConfig
        <3>3. QED
            BY <3>2 DEF C!Next
    <2>4. CASE ReconcileNoTarget
        <3>1. UNCHANGED <<roleBar, sourceBar, passBar>>
            BY <2>4, BarFrame DEF ReconcileNoTarget
        <3>2. ~ready[config.podIndex] /\ passBar = C!NoPass
            BY <2>4, NoneAssumption
            DEF ReconcileNoTarget, Target, Observed, passBar, C!NoPass
        <3>3. QED
            BY <2>4, <3>1, <3>2 DEF ReconcileNoTarget, C!NoTarget, C!Next
    <2>5. CASE ReconcileStart
        <3> DEFINE t == Target(Observed)
        <3>1. pass.pc = "Idle" /\ pass'.pc # "Idle"
              /\ preRole' = role /\ preSource' = source
            BY <2>0, <2>5 DEF ReconcileStart
        <3>2. UNCHANGED <<roleBar, sourceBar>>
            BY <2>5, <3>1 DEF ReconcileStart, roleBar, sourceBar
        <3>3. t \in Observed /\ Observed = C!ReadySet
            BY <2>5 DEF ReconcileStart, Observed, C!ReadySet
        <3>4. C!Allowed(C!ReadySet, t)
            <4>1. CASE config.podIndex \in Observed
                BY <3>3, <4>1 DEF Target, C!Allowed
            <4>2. CASE config.podIndex \notin Observed /\ ~config.auto
                <5>1. t = None
                    BY <4>2 DEF Target
                <5>2. Observed \subseteq Members
                    BY DEF Observed
                <5>3. QED
                    BY <3>3, <5>1, <5>2, NoneAssumption
            <4>3. CASE config.podIndex \notin Observed /\ config.auto
                BY <3>3, <4>3 DEF C!Allowed
            <4>4. QED
                BY <4>1, <4>2, <4>3
        <3>5. passBar = C!NoPass
              /\ passBar' = [obs |-> C!ReadySet, target |-> t]
            BY <2>5, <3>1, <3>3 DEF ReconcileStart, passBar, C!NoPass
        <3>6. C!Observe(t)
            BY <2>5, <3>2, <3>4, <3>5 DEF ReconcileStart, C!Observe
        <3>7. QED
            BY <3>3, <3>6 DEF C!Next, Observed
    <2>6. CASE Promote \/ \E i \in Members : Reconfigure(i)
        <3>1. pass.pc # "Idle" /\ pass'.pc # "Idle"
              /\ pass'.observed = pass.observed /\ pass'.target = pass.target
            BY <2>6 DEF Promote, Reconfigure
        <3>2. preRole' = preRole /\ preSource' = preSource
            BY <2>0, <3>1
        <3>3. UNCHANGED <<roleBar, sourceBar, passBar>>
            BY <3>1, <3>2 DEF roleBar, sourceBar, passBar
        <3>4. QED
            BY <2>6, <3>3 DEF Promote, Reconfigure, C!cvars
    <2>7. ASSUME NEW i \in Members, ControlOpFails(i) PROVE C!Next
        <3>1. pass.pc # "Idle" /\ pass'.pc = "Idle"
            BY <2>7 DEF ControlOpFails, PassIdle
        <3>2. roleBar = preRole /\ sourceBar = preSource
              /\ roleBar' = role' /\ sourceBar' = source'
            BY <3>1 DEF roleBar, sourceBar
        <3>3. /\ passBar # C!NoPass
              /\ passBar.obs = pass.observed /\ passBar.target = pass.target
              /\ pass.target \in Members
              /\ passBar' = C!NoPass
            BY <3>1, PassBarRunning DEF passBar, C!NoPass
        <3>4. C!Plan(passBar.obs, passBar.target) = PlanPre
            BY <3>2, <3>3 DEF C!Plan, PlanPre
        <3>5. Done \subseteq PlanPre /\ (Done # {} => Promoted)
            BY <3>1 DEF HistoryInv, Done, Promoted
        <3>6. C!Apply(passBar.target, Promoted, Done)
            <4>1. role = PlannedRole /\ source = PlannedSource
                BY <3>1 DEF HistoryInv
            <4>2. role' = role /\ source' = source
                BY <2>7 DEF ControlOpFails
            <4>3. QED
                BY <3>2, <3>3, <4>1, <4>2 DEF C!Apply, PlannedRole, PlannedSource
        <3>7. UNCHANGED <<config, ready, status>>
            BY <2>7 DEF ControlOpFails
        <3>9. Done \in SUBSET Members
            BY <3>1 DEF Done, PlanPre, PassInv
        <3>10. CASE Promoted
            <4>1. C!FailedPass(TRUE, Done)
                BY <3>3, <3>4, <3>5, <3>6, <3>7, <3>10 DEF C!FailedPass
            <4>2. QED
                BY <3>9, <4>1, FailedPassStep
        <3>11. CASE ~Promoted
            <4>1. C!FailedPass(FALSE, Done)
                BY <3>3, <3>4, <3>5, <3>6, <3>7, <3>11 DEF C!FailedPass, C!Apply
            <4>2. QED
                BY <3>9, <4>1, FailedPassStep
        <3>12. QED
            BY <3>10, <3>11
    <2>8. CASE ReportPrimary
        <3>1. pass.pc = "Reconfigure" /\ pass'.pc = "Idle" /\ pass.todo = {}
            BY <2>8 DEF ReportPrimary, PassIdle
        <3>2. roleBar = preRole /\ sourceBar = preSource
              /\ roleBar' = role' /\ sourceBar' = source'
            BY <3>1 DEF roleBar, sourceBar
        <3>3. /\ passBar # C!NoPass
              /\ passBar.obs = pass.observed /\ passBar.target = pass.target
              /\ pass.target \in Members
              /\ passBar' = C!NoPass
            BY <3>1, PassBarRunning DEF passBar, C!NoPass
        <3>4. C!Plan(passBar.obs, passBar.target) = PlanPre
            BY <3>2, <3>3 DEF C!Plan, PlanPre
        <3>5. Done = PlanPre /\ Promoted
            BY <3>1 DEF Done, Promoted
        <3>6. C!Apply(passBar.target, TRUE, C!Plan(passBar.obs, passBar.target))
            <4>1. role = PlannedRole /\ source = PlannedSource
                BY <3>1 DEF HistoryInv
            <4>2. role' = role /\ source' = source
                BY <2>8 DEF ReportPrimary
            <4>3. QED
                BY <3>2, <3>3, <3>4, <3>5, <4>1, <4>2
                DEF C!Apply, PlannedRole, PlannedSource
        <3>7. /\ status' = [current |-> passBar.target, readyCond |-> TRUE]
              /\ UNCHANGED <<config, ready>>
            BY <2>8, <3>3 DEF ReportPrimary
        <3>8. QED
            BY <3>3, <3>6, <3>7 DEF C!Failover, C!Next
    <2>9. QED
        BY <2>0, <2>2, <2>3, <2>4, <2>5, <2>6, <2>7, <2>8, <2>10
        DEF Next, C!cvars
<1>3. QED
    BY <1>1, <1>2, HistoryInvariant, PTL DEF SpecH, C!Spec, Refinement

=============================================================================
