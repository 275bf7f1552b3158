----------------------- MODULE PrimaryFailoverContract -----------------------
(***************************************************************************)
(* What the Primary Failover Controller promises (spec.md sections 4.4, 7  *)
(* and 9). A pass has two atomic steps: it observes which members are      *)
(* ready and picks a target the election rule allows for that observation *)
(* and the configuration of that moment; later it either completes the    *)
(* plan computed from that observation and reports the target, or fails    *)
(* having applied nothing, or the promotion and part of the plan, and      *)
(* reports nothing. Members and the configuration may change in between.   *)
(* Which member is most advanced is the detailed module's concern: the     *)
(* contract does not see replication positions.                            *)
(***************************************************************************)
EXTENDS Naturals

CONSTANTS Members, None

VARIABLES config, ready, role, source, status,
          pass   \* the pass in progress: its observation and target, or NoPass

cvars == <<config, ready, role, source, status, pass>>

NoPass == [obs |-> {}, target |-> None]

Init ==
    /\ config \in [podIndex : Members, auto : BOOLEAN]
    /\ ready = [i \in Members |-> TRUE]
    /\ role = [i \in Members |-> "replica"]
    /\ source = [i \in Members |-> None]
    /\ status = [current |-> None, readyCond |-> FALSE]
    /\ pass = NoPass

MemberDown(i) ==
    /\ ready[i]
    /\ ready' = [ready EXCEPT ![i] = FALSE]
    /\ UNCHANGED <<config, role, source, status, pass>>

MemberUp(i) ==
    /\ ~ready[i]
    /\ ready' = [ready EXCEPT ![i] = TRUE]
    /\ UNCHANGED <<config, role, source, status, pass>>

UpdateConfig(c) ==
    /\ config' = c
    /\ UNCHANGED <<ready, role, source, status, pass>>

\* The members ready now.
ReadySet == {i \in Members : ready[i]}

\* A target the election rule allows for observation obs.
Allowed(obs, t) ==
    /\ t \in obs
    /\ config.podIndex \in obs => t = config.podIndex
    /\ config.podIndex \notin obs => config.auto

\* The members a plan targeting t reconfigures.
Plan(obs, t) == {i \in obs \ {t} : ~(role[i] = "replica" /\ source[i] = t)}

\* Apply the promotion of t (if promoted) and the reconfiguration of done.
Apply(t, promoted, done) ==
    /\ role' = [i \in Members |->
                  IF i \in done THEN "replica"
                  ELSE IF i = t /\ promoted THEN "primary" ELSE role[i]]
    /\ source' = [i \in Members |->
                  IF i \in done THEN t
                  ELSE IF i = t /\ promoted THEN None ELSE source[i]]

\* A pass starts: it observes the ready members and picks an allowed target.
Observe(t) ==
    /\ pass = NoPass
    /\ Allowed(ReadySet, t)
    /\ pass' = [obs |-> ReadySet, target |-> t]
    /\ UNCHANGED <<config, ready, role, source, status>>

\* The pass completes the whole plan of its observation and reports its
\* target with Ready=True.
Failover ==
    /\ pass # NoPass
    /\ Apply(pass.target, TRUE, Plan(pass.obs, pass.target))
    /\ status' = [current |-> pass.target, readyCond |-> TRUE]
    /\ pass' = NoPass
    /\ UNCHANGED <<config, ready>>

\* The pass fails part way: nothing, or the promotion and part of the
\* reconfigurations, are applied; the status is left as it was.
FailedPass(promoted, done) ==
    /\ pass # NoPass
    /\ done \subseteq Plan(pass.obs, pass.target)
    /\ done # {} => promoted
    /\ Apply(pass.target, promoted, done)
    /\ pass' = NoPass
    /\ UNCHANGED <<config, ready, status>>

\* A pass that finds no target reports Ready=False, and only while the
\* configured primary is not ready (it reads readiness when it runs).
NoTarget ==
    /\ pass = NoPass
    /\ ~ready[config.podIndex]
    /\ status' = [status EXCEPT !.readyCond = FALSE]
    /\ UNCHANGED <<config, ready, role, source, pass>>

Next ==
    \/ \E i \in Members : MemberDown(i) \/ MemberUp(i)
    \/ \E c \in [podIndex : Members, auto : BOOLEAN] : UpdateConfig(c)
    \/ \E t \in Members : Observe(t)
    \/ Failover
    \/ \E promoted \in BOOLEAN, done \in SUBSET Members :
          FailedPass(promoted, done)
    \/ NoTarget

Spec == Init /\ [][Next]_cvars

=============================================================================
