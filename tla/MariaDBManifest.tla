--------------------------- MODULE MariaDBManifest ---------------------------
(***************************************************************************)
(* The MariaDB object as it is stored and the StatefulSet built from it.   *)
(*                                                                         *)
(* A user creates a MariaDB and then updates one field at a time (a patch  *)
(* or an apply). Every admitted object has gone through MariaDB.SetDefaults *)
(* (api/v1alpha1/mariadb_types.go) and the webhook's checks: the           *)
(* "inmutable"/"inmutableinit" tags of MariaDBSpec and the exclusivity and *)
(* fixity of the HA mode (spec.md section 3). The StatefulSet the MariaDB  *)
(* controller applies is BuildMariadbStatefulSet of the stored object      *)
(* (pkg/builder). Its annotations decide which of the controllers wired in *)
(* cmd/controller/main.go receive its events and its Pods' events.         *)
(*                                                                         *)
(* Data is abstracted to what the properties tell apart: a string field is *)
(* "empty" (Go's zero string ""), "user" (set by the user) or "dflt" (set *)
(* by defaulting); a pointer is "nil", "user" or "dflt"; a *bool is "nil", *)
(* "false" or "true".                                                      *)
(***************************************************************************)
EXTENDS Naturals, Sequences, SequencesExt

CONSTANTS
    UserSpecs,     \* the MariaDB specs users submit
    MaxContainers  \* bound on user sidecar and init containers

VARIABLE mdb  \* the stored MariaDB spec

vars == <<mdb>>

Str == {"empty", "user", "dflt"}
Ptr == {"nil", "user", "dflt"}
PtrBool == {"nil", "false", "true"}

\* A user sidecar or init container: its volumeMounts and env are either
\* left nil or given by the user.
ContainerSpec == [volumeMounts : {"nil", "user"}, env : {"nil", "user"}]

MetricsType ==
    [present : BOOLEAN, enabled : BOOLEAN, exporterImage : Str,
     exporterPort : Str, username : Str, passwordSecretKeyRef : Str]

\* MariaDBSpec, restricted to the fields the operator's logic reads.
MariaDBType ==
    [image : Str, rootPasswordSecretKeyRef : Str, rootEmptyPassword : PtrBool,
     database : Ptr, username : Ptr, passwordSecretKeyRef : Ptr,
     myCnf : Ptr, myCnfConfigMapKeyRef : Ptr, port : Str,
     ephemeralStorage : PtrBool, metrics : MetricsType,
     maxScale : PtrBool, maxScaleRef : Ptr,
     replication : [enabled : BOOLEAN, probesEnabled : PtrBool],
     galera : [enabled : BOOLEAN],
     sidecarContainers : BoundedSeq(ContainerSpec, MaxContainers),
     initContainers : BoundedSeq(ContainerSpec, MaxContainers)]

ASSUME UserSpecsAssumption == UserSpecs \subseteq MariaDBType
ASSUME MaxContainersAssumption == MaxContainers \in Nat

-----------------------------------------------------------------------------
(***************************************************************************)
(* Accessors of MariaDB (mariadb_types.go).                                *)
(***************************************************************************)
IsRootPasswordEmpty(m) == m.rootEmptyPassword = "true"

AreMetricsEnabled(m) == m.metrics.present /\ m.metrics.enabled

IsInitialDataEnabled(m) == m.username # "nil"

IsEphemeralStorageEnabled(m) == m.ephemeralStorage = "true"

IsMaxScaleEnabled(m) == m.maxScaleRef # "nil"

\* Replication() and Galera() fill a nil configuration with defaults; a
\* nil configuration is a disabled one.
ReplicationEnabled(m) == m.replication.enabled

GaleraEnabled(m) == m.galera.enabled

IsHAEnabled(m) == ReplicationEnabled(m) \/ GaleraEnabled(m)

\* Replication().Enabled && ptr.Deref(Replication().ProbesEnabled, false)
ReplProbesEnabled(m) ==
    ReplicationEnabled(m) /\ m.replication.probesEnabled = "true"

-----------------------------------------------------------------------------
(***************************************************************************)
(* MariaDB.SetDefaults. A field is defaulted only while it is zero; the    *)
(* root password reference is defaulted after rootEmptyPassword is.        *)
(***************************************************************************)
\* Mutant: a default that writes a nil pointer into a value field.
DefaultToNil(v, zero) == IF v = zero THEN "nil" ELSE v

Default(v, zero) == IF v = zero THEN "dflt" ELSE v

DefaultMetrics(x) ==
    [x EXCEPT !.exporterImage = Default(@, "empty"),
              !.exporterPort = Default(@, "empty"),
              !.username = Default(@, "empty"),
              !.passwordSecretKeyRef = Default(@, "empty")]

\* Mutant: the root password reference defaulted only while the
\* rootEmptyPassword flag is still unset.
DefaultRootRefIfFlagUnset(m) ==
    IF m.rootPasswordSecretKeyRef = "empty" /\ m.rootEmptyPassword = "nil"
    THEN "dflt" ELSE m.rootPasswordSecretKeyRef

DefaultRootPasswordSecretKeyRef(m) ==
    IF m.rootPasswordSecretKeyRef = "empty" /\ ~IsRootPasswordEmpty(m)
    THEN "dflt" ELSE m.rootPasswordSecretKeyRef

SetDefaults(m) ==
    LET m1 == [m EXCEPT !.image = Default(@, "empty"),
                        !.ephemeralStorage = IF @ = "nil" THEN "false" ELSE @,
                        !.rootEmptyPassword = IF @ = "nil" THEN "false" ELSE @]
    IN [m1 EXCEPT
          !.rootPasswordSecretKeyRef = DefaultRootPasswordSecretKeyRef(m1),
          !.port = Default(@, "empty"),
          !.myCnfConfigMapKeyRef =
              IF m1.myCnf # "nil" /\ @ = "nil" THEN "dflt" ELSE @,
          !.passwordSecretKeyRef =
              IF IsInitialDataEnabled(m1) /\ @ = "nil" THEN "dflt" ELSE @,
          !.metrics = IF AreMetricsEnabled(m1) THEN DefaultMetrics(@) ELSE @,
          !.maxScaleRef =
              IF m1.maxScale = "true" /\ @ = "nil" THEN "dflt" ELSE @]

-----------------------------------------------------------------------------
(***************************************************************************)
(* Admission checks. The tags are those of MariaDBSpec; their enforcement  *)
(* and the HA-mode rules are taken from the spec.                          *)
(***************************************************************************)
Zero(v) == v \in {"empty", "nil"}

InmutableFields == {"database", "username", "myCnf"}

InmutableInitFields ==
    {"rootPasswordSecretKeyRef", "rootEmptyPassword", "passwordSecretKeyRef",
     "myCnfConfigMapKeyRef", "ephemeralStorage"}

\* "inmutable": never changes; "inmutableinit": never changes once set.
Immutable(old, new) ==
    /\ \A f \in InmutableFields : new[f] = old[f]
    /\ \A f \in InmutableInitFields : ~Zero(old[f]) => new[f] = old[f]
    /\ \A f \in {"username", "passwordSecretKeyRef"} :
           ~Zero(old.metrics[f]) => new.metrics[f] = old.metrics[f]

\* At most one HA mode, fixed at creation.
ValidMode(m) == ~(ReplicationEnabled(m) /\ GaleraEnabled(m))

ModeFixed(old, new) ==
    /\ ReplicationEnabled(new) = ReplicationEnabled(old)
    /\ GaleraEnabled(new) = GaleraEnabled(old)

-----------------------------------------------------------------------------
(***************************************************************************)
(* The StatefulSet (pkg/builder/statefulset_builder.go and                 *)
(* statefulset_container_builder.go). Volumes, claims and mounts are       *)
(* sequences of names in the order the builder appends them; an env is the *)
(* set of variables it defines, each with the secret reference it reads.   *)
(***************************************************************************)
\* Mutant: the Galera annotation added for either HA mode.
HAAnnotationsGaleraForAnyHA(m) ==
    IF IsHAEnabled(m)
    THEN {"mariadb", "galera"} \cup (IF ReplicationEnabled(m) THEN {"replication"} ELSE {})
    ELSE {}

mariadbHAAnnotations(m) ==
    IF IsHAEnabled(m)
    THEN {"mariadb"} \cup (IF ReplicationEnabled(m) THEN {"replication"} ELSE {})
                     \cup (IF GaleraEnabled(m) THEN {"galera"} ELSE {})
    ELSE {}

\* Mutant: the storage claim template built whatever the storage type.
VolumeClaimTemplatesAlways(m) ==
    <<"storage">> \o (IF GaleraEnabled(m) THEN <<"galera">> ELSE <<>>)

mariadbVolumeClaimTemplates(m) ==
    (IF ~IsEphemeralStorageEnabled(m) THEN <<"storage">> ELSE <<>>)
    \o (IF GaleraEnabled(m) THEN <<"galera">> ELSE <<>>)

mariadbVolumes(m) ==
    <<"config">>
    \o (IF ReplProbesEnabled(m) THEN <<"probes">> ELSE <<>>)
    \o (IF GaleraEnabled(m) THEN <<"serviceaccount">> ELSE <<>>)
    \o (IF IsEphemeralStorageEnabled(m) THEN <<"storage">> ELSE <<>>)

mariadbVolumeMounts(m) ==
    <<"storage", "config">>
    \o (IF ReplProbesEnabled(m) THEN <<"probes">> ELSE <<>>)
    \o (IF GaleraEnabled(m) THEN <<"galera", "serviceaccount">> ELSE <<>>)

EnvVar(name, ref) == [name |-> name, ref |-> ref]

\* The fixed variables (port, root host, tzinfo, cluster and Pod name).
BaseEnv == {EnvVar("MYSQL_TCP_PORT", "value"), EnvVar("MARIADB_ROOT_HOST", "value"),
            EnvVar("MYSQL_INITDB_SKIP_TZINFO", "value"),
            EnvVar("CLUSTER_NAME", "value"), EnvVar("POD_NAME", "value")}

mariadbEnv(m) ==
    BaseEnv
    \cup (IF IsRootPasswordEmpty(m)
          THEN {EnvVar("MARIADB_ALLOW_EMPTY_ROOT_PASSWORD", "value")}
          ELSE {EnvVar("MARIADB_ROOT_PASSWORD", m.rootPasswordSecretKeyRef)})
    \cup (IF ~ReplicationEnabled(m)
          THEN (IF m.database # "nil" THEN {EnvVar("MARIADB_DATABASE", "value")} ELSE {})
               \cup (IF m.username # "nil" THEN {EnvVar("MARIADB_USER", "value")} ELSE {})
               \cup (IF m.passwordSecretKeyRef # "nil"
                     THEN {EnvVar("MARIADB_PASSWORD", m.passwordSecretKeyRef)} ELSE {})
          ELSE {})

\* The readiness and liveness probe of the mariadb container (no probe in
\* the spec): the replication script, the wsrep_ready query, or SELECT 1.
mariadbProbe(m) ==
    IF ReplProbesEnabled(m) THEN "repl"
    ELSE IF GaleraEnabled(m) THEN "galera"
    ELSE "default"

Container(kind, mounts, env, probe) ==
    [kind |-> kind, mounts |-> mounts, env |-> env, probe |-> probe]

\* A user container: nil volumeMounts and env are replaced by the mariadb
\* container's; user-given ones name user volumes and are not modelled.
UserContainer(kind, c, m) ==
    Container(kind,
              IF c.volumeMounts = "nil" THEN mariadbVolumeMounts(m) ELSE <<>>,
              IF c.env = "nil" THEN mariadbEnv(m) ELSE {},
              "none")

galeraAgentContainer(m) ==
    Container("agent", mariadbVolumeMounts(m), {}, "agent")

mariadbContainers(m) ==
    <<Container("mariadb", mariadbVolumeMounts(m), mariadbEnv(m), mariadbProbe(m))>>
    \o (IF GaleraEnabled(m) THEN <<galeraAgentContainer(m)>> ELSE <<>>)
    \o [i \in 1..Len(m.sidecarContainers) |->
            UserContainer("sidecar", m.sidecarContainers[i], m)]

galeraInitContainer(m) ==
    Container("init", mariadbVolumeMounts(m), mariadbEnv(m), "none")

mariadbInitContainers(m) ==
    [i \in 1..Len(m.initContainers) |->
        UserContainer("user-init", m.initContainers[i], m)]
    \o (IF GaleraEnabled(m) THEN <<galeraInitContainer(m)>> ELSE <<>>)

BuildMariadbStatefulSet(m) ==
    [annotations    |-> mariadbHAAnnotations(m),
     podAnnotations |-> mariadbHAAnnotations(m),
     claims         |-> mariadbVolumeClaimTemplates(m),
     volumes        |-> mariadbVolumes(m),
     containers     |-> mariadbContainers(m),
     initContainers |-> mariadbInitContainers(m)]

-----------------------------------------------------------------------------
(***************************************************************************)
(* Event routing (cmd/controller/main.go): each controller's annotation    *)
(* predicate passes an object that carries all of its annotations.         *)
(***************************************************************************)
WatchedAnnotations ==
    [StatefulSetGalera |-> {"mariadb", "galera"},
     PodGalera         |-> {"mariadb", "galera"},
     PodReplication    |-> {"mariadb", "replication"}]

Receivers(annotations) ==
    {c \in DOMAIN WatchedAnnotations : WatchedAnnotations[c] \subseteq annotations}

-----------------------------------------------------------------------------
(***************************************************************************)
(* Admission of a new MariaDB, and updates of one field.                   *)
(***************************************************************************)
Init ==
    \E u \in UserSpecs :
        /\ ValidMode(SetDefaults(u))
        /\ mdb = SetDefaults(u)

Fields == DOMAIN CHOOSE u \in UserSpecs : TRUE

\* The values users submit for each field.
InputValues == [f \in Fields |-> {u[f] : u \in UserSpecs}]

Update(f, v) ==
    LET new == SetDefaults([mdb EXCEPT ![f] = v])
    IN /\ new # mdb
       /\ ValidMode(new)
       /\ ModeFixed(mdb, new)
       /\ Immutable(mdb, new)
       /\ mdb' = new

Next == \E f \in Fields : \E v \in InputValues[f] : Update(f, v)

Spec == Init /\ [][Next]_vars

-----------------------------------------------------------------------------
TypeOK == mdb \in MariaDBType

(***************************************************************************)
(* Every volume mount of every container and init container the builder    *)
(* generates resolves to exactly one source: a Pod volume or a claim       *)
(* template, with no name repeated (mariadbVolumes,                        *)
(* mariadbVolumeClaimTemplates and mariadbVolumeMounts must agree on the   *)
(* storage, probes and Galera flags).                                      *)
(***************************************************************************)
PodVolumesConsistent ==
    LET sts == BuildMariadbStatefulSet(mdb)
        vols == Range(sts.volumes)
        claims == Range(sts.claims)
    IN /\ IsInjective(sts.volumes)
       /\ IsInjective(sts.claims)
       /\ vols \cap claims = {}
       /\ \A c \in Range(sts.containers \o sts.initContainers) :
              Range(c.mounts) \subseteq vols \cup claims

(***************************************************************************)
(* Every container given the operator's env gets exactly one root          *)
(* credential variable, reads its secrets from set references, and gets a  *)
(* password whenever it gets an initial user: SetDefaults, re-run on every *)
(* update, keeps mariadbEnv resolvable.                                    *)
(***************************************************************************)
CredentialsResolvable ==
    LET sts == BuildMariadbStatefulSet(mdb)
    IN \A c \in Range(sts.containers \o sts.initContainers) :
         LET names == {e.name : e \in c.env}
         IN c.env # {} =>
              /\ Cardinality(names \cap {"MARIADB_ROOT_PASSWORD",
                                         "MARIADB_ALLOW_EMPTY_ROOT_PASSWORD"}) = 1
              /\ \A e \in c.env : e.ref # "empty"
              /\ "MARIADB_USER" \in names => "MARIADB_PASSWORD" \in names

(***************************************************************************)
(* The StatefulSet and its Pods reach exactly the controllers of the       *)
(* MariaDB's HA mode: the Galera health monitor and Pod controller for     *)
(* Galera, the replication Pod controller for replication, none otherwise  *)
(* (mariadbHAAnnotations against the predicates wired in main.go).         *)
(***************************************************************************)
EventRouting ==
    LET sts == BuildMariadbStatefulSet(mdb)
        expected == IF GaleraEnabled(mdb) THEN {"StatefulSetGalera", "PodGalera"}
                    ELSE IF ReplicationEnabled(mdb) THEN {"PodReplication"}
                    ELSE {}
    IN Receivers(sts.annotations) = expected /\ Receivers(sts.podAnnotations) = expected

(***************************************************************************)
(* IsMaxScaleEnabled ("a MaxScale instance is forwarding traffic to this   *)
(* MariaDB") holds only while maxScale is enabled or the user gave         *)
(* maxScaleRef: SetDefaults sets maxScaleRef when maxScale is enabled and  *)
(* never clears it.                                                        *)
(***************************************************************************)
MaxScaleRefTracksSpec ==
    IsMaxScaleEnabled(mdb) => (mdb.maxScale = "true" \/ mdb.maxScaleRef = "user")

=============================================================================
