------------------------- MODULE MariaDBBuilderProofs -------------------------
(***************************************************************************)
(* Proofs that the StatefulSet BuildMariadbStatefulSet makes of every      *)
(* admitted MariaDB mounts only volumes it defines and gives every         *)
(* container resolvable credentials, for every set of user specs and every *)
(* bound on user containers.                                               *)
(*                                                                         *)
(* The builder decides the storage, probes and Galera volumes in three     *)
(* functions (mariadbVolumes, mariadbVolumeClaimTemplates,                 *)
(* mariadbVolumeMounts) from the same flags; the lemmas compute the range  *)
(* of each from the flags, and then compare them. Every container and init *)
(* container is the mariadb container, the Galera agent or init container, *)
(* or a user container, whose mounts and env are the mariadb container's   *)
(* or user-given (not modelled, so empty).                                 *)
(***************************************************************************)
EXTENDS MariaDBManifestProofs, SequenceTheorems, FiniteSetTheorems

\* The names of the builder's volumes, claim templates and mounts.
VolumeNames == {"config", "probes", "serviceaccount", "storage", "galera"}

\* An optional part of a list, appended only when its flag is set.
LEMMA OptionalPart ==
    ASSUME NEW S, NEW b \in BOOLEAN, NEW s \in Seq(S)
    PROVE  /\ (IF b THEN s ELSE << >>) \in Seq(S)
           /\ Range(IF b THEN s ELSE << >>) = IF b THEN Range(s) ELSE {}
<1>1. Range(<< >>) = {} /\ << >> \in Seq(S)
    BY DEF Range
<1>2. CASE b
    BY <1>2
<1>3. CASE ~b
    BY <1>1, <1>3
<1>4. QED
    BY <1>2, <1>3

\* The range of a concatenation is the union of the ranges.
LEMMA RangeCat ==
    ASSUME NEW S, NEW s \in Seq(S), NEW t \in Seq(S)
    PROVE  s \o t \in Seq(S) /\ Range(s \o t) = Range(s) \cup Range(t)
BY RangeConcatenation, ConcatProperties

\* The flags the three volume functions read are Booleans.
LEMMA FlagsBoolean ==
    ASSUME NEW m \in MariaDBType
    PROVE  /\ ReplProbesEnabled(m) \in BOOLEAN
           /\ GaleraEnabled(m) \in BOOLEAN
           /\ IsEphemeralStorageEnabled(m) \in BOOLEAN
BY DEF ReplProbesEnabled, ReplicationEnabled, GaleraEnabled,
       IsEphemeralStorageEnabled, MariaDBType

\* The Pod volumes: config, the replication probes' script, the Galera
\* service account, and storage only when it is ephemeral.
LEMMA VolumesRange ==
    ASSUME NEW m \in MariaDBType
    PROVE  /\ mariadbVolumes(m) \in Seq(VolumeNames)
           /\ Range(mariadbVolumes(m)) =
                {"config"} \cup (IF ReplProbesEnabled(m) THEN {"probes"} ELSE {})
                \cup (IF GaleraEnabled(m) THEN {"serviceaccount"} ELSE {})
                \cup (IF IsEphemeralStorageEnabled(m) THEN {"storage"} ELSE {})
<1> DEFINE a == << "config" >>
           b == IF ReplProbesEnabled(m) THEN << "probes" >> ELSE << >>
           c == IF GaleraEnabled(m) THEN << "serviceaccount" >> ELSE << >>
           d == IF IsEphemeralStorageEnabled(m) THEN << "storage" >> ELSE << >>
<1>1. /\ a \in Seq(VolumeNames) /\ Range(a) = {"config"}
      /\ << "probes" >> \in Seq(VolumeNames) /\ Range(<< "probes" >>) = {"probes"}
      /\ << "serviceaccount" >> \in Seq(VolumeNames)
      /\ Range(<< "serviceaccount" >>) = {"serviceaccount"}
      /\ << "storage" >> \in Seq(VolumeNames) /\ Range(<< "storage" >>) = {"storage"}
    BY DEF Range, VolumeNames
<1>2. /\ b \in Seq(VolumeNames)
      /\ Range(b) = IF ReplProbesEnabled(m) THEN {"probes"} ELSE {}
      /\ c \in Seq(VolumeNames)
      /\ Range(c) = IF GaleraEnabled(m) THEN {"serviceaccount"} ELSE {}
      /\ d \in Seq(VolumeNames)
      /\ Range(d) = IF IsEphemeralStorageEnabled(m) THEN {"storage"} ELSE {}
    BY <1>1, FlagsBoolean, OptionalPart
<1> HIDE DEF a, b, c, d
<1>3. \A s, t \in Seq(VolumeNames) :
          s \o t \in Seq(VolumeNames) /\ Range(s \o t) = Range(s) \cup Range(t)
    BY RangeCat
<1>4. a \o b \o c \o d \in Seq(VolumeNames)
      /\ Range(a \o b \o c \o d) = Range(a) \cup Range(b) \cup Range(c) \cup Range(d)
    <2>1. a \o b \in Seq(VolumeNames) /\ Range(a \o b) = Range(a) \cup Range(b)
        BY <1>1, <1>2, <1>3
    <2>2. a \o b \o c \in Seq(VolumeNames)
          /\ Range(a \o b \o c) = Range(a) \cup Range(b) \cup Range(c)
        BY <1>2, <1>3, <2>1
    <2>3. QED
        BY <1>2, <1>3, <2>2
<1>5. QED
    BY <1>1, <1>2, <1>4 DEF mariadbVolumes, a, b, c, d

\* The claim templates: storage unless it is ephemeral, and Galera's.
LEMMA ClaimsRange ==
    ASSUME NEW m \in MariaDBType
    PROVE  /\ mariadbVolumeClaimTemplates(m) \in Seq(VolumeNames)
           /\ Range(mariadbVolumeClaimTemplates(m)) =
                (IF ~IsEphemeralStorageEnabled(m) THEN {"storage"} ELSE {})
                \cup (IF GaleraEnabled(m) THEN {"galera"} ELSE {})
<1> DEFINE a == IF ~IsEphemeralStorageEnabled(m) THEN << "storage" >> ELSE << >>
           b == IF GaleraEnabled(m) THEN << "galera" >> ELSE << >>
<1>1. /\ << "storage" >> \in Seq(VolumeNames) /\ Range(<< "storage" >>) = {"storage"}
      /\ << "galera" >> \in Seq(VolumeNames) /\ Range(<< "galera" >>) = {"galera"}
    BY DEF Range, VolumeNames
<1>2. /\ a \in Seq(VolumeNames)
      /\ Range(a) = IF ~IsEphemeralStorageEnabled(m) THEN {"storage"} ELSE {}
      /\ b \in Seq(VolumeNames)
      /\ Range(b) = IF GaleraEnabled(m) THEN {"galera"} ELSE {}
    BY <1>1, FlagsBoolean, OptionalPart
<1> HIDE DEF a, b
<1>3. a \o b \in Seq(VolumeNames) /\ Range(a \o b) = Range(a) \cup Range(b)
    BY <1>2, RangeCat
<1>4. QED
    BY <1>2, <1>3 DEF mariadbVolumeClaimTemplates, a, b

\* The mounts of the mariadb container: storage and config always, the
\* probes' script, and Galera's claim and service account.
LEMMA MountsRange ==
    ASSUME NEW m \in MariaDBType
    PROVE  /\ mariadbVolumeMounts(m) \in Seq(VolumeNames)
           /\ Range(mariadbVolumeMounts(m)) =
                {"storage", "config"} \cup (IF ReplProbesEnabled(m) THEN {"probes"} ELSE {})
                \cup (IF GaleraEnabled(m) THEN {"galera", "serviceaccount"} ELSE {})
<1> DEFINE a == << "storage", "config" >>
           b == IF ReplProbesEnabled(m) THEN << "probes" >> ELSE << >>
           c == IF GaleraEnabled(m) THEN << "galera", "serviceaccount" >> ELSE << >>
<1>1. /\ a \in Seq(VolumeNames) /\ Range(a) = {"storage", "config"}
      /\ << "probes" >> \in Seq(VolumeNames) /\ Range(<< "probes" >>) = {"probes"}
      /\ << "galera", "serviceaccount" >> \in Seq(VolumeNames)
      /\ Range(<< "galera", "serviceaccount" >>) = {"galera", "serviceaccount"}
    BY DEF Range, VolumeNames
<1>2. /\ b \in Seq(VolumeNames)
      /\ Range(b) = IF ReplProbesEnabled(m) THEN {"probes"} ELSE {}
      /\ c \in Seq(VolumeNames)
      /\ Range(c) = IF GaleraEnabled(m) THEN {"galera", "serviceaccount"} ELSE {}
    BY <1>1, FlagsBoolean, OptionalPart
<1> HIDE DEF a, b, c
<1>3. \A s, t \in Seq(VolumeNames) :
          s \o t \in Seq(VolumeNames) /\ Range(s \o t) = Range(s) \cup Range(t)
    BY RangeCat
<1>4. a \o b \o c \in Seq(VolumeNames)
      /\ Range(a \o b \o c) = Range(a) \cup Range(b) \cup Range(c)
    <2>1. a \o b \in Seq(VolumeNames) /\ Range(a \o b) = Range(a) \cup Range(b)
        BY <1>1, <1>2, <1>3
    <2>2. QED
        BY <1>2, <1>3, <2>1
<1>5. QED
    BY <1>1, <1>2, <1>4 DEF mariadbVolumeMounts, a, b, c

\* No volume and no claim template is defined twice.
LEMMA VolumesInjective ==
    ASSUME NEW m \in MariaDBType
    PROVE  IsInjective(mariadbVolumes(m)) /\ IsInjective(mariadbVolumeClaimTemplates(m))
BY DEF mariadbVolumes, mariadbVolumeClaimTemplates, IsInjective


\* A list of user containers the type allows is a sequence.
LEMMA BoundedSeqIsSeq ==
    ASSUME NEW S, NEW n \in Nat, NEW s \in BoundedSeq(S, n)
    PROVE  s \in Seq(S)
BY DEF BoundedSeq, SeqOf

\* What each built container is: its mounts and env are the mariadb
\* container's, or empty (user-given ones are not modelled).
BuiltContainer(m) ==
    [kind : {"mariadb", "agent", "sidecar", "init", "user-init"},
     mounts : {mariadbVolumeMounts(m), << >>},
     env : {mariadbEnv(m), {}},
     probe : {"repl", "galera", "default", "agent", "none"}]

\* A user container is a built container.
LEMMA UserContainerShape ==
    ASSUME NEW m \in MariaDBType, NEW c \in ContainerSpec,
           NEW kind \in {"sidecar", "user-init"}
    PROVE  UserContainer(kind, c, m) \in BuiltContainer(m)
BY DEF UserContainer, Container, BuiltContainer, ContainerSpec

\* The user containers of a list, in order.
LEMMA UserContainersShape ==
    ASSUME NEW m \in MariaDBType, NEW s \in BoundedSeq(ContainerSpec, MaxContainers),
           NEW kind \in {"sidecar", "user-init"}
    PROVE  [i \in 1..Len(s) |-> UserContainer(kind, s[i], m)] \in Seq(BuiltContainer(m))
<1>1. s \in Seq(ContainerSpec)
    BY BoundedSeqIsSeq, MaxContainersAssumption
<1>2. \A i \in 1..Len(s) : UserContainer(kind, s[i], m) \in BuiltContainer(m)
    BY <1>1, UserContainerShape
<1>3. QED
    BY <1>1, <1>2

\* Every container and init container of the StatefulSet is a built
\* container.
LEMMA ContainersShape ==
    ASSUME NEW m \in MariaDBType
    PROVE  mariadbContainers(m) \o mariadbInitContainers(m) \in Seq(BuiltContainer(m))
<1> DEFINE BC == BuiltContainer(m)
           main == << Container("mariadb", mariadbVolumeMounts(m), mariadbEnv(m),
                                mariadbProbe(m)) >>
           agent == IF GaleraEnabled(m) THEN << galeraAgentContainer(m) >> ELSE << >>
           side == [i \in 1..Len(m.sidecarContainers) |->
                       UserContainer("sidecar", m.sidecarContainers[i], m)]
           uinit == [i \in 1..Len(m.initContainers) |->
                        UserContainer("user-init", m.initContainers[i], m)]
           ginit == IF GaleraEnabled(m) THEN << galeraInitContainer(m) >> ELSE << >>
<1>1. main \in Seq(BC)
    BY DEF Container, mariadbProbe, BuiltContainer
<1>2. agent \in Seq(BC) /\ ginit \in Seq(BC)
    <2>1. << galeraAgentContainer(m) >> \in Seq(BC)
          /\ << galeraInitContainer(m) >> \in Seq(BC)
        BY DEF galeraAgentContainer, galeraInitContainer, Container, BuiltContainer
    <2>2. QED
        BY <2>1, FlagsBoolean, OptionalPart
<1>3. side \in Seq(BC) /\ uinit \in Seq(BC)
    BY UserContainersShape DEF MariaDBType
<1> HIDE DEF BC, main, agent, side, uinit, ginit
<1>4. \A s, t \in Seq(BC) : s \o t \in Seq(BC)
    BY RangeCat
<1>5. main \o agent \o side \o (uinit \o ginit) \in Seq(BC)
    BY <1>1, <1>2, <1>3, <1>4
<1>6. QED
    BY <1>5 DEF mariadbContainers, mariadbInitContainers, BC, main, agent, side,
       uinit, ginit


\* Every mount of the mariadb container names a Pod volume or a claim
\* template: the three functions agree on the storage, probes and Galera
\* flags.
LEMMA MountsResolve ==
    ASSUME NEW m \in MariaDBType
    PROVE  Range(mariadbVolumeMounts(m))
             \subseteq Range(mariadbVolumes(m)) \cup Range(mariadbVolumeClaimTemplates(m))
BY VolumesRange, ClaimsRange, MountsRange, FlagsBoolean

\* Pod volumes and claim templates never share a name.
LEMMA VolumesClaimsDisjoint ==
    ASSUME NEW m \in MariaDBType
    PROVE  Range(mariadbVolumes(m)) \cap Range(mariadbVolumeClaimTemplates(m)) = {}
BY VolumesRange, ClaimsRange, FlagsBoolean

-----------------------------------------------------------------------------
(***************************************************************************)
(* PodVolumesConsistent for every admitted MariaDB: every mount of every   *)
(* container and init container BuildMariadbStatefulSet generates names    *)
(* exactly one Pod volume or claim template, and none is defined twice.    *)
(***************************************************************************)
THEOREM PodVolumesCorrect == Spec => []PodVolumesConsistent
<1>1. TypeOK => PodVolumesConsistent
    <2> SUFFICES ASSUME TypeOK PROVE PodVolumesConsistent
        OBVIOUS
    <2> DEFINE m == mdb
               cs == mariadbContainers(m) \o mariadbInitContainers(m)
    <2>1. m \in MariaDBType
        BY DEF TypeOK
    <2>2. Range(cs) \subseteq BuiltContainer(m)
        BY <2>1, ContainersShape, RangeOfSeq
    <2>3. ASSUME NEW c \in Range(cs)
          PROVE  Range(c.mounts)
                   \subseteq Range(mariadbVolumes(m)) \cup Range(mariadbVolumeClaimTemplates(m))
        <3>1. c.mounts \in {mariadbVolumeMounts(m), << >>}
            BY <2>2, <2>3 DEF BuiltContainer
        <3>2. Range(<< >>) = {}
            BY DEF Range
        <3>3. QED
            BY <2>1, <3>1, <3>2, MountsResolve
    <2>4. QED
        BY <2>1, <2>3, VolumesInjective, VolumesClaimsDisjoint
        DEF PodVolumesConsistent, BuildMariadbStatefulSet
<1>2. QED
    BY <1>1, TypeCorrect, PTL


-----------------------------------------------------------------------------
(***************************************************************************)
(* Credentials. SetDefaults sets the root password reference unless the    *)
(* root password is empty, reading rootEmptyPassword after defaulting it,  *)
(* and the initial user's password reference whenever there is an initial  *)
(* user. Every stored MariaDB is the result of SetDefaults.                *)
(***************************************************************************)
SecretRefsDefaulted(m) ==
    /\ ~IsRootPasswordEmpty(m) => m.rootPasswordSecretKeyRef # "empty"
    /\ IsInitialDataEnabled(m) => m.passwordSecretKeyRef # "nil"

\* SetDefaults leaves both secret references set where they are needed.
LEMMA SetDefaultsRefs ==
    ASSUME NEW x \in MariaDBType
    PROVE  SecretRefsDefaulted(SetDefaults(x))
<1> DEFINE m1 == [x EXCEPT !.image = Default(@, "empty"),
                           !.ephemeralStorage = IF @ = "nil" THEN "false" ELSE @,
                           !.rootEmptyPassword = IF @ = "nil" THEN "false" ELSE @]
<1>1. /\ m1.rootEmptyPassword = (IF x.rootEmptyPassword = "nil" THEN "false"
                                 ELSE x.rootEmptyPassword)
      /\ m1.rootPasswordSecretKeyRef = x.rootPasswordSecretKeyRef
      /\ m1.username = x.username
      /\ m1.passwordSecretKeyRef = x.passwordSecretKeyRef
    BY DEF MariaDBType
<1> HIDE DEF m1
<1>2. /\ SetDefaults(x).rootEmptyPassword = m1.rootEmptyPassword
      /\ SetDefaults(x).rootPasswordSecretKeyRef = DefaultRootPasswordSecretKeyRef(m1)
      /\ SetDefaults(x).username = m1.username
      /\ SetDefaults(x).passwordSecretKeyRef =
            IF IsInitialDataEnabled(m1) /\ m1.passwordSecretKeyRef = "nil"
            THEN "dflt" ELSE m1.passwordSecretKeyRef
    BY DEF SetDefaults, m1, MariaDBType
<1>3. QED
    BY <1>1, <1>2 DEF SecretRefsDefaulted, DefaultRootPasswordSecretKeyRef,
       IsRootPasswordEmpty, IsInitialDataEnabled

\* Every admitted and every updated MariaDB has both references set.
LEMMA RefsInvariant == Spec => [](TypeOK /\ SecretRefsDefaulted(mdb))
<1>1. Init => SecretRefsDefaulted(mdb)
    BY SetDefaultsRefs, UserSpecsAssumption DEF Init
<1>2. TypeOK /\ SecretRefsDefaulted(mdb) /\ [Next]_vars => SecretRefsDefaulted(mdb)'
    <2> SUFFICES ASSUME TypeOK, SecretRefsDefaulted(mdb), [Next]_vars
                 PROVE  SecretRefsDefaulted(mdb)'
        OBVIOUS
    <2>1. ASSUME NEW f \in Fields, NEW v \in InputValues[f], Update(f, v)
          PROVE  SecretRefsDefaulted(mdb)'
        BY <2>1, PatchType, SetDefaultsRefs DEF Update, TypeOK
    <2>2. CASE UNCHANGED vars
        BY <2>2 DEF vars, SecretRefsDefaulted, IsRootPasswordEmpty, IsInitialDataEnabled
    <2>3. QED
        BY <2>1, <2>2 DEF Next
<1>3. QED
    BY <1>1, <1>2, TypeCorrect, PTL DEF Spec


\* The mariadb container's env for a defaulted MariaDB: one root credential
\* variable, secrets read from set references, and the password with the
\* user.
LEMMA EnvResolvable ==
    ASSUME NEW m \in MariaDBType, SecretRefsDefaulted(m)
    PROVE  LET names == {e.name : e \in mariadbEnv(m)}
           IN  /\ Cardinality(names \cap {"MARIADB_ROOT_PASSWORD",
                                          "MARIADB_ALLOW_EMPTY_ROOT_PASSWORD"}) = 1
               /\ \A e \in mariadbEnv(m) : e.ref # "empty"
               /\ "MARIADB_USER" \in names => "MARIADB_PASSWORD" \in names
<1> DEFINE Names(E) == {e.name : e \in E}
           Creds == {"MARIADB_ROOT_PASSWORD", "MARIADB_ALLOW_EMPTY_ROOT_PASSWORD"}
           root == IF IsRootPasswordEmpty(m)
                   THEN {EnvVar("MARIADB_ALLOW_EMPTY_ROOT_PASSWORD", "value")}
                   ELSE {EnvVar("MARIADB_ROOT_PASSWORD", m.rootPasswordSecretKeyRef)}
           user == IF ~ReplicationEnabled(m)
                   THEN (IF m.database # "nil" THEN {EnvVar("MARIADB_DATABASE", "value")} ELSE {})
                        \cup (IF m.username # "nil" THEN {EnvVar("MARIADB_USER", "value")} ELSE {})
                        \cup (IF m.passwordSecretKeyRef # "nil"
                              THEN {EnvVar("MARIADB_PASSWORD", m.passwordSecretKeyRef)} ELSE {})
                   ELSE {}
<1>1. mariadbEnv(m) = BaseEnv \cup root \cup user
    BY DEF mariadbEnv
<1>2. Names(BaseEnv) \cap Creds = {} /\ \A e \in BaseEnv : e.ref = "value"
    BY DEF BaseEnv, EnvVar
<1>3. /\ Names(root) \cap Creds
           = IF IsRootPasswordEmpty(m) THEN {"MARIADB_ALLOW_EMPTY_ROOT_PASSWORD"}
             ELSE {"MARIADB_ROOT_PASSWORD"}
      /\ \A e \in root : e.ref # "empty"
    <2>1. CASE IsRootPasswordEmpty(m)
        BY <2>1 DEF EnvVar
    <2>2. CASE ~IsRootPasswordEmpty(m)
        BY <2>2 DEF EnvVar, SecretRefsDefaulted
    <2>3. QED
        BY <2>1, <2>2
<1>4. /\ Names(user) \cap Creds = {}
      /\ \A e \in user : e.ref # "empty"
      /\ "MARIADB_USER" \in Names(user) => "MARIADB_PASSWORD" \in Names(user)
    <2>1. m.passwordSecretKeyRef \in Ptr
        BY DEF MariaDBType
    <2>2. CASE ReplicationEnabled(m)
        BY <2>2
    <2>3. CASE ~ReplicationEnabled(m)
        <3> DEFINE db == IF m.database # "nil" THEN {EnvVar("MARIADB_DATABASE", "value")} ELSE {}
                   us == IF m.username # "nil" THEN {EnvVar("MARIADB_USER", "value")} ELSE {}
                   pw == IF m.passwordSecretKeyRef # "nil"
                         THEN {EnvVar("MARIADB_PASSWORD", m.passwordSecretKeyRef)} ELSE {}
        <3>1. user = db \cup us \cup pw
            BY <2>3 DEF user
        <3>2. Names(db) \subseteq {"MARIADB_DATABASE"} /\ \A e \in db : e.ref = "value"
            BY DEF EnvVar
        <3>3. /\ Names(us) \subseteq {"MARIADB_USER"} /\ \A e \in us : e.ref = "value"
              /\ "MARIADB_USER" \in Names(us) => m.username # "nil"
            BY DEF EnvVar
        <3>4. /\ Names(pw) \subseteq {"MARIADB_PASSWORD"}
              /\ \A e \in pw : e.ref # "empty"
              /\ m.passwordSecretKeyRef # "nil" => "MARIADB_PASSWORD" \in Names(pw)
            <4>1. CASE m.passwordSecretKeyRef = "nil"
                BY <4>1
            <4>2. CASE m.passwordSecretKeyRef # "nil"
                <5>1. m.passwordSecretKeyRef # "empty"
                    BY <2>1, <4>2 DEF Ptr
                <5>2. pw = {[name |-> "MARIADB_PASSWORD", ref |-> m.passwordSecretKeyRef]}
                    BY <4>2 DEF EnvVar
                <5>3. QED
                    BY <5>1, <5>2
            <4>3. QED
                BY <4>1, <4>2
        <3>5. m.username # "nil" => m.passwordSecretKeyRef # "nil"
            BY DEF SecretRefsDefaulted, IsInitialDataEnabled
        <3>6. Names(user) = Names(db) \cup Names(us) \cup Names(pw)
            BY <3>1
        <3> HIDE DEF db, us, pw, Names
        <3>7. QED
            BY <3>1, <3>2, <3>3, <3>4, <3>5, <3>6
    <2>4. QED
        BY <2>2, <2>3
<1>5. /\ Names(mariadbEnv(m)) = Names(BaseEnv) \cup Names(root) \cup Names(user)
      /\ "MARIADB_USER" \notin Names(BaseEnv) \cup Names(root)
    BY <1>1 DEF BaseEnv, EnvVar
<1> HIDE DEF root, user
<1>6. Names(mariadbEnv(m)) \cap Creds
        = IF IsRootPasswordEmpty(m) THEN {"MARIADB_ALLOW_EMPTY_ROOT_PASSWORD"}
          ELSE {"MARIADB_ROOT_PASSWORD"}
    BY <1>2, <1>3, <1>4, <1>5
<1>7. Cardinality(Names(mariadbEnv(m)) \cap Creds) = 1
    BY <1>6, FS_Singleton
<1>8. \A e \in mariadbEnv(m) : e.ref # "empty"
    BY <1>1, <1>2, <1>3, <1>4
<1>9. "MARIADB_USER" \in Names(mariadbEnv(m)) => "MARIADB_PASSWORD" \in Names(mariadbEnv(m))
    BY <1>4, <1>5
<1>10. QED
    BY <1>7, <1>8, <1>9

(***************************************************************************)
(* CredentialsResolvable for every admitted MariaDB: every container       *)
(* given the operator's env (the mariadb container, Galera's init          *)
(* container and user containers with nil env) has exactly one root        *)
(* credential variable, reads its secrets from set references, and gets    *)
(* MARIADB_PASSWORD whenever it gets MARIADB_USER.                         *)
(***************************************************************************)
THEOREM CredentialsCorrect == Spec => []CredentialsResolvable
<1>1. TypeOK /\ SecretRefsDefaulted(mdb) => CredentialsResolvable
    <2> SUFFICES ASSUME TypeOK, SecretRefsDefaulted(mdb) PROVE CredentialsResolvable
        OBVIOUS
    <2> DEFINE m == mdb
               cs == mariadbContainers(m) \o mariadbInitContainers(m)
    <2>1. m \in MariaDBType
        BY DEF TypeOK
    <2>2. Range(cs) \subseteq BuiltContainer(m)
        BY <2>1, ContainersShape, RangeOfSeq
    <2>3. ASSUME NEW c \in Range(cs), c.env # {}
          PROVE  LET names == {e.name : e \in c.env}
                 IN  /\ Cardinality(names \cap {"MARIADB_ROOT_PASSWORD",
                                                "MARIADB_ALLOW_EMPTY_ROOT_PASSWORD"}) = 1
                     /\ \A e \in c.env : e.ref # "empty"
                     /\ "MARIADB_USER" \in names => "MARIADB_PASSWORD" \in names
        <3>1. c.env = mariadbEnv(m)
            BY <2>2, <2>3 DEF BuiltContainer
        <3>2. QED
            BY <2>1, <3>1, EnvResolvable
    <2>4. QED
        BY <2>3 DEF CredentialsResolvable, BuildMariadbStatefulSet
<1>2. QED
    BY <1>1, RefsInvariant, PTL

=============================================================================
