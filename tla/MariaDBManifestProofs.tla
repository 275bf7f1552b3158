------------------------ MODULE MariaDBManifestProofs ------------------------
(***************************************************************************)
(* Proofs about MariaDBManifest for every set of user specs and every      *)
(* bound on user containers, not only the combinations TLC enumerates.     *)
(***************************************************************************)
EXTENDS MariaDBManifest, TLAPS

USE UserSpecsAssumption, MaxContainersAssumption

\* Defaulting the metrics keeps them well typed.
LEMMA DefaultMetricsType ==
    ASSUME NEW x \in MetricsType
    PROVE  DefaultMetrics(x) \in MetricsType
BY DEF DefaultMetrics, MetricsType, Default, Str

\* Replacing one field of a well-typed MariaDB by a value of that field's
\* type leaves it well typed: string fields, *bool fields, pointers and
\* metrics in turn.
LEMMA ExceptStr ==
    ASSUME NEW r \in MariaDBType, NEW v \in Str
    PROVE  /\ [r EXCEPT !.image = v] \in MariaDBType
           /\ [r EXCEPT !.port = v] \in MariaDBType
           /\ [r EXCEPT !.rootPasswordSecretKeyRef = v] \in MariaDBType
BY DEF MariaDBType

LEMMA ExceptPtrBool ==
    ASSUME NEW r \in MariaDBType, NEW v \in PtrBool
    PROVE  /\ [r EXCEPT !.ephemeralStorage = v] \in MariaDBType
           /\ [r EXCEPT !.rootEmptyPassword = v] \in MariaDBType
BY DEF MariaDBType

LEMMA ExceptPtr ==
    ASSUME NEW r \in MariaDBType, NEW v \in Ptr
    PROVE  /\ [r EXCEPT !.myCnfConfigMapKeyRef = v] \in MariaDBType
           /\ [r EXCEPT !.passwordSecretKeyRef = v] \in MariaDBType
           /\ [r EXCEPT !.maxScaleRef = v] \in MariaDBType
BY DEF MariaDBType

LEMMA ExceptMetrics ==
    ASSUME NEW r \in MariaDBType, NEW v \in MetricsType
    PROVE  [r EXCEPT !.metrics = v] \in MariaDBType
BY DEF MariaDBType

\* Defaulting maps a well-typed MariaDB to a well-typed MariaDB. Each
\* assignment of SetDefaults is one step.
LEMMA SetDefaultsType ==
    ASSUME NEW m \in MariaDBType
    PROVE  SetDefaults(m) \in MariaDBType
<1> DEFINE a1 == [m EXCEPT !.image = Default(m.image, "empty")]
           a2 == [a1 EXCEPT !.ephemeralStorage =
                      IF m.ephemeralStorage = "nil" THEN "false" ELSE m.ephemeralStorage]
           m1 == [a2 EXCEPT !.rootEmptyPassword =
                      IF m.rootEmptyPassword = "nil" THEN "false" ELSE m.rootEmptyPassword]
           b1 == [m1 EXCEPT !.rootPasswordSecretKeyRef = DefaultRootPasswordSecretKeyRef(m1)]
           b2 == [b1 EXCEPT !.port = Default(m1.port, "empty")]
           b3 == [b2 EXCEPT !.myCnfConfigMapKeyRef =
                      IF m1.myCnf # "nil" /\ m1.myCnfConfigMapKeyRef = "nil"
                      THEN "dflt" ELSE m1.myCnfConfigMapKeyRef]
           b4 == [b3 EXCEPT !.passwordSecretKeyRef =
                      IF IsInitialDataEnabled(m1) /\ m1.passwordSecretKeyRef = "nil"
                      THEN "dflt" ELSE m1.passwordSecretKeyRef]
           mv == IF AreMetricsEnabled(m1) THEN DefaultMetrics(m1.metrics)
                 ELSE m1.metrics
           b5 == [b4 EXCEPT !.metrics = mv]
           b6 == [b5 EXCEPT !.maxScaleRef =
                      IF m1.maxScale = "true" /\ m1.maxScaleRef = "nil"
                      THEN "dflt" ELSE m1.maxScaleRef]
<1>1. a1 \in MariaDBType
    <2>1. Default(m.image, "empty") \in Str
        BY DEF MariaDBType, Default, Str
    <2>2. QED
        BY <2>1, ExceptStr
<1>2. a2 \in MariaDBType
    <2>1. (IF m.ephemeralStorage = "nil" THEN "false" ELSE m.ephemeralStorage) \in PtrBool
        BY DEF MariaDBType, PtrBool
    <2>2. QED
        BY <1>1, <2>1, ExceptPtrBool
<1>3. m1 \in MariaDBType
    <2>1. (IF m.rootEmptyPassword = "nil" THEN "false" ELSE m.rootEmptyPassword) \in PtrBool
        BY DEF MariaDBType, PtrBool
    <2>2. QED
        BY <1>2, <2>1, ExceptPtrBool
<1>5. /\ m1.port \in Str /\ m1.myCnfConfigMapKeyRef \in Ptr
      /\ m1.passwordSecretKeyRef \in Ptr /\ m1.metrics \in MetricsType
      /\ m1.maxScaleRef \in Ptr
    BY <1>3 DEF MariaDBType
<1>6. b1 \in MariaDBType
    <2>1. DefaultRootPasswordSecretKeyRef(m1) \in Str
        BY <1>3 DEF DefaultRootPasswordSecretKeyRef, MariaDBType, Str
    <2>2. QED
        BY <1>3, <2>1, ExceptStr
<1>7. b2 \in MariaDBType
    <2>1. Default(m1.port, "empty") \in Str
        BY <1>5 DEF Default, Str
    <2>2. QED
        BY <1>6, <2>1, ExceptStr
<1>8. b3 \in MariaDBType
    BY <1>5, <1>7, ExceptPtr DEF Ptr
<1>9. b4 \in MariaDBType
    BY <1>5, <1>8, ExceptPtr DEF Ptr
<1>10. b5 \in MariaDBType
    <2>1. mv \in MetricsType
        BY <1>5, DefaultMetricsType
    <2> HIDE DEF b4, mv
    <2>2. QED
        BY <1>9, <2>1, ExceptMetrics
<1>11. b6 \in MariaDBType
    BY <1>5, <1>10, ExceptPtr DEF Ptr
<1>12. QED
    BY <1>11 DEF SetDefaults

\* A field patched with a value some user spec gives it stays well typed.
LEMMA PatchType ==
    ASSUME NEW m \in MariaDBType, NEW f \in Fields, NEW v \in InputValues[f]
    PROVE  [m EXCEPT ![f] = v] \in MariaDBType
<1>1. PICK u \in UserSpecs : v = u[f]
    BY DEF InputValues
<1>2. UserSpecs # {}
    BY <1>1
<1>3. f \in DOMAIN u
    <2>1. (CHOOSE w \in UserSpecs : TRUE) \in MariaDBType /\ u \in MariaDBType
        BY <1>2
    <2>2. QED
        BY <2>1 DEF Fields, MariaDBType
<1>4. QED
    BY <1>1, <1>3 DEF MariaDBType

-----------------------------------------------------------------------------
(***************************************************************************)
(* Every admitted MariaDB is well typed: admission and every update run    *)
(* SetDefaults on a well-typed spec.                                       *)
(***************************************************************************)
THEOREM TypeCorrect == Spec => []TypeOK
<1>1. Init => TypeOK
    BY SetDefaultsType DEF Init, TypeOK
<1>2. TypeOK /\ [Next]_vars => TypeOK'
    <2> SUFFICES ASSUME TypeOK, [Next]_vars PROVE TypeOK'
        OBVIOUS
    <2>1. ASSUME NEW f \in Fields, NEW v \in InputValues[f], Update(f, v)
          PROVE  TypeOK'
        BY <2>1, PatchType, SetDefaultsType DEF Update, TypeOK
    <2>2. CASE UNCHANGED vars
        BY <2>2 DEF vars, TypeOK
    <2>3. QED
        BY <2>1, <2>2 DEF Next
<1>3. QED
    BY <1>1, <1>2, PTL DEF Spec

-----------------------------------------------------------------------------
(***************************************************************************)
(* The stored MariaDB never has both HA modes: admission checks it and     *)
(* every update keeps the mode it was created with.                        *)
(***************************************************************************)
LEMMA ModeInvariant == Spec => []ValidMode(mdb)
<1>1. Init => ValidMode(mdb)
    BY DEF Init
<1>2. ValidMode(mdb) /\ [Next]_vars => ValidMode(mdb)'
    BY DEF Next, Update, vars
<1>3. QED
    BY <1>1, <1>2, PTL DEF Spec

(***************************************************************************)
(* EventRouting for every admitted MariaDB: the built StatefulSet and its  *)
(* Pods reach exactly the controllers of the MariaDB's HA mode.            *)
(***************************************************************************)
THEOREM RoutingCorrect == Spec => []EventRouting
<1>1. TypeOK /\ ValidMode(mdb) => EventRouting
    <2> SUFFICES ASSUME TypeOK, ValidMode(mdb) PROVE EventRouting
        OBVIOUS
    <2>1. DOMAIN WatchedAnnotations = {"StatefulSetGalera", "PodGalera", "PodReplication"}
        BY DEF WatchedAnnotations
    <2>2. CASE GaleraEnabled(mdb)
        BY <2>1, <2>2 DEF EventRouting, BuildMariadbStatefulSet, Receivers,
           WatchedAnnotations, mariadbHAAnnotations, IsHAEnabled, ValidMode
    <2>3. CASE ~GaleraEnabled(mdb) /\ ReplicationEnabled(mdb)
        BY <2>1, <2>3 DEF EventRouting, BuildMariadbStatefulSet, Receivers,
           WatchedAnnotations, mariadbHAAnnotations, IsHAEnabled
    <2>4. CASE ~GaleraEnabled(mdb) /\ ~ReplicationEnabled(mdb)
        BY <2>1, <2>4 DEF EventRouting, BuildMariadbStatefulSet, Receivers,
           WatchedAnnotations, mariadbHAAnnotations, IsHAEnabled
    <2>5. QED
        BY <2>2, <2>3, <2>4
<1>2. QED
    BY <1>1, TypeCorrect, ModeInvariant, PTL

=============================================================================
