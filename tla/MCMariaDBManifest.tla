------------------------- MODULE MCMariaDBManifest -------------------------
(***************************************************************************)
(* MariaDBManifest for TLC. Users submit every combination of the fields   *)
(* that drive the builder's branches: root credentials, initial user,      *)
(* my.cnf, storage type, metrics, MaxScale, HA mode and one sidecar and    *)
(* one init container. Image, port and database only take their zero      *)
(* value: their defaulting is a guarded assignment of its own.             *)
(***************************************************************************)
EXTENDS MariaDBManifest

MCMaxContainers == 1

MCMetrics ==
    {[present |-> FALSE, enabled |-> FALSE, exporterImage |-> "empty",
      exporterPort |-> "empty", username |-> "empty", passwordSecretKeyRef |-> "empty"],
     [present |-> TRUE, enabled |-> TRUE, exporterImage |-> "empty",
      exporterPort |-> "empty", username |-> "user", passwordSecretKeyRef |-> "empty"]}

MCUserSpecs ==
    [image : {"empty"}, rootPasswordSecretKeyRef : {"empty", "user"},
     rootEmptyPassword : PtrBool, database : {"nil"},
     username : {"nil", "user"}, passwordSecretKeyRef : {"nil", "user"},
     myCnf : {"nil", "user"}, myCnfConfigMapKeyRef : {"nil"}, port : {"empty"},
     ephemeralStorage : {"nil", "true"}, metrics : MCMetrics,
     maxScale : PtrBool, maxScaleRef : {"nil", "user"},
     replication : {[enabled |-> FALSE, probesEnabled |-> "nil"],
                    [enabled |-> TRUE, probesEnabled |-> "nil"],
                    [enabled |-> TRUE, probesEnabled |-> "true"]},
     galera : [enabled : BOOLEAN],
     sidecarContainers : {<<>>, <<[volumeMounts |-> "nil", env |-> "nil"]>>,
                          <<[volumeMounts |-> "user", env |-> "user"]>>},
     initContainers : {<<>>, <<[volumeMounts |-> "nil", env |-> "nil"]>>}]

=============================================================================
