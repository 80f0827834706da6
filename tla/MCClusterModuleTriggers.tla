---------------------- MODULE MCClusterModuleTriggers ----------------------
(* Model-checking instance of ClusterModuleTriggers: the owners of         *)
(* MCClusterModuleReconciler.                                               *)
EXTENDS ClusterModuleTriggers

MCKcpNames == {<<"cp1">>, <<"cp2">>}
MCMdNames  == {<<"cp1">>, <<"md1">>}

(* As in MCClusterModuleReconciler: md1 is skipped, MachineDeployment cp1  *)
(* is an incompatible owner.                                               *)
MCOwners == {[cp |-> TRUE, name |-> n] : n \in MCKcpNames}
              \cup {[cp |-> FALSE, name |-> n] : n \in MCMdNames}

MCCreateBehaviour ==
    [o \in MCOwners |->
        CASE o = [cp |-> FALSE, name |-> <<"md1">>]  -> "skip"
          [] o = [cp |-> FALSE, name |-> <<"cp1">>]  -> "incompatible"
          [] OTHER                                   -> "ok"]
=============================================================================
