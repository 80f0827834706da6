--------------------- MODULE MCClusterModuleReconciler ---------------------
(* Model-checking instance of ClusterModuleReconciler.                     *)
EXTENDS ClusterModuleReconciler

(* Two KubeadmControlPlane names (a replaced KCP, two KCPs listed at once) *)
(* and a MachineDeployment that shares a KCP's name (spec 8: identical     *)
(* names must not collide).                                                 *)
MCKcpNames == {<<"cp1">>, <<"cp2">>}
MCMdNames  == {<<"cp1">>, <<"md1">>}

(* Service.Create skips MachineDeployment md1 and rejects MachineDeployment *)
(* cp1 as an incompatible owner; both KCPs get modules.                     *)
MCCreateBehaviour ==
    [o \in Owners |->
        CASE o = [cp |-> FALSE, name |-> <<"md1">>]  -> "skip"
          [] o = [cp |-> FALSE, name |-> <<"cp1">>]  -> "incompatible"
          [] OTHER                                   -> "ok"]

(* Names where a MachineDeployment is called "kcp" + the KCP's name. *)
MCCollidingKcpNames == {<<"a">>}
MCCollidingMdNames  == {<<"kcp", "a">>}
MCAllOk == [o \in Owners |-> "ok"]
=============================================================================
