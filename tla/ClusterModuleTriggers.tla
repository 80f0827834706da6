------------------------- MODULE ClusterModuleTriggers -------------------------
(***************************************************************************)
(* What makes the cluster-module reconciler run: the watches of            *)
(* PopulateWatchesOnController and the map function toAffinityInput       *)
(* (src/controllers/clustermodule_reconciler.go), feeding the controller's *)
(* work queue for the one VSphereCluster, composed with the reconciler of *)
(* ClusterModuleReconciler.                                                *)
(*                                                                         *)
(* KCP and MachineDeployment events pass the predicates only when they are *)
(* create or delete events; toAffinityInput then resolves                  *)
(* object -> Cluster -> Spec.InfrastructureRef -> VSphereCluster and       *)
(* enqueues one request, or none when a lookup fails.  The work queue      *)
(* holds one request per object (a set), so `queued` is a flag; an event   *)
(* during a pass marks it again and the pass is followed by another.       *)
(* Nothing watches vCenter: a lost module is seen only by a later pass.    *)
(***************************************************************************)
EXTENDS Integers, FiniteSets, Sequences

CONSTANTS
    KcpNames, MdNames, CreateBehaviour,
    MaxModules, MaxFaults, MaxOwnerEvents, MaxLostModules,
    MaxLookupFailures   \* bound on events toAffinityInput drops while the
                        \* Cluster and VSphereCluster exist (cache misses)

VARIABLES
    objs, compatible, modules, moduleOwner, removeFailed, clusterModules, availableCond,
    readyCond, condMessage, result, pc, idx, objectMap, clusterModuleSpecs, modErrs,
    fetched, passStamp, cleanStamp, faults, ownerEvents, lostModules,
    queued,     \* a request for the VSphereCluster is in the work queue
    linked,     \* the owners' Cluster has Spec.InfrastructureRef set and
                \* its VSphereCluster exists
    dropped     \* events dropped by a failed lookup (bounded)

R == INSTANCE ClusterModuleReconciler

rvars == <<objs, compatible, modules, moduleOwner, removeFailed, clusterModules, availableCond,
           readyCond, condMessage, result, pc, idx, objectMap, clusterModuleSpecs, modErrs,
           fetched, passStamp, cleanStamp, faults, ownerEvents, lostModules>>
trigVars == <<queued, linked, dropped>>
vars == <<rvars, trigVars>>

(* The predicates of both watches: GenericFunc and UpdateFunc return false; *)
(* CreateFunc and DeleteFunc are left nil, which lets the event through.   *)
WatchedEvent_CreateOnly(kind) == kind = "create"
WatchedEvent_DeleteOnly(kind) == kind = "delete"
WatchedEvent(kind) == kind \in {"create", "delete"}

(* toAffinityInput: no request while the Cluster or its infrastructureRef  *)
(* or the VSphereCluster is missing; otherwise one request, unless a cache *)
(* lookup fails.                                                           *)
ToAffinityInput ==
    \/ ~linked /\ UNCHANGED <<queued, dropped>>
    \/ linked /\ queued' = TRUE /\ UNCHANGED dropped
    \/ /\ linked /\ dropped < MaxLookupFailures
       /\ dropped' = dropped + 1
       /\ UNCHANGED queued

(* An event of the given kind on an owner object goes through the          *)
(* predicates and, if it passes, through toAffinityInput.                  *)
Watch(kind) ==
    IF WatchedEvent(kind) THEN ToAffinityInput ELSE UNCHANGED <<queued, dropped>>

HasEntry(o) ==
    \E i \in DOMAIN clusterModules :
        clusterModules[i].controlPlane = o.cp /\ clusterModules[i].targetObjectName = o.name

-----------------------------------------------------------------------------
(* The controller starts with the VSphereCluster queued by its initial List. *)
Init ==
    /\ R!Init
    /\ queued = TRUE
    /\ linked \in BOOLEAN
    /\ dropped = 0

(* A worker takes the request and Reconcile runs; an error is requeued. *)
WorkerReconcile ==
    /\ queued
    /\ \/ R!ReconcileStart /\ queued' = FALSE
       \/ /\ R!ReconcileUnsupportedVCenter \/ R!ReconcileFetchFailed
          /\ queued' = (result' = "error")
    /\ UNCHANGED <<linked, dropped>>

PassStep ==
    /\ R!RemoveStaleModule \/ R!VerifyModule \/ R!CreateModule
    /\ UNCHANGED trigVars

(* The pass ends; an error is requeued, and a request queued during the    *)
(* pass stays queued.                                                      *)
PassFinish ==
    /\ R!ReconcileFinish
    /\ queued' = (queued \/ result' = "error")
    /\ UNCHANGED <<linked, dropped>>

(* After a restart the informers list every object again, and the        *)
(* VSphereCluster is queued.                                              *)
Restart ==
    /\ R!ControllerRestart
    /\ queued' = TRUE
    /\ UNCHANGED <<linked, dropped>>

OwnerEvent ==
    \E o \in R!Owners :
        \/ R!OwnerCreated(o) /\ Watch("create")
        \/ R!OwnerDeletionStarted(o) /\ Watch("update")
        \/ R!OwnerDeleted(o) /\ Watch("delete")
    /\ UNCHANGED linked

ModuleLost ==
    /\ \E u \in R!Uuids : R!ModuleLost(u)
    /\ UNCHANGED trigVars

(* The Cluster's infrastructureRef is set: the VSphereCluster gets its     *)
(* owner reference, and that change of it is an event of its own watch.    *)
ClusterLinked ==
    /\ ~linked
    /\ linked' = TRUE /\ queued' = TRUE
    /\ UNCHANGED <<rvars, dropped>>

(* The periodic resync of the informers requeues the VSphereCluster. *)
Resync ==
    /\ ~queued /\ queued' = TRUE
    /\ UNCHANGED <<rvars, linked, dropped>>

Next ==
    \/ WorkerReconcile \/ PassStep \/ PassFinish \/ Restart
    \/ OwnerEvent \/ ModuleLost \/ ClusterLinked \/ Resync

(* A queued request is eventually taken by a worker, and a pass runs to its *)
(* end.  Resync gets no fairness: the runs ask what the events alone do.   *)
Spec == Init /\ [][Next]_vars
          /\ WF_vars(WorkerReconcile) /\ WF_vars(PassStep \/ PassFinish)

-----------------------------------------------------------------------------
(* Properties *)

(* No pass is possible: the vCenter is too old or two KCPs are listed. *)
Blocked == ~compatible \/ R!MultipleKcps

(* A KCP or MachineDeployment that is created once its Cluster points at   *)
(* the VSphereCluster, and that Service.Create accepts, eventually gets an *)
(* entry in Spec.ClusterModules through its create event, without waiting  *)
(* for a resync, unless it goes away first.                                *)
OwnerCreateReconciled ==
    \A o \in R!Owners : CreateBehaviour[o] = "ok" =>
        ((objs[o] = "live" /\ ~HasEntry(o) /\ linked)
            ~> (HasEntry(o) \/ objs[o] # "live" \/ Blocked))

(* The entry of a deleted KCP or MachineDeployment eventually leaves        *)
(* Spec.ClusterModules through its delete event, also when the deletion     *)
(* comes during a pass that had already listed the owner.                   *)
OwnerDeleteReconciled ==
    \A o \in R!Owners :
        ((objs[o] = "absent" /\ HasEntry(o) /\ linked)
            ~> (~HasEntry(o) \/ objs[o] # "absent" \/ Blocked))


=============================================================================
