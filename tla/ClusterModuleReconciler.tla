----------------------- MODULE ClusterModuleReconciler -----------------------
(***************************************************************************)
(* The cluster-module (anti-affinity group) reconciler of                  *)
(* src/controllers/clustermodule_reconciler.go.                            *)
(*                                                                         *)
(* One pass of Reconciler.Reconcile is modelled step by step: the owner    *)
(* listing (fetchMachineOwnerObjects), one step per recorded module of     *)
(* VSphereCluster.Spec.ClusterModules, one step per remaining owner of the *)
(* objectMap (in any order: Go map iteration), and the final replacement   *)
(* of Spec.ClusterModules with the conditions that go with it.  Passes are *)
(* serialised (one pass per VSphereCluster at a time, a guarantee of the   *)
(* controller framework).  Between and during passes the environment       *)
(* creates and deletes KubeadmControlPlane / MachineDeployment objects and *)
(* vCenter loses modules; the controller may restart mid-pass.             *)
(*                                                                         *)
(* The cluster-module Service (Create, DoesExist, Remove) is not under     *)
(* src/; its results are modelled from its contract in the spec (4.2).     *)
(***************************************************************************)
EXTENDS Integers, Sequences, FiniteSets, SequencesExt

CONSTANTS
    KcpNames,       \* names KubeadmControlPlane objects may have
    MdNames,        \* names MachineDeployment objects may have
    CreateBehaviour,\* [Owners -> {"ok","skip","incompatible"}]: what Service.Create
                    \* answers for an owner when it does not fail transiently
    MaxModules,     \* module UUIDs vCenter may hand out: 1..MaxModules
    MaxFaults,      \* bound on transient failures and controller restarts
    MaxOwnerEvents, \* bound on creations/deletions of owner objects
    MaxLostModules  \* bound on modules deleted behind the controller's back

(* A name is a sequence of name segments; string concatenation of names is  *)
(* concatenation of these sequences.                                        *)
Names == KcpNames \cup MdNames

(* clustermodule.Wrapper: an owner object, KubeadmControlPlane (cp) or       *)
(* MachineDeployment (~cp), identified by kind and name.                     *)
Owners == {[cp |-> TRUE, name |-> n] : n \in KcpNames}
            \cup {[cp |-> FALSE, name |-> n] : n \in MdNames}

Uuids == 1..MaxModules
NoOwner == [cp |-> FALSE, name |-> <<>>]

ASSUME /\ CreateBehaviour \in [Owners -> {"ok", "skip", "incompatible"}]
       /\ MaxModules >= Cardinality(Owners) + MaxOwnerEvents + MaxLostModules
       /\ {MaxFaults, MaxOwnerEvents, MaxLostModules} \subseteq Nat

VARIABLES
    (* API server and vCenter *)
    objs,            \* [Owners -> {"absent","live","deleting"}]; "deleting":
                     \* deletionTimestamp set, object still listed
    compatible,      \* clustermodule.IsClusterCompatible (vCenter >= 7)
    modules,         \* module UUIDs that exist in vCenter
    moduleOwner,     \* the owner Service.Create made each UUID for (history)
    removeFailed,    \* UUIDs a Service.Remove failed for (history)
    clusterModules,  \* VSphereCluster.Spec.ClusterModules (persisted)
    availableCond,   \* v1beta1 ClusterModulesAvailable: "absent","true","false"
    readyCond,       \* v1beta2 ClusterModulesReady: "unset","true","false"
    condMessage,     \* the message both conditions carry (a token sequence)
    result,          \* what the last finished Reconcile returned: "none","ok","error"
    (* locals of the running pass *)
    pc,              \* "idle" or "loop" (a pass past fetchMachineOwnerObjects)
    idx,             \* position in clusterModules of the range loop
    objectMap,       \* key -> owner; entries are deleted as they are handled
    clusterModuleSpecs,
    modErrs,         \* sequence of clusterModError: [name, incompatible]
    (* history for properties and bounds *)
    fetched,         \* objectMap as fetched at the start of the pass
    passStamp,       \* Stamp when the running pass started
    cleanStamp,      \* Stamp when the last pass without a transient fault
                     \* finished, <<>> if none
    faults, ownerEvents, lostModules

apiVars   == <<objs, compatible, modules, moduleOwner, removeFailed>>
passVars  == <<pc, idx, objectMap, clusterModuleSpecs, modErrs, fetched,
              passStamp, cleanStamp>>
outVars   == <<clusterModules, availableCond, readyCond, condMessage, result>>
boundVars == <<faults, ownerEvents, lostModules>>
vars == <<apiVars, passVars, outVars, boundVars>>

ClusterModule == [controlPlane : BOOLEAN, targetObjectName : Names,
                  moduleUUID : Uuids]
ClusterModError == [name : Names, incompatible : BOOLEAN]

-----------------------------------------------------------------------------
(* Keys and the owner listing *)

(* appendKCPKey: "kcp" + name. *)
appendKCPKey(name) == <<"kcp">> \o name

(* Variant: MachineDeployments are keyed with the KCP prefix as well. *)
OwnerKey_AllPrefixed(o) == appendKCPKey(o.name)

(* The objectMap key of an owner (fetchMachineOwnerObjects). *)
OwnerKey(o) == IF o.cp THEN appendKCPKey(o.name) ELSE o.name

(* Variant: the lookup forgets appendKCPKey for control-plane entries. *)
ModuleKey_NoPrefix(mod) == mod.targetObjectName

(* curr: the objectMap key a recorded module is looked up with. *)
ModuleKey(mod) ==
    IF mod.controlPlane THEN appendKCPKey(mod.targetObjectName)
                        ELSE mod.targetObjectName

(* Objects returned by the List calls: every object with the cluster label, *)
(* deleting or not.                                                         *)
Listed(isCp) == {o \in Owners : o.cp = isCp /\ objs[o] # "absent"}

(* Variant: objects being deleted are not filtered out. *)
OwnerObjectMap_WithDeleting ==
    LET kcps == Listed(TRUE)
        mds  == Listed(FALSE)
        keys == {OwnerKey(o) : o \in kcps \cup mds}
    IN [k \in keys |->
          IF \E o \in mds : OwnerKey(o) = k
          THEN CHOOSE o \in mds : OwnerKey(o) = k
          ELSE CHOOSE o \in kcps : OwnerKey(o) = k]

(* The KCP entry is written first and MachineDeployments after it, so a     *)
(* MachineDeployment whose name equals the KCP key replaces the KCP.        *)
OwnerObjectMap ==
    LET kcps == {o \in Listed(TRUE) : objs[o] = "live"}
        mds  == {o \in Listed(FALSE) : objs[o] = "live"}
        keys == {OwnerKey(o) : o \in kcps \cup mds}
    IN [k \in keys |->
          IF \E o \in mds : OwnerKey(o) = k
          THEN CHOOSE o \in mds : OwnerKey(o) = k
          ELSE CHOOSE o \in kcps : OwnerKey(o) = k]

(* Variant: the entry is written with the map key instead of the name. *)
ModuleFor_KeyAsName(obj, uuid) ==
    [controlPlane |-> obj.cp, targetObjectName |-> OwnerKey(obj),
     moduleUUID |-> uuid]

(* The spec entry written for an owner and a module UUID. *)
ModuleFor(obj, uuid) ==
    [controlPlane |-> obj.cp, targetObjectName |-> obj.name, moduleUUID |-> uuid]

(* incompatibleOwnerErrors *)
IncompatibleOwnerErrors(errs) == SelectSeq(errs, LAMBDA e : e.incompatible)

(* Variant: one incompatible-owner error is enough to succeed. *)
ModErrsTolerated_AnyIncompatible(errs) == Len(IncompatibleOwnerErrors(errs)) > 0

(* generateClusterModuleErrorMessage.  A string is a sequence of tokens;   *)
(* the wrapped error of an entry is abstracted to its kind.  The prefix,   *)
(* then "<name> <err>, " per error in input order; the final ", " is cut.  *)
ErrorEntry(e) ==
    e.name \o <<" ", IF e.incompatible THEN "incompatible owner" ELSE "failed", ", ">>
GenerateClusterModuleErrorMessage(errs) ==
    LET msg == FoldLeft(LAMBDA m, e : m \o ErrorEntry(e),
                        <<"Failed to create cluster modules for: ">>, errs)
    IN SubSeq(msg, 1, Len(msg) - 1)

(* Failures that let the pass succeed with a warning: all incompatible. *)
ModErrsTolerated(errs) ==
    LET inc == IncompatibleOwnerErrors(errs)
    IN Len(inc) > 0 /\ Len(inc) = Len(errs)

(* Every transient failure, restart, owner change and module loss changes  *)
(* the stamp.                                                               *)
Stamp == <<faults, ownerEvents, lostModules>>

BoundKeys(specs) == {ModuleKey(specs[i]) : i \in DOMAIN specs}

(* The binding set a correct pass would leave: every live owner that        *)
(* Service.Create does not skip or reject, with a module made for it.       *)
Converged ==
    /\ {[cp |-> m.controlPlane, name |-> m.targetObjectName]
          : m \in Range(clusterModules)}
       = {o \in Owners : objs[o] = "live" /\ CreateBehaviour[o] = "ok"}
    /\ \A i \in DOMAIN clusterModules :
          clusterModules[i].moduleUUID \in modules

-----------------------------------------------------------------------------
Init ==
    /\ objs \in [Owners -> {"absent", "live"}]
    /\ compatible \in BOOLEAN
    /\ modules = {}
    /\ moduleOwner = [u \in Uuids |-> NoOwner]
    /\ removeFailed = {}
    /\ clusterModules = <<>>
    /\ availableCond = "absent"
    /\ readyCond = "unset"
    /\ condMessage = <<>>
    /\ result = "none"
    /\ pc = "idle"
    /\ idx = 1
    /\ objectMap = << >>
    /\ clusterModuleSpecs = <<>>
    /\ modErrs = <<>>
    /\ fetched = << >>
    /\ passStamp = <<>>
    /\ cleanStamp = <<>>
    /\ faults = 0 /\ ownerEvents = 0 /\ lostModules = 0


(* The pass-local variables as they are when no pass runs. *)
PassEnded ==
    /\ pc' = "idle" /\ idx' = 1
    /\ objectMap' = << >> /\ fetched' = << >>
    /\ clusterModuleSpecs' = <<>> /\ modErrs' = <<>>
    /\ passStamp' = <<>>

DeleteKey(f, k) == Restrict(f, DOMAIN f \ {k})

-----------------------------------------------------------------------------
(* The cluster-module Service, from its contract (spec 4.2). *)

(* DoesExist: the module is there in vCenter. *)
DoesExist(uuid) == uuid \in modules

(* Create for an owner that already has a module answers that module;      *)
(* otherwise vCenter hands out a fresh UUID.                                *)
CreatedUuid(obj) ==
    IF \E u \in modules : moduleOwner[u] = obj
    THEN CHOOSE u \in modules : moduleOwner[u] = obj
    ELSE Min({u \in Uuids : moduleOwner[u] = NoOwner})

(* vCenter state after Create made (or found) the module of obj. *)
ModuleCreated(obj) ==
    LET uuid == CreatedUuid(obj)
    IN /\ modules' = modules \cup {uuid}
       /\ moduleOwner' = [moduleOwner EXCEPT ![uuid] = obj]

-----------------------------------------------------------------------------
(* Reconcile *)

(* IsClusterCompatible is false: both conditions false, no error, no work. *)
ReconcileUnsupportedVCenter ==
    /\ pc = "idle"
    /\ ~compatible
    /\ availableCond' = "false"
    /\ readyCond' = "false"
    /\ condMessage' = <<"vCenter version does not support cluster modules">>
    /\ result' = "ok"
    /\ UNCHANGED <<apiVars, passVars, clusterModules, boundVars>>

(* Variant: the check for more than one KubeadmControlPlane is missing. *)
MultipleKcps_Unchecked == FALSE

(* fetchMachineOwnerObjects: more than one KubeadmControlPlane listed. *)
MultipleKcps == Cardinality(Listed(TRUE)) > 1

(* fetchMachineOwnerObjects returns an error (a List call fails, or more   *)
(* than one KubeadmControlPlane): Reconcile returns it before any change.  *)
ReconcileFetchFailed ==
    /\ pc = "idle"
    /\ compatible
    /\ \/ MultipleKcps /\ UNCHANGED faults
       \/ faults < MaxFaults /\ faults' = faults + 1
    /\ result' = "error"
    /\ UNCHANGED <<apiVars, passVars, clusterModules, availableCond, readyCond,
                   condMessage, ownerEvents, lostModules>>

(* fetchMachineOwnerObjects succeeds: the pass enters the range loop over  *)
(* Spec.ClusterModules with the fetched objectMap.                         *)
ReconcileStart ==
    /\ pc = "idle"
    /\ compatible
    /\ ~MultipleKcps
    /\ pc' = "loop"
    /\ idx' = 1
    /\ objectMap' = OwnerObjectMap
    /\ fetched' = OwnerObjectMap
    /\ clusterModuleSpecs' = <<>>
    /\ modErrs' = <<>>
    /\ passStamp' = Stamp
    /\ UNCHANGED <<apiVars, cleanStamp, outVars, boundVars>>

(* Variant: the entry of the removed module is carried over. *)
RemoveStaleModule_KeepEntry ==
    /\ pc = "loop"
    /\ idx <= Len(clusterModules)
    /\ ModuleKey(clusterModules[idx]) \notin DOMAIN objectMap
    /\ modules' = modules \ {clusterModules[idx].moduleUUID}
    /\ clusterModuleSpecs' = Append(clusterModuleSpecs, clusterModules[idx])
    /\ idx' = idx + 1
    /\ UNCHANGED <<objs, compatible, moduleOwner, removeFailed, pc, objectMap,
                   modErrs, fetched, passStamp, cleanStamp, outVars, boundVars>>

(* A recorded module whose owner is not in the objectMap (deleted, being   *)
(* deleted, or not listed): Service.Remove it, log a failure, drop it.     *)
RemoveStaleModule ==
    /\ pc = "loop"
    /\ idx <= Len(clusterModules)
    /\ ModuleKey(clusterModules[idx]) \notin DOMAIN objectMap
    /\ \/ modules' = modules \ {clusterModules[idx].moduleUUID}
          /\ UNCHANGED <<faults, removeFailed>>
       \/ faults < MaxFaults
          /\ faults' = faults + 1
          /\ removeFailed' = removeFailed \cup {clusterModules[idx].moduleUUID}
          /\ UNCHANGED modules
    /\ idx' = idx + 1
    /\ UNCHANGED <<objs, compatible, moduleOwner, pc, objectMap, clusterModuleSpecs,
                   modErrs, fetched, passStamp, cleanStamp, outVars,
                   ownerEvents, lostModules>>

(* DoesExist failed: the entry is kept as it is and the owner is taken out *)
(* of the objectMap so that no second module is created for it.            *)
VerifyFailed(mod, curr, obj) ==
    /\ faults < MaxFaults
    /\ faults' = faults + 1
    /\ modErrs' = Append(modErrs, [name |-> obj.name, incompatible |-> FALSE])
    /\ clusterModuleSpecs' =
          Append(clusterModuleSpecs, ModuleFor(obj, mod.moduleUUID))
    /\ objectMap' = DeleteKey(objectMap, curr)

(* Variant: the kept owner is not taken out of the objectMap. *)
ModuleExists_KeepKey(mod, curr, obj) ==
    /\ DoesExist(mod.moduleUUID)
    /\ clusterModuleSpecs' =
          Append(clusterModuleSpecs, ModuleFor(obj, mod.moduleUUID))
    /\ UNCHANGED <<faults, modErrs, objectMap>>

(* Variant: the owner is marked done but its entry is not kept. *)
ModuleExists_NotKept(mod, curr, obj) ==
    /\ DoesExist(mod.moduleUUID)
    /\ objectMap' = DeleteKey(objectMap, curr)
    /\ UNCHANGED <<faults, modErrs, clusterModuleSpecs>>

(* The module exists: the entry is kept and the owner is done. *)
ModuleExists(mod, curr, obj) ==
    /\ DoesExist(mod.moduleUUID)
    /\ clusterModuleSpecs' =
          Append(clusterModuleSpecs, ModuleFor(obj, mod.moduleUUID))
    /\ objectMap' = DeleteKey(objectMap, curr)
    /\ UNCHANGED <<faults, modErrs>>

(* Variant: a missing module's owner is taken out of the objectMap too. *)
ModuleMissing_NoRecreate(mod, curr, obj) ==
    /\ ~DoesExist(mod.moduleUUID)
    /\ objectMap' = DeleteKey(objectMap, curr)
    /\ UNCHANGED <<faults, modErrs, clusterModuleSpecs>>

(* The module is gone: the entry is dropped and the owner left in the      *)
(* objectMap, to be created.                                                *)
ModuleMissing(mod, curr, obj) ==
    /\ ~DoesExist(mod.moduleUUID)
    /\ UNCHANGED <<faults, modErrs, clusterModuleSpecs, objectMap>>

(* A recorded module whose owner is in the objectMap: Service.DoesExist.   *)
VerifyModule ==
    /\ pc = "loop"
    /\ idx <= Len(clusterModules)
    /\ LET mod  == clusterModules[idx]
           curr == ModuleKey(mod)
           obj  == objectMap[curr]
       IN /\ curr \in DOMAIN objectMap
          /\ \/ VerifyFailed(mod, curr, obj)
             \/ ModuleExists(mod, curr, obj)
             \/ ModuleMissing(mod, curr, obj)
    /\ idx' = idx + 1
    /\ UNCHANGED <<apiVars, pc, fetched, passStamp, cleanStamp, outVars,
                   ownerEvents, lostModules>>

(* The loop over the owners left in the objectMap, in any order:           *)
(* Service.Create; an error is recorded (whether or not vCenter made the   *)
(* module before the call failed), an empty UUID means creation was        *)
(* skipped, otherwise the new module is recorded.                          *)
CreateModule ==
    /\ pc = "loop"
    /\ idx > Len(clusterModules)
    /\ \E k \in DOMAIN objectMap :
         LET obj == objectMap[k]
         IN /\ objectMap' = DeleteKey(objectMap, k)
            /\ \/ /\ faults < MaxFaults
                  /\ faults' = faults + 1
                  /\ modErrs' = Append(modErrs, [name |-> obj.name,
                                                 incompatible |-> FALSE])
                  /\ \/ UNCHANGED <<modules, moduleOwner>>
                     \/ CreateBehaviour[obj] = "ok" /\ ModuleCreated(obj)
                  /\ UNCHANGED clusterModuleSpecs
               \/ /\ CreateBehaviour[obj] = "incompatible"
                  /\ modErrs' = Append(modErrs, [name |-> obj.name,
                                                 incompatible |-> TRUE])
                  /\ UNCHANGED <<faults, modules, moduleOwner, clusterModuleSpecs>>
               \/ /\ CreateBehaviour[obj] = "skip"
                  /\ UNCHANGED <<faults, modErrs, modules, moduleOwner,
                                 clusterModuleSpecs>>
               \/ /\ CreateBehaviour[obj] = "ok"
                  /\ ModuleCreated(obj)
                  /\ clusterModuleSpecs' =
                        Append(clusterModuleSpecs, ModuleFor(obj, CreatedUuid(obj)))
                  /\ UNCHANGED <<faults, modErrs>>
    /\ UNCHANGED <<objs, compatible, removeFailed, pc, idx, fetched, passStamp,
                   cleanStamp, outVars, ownerEvents, lostModules>>

(* Spec.ClusterModules is replaced by the new list (the caller patches the *)
(* VSphereCluster), and the outcome is classified: errors that are all     *)
(* incompatible-owner errors give a warning and no error.                  *)
ReconcileFinish ==
    /\ pc = "loop"
    /\ idx > Len(clusterModules)
    /\ DOMAIN objectMap = {}
    /\ clusterModules' = clusterModuleSpecs
    /\ IF Len(modErrs) > 0
       THEN /\ availableCond' = "false"
            /\ readyCond' = "false"
            /\ condMessage' = GenerateClusterModuleErrorMessage(modErrs)
            /\ result' = IF ModErrsTolerated(modErrs) THEN "ok" ELSE "error"
       ELSE /\ availableCond' = IF Len(clusterModuleSpecs) > 0
                                THEN "true" ELSE "absent"
            /\ readyCond' = "true"
            /\ condMessage' = <<>>
            /\ result' = "ok"
    /\ cleanStamp' = IF Stamp = passStamp THEN Stamp ELSE <<>>
    /\ PassEnded
    /\ UNCHANGED <<apiVars, boundVars>>

(* The controller restarts (or the pass is cancelled, or the final patch   *)
(* fails) before Spec.ClusterModules is written: the pass is lost.         *)
ControllerRestart ==
    /\ pc = "loop"
    /\ faults < MaxFaults
    /\ faults' = faults + 1
    /\ PassEnded
    /\ UNCHANGED <<apiVars, cleanStamp, outVars, ownerEvents, lostModules>>

-----------------------------------------------------------------------------
(* The environment *)

OwnerCreated(o) ==
    /\ objs[o] = "absent"
    /\ ownerEvents < MaxOwnerEvents
    /\ objs' = [objs EXCEPT ![o] = "live"]
    /\ ownerEvents' = ownerEvents + 1
    /\ UNCHANGED <<compatible, modules, moduleOwner, removeFailed, passVars,
                   outVars, faults, lostModules>>

OwnerDeletionStarted(o) ==
    /\ objs[o] = "live"
    /\ ownerEvents < MaxOwnerEvents
    /\ objs' = [objs EXCEPT ![o] = "deleting"]
    /\ ownerEvents' = ownerEvents + 1
    /\ UNCHANGED <<compatible, modules, moduleOwner, removeFailed, passVars,
                   outVars, faults, lostModules>>

OwnerDeleted(o) ==
    /\ objs[o] = "deleting"
    /\ ownerEvents < MaxOwnerEvents
    /\ objs' = [objs EXCEPT ![o] = "absent"]
    /\ ownerEvents' = ownerEvents + 1
    /\ UNCHANGED <<compatible, modules, moduleOwner, removeFailed, passVars,
                   outVars, faults, lostModules>>

(* A module is deleted in vCenter by someone else. *)
ModuleLost(u) ==
    /\ u \in modules
    /\ lostModules < MaxLostModules
    /\ modules' = modules \ {u}
    /\ lostModules' = lostModules + 1
    /\ UNCHANGED <<objs, compatible, moduleOwner, removeFailed, passVars, outVars,
                   faults, ownerEvents>>

-----------------------------------------------------------------------------
ReconcileTrigger ==
    \/ ReconcileUnsupportedVCenter
    \/ ReconcileFetchFailed
    \/ ReconcileStart

ReconcileStep ==
    \/ RemoveStaleModule
    \/ VerifyModule
    \/ CreateModule
    \/ ReconcileFinish

Environment ==
    \/ \E o \in Owners : OwnerCreated(o) \/ OwnerDeletionStarted(o) \/ OwnerDeleted(o)
    \/ \E u \in Uuids : ModuleLost(u)

Next ==
    \/ ReconcileTrigger
    \/ ReconcileStep
    \/ ControllerRestart
    \/ Environment

(* Reconcile runs again on resync, on owner create/delete events and on    *)
(* error requeue, so a trigger that stays possible is taken; a pass runs    *)
(* to its end in one goroutine.                                             *)
Fairness == WF_vars(ReconcileTrigger) /\ WF_vars(ReconcileStep)

Spec == Init /\ [][Next]_vars /\ Fairness

-----------------------------------------------------------------------------
(* Properties *)

TypeOK ==
    /\ objs \in [Owners -> {"absent", "live", "deleting"}]
    /\ compatible \in BOOLEAN
    /\ modules \subseteq Uuids
    /\ moduleOwner \in [Uuids -> Owners \cup {NoOwner}]
    /\ removeFailed \subseteq Uuids
    /\ clusterModules \in Seq(ClusterModule)
    /\ availableCond \in {"absent", "true", "false"}
    /\ readyCond \in {"unset", "true", "false"}
    /\ result \in {"none", "ok", "error"}
    /\ pc \in {"idle", "loop"}
    /\ idx \in 1..(Len(clusterModules) + 1)
    /\ Range(objectMap) \subseteq Owners
    /\ DOMAIN objectMap \subseteq DOMAIN fetched
    /\ clusterModuleSpecs \in Seq(ClusterModule)
    /\ modErrs \in Seq(ClusterModError)
    /\ faults \in 0..MaxFaults
    /\ ownerEvents \in 0..MaxOwnerEvents
    /\ lostModules \in 0..MaxLostModules

(* Spec.ClusterModules never holds two KubeadmControlPlane entries (spec   *)
(* 3), across KCP replacement, restarts and failed verifications; it rests *)
(* on fetchMachineOwnerObjects refusing a listing of two KCPs, deleting    *)
(* ones included.                                                          *)
AtMostOneControlPlaneModule ==
    Cardinality({i \in DOMAIN clusterModules :
                   clusterModules[i].controlPlane}) <= 1

(* Every entry of Spec.ClusterModules names, by kind and name, the owner   *)
(* Service.Create made its module for: Reconcile never moves one owner's   *)
(* module to another owner (keys of KCPs and MachineDeployments are kept   *)
(* apart by appendKCPKey, spec 2 and 8).                                   *)
ModuleBelongsToTarget ==
    \A i \in DOMAIN clusterModules :
        moduleOwner[clusterModules[i].moduleUUID]
            = [cp |-> clusterModules[i].controlPlane,
               name |-> clusterModules[i].targetObjectName]

(* No two entries of Spec.ClusterModules are looked up under one key, so   *)
(* no owner gets two modules: an owner whose module was kept (verified, or *)
(* its check failed) is removed from the objectMap before the create loop. *)
UniqueModuleKeys ==
    \A i, j \in DOMAIN clusterModules :
        i # j => ModuleKey(clusterModules[i]) # ModuleKey(clusterModules[j])

RecordedUuids == {clusterModules[i].moduleUUID : i \in DOMAIN clusterModules}

(* Between passes, every module in vCenter is recorded in                  *)
(* Spec.ClusterModules unless a Service call failed or a pass was lost: a  *)
(* stale entry's module is removed, a verified one is kept, and every      *)
(* module Create hands out is written with the new list.                    *)
NoOrphanWithoutFailure ==
    pc = "idle" /\ faults = 0 => modules \subseteq RecordedUuids

(* Spec 4.1 step 3 tolerates one kind of orphan: the module of a gone      *)
(* owner whose Service.Remove failed.  Between passes, a module in vCenter *)
(* that Spec.ClusterModules does not record either belongs to a live owner *)
(* (the next Create hands it back) or is such a module.                    *)
OrphansOnlyFromFailedRemove ==
    pc = "idle" =>
        \A u \in modules \ RecordedUuids :
            objs[moduleOwner[u]] = "live" \/ u \in removeFailed

(* Spec 4.1 step 6 and 4.4: a pass with no failures and no bindings has   *)
(* the outcome "absent", which asserts no condition, so that it is not     *)
(* read as "ready".  When the v1beta1 condition is cleared, the v1beta2    *)
(* ClusterModulesReady condition is not set either.                        *)
AbsentOutcomeAssertsNoCondition ==
    availableCond = "absent" => readyCond = "unset"

(* When Reconcile returns without error, every owner it fetched has an     *)
(* entry in the new Spec.ClusterModules, unless Service.Create skipped it  *)
(* or rejected it as incompatible (the warning case).                      *)
SuccessMeansOwnersCovered ==
    [][ReconcileFinish /\ result' = "ok" =>
         \A k \in DOMAIN fetched :
            \/ k \in BoundKeys(clusterModules')
            \/ CreateBehaviour[fetched[k]] \in {"skip", "incompatible"}]_vars

(* Partial-failure isolation (spec 8): whatever the pass returns, every    *)
(* owner it fetched that no error names has an entry in the new            *)
(* Spec.ClusterModules, unless Service.Create skips it: a failed call for *)
(* one owner never costs another owner its module (no fail-fast, no entry *)
(* dropped without a Create).                                              *)
PartialFailureIsolation ==
    [][ReconcileFinish =>
         \A k \in DOMAIN fetched :
            \/ \E i \in DOMAIN modErrs : modErrs[i].name = fetched[k].name
            \/ k \in BoundKeys(clusterModules')
            \/ CreateBehaviour[fetched[k]] = "skip"]_vars

(* Idempotence (spec 8): a pass that starts right after a pass without     *)
(* transient failures, with no owner change, module loss or failure since, *)
(* writes back exactly the Spec.ClusterModules it read.                    *)
IdempotentPass ==
    [][ReconcileFinish /\ passStamp = cleanStamp /\ Stamp = passStamp
         => clusterModules' = clusterModules]_vars

(* Once owners, vCenter and failures stop changing, Spec.ClusterModules    *)
(* comes to hold exactly one existing module per live owner that           *)
(* Service.Create accepts, and keeps it, unless the vCenter is too old or  *)
(* two KubeadmControlPlanes are listed.                                    *)
EventuallyConverged ==
    <>[](~compatible \/ MultipleKcps \/ Converged)


-----------------------------------------------------------------------------
(* Refinement.  Spec.ClusterModules read as a set of (owner, module)       *)
(* bindings; a pass runs while pc = "loop", and its snapshot is the set of *)
(* owners it fetched.                                                      *)
Abstract == INSTANCE ClusterModuleBindings
    WITH bindings <- {[owner |-> [cp |-> m.controlPlane, name |-> m.targetObjectName],
                       uuid |-> m.moduleUUID] : m \in Range(clusterModules)},
         running  <- pc = "loop",
         snapshot <- Range(fetched)

(* The step-wise Reconcile implements the atomic pass of spec 4.1: every   *)
(* Create is for an owner the pass fetched, every Remove is of a recorded  *)
(* module whose owner the pass did not fetch, and the list written at the  *)
(* end holds at most one module per fetched owner, each made for it; the  *)
(* loops, the keys, the failures and the restarts change nothing else.    *)
ImplementsBindings == Abstract!Spec

====
