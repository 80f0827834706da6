------------------------- MODULE ClusterModuleBindings -------------------------
(***************************************************************************)
(* What the cluster-module reconciler promises (spec 4.1), with no keys,   *)
(* no loops and no error classification: a pass takes a snapshot of the   *)
(* live owners, may make modules for owners of the snapshot and remove     *)
(* recorded modules of owners outside it, and then records, all at once,   *)
(* at most one module per owner of the snapshot, each made for that owner. *)
(* The owners and vCenter change at any time.                              *)
(***************************************************************************)
EXTENDS Naturals, FiniteSets

CONSTANTS
    Owners,    \* owner objects, records with a field cp (control plane)
    Uuids,     \* module identifiers vCenter hands out
    NoOwner    \* moduleOwner of a UUID not handed out yet

VARIABLES
    objs,         \* [Owners -> {"absent","live","deleting"}]
    compatible,   \* the vCenter supports modules
    modules,      \* modules that exist in vCenter
    moduleOwner,  \* the owner each module was made for
    bindings,     \* the recorded modules: a set of [owner, uuid]
    running,      \* a pass is under way
    snapshot      \* the owners the running pass works for

vars == <<objs, compatible, modules, moduleOwner, bindings, running, snapshot>>

Binding == [owner : Owners, uuid : Uuids]

Init ==
    /\ objs \in [Owners -> {"absent", "live"}]
    /\ compatible \in BOOLEAN
    /\ modules = {}
    /\ moduleOwner = [u \in Uuids |-> NoOwner]
    /\ bindings = {}
    /\ running = FALSE
    /\ snapshot = {}

(* A pass starts with the live owners, when the vCenter supports modules  *)
(* and at most one control-plane owner is listed.                          *)
Begin ==
    /\ ~running /\ compatible
    /\ Cardinality({o \in Owners : o.cp /\ objs[o] # "absent"}) <= 1
    /\ running' = TRUE
    /\ snapshot' = {o \in Owners : objs[o] = "live"}
    /\ UNCHANGED <<objs, compatible, modules, moduleOwner, bindings>>

(* The pass makes (or finds) the module of an owner of its snapshot. *)
MakeModule ==
    /\ running
    /\ \E o \in snapshot, u \in Uuids :
          /\ moduleOwner[u] \in {NoOwner, o}
          /\ modules' = modules \cup {u}
          /\ moduleOwner' = [moduleOwner EXCEPT ![u] = o]
    /\ UNCHANGED <<objs, compatible, bindings, running, snapshot>>

(* The pass removes a recorded module whose owner is not in its snapshot. *)
RemoveModule ==
    /\ running
    /\ \E b \in bindings :
          /\ b.owner \notin snapshot
          /\ modules' = modules \ {b.uuid}
    /\ UNCHANGED <<objs, compatible, moduleOwner, bindings, running, snapshot>>

(* The pass records its result: at most one module per owner of the        *)
(* snapshot, each made for that owner.                                    *)
Commit ==
    /\ running
    /\ \E new \in SUBSET {b \in Binding : b.owner \in snapshot
                                         /\ moduleOwner[b.uuid] = b.owner} :
          /\ \A b, c \in new : b.owner = c.owner => b = c
          /\ bindings' = new
    /\ running' = FALSE /\ snapshot' = {}
    /\ UNCHANGED <<objs, compatible, modules, moduleOwner>>

(* The pass is lost before it records anything. *)
Abort ==
    /\ running
    /\ running' = FALSE /\ snapshot' = {}
    /\ UNCHANGED <<objs, compatible, modules, moduleOwner, bindings>>

(* Owners are created, marked for deletion and deleted; vCenter loses      *)
(* modules.                                                                *)
Environment ==
    /\ \/ \E o \in Owners, s \in {"absent", "live", "deleting"} :
             objs' = [objs EXCEPT ![o] = s] /\ UNCHANGED modules
       \/ \E u \in modules : modules' = modules \ {u} /\ UNCHANGED objs
    /\ UNCHANGED <<compatible, moduleOwner, bindings, running, snapshot>>

Next == Begin \/ MakeModule \/ RemoveModule \/ Commit \/ Abort \/ Environment

Spec == Init /\ [][Next]_vars

=============================================================================
