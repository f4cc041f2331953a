------------------------------ MODULE KubeAPI ------------------------------
(***************************************************************************)
(* The Kubernetes API server as the controllers of cma-ssh use it, for one *)
(* namespace holding one CnctCluster, its CnctMachines and the Secret      *)
(* "cluster-private-key".                                                  *)
(*                                                                         *)
(* Writes go to the API server, reads go to informer caches that lag       *)
(* behind it (the manager's default DelegatingClient).  Every Update       *)
(* carries the resourceVersion of the copy it was computed from and fails  *)
(* when the object has been written since.  resourceVersions are compared  *)
(* only for equality with the current one, so instead of numbers each      *)
(* object has the set of holders whose copy is current: "cache" (the       *)
(* informer), "mw" (the machine controller's worker) and "cw" (the cluster *)
(* controller's worker).                                                   *)
(***************************************************************************)
EXTENDS Naturals, FiniteSets

CONSTANTS
    Machines,   \* names of the CnctMachine objects
    Posted,     \* those posted together with the cluster
    Masters,    \* those whose spec.roles contain "master"
    Systems,    \* system ids of the MAAS pool; a system's IP is named by its id
    None        \* an empty SystemId, address or name

ASSUME MachinesAssumption == Posted \subseteq Machines /\ Masters \subseteq Machines
ASSUME NoneAssumption == None \notin Machines \cup Systems

VARIABLES
    machine, cluster, secret,     \* the objects the API server stores
    mcache, ccache, scache,       \* the informers' copies of them
    mcur, ccur, scur              \* the holders of a current copy

kubeVars == <<machine, cluster, secret, mcache, ccache, scache, mcur, ccur, scur>>

(***************************************************************************)
(* Types.  The empty phase is the phase of an object no controller has     *)
(* written.  "Upgrading" is left out: only handleUpgrade sets it, and      *)
(* nothing calls handleUpgrade.                                            *)
(***************************************************************************)
MachinePhase == {"", "Provisioning", "Ready", "Error", "Deleting"}
ClusterPhase == {"", "Reconciling", "Running"}

MachineObj ==
    [live : BOOLEAN, phase : MachinePhase, sys : Systems \cup {None},
     fin : BOOLEAN, del : BOOLEAN, owned : BOOLEAN]

ClusterObj ==
    [live : BOOLEAN, phase : ClusterPhase, endpoint : Systems \cup {None},
     del : BOOLEAN]

SecretObj == [live : BOOLEAN, kube : Systems \cup {None}]

NewMachine ==
    [live |-> TRUE, phase |-> "", sys |-> None,
     fin |-> FALSE, del |-> FALSE, owned |-> FALSE]
NewCluster == [live |-> TRUE, phase |-> "", endpoint |-> None, del |-> FALSE]
NewSecret == [live |-> TRUE, kube |-> None]

GoneMachine == [NewMachine EXCEPT !.live = FALSE]
GoneCluster == [NewCluster EXCEPT !.live = FALSE]
GoneSecret == [NewSecret EXCEPT !.live = FALSE]

KubeTypeOK ==
    /\ machine \in [Machines -> MachineObj]
    /\ mcache \in [Machines -> MachineObj]
    /\ mcur \in [Machines -> SUBSET {"cache", "mw", "cw"}]
    /\ cluster \in ClusterObj
    /\ ccache \in ClusterObj
    /\ ccur \in SUBSET {"cache", "cw"}
    /\ secret \in SecretObj
    /\ scache \in SecretObj
    /\ scur \in SUBSET {"cache", "mw"}

\* A cluster and machines have just been posted and the manager has waited
\* for its caches to sync.
KubeInit ==
    /\ machine = [m \in Machines |-> IF m \in Posted THEN NewMachine ELSE GoneMachine]
    /\ cluster = NewCluster
    /\ secret = GoneSecret
    /\ mcache = machine
    /\ ccache = cluster
    /\ scache = secret
    /\ mcur = [m \in Machines |-> {"cache"}]
    /\ ccur = {"cache"}
    /\ scur = {"cache"}

(***************************************************************************)
(* Copies and writes.                                                      *)
(***************************************************************************)

\* Holder h copies the cached object: its copy is as current as the cache's.
CopiedBy(h, cur) == IF "cache" \in cur THEN cur \cup {h} ELSE cur \ {h}

\* Holder h lets go of its copies of the machines.
DroppedBy(h) == [m \in Machines |-> mcur[m] \ {h}]

\* An Update of machine m from h's copy is accepted.
Accepted(h, m) == h \in mcur[m] /\ machine[m].live

\* Object o is stored; only the holders hs have its new resourceVersion.
PutMachine(m, o, hs) ==
    /\ machine' = [machine EXCEPT ![m] = o]
    /\ mcur' = [mcur EXCEPT ![m] = hs]

\* A Delete: an object with finalizers is marked, one without them goes.
Deleted(o) == IF o.fin THEN [o EXCEPT !.del = TRUE] ELSE GoneMachine
=============================================================================
