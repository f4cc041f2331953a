------------------------------ MODULE Operator ------------------------------
(***************************************************************************)
(* cma-ssh at work on one namespace: the two controllers, the informers of *)
(* their manager, the API server's garbage collector, the users and the    *)
(* deployed machines, with crashes of the manager and faults of MAAS.      *)
(***************************************************************************)
EXTENDS MachineController, ClusterController

CONSTANT Env   \* what users do in a run

ASSUME EnvAssumption ==
    Env \subseteq {"createMachine", "deleteMachine", "deleteCluster", "foreground",
                   "namespace", "editMachine", "editCluster", "resync"}

vars == <<kubeVars, maasVars, mcVars, ccVars>>

Init ==
    /\ KubeInit
    /\ MaasInit
    /\ MachineControllerInit
    /\ ClusterControllerInit

(***************************************************************************)
(* Informers.  A refresh delivers what the watch of a kind has to tell and *)
(* enqueues a request for every object that changed; an event for a        *)
(* machine enqueues the cluster of its namespace too.                      *)
(***************************************************************************)
RefreshMachines ==
    LET changed == {m \in Machines : "cache" \notin mcur[m]}
    IN  /\ changed # {}
        /\ mcache' = machine
        /\ mcur' = [m \in Machines |-> mcur[m] \cup {"cache"}]
        /\ queue' = queue \cup changed
        /\ cq' = (cq \/ ccache.live)
        /\ UNCHANGED <<machine, cluster, secret, ccache, scache, ccur, scur, maasVars, mw, cw>>

RefreshCluster ==
    /\ "cache" \notin ccur
    /\ ccache' = cluster
    /\ ccur' = ccur \cup {"cache"}
    /\ cq' = TRUE
    /\ UNCHANGED <<machine, cluster, secret, mcache, scache, mcur, scur, maasVars, mcVars, cw>>

RefreshSecret ==
    /\ "cache" \notin scur
    /\ scache' = secret
    /\ scur' = scur \cup {"cache"}
    /\ UNCHANGED <<machine, cluster, secret, mcache, ccache, mcur, ccur, maasVars, mcVars, ccVars>>

\* The informers' periodic resync enqueues every cached object again.
Resync ==
    /\ "resync" \in Env
    /\ queue' = queue \cup {m \in Machines : mcache[m].live}
    /\ cq' = (cq \/ ccache.live)
    /\ UNCHANGED <<kubeVars, maasVars, mw, cw>>

Refresh == RefreshMachines \/ RefreshCluster \/ RefreshSecret

(***************************************************************************)
(* Users, and the garbage collector of the API server.                     *)
(***************************************************************************)
OnMachine(m, o) ==
    /\ PutMachine(m, o, {})
    /\ UNCHANGED <<cluster, secret, mcache, ccache, scache, ccur, scur, maasVars, mcVars, ccVars>>

OnCluster(c) ==
    /\ cluster' = c
    /\ ccur' = {}
    /\ UNCHANGED <<machine, secret, mcache, ccache, scache, mcur, scur, maasVars, mcVars, ccVars>>

\* A machine is added to the cluster, perhaps under a name used before.
CreateMachine(m) ==
    /\ "createMachine" \in Env
    /\ ~machine[m].live
    /\ OnMachine(m, NewMachine)

\* kubectl delete cnctmachine
DeleteMachine(m) ==
    /\ "deleteMachine" \in Env
    /\ machine[m].live /\ ~machine[m].del
    /\ OnMachine(m, Deleted(machine[m]))

\* A write that leaves what the controllers read as it is, of a label or an
\* annotation.
EditMachine(m) ==
    /\ "editMachine" \in Env
    /\ machine[m].live
    /\ OnMachine(m, machine[m])

\* UpgradeCluster and others write the cluster's spec.
EditCluster ==
    /\ "editCluster" \in Env
    /\ cluster.live
    /\ OnCluster(cluster)

DeleteCluster ==
    /\ "deleteCluster" \in Env
    /\ cluster.live
    /\ OnCluster(GoneCluster)

\* With foreground deletion the cluster stays until its dependents are gone.
DeleteClusterForeground ==
    /\ "foreground" \in Env
    /\ cluster.live /\ ~cluster.del
    /\ OnCluster([cluster EXCEPT !.del = TRUE])

\* The API of cma-ssh deletes the namespace after the cluster, and the
\* secret with it.
DeleteNamespace ==
    /\ "namespace" \in Env
    /\ ~cluster.live /\ secret.live
    /\ secret' = GoneSecret
    /\ scur' = {}
    /\ UNCHANGED <<machine, cluster, mcache, ccache, scache, mcur, ccur, maasVars, mcVars, ccVars>>

\* The owner is gone or being deleted in the foreground.
CollectMachine(m) ==
    /\ machine[m].live /\ machine[m].owned /\ ~machine[m].del
    /\ ~cluster.live \/ cluster.del
    /\ OnMachine(m, Deleted(machine[m]))

CollectCluster ==
    /\ cluster.live /\ cluster.del
    /\ \A m \in Machines : ~(machine[m].live /\ machine[m].owned)
    /\ OnCluster(GoneCluster)

BootSystem(s) ==
    /\ Boot(s)
    /\ UNCHANGED <<kubeVars, mcVars, ccVars>>

User ==
    \/ \E m \in Machines : CreateMachine(m) \/ DeleteMachine(m) \/ EditMachine(m)
    \/ EditCluster \/ DeleteCluster \/ DeleteClusterForeground \/ DeleteNamespace

Collect == CollectCluster \/ \E m \in Machines : CollectMachine(m)

(***************************************************************************)
(* The manager dies, by itself or of a panic in a reconcile, and its       *)
(* successor starts from synced caches and the objects they list.  What    *)
(* the reconciles were doing is forgotten.                                 *)
(***************************************************************************)
Restart ==
    /\ \/ At("panic") /\ NoFault
       \/ Fault("crash")
    /\ mcache' = machine
    /\ ccache' = cluster
    /\ scache' = secret
    /\ mcur' = [m \in Machines |-> {"cache"}]
    /\ ccur' = {"cache"}
    /\ scur' = {"cache"}
    /\ queue' = {m \in Machines : machine[m].live}
    /\ mw' = MachineIdle
    /\ cq' = cluster.live
    /\ cw' = ClusterIdle
    /\ UNCHANGED <<machine, cluster, secret, used, boot, apiUp, nodes>>

StepMachine == MachineControllerNext /\ UNCHANGED ccVars
StepCluster == ClusterControllerNext /\ UNCHANGED mcVars

Next ==
    \/ StepMachine
    \/ StepCluster
    \/ Refresh
    \/ Resync
    \/ User
    \/ Collect
    \/ \E s \in Systems : BootSystem(s)
    \/ Restart

Spec == Init /\ [][Next]_vars

(***************************************************************************)
(* Fairness.  Both workers, the informers, the garbage collector and the   *)
(* restart of a manager that panicked go on; a deployed system boots.  A   *)
(* name is not overtaken for ever in the first-in first-out work queue.    *)
(***************************************************************************)
Fairness ==
    /\ WF_vars(WorkMachine /\ UNCHANGED ccVars)
    /\ \A m \in Machines : SF_vars(Dequeue(m) /\ UNCHANGED ccVars)
    /\ WF_vars(StepCluster)
    /\ WF_vars(RefreshMachines)
    /\ WF_vars(RefreshCluster)
    /\ WF_vars(RefreshSecret)
    /\ WF_vars(CollectCluster)
    /\ \A m \in Machines : WF_vars(CollectMachine(m))
    /\ \A s \in Systems : WF_vars(BootSystem(s))
    /\ WF_vars(At("panic") /\ Restart)

FairSpec == Spec /\ Fairness

(***************************************************************************)
(* Safety.                                                                 *)
(***************************************************************************)
TypeOK ==
    /\ KubeTypeOK
    /\ MaasTypeOK
    /\ MachineControllerTypeOK
    /\ ClusterControllerTypeOK

\* The fields of a machine agree: it has the finalizer exactly when a system
\* is recorded and its phase says so, only such a machine waits for its
\* deletion, and only one that does is in phase Deleting (updateMachine sets
\* all three in one Update, deleteMachine lets go of all).
Coherent(o) ==
    /\ o.fin <=> o.sys # None
    /\ o.fin <=> o.phase \in {"Provisioning", "Ready", "Deleting"}
    /\ o.del => o.fin
    /\ o.phase = "Deleting" => o.del
    /\ ~o.live => o = GoneMachine

RecordsCoherent == \A m \in Machines : Coherent(machine[m])

\* A machine that names a system carries the finalizer: no deletion, by a
\* user or by the garbage collector, removes the record before handleDelete
\* has released the system.
FinalizedWhileRecorded ==
    \A m \in Machines : machine[m].sys # None => machine[m].live /\ machine[m].fin

\* Every machine goes through its stages in order, whatever copies the
\* writers worked from: no Update overwrites a later stage, a deletion or
\* the recorded system.
StageOf(o) ==
    CASE ~o.live -> "absent"
      [] o.live /\ o.phase = "Deleting" -> "deleting"
      [] o.live /\ o.del /\ o.phase # "Deleting" -> "condemned"
      [] o.live /\ ~o.del /\ o.phase = "" -> "pending"
      [] o.live /\ ~o.del /\ o.phase = "Provisioning" -> "provisioned"
      [] o.live /\ ~o.del /\ o.phase = "Ready" -> "ready"
      [] OTHER -> "failed"

Life == INSTANCE MachineLifecycle WITH
    stage <- [m \in Machines |-> StageOf(machine[m])],
    system <- [m \in Machines |-> machine[m].sys]

Lifecycle == Life!Spec

\* The record of a machine that is not being deleted is right: MAAS holds the
\* system allocated, and no two machines share it.
Kept(m) == machine[m].sys # None /\ ~machine[m].del

RecordedSystemsHeld ==
    /\ \A m \in Machines : Kept(m) => machine[m].sys \in used
    /\ \A m, n \in Machines :
           Kept(m) /\ Kept(n) /\ machine[m].sys = machine[n].sys => m = n

\* The cluster's endpoint, which workers are told to join, names another
\* server than the stored kubeconfig.
Apart == cluster.live /\ cluster.endpoint \notin {None, secret.kube}

\* The published endpoint is the server of the stored kubeconfig
\* (createKubeconfig before updateCluster).  The two part only when
\* createKubeconfig stores that of a master whose first system was released,
\* whose updateCluster is yet to come or meets a conflict: no write of the
\* endpoint, not updateStatus of an old copy, makes them differ.
KubeconfigForEndpoint ==
    [][Apart' => (Apart \/ At("kubeconfig")) /\ cluster'.endpoint = cluster.endpoint]_vars

\* updateStatus stores the endpoint of a copy read before the secret was
\* there, and so may erase one published since; but once the cluster has left
\* its first phase no reconcile that began before comes to that: of a cluster
\* that lives, a published endpoint stays published.
EndpointStays ==
    [][cluster.phase # "" /\ cluster.endpoint # None /\ cluster'.live
           => cluster'.endpoint # None]_vars

\* The cluster controller deletes the secret, which holds the only
\* credentials for the managed cluster, after the last machine.
SecretDeletedLast ==
    [][cw.pc = "deleteSecret" /\ secret.live /\ ~secret'.live
           => ~cluster.live /\ \A m \in Machines : ~machine[m].live]_vars

\* A reconcile that allocated a system ends, or panics, with the system recorded
\* or released, unless the kubeconfig could not be stored, the release itself
\* failed or the manager died of something else than its own panic.
LetsGo == mw.s # None /\ mw.pc \notin {"kubeconfig", "panic"} /\ mw'.pc \in {"idle", "panic"}

LeaksOnlyAtKubeconfig ==
    [][LetsGo /\ NoFault => mw.s \notin used' \/ machine'[mw.m].sys = mw.s]_vars

\* The owner reference that claimMachines adds survives every write of the
\* machine controller, and with it the garbage collection of the machine.
OwnerKept ==
    [][\A m \in Machines : machine[m].owned /\ machine'[m].live => machine'[m].owned]_vars

(***************************************************************************)
(* The inductive invariant behind the safety of the machine records: every *)
(* copy is coherent, one that counts as current equals the object, and the *)
(* worker is at a step that fits the copy it holds.                        *)
(***************************************************************************)
Holding == mw.pc \notin {"idle", "get"}

CopiesCurrent ==
    \A m \in Machines :
        /\ Coherent(mcache[m])
        /\ "cache" \in mcur[m] => mcache[m] = machine[m]
        /\ "mw" \in mcur[m] => Holding /\ mw.m = m /\ mw.obj = machine[m]

Creating == mw.pc \in {"prepare", "allocate", "start", "noip", "kubeconfig", "endpoint",
                       "record", "release", "fail", "panic"}
Removing == mw.pc \in {"delete", "removeNode", "unprovision", "finalize"}

StepFitsCopy ==
    /\ ~At("idle") => mw.m \in Machines
    /\ Holding => mw.obj.live /\ Coherent(mw.obj)
    /\ Creating => mw.obj.phase = "" /\ ~mw.obj.del
    /\ At("wait") => mw.obj.phase = "Provisioning" /\ ~mw.obj.del
    /\ At("mark") => mw.obj.phase # "Deleting" /\ mw.obj.del
    /\ Removing => mw.obj.phase = "Deleting"
    /\ mw.pc \in {"start", "noip", "kubeconfig", "endpoint", "record", "release"}
           => mw.s \in Systems

IInv == TypeOK /\ RecordsCoherent /\ CopiesCurrent /\ StepFitsCopy

\* The one behind KubeconfigForEndpoint and EndpointStays: a living cluster
\* whose status anyone has seen written has its secret, which is created only
\* where there is none and deleted only after the cluster; so whoever has just
\* created it knows of no endpoint.
StatusWritten(c) == c.phase # "" \/ c.endpoint # None

StatusKnown ==
    StatusWritten(cluster) \/ StatusWritten(ccache) \/ StatusWritten(cw) \/ At("endpoint")

EndpointInv ==
    /\ cluster.live /\ StatusKnown => secret.live
    /\ cluster.live /\ At("endpoint") => secret.kube = mw.s
    /\ cluster.live /\ cw.pc = "status"
           => secret.live /\ cluster.phase = "" /\ cw.endpoint = None
    /\ ~cluster.live => cluster.endpoint = None
    /\ ~ccache.live => ~cluster.live
    /\ cw.pc = "deleteSecret" => ~cluster.live

\* The one behind RecordedSystemsHeld: the system in the worker's hand is
\* allocated, and no machine that is kept records it already.
InHand == mw.pc \in {"start", "noip", "kubeconfig", "endpoint", "record", "release"}

HeldInv ==
    /\ RecordedSystemsHeld
    /\ InHand => /\ mw.s \in used
                 /\ \A m \in Machines : Kept(m) => machine[m].sys # mw.s

\* What breaks it: handleDelete, working from an old copy, is about to release
\* a system once more, which has been given to another machine since.
StaleDeletion ==
    At("unprovision") /\ \E m \in Machines : Kept(m) /\ machine[m].sys = mw.obj.sys

\* Where users delete nothing, nobody does: the cluster lives, so that the
\* garbage collector and the cluster controller have nothing to remove, and
\* the secret is seen wherever a machine waits for its node.
NothingDeleted ==
    /\ cluster.live /\ ~cluster.del /\ ccache.live /\ cw.pc # "deleteSecret"
    /\ \A m \in Machines : ~machine[m].del /\ ~mcache[m].del
    /\ Holding => ~mw.obj.del
    /\ scache.live => secret.live
    /\ \A m \in Machines :
           machine[m].phase = "Provisioning" \/ mcache[m].phase = "Provisioning" => scache.live
    /\ mw.pc = "allocate" \/ InHand \/ At("wait") => scache.live

\* A worker names a system only from AllocateMachine to the end of a create.
SystemInHand == mw.s # None => InHand \/ At("panic")

\* The one behind SecretDeletedLast, where no machine is posted later: a
\* machine the cache does not show is gone, and all are when the secret goes.
LastMachineGone ==
    /\ \A m \in Machines : ~mcache[m].live => ~machine[m].live
    /\ cw.pc = "deleteSecret" => \A m \in Machines : ~machine[m].live

(***************************************************************************)
(* Liveness.                                                               *)
(***************************************************************************)

\* Once the cluster is gone, so are in the end the machines it had claimed.
MachinesCollected ==
    ~cluster.live ~> \A m \in Machines : ~(machine[m].live /\ machine[m].owned)

\* Once the cluster is gone, its secret goes in the end: the request for a
\* cluster the manager has seen living is put back until the last machine is
\* gone, whatever stale copies, conflicts, crashes and failures there were.
\* Excepted are a secret the manager's cache does not show when the cluster
\* goes, and a manager that starts after that: it lists no cluster to enqueue,
\* and the request is lost with the one before.  So it is stated of the end of a
\* cluster after the last fault; a behaviour without one is the same as one with
\* a crash in its initial state.
SecretCollected ==
    ~cluster.live /\ ccache.live /\ scache.live /\ budget = 0 ~> ~secret.live

=============================================================================
