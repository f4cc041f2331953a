------------------------- MODULE ClusterController -------------------------
(***************************************************************************)
(* The cluster controller (pkg/controller/cluster): it claims the machines *)
(* of the namespace, creates the secret with the cluster's certificates,   *)
(* moves the cluster's phase and, once the cluster and its machines are    *)
(* gone, deletes the secret.  Its work queue holds at most the one cluster *)
(* name.                                                                   *)
(***************************************************************************)
EXTENDS Maas

VARIABLES
    cq,   \* the cluster's name is in the work queue
    cw    \* the worker and the local variables of its reconcile

ccVars == <<cq, cw>>

ClusterStep == {"idle", "claim", "status", "deleteSecret"}

\* phase, endpoint, del: the copy of the cluster; todo: the machines it can
\* still claim.
ClusterWorker ==
    [pc : ClusterStep, phase : ClusterPhase, endpoint : Systems \cup {None},
     del : BOOLEAN, todo : SUBSET Machines]

ClusterIdle == [pc |-> "idle", phase |-> "", endpoint |-> None, del |-> FALSE, todo |-> {}]

ClusterControllerTypeOK ==
    /\ cq \in BOOLEAN
    /\ cw \in ClusterWorker

ClusterControllerInit ==
    /\ cq = TRUE
    /\ cw = ClusterIdle

\* The reconcile is over; its copies of the machines are dropped.
FinishCluster(again) ==
    /\ cw' = ClusterIdle
    /\ cq' = (cq \/ again)
    /\ mcur' = DroppedBy("cw")
    /\ UNCHANGED <<machine, mcache, ccache, scache>>

\* An error: nothing is written and the name goes back in the queue.
RetryCluster ==
    /\ FinishCluster(TRUE)
    /\ ccur' = ccur \ {"cw"}
    /\ UNCHANGED <<cluster, secret, scur>>

\* The cluster is stored; no copy of it is current.
PutCluster(c) ==
    /\ cluster' = c
    /\ ccur' = {}
    /\ UNCHANGED <<secret, scur>>

\* The cached machines that have no controller owner.
CanClaim == {m \in Machines : mcache[m].live /\ ~mcache[m].owned}

\* Get finds the cluster, and List its machines.
ReconcileCluster ==
    /\ cw.pc = "idle" /\ cq
    /\ ccache.live
    /\ cq' = FALSE
    /\ cw' = [pc |-> "claim", phase |-> ccache.phase,
              endpoint |-> ccache.endpoint, del |-> ccache.del, todo |-> CanClaim]
    /\ ccur' = CopiedBy("cw", ccur)
    /\ mcur' = [m \in Machines |->
                   IF m \in CanClaim THEN CopiedBy("cw", mcur[m]) ELSE mcur[m]]
    /\ UNCHANGED <<machine, cluster, secret, mcache, ccache, scache, scur, maasVars>>

\* Bug: the secret is deleted while machines are still to be deleted.
ReconcileClusterGoneAtOnce ==
    /\ cw.pc = "idle" /\ cq
    /\ ~ccache.live
    /\ cq' = FALSE
    /\ cw' = [ClusterIdle EXCEPT !.pc = IF scache.live THEN "deleteSecret" ELSE "idle"]
    /\ UNCHANGED <<kubeVars, maasVars>>

\* Bug: the request is not put back while machines are still to be deleted.
ReconcileClusterGoneOnce ==
    LET last == \A m \in Machines : ~mcache[m].live
    IN  /\ cw.pc = "idle" /\ cq
        /\ ~ccache.live
        /\ cq' = FALSE
        /\ cw' = [ClusterIdle EXCEPT !.pc = IF last /\ scache.live THEN "deleteSecret" ELSE "idle"]
        /\ UNCHANGED <<kubeVars, maasVars>>

\* Get does not find it.  While the cache holds machines the request is
\* put back, which changes nothing here.
ReconcileClusterGone ==
    /\ cw.pc = "idle" /\ cq
    /\ ~ccache.live
    /\ \A m \in Machines : ~mcache[m].live
    /\ cq' = FALSE
    /\ cw' = [ClusterIdle EXCEPT !.pc = IF scache.live THEN "deleteSecret" ELSE "idle"]
    /\ UNCHANGED <<kubeVars, maasVars>>

\* claimMachines: one Update a machine; the first error ends the reconcile.
Claim(m) ==
    /\ cw.pc = "claim" /\ m \in cw.todo
    /\ \/ /\ Accepted("cw", m)
          /\ PutMachine(m, [machine[m] EXCEPT !.owned = TRUE], {})
          /\ cw' = [cw EXCEPT !.todo = @ \ {m}]
          /\ UNCHANGED <<cq, cluster, secret, mcache, ccache, scache, ccur, scur>>
       \/ /\ ~Accepted("cw", m)
          /\ RetryCluster
    /\ UNCHANGED maasVars

Claimed(phase) == cw.pc = "claim" /\ cw.todo = {} /\ cw.phase = phase

\* Bug: a secret that exists already is no error.
CreateOrKeepClusterSecrets ==
    /\ Claimed("")
    /\ cw' = [cw EXCEPT !.pc = "status"]
    /\ \/ /\ ~secret.live
          /\ secret' = NewSecret
          /\ scur' = {}
       \/ /\ secret.live
          /\ UNCHANGED <<secret, scur>>
    /\ UNCHANGED <<cq, machine, cluster, mcache, ccache, scache, mcur, ccur, maasVars>>

\* createClusterSecrets: a plain Create, an error when the secret exists.
CreateClusterSecrets ==
    /\ Claimed("")
    /\ \/ /\ ~secret.live
          /\ secret' = NewSecret
          /\ scur' = {}
          /\ cw' = [cw EXCEPT !.pc = "status"]
          /\ UNCHANGED <<cq, machine, cluster, mcache, ccache, scache, mcur, ccur>>
       \/ /\ secret.live
          /\ RetryCluster
    /\ UNCHANGED maasVars

\* updateStatus reads the cluster again, from the cache, but stores the
\* endpoint and the finalizers of the copy read when the reconcile began: a
\* cluster that has been marked for foreground deletion since loses the
\* finalizer that keeps it, and goes.
UpdateStatus ==
    /\ cw.pc = "status"
    /\ \/ /\ "cache" \in ccur /\ cluster.live
          /\ \/ /\ cluster.del => cw.del
                /\ PutCluster([cluster EXCEPT !.phase = "Reconciling",
                                              !.endpoint = cw.endpoint])
             \/ /\ cluster.del /\ ~cw.del
                /\ PutCluster(GoneCluster)
          /\ FinishCluster(FALSE)
       \/ /\ ~("cache" \in ccur /\ cluster.live)
          /\ RetryCluster
    /\ UNCHANGED maasVars

\* Phase Reconciling: Running once the API server of the kubeconfig answers.
CheckServices ==
    LET running == scache.live /\ scache.kube \in apiUp
    IN  /\ Claimed("Reconciling")
        /\ \/ /\ running /\ NoFault
              /\ "cw" \in ccur /\ cluster.live
              /\ PutCluster([cluster EXCEPT !.phase = "Running"])
              /\ FinishCluster(FALSE)
           \/ /\ ~(running /\ "cw" \in ccur /\ cluster.live) /\ NoFault
              /\ RetryCluster
           \/ /\ running /\ Fault("api")
              /\ RetryCluster
        /\ NoSystemChange

\* Phase Running: the machines are claimed and nothing else is to do.
NothingToReconcile ==
    /\ Claimed("Running")
    /\ FinishCluster(FALSE)
    /\ ccur' = ccur \ {"cw"}
    /\ UNCHANGED <<cluster, secret, scur, maasVars>>

DeleteSecret ==
    /\ cw.pc = "deleteSecret"
    /\ \/ /\ secret.live
          /\ secret' = GoneSecret
          /\ scur' = {}
          /\ FinishCluster(FALSE)
          /\ UNCHANGED <<cluster, ccur>>
       \/ /\ ~secret.live
          /\ RetryCluster
    /\ UNCHANGED maasVars

WorkCluster ==
    \/ \E m \in Machines : Claim(m)
    \/ CreateClusterSecrets \/ UpdateStatus \/ CheckServices
    \/ NothingToReconcile \/ DeleteSecret

ClusterControllerNext == WorkCluster \/ ReconcileCluster \/ ReconcileClusterGone
=============================================================================
