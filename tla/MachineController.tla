------------------------- MODULE MachineController -------------------------
(***************************************************************************)
(* The machine controller (pkg/controller/machine): a work queue of        *)
(* machine names and the one worker that reconciles them.  A reconcile is  *)
(* split at every call that reads or writes shared state, so that the      *)
(* other controller, the informers, the users and MAAS move in between.    *)
(* Bootstrap tokens, images and pods on a node are not state here.         *)
(***************************************************************************)
EXTENDS Maas

VARIABLES
    queue,  \* names waiting in the work queue
    mw      \* the worker and the local variables of its reconcile

mcVars == <<queue, mw>>

\* The call the worker makes next.  "panic" is the crash of the process that
\* follows an index into an empty list of addresses.
MachineStep ==
    {"idle", "get", "mark", "prepare", "allocate", "start", "noip", "kubeconfig",
     "endpoint", "record", "release", "fail", "wait", "delete", "removeNode",
     "unprovision", "finalize", "panic"}

\* m, obj: the machine and the copy of it; s: the system just allocated;
\* api: the API server the reconcile talks to, or has a worker join.
MachineWorker ==
    [pc : MachineStep, m : Machines \cup {None}, obj : MachineObj,
     s : Systems \cup {None}, api : Systems \cup {None}]

MachineIdle ==
    [pc |-> "idle", m |-> None, obj |-> GoneMachine, s |-> None, api |-> None]

MachineControllerTypeOK ==
    /\ queue \in SUBSET Machines
    /\ mw \in MachineWorker

MachineControllerInit ==
    /\ queue = Posted
    /\ mw = MachineIdle

At(step) == mw.pc = step

Goto(step) == /\ mw' = [mw EXCEPT !.pc = step]
              /\ UNCHANGED queue

\* The reconcile is over; its local copies are dropped.
Done(again) ==
    /\ mw' = MachineIdle
    /\ queue' = queue \cup again
    /\ scur' = scur \ {"mw"}
    /\ UNCHANGED <<cluster, secret, mcache, ccache, scache, ccur>>

\* It is over without having written the machine.
Leave(again) == /\ Done(again)
                /\ UNCHANGED machine
                /\ mcur' = DroppedBy("mw")

\* Errors and "not ready" alike put the name back in the queue.
Retry == Leave({mw.m})

\* Bug: after a conflict the same copy is stored again.
ForceAndFinish(o) ==
    \/ /\ machine[mw.m].live
       /\ PutMachine(mw.m, o, {})
       /\ Done({})
    \/ /\ ~machine[mw.m].live
       /\ Retry

\* The Update of the machine that ends a reconcile: o is stored, or there is
\* a conflict and the request is retried.
UpdateAndFinish(o) ==
    \/ /\ Accepted("mw", mw.m)
       /\ PutMachine(mw.m, o, {})
       /\ Done({})
    \/ /\ ~Accepted("mw", mw.m)
       /\ Retry

(***************************************************************************)
(* Reconcile                                                               *)
(***************************************************************************)
\* Bug: the phase alone decides, the deletion timestamp is not looked at.
FirstStepOfPhase(o) ==
    CASE o.live /\ o.phase = "Deleting" -> "delete"
      [] o.live /\ o.phase = "Provisioning" -> "wait"
      [] o.live /\ o.phase = "" -> "prepare"
      [] OTHER -> "idle"

FirstStep(o) ==
    CASE ~o.live -> "idle"
      [] o.live /\ o.del /\ o.phase # "Deleting" -> "mark"
      [] o.live /\ o.phase = "Deleting" -> "delete"
      [] o.live /\ ~o.del /\ o.phase = "Provisioning" -> "wait"
      [] o.live /\ ~o.del /\ o.phase = "" -> "prepare"
      [] OTHER -> "idle"

\* The worker takes a name from the queue; an event that comes now puts it
\* back.
Dequeue(m) ==
    /\ At("idle") /\ m \in queue
    /\ queue' = queue \ {m}
    /\ mw' = [MachineIdle EXCEPT !.pc = "get", !.m = m]
    /\ UNCHANGED <<kubeVars, maasVars>>

\* Read the machine.  Nothing is left to do for one that is gone, Ready or
\* in Error.
GetMachine ==
    LET o == mcache[mw.m]
    IN  /\ At("get")
        /\ \/ /\ FirstStep(o) = "idle"
              /\ Leave({})
           \/ /\ FirstStep(o) # "idle"
              /\ mw' = [mw EXCEPT !.pc = FirstStep(o), !.obj = o]
              /\ mcur' = [mcur EXCEPT ![mw.m] = CopiedBy("mw", @)]
              /\ UNCHANGED <<queue, machine, cluster, secret, mcache, ccache, scache, ccur, scur>>
        /\ UNCHANGED maasVars

\* The machine has a deletion timestamp: set the phase, then handle it.
MarkDeleting ==
    /\ At("mark")
    /\ \/ LET o == [mw.obj EXCEPT !.phase = "Deleting"]
          IN  /\ Accepted("mw", mw.m)
              /\ PutMachine(mw.m, o, {"mw"})
              /\ mw' = [mw EXCEPT !.pc = "delete", !.obj = o]
              /\ UNCHANGED <<queue, cluster, secret, mcache, ccache, scache, ccur, scur>>
       \/ /\ ~Accepted("mw", mw.m)
          /\ Retry
    /\ UNCHANGED maasVars

(***************************************************************************)
(* create                                                                  *)
(***************************************************************************)
IsMaster == mw.m \in Masters

\* What create needs from the caches: the cluster and the secret and, for a
\* worker, an API server that answers and the endpoint to join.
CanCreate ==
    /\ ccache.live
    /\ scache.live
    /\ IsMaster \/ (scache.kube \in apiUp /\ ccache.endpoint # None)

\* getCluster .. prepareMaasRequest.  No image is found when there is none
\* and when the request for the boot resources fails.
PrepareCreate ==
    /\ At("prepare")
    /\ \/ /\ ~CanCreate /\ NoFault
          /\ Retry
       \/ /\ CanCreate /\ ~IsMaster /\ Fault("api")
          /\ Retry
       \/ /\ CanCreate
          /\ NoFault
          /\ mw' = [mw EXCEPT !.pc = "allocate",
                              !.api = IF IsMaster THEN None ELSE ccache.endpoint]
          /\ scur' = IF IsMaster THEN CopiedBy("mw", scur) ELSE scur
          /\ UNCHANGED <<queue, machine, cluster, secret, mcache, ccache, scache, mcur, ccur>>
       \/ /\ CanCreate
          /\ Fault("images")
          /\ Goto("fail")
          /\ UNCHANGED kubeVars
    /\ NoSystemChange

Allocate ==
    /\ At("allocate")
    /\ \/ \E s \in Systems :
              /\ AllocateMachine(s)
              /\ mw' = [mw EXCEPT !.pc = "start", !.s = s]
              /\ UNCHANGED <<queue, kubeVars>>
       \/ /\ used = Systems
          /\ Retry
          /\ UNCHANGED maasVars

\* Bug: the endpoint is published before the kubeconfig is stored.
StartThenPublish ==
    /\ At("start")
    /\ NoFault
    /\ StartMachine(mw.s, [node |-> mw.m, join |-> mw.api])
    /\ Goto("endpoint")
    /\ UNCHANGED kubeVars

\* Deploy the system.  When that fails Create releases it; when it has no
\* address doMaasCreate releases it.
Start ==
    /\ At("start")
    /\ \/ /\ NoFault
          /\ StartMachine(mw.s, [node |-> mw.m, join |-> mw.api])
          /\ Goto(IF IsMaster THEN "kubeconfig" ELSE "record")
       \/ /\ Fault("start")
          /\ Goto("release")
          /\ NoSystemChange
       \/ /\ Fault("noip")
          /\ StartMachine(mw.s, [node |-> mw.m, join |-> mw.api])
          /\ Goto("noip")
    /\ UNCHANGED kubeVars

\* Releasing succeeds, so no error is set and create goes on to
\* IPAddresses[0].
ReleaseWithoutAddress ==
    /\ At("noip")
    /\ ReleaseMachine(mw.s)
    /\ Goto("panic")
    /\ UNCHANGED kubeVars

\* Write the kubeconfig for the new master into the secret.  A conflict is
\* retried; it is not a releaseError.  Storing the value that is there
\* already is not a write.
CreateKubeconfig ==
    /\ At("kubeconfig")
    /\ \/ /\ "mw" \in scur /\ secret.live
          /\ secret' = [secret EXCEPT !.kube = mw.s]
          /\ scur' = IF secret.kube = mw.s THEN scur \ {"mw"} ELSE {}
          /\ Goto("endpoint")
          /\ UNCHANGED <<machine, cluster, mcache, ccache, scache, mcur, ccur>>
       \/ /\ ~("mw" \in scur /\ secret.live)
          /\ Retry
    /\ UNCHANGED maasVars

\* updateCluster reads the cluster again, from the cache.
UpdateCluster ==
    /\ At("endpoint")
    /\ \/ /\ "cache" \in ccur /\ cluster.live
          /\ cluster' = [cluster EXCEPT !.endpoint = mw.s]
          /\ ccur' = {}
          /\ Goto("record")
          /\ UNCHANGED <<machine, secret, mcache, ccache, scache, mcur, scur>>
       \/ /\ ~("cache" \in ccur /\ cluster.live)
          /\ Goto("release")
          /\ UNCHANGED kubeVars
    /\ UNCHANGED maasVars

\* Bug: the machine is built anew and not updated.
UpdateMachineAfresh ==
    /\ At("record")
    /\ UpdateAndFinish([NewMachine EXCEPT !.fin = TRUE, !.phase = "Provisioning", !.sys = mw.s])
    /\ UNCHANGED maasVars

\* Bug: the error of a conflict is not a releaseError.
UpdateMachineOrRetry ==
    /\ At("record")
    /\ UpdateAndFinish([mw.obj EXCEPT !.fin = TRUE, !.phase = "Provisioning", !.sys = mw.s])
    /\ UNCHANGED maasVars

\* Bug: the releaseError is returned also when the Update was accepted.
UpdateMachineAndRelease ==
    /\ At("record")
    /\ Accepted("mw", mw.m)
    /\ PutMachine(mw.m, [mw.obj EXCEPT !.fin = TRUE, !.phase = "Provisioning", !.sys = mw.s], {})
    /\ Goto("release")
    /\ UNCHANGED <<cluster, secret, mcache, ccache, scache, ccur, scur, maasVars>>

\* Finalizer, phase and system id are recorded in one Update.
UpdateMachine ==
    /\ At("record")
    /\ \/ LET o == [mw.obj EXCEPT !.fin = TRUE, !.phase = "Provisioning", !.sys = mw.s]
          IN  /\ Accepted("mw", mw.m)
              /\ PutMachine(mw.m, o, {})
              /\ Done({})
       \/ /\ ~Accepted("mw", mw.m)
          /\ Goto("release")
          /\ UNCHANGED kubeVars
    /\ UNCHANGED maasVars

\* Reconcile handles the releaseError, and Client.Create a failed start.
Release ==
    /\ At("release")
    /\ ReleaseMachine(mw.s)
    /\ Retry

\* Reconcile handles the unrecoverableError.
Fail ==
    /\ At("fail")
    /\ UpdateAndFinish([mw.obj EXCEPT !.phase = "Error"])
    /\ UNCHANGED maasVars

(***************************************************************************)
(* handleWaitingForReady                                                   *)
(***************************************************************************)
NodeRegistered == scache.live /\ scache.kube \in apiUp /\ mw.m \in nodes[scache.kube]

WaitForReady ==
    /\ At("wait")
    /\ \/ /\ NodeRegistered /\ NoFault
          /\ UpdateAndFinish([mw.obj EXCEPT !.phase = "Ready"])
       \/ /\ scache.live
          /\ (~NodeRegistered /\ NoFault) \/ Fault("api")
          /\ Retry
       \/ /\ ~scache.live /\ NoFault
          /\ machine[mw.m].live /\ ~machine[mw.m].del
          /\ PutMachine(mw.m, Deleted(machine[mw.m]), {})
          /\ Done({mw.m})
       \/ /\ ~scache.live /\ NoFault
          /\ machine[mw.m].live /\ machine[mw.m].del
          /\ Retry
       \/ /\ ~scache.live /\ NoFault
          /\ ~machine[mw.m].live
          /\ Leave({})
    /\ NoSystemChange

(***************************************************************************)
(* handleDelete and deleteMachine                                          *)
(***************************************************************************)

\* There is no node to drain and remove, or no cluster to remove it from.
NoNodeToRemove ==
    \/ ~ccache.live
    \/ ccache.del
    \/ mw.obj.sys = None
    \/ ~scache.live
    \/ scache.kube \in apiUp /\ mw.m \notin nodes[scache.kube]

HandleDelete ==
    /\ At("delete")
    /\ \/ /\ NoNodeToRemove /\ NoFault
          /\ Goto(IF mw.obj.sys = None THEN "finalize" ELSE "unprovision")
          /\ UNCHANGED kubeVars
       \/ /\ ~NoNodeToRemove /\ NoFault
          /\ scache.kube \in apiUp
          /\ mw' = [mw EXCEPT !.pc = "removeNode", !.api = scache.kube]
          /\ UNCHANGED <<queue, kubeVars>>
       \/ /\ ~NoNodeToRemove
          /\ (scache.kube \notin apiUp /\ NoFault) \/ Fault("api")
          /\ Retry
    /\ NoSystemChange

\* Nodes().Delete, once the node is cordoned.
DeleteNode ==
    /\ At("removeNode")
    /\ \/ /\ NoFault
          /\ nodes' = [nodes EXCEPT ![mw.api] = @ \ {mw.m}]
          /\ Goto("unprovision")
          /\ UNCHANGED kubeVars
       \/ /\ Fault("api")
          /\ Retry
          /\ UNCHANGED nodes
    /\ UNCHANGED <<used, boot, apiUp>>

Unprovision ==
    /\ At("unprovision")
    /\ ReleaseMachine(mw.obj.sys)
    /\ Goto("finalize")
    /\ UNCHANGED kubeVars

\* Bug: the name removed is not the finalizer's.
RemoveOtherFinalizer ==
    /\ At("finalize")
    /\ UpdateAndFinish(mw.obj)
    /\ UNCHANGED maasVars

\* Without its finalizer the object, which is marked deleted, goes.
RemoveFinalizer ==
    /\ At("finalize")
    /\ UpdateAndFinish(GoneMachine)
    /\ UNCHANGED maasVars

WorkMachine ==
    \/ GetMachine \/ MarkDeleting \/ PrepareCreate \/ Allocate \/ Start \/ ReleaseWithoutAddress
    \/ CreateKubeconfig \/ UpdateCluster \/ UpdateMachine \/ Release \/ Fail
    \/ WaitForReady \/ HandleDelete \/ DeleteNode \/ Unprovision \/ RemoveFinalizer

MachineControllerNext == WorkMachine \/ \E m \in Machines : Dequeue(m)
=============================================================================
