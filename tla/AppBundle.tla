------------------------------ MODULE AppBundle ------------------------------
(***************************************************************************)
(* The app bundle controller: it installs each AppBundle of a namespace on *)
(* the managed cluster that the secret's kubeconfig names, by four objects *)
(* made in order, each looked up first: a namespace, a service account and *)
(* a role binding, which the bundles share, and the bundle's job.          *)
(*                                                                         *)
(* Several managers may run, as during a rolling update: there is no       *)
(* leader election.  Each has its own caches, queue and worker.            *)
(***************************************************************************)
EXTENDS Naturals, Sequences

CONSTANTS
    Managers,
    Bundles,
    Remotes,    \* managed clusters the kubeconfig may come to name
    None,       \* no kubeconfig
    MaxChanges, \* bound on edits of bundles and changes of the cluster
    MaxFaults   \* bound on failed requests and crashes

ASSUME NoneAssumption == None \notin Remotes
ASSUME BoundsAssumption == MaxChanges \in Nat /\ MaxFaults \in Nat

\* The order of Reconcile, and a wrong one for a mutant.
JobFirst == <<"namespace", "account", "job", "binding">>
Parts == <<"namespace", "account", "binding", "job">>

VARIABLES
    bundle, vbundle,   \* per bundle the phase and the version; per manager its copy
    running, vrunning, \* the cluster's phase is Running, and as each cache has it
    kube, vkube,       \* the managed cluster the secret names
    remote,            \* shared objects on each managed cluster
    jobs,              \* the bundles whose job was created there
    queue,             \* bundles due in each manager's queue
    w,                 \* the workers
    changes, faults

vars == <<bundle, vbundle, running, vrunning, kube, vkube, remote, jobs, queue, w,
          changes, faults>>

BundleObj == [installed : BOOLEAN, ver : Nat]

Worker == [step : {"idle", "look", "make", "status"}, bundle : SUBSET Bundles,
           at : Remotes \cup {None}, part : 1 .. Len(Parts), ver : Nat]

Idle == [step |-> "idle", bundle |-> {}, at |-> None, part |-> 1, ver |-> 0]

Shapes ==
    /\ bundle \in [Bundles -> BundleObj] /\ vbundle \in [Managers -> [Bundles -> BundleObj]]
    /\ kube \in Remotes \cup {None} /\ vkube \in [Managers -> Remotes \cup {None}]
    /\ remote \in [Remotes -> SUBSET {"namespace", "account", "binding"}]
    /\ jobs \in [Remotes -> SUBSET Bundles]
    /\ queue \in [Managers -> SUBSET Bundles] /\ w \in [Managers -> Worker]

Bounds ==
    /\ running \in BOOLEAN /\ vrunning \in [Managers -> BOOLEAN]
    /\ changes \in 0 .. MaxChanges /\ faults \in 0 .. MaxFaults

TypeOK == Shapes /\ Bounds

Init ==
    /\ bundle = [b \in Bundles |-> [installed |-> FALSE, ver |-> 0]]
    /\ vbundle = [m \in Managers |-> bundle]
    /\ running = FALSE /\ vrunning = [m \in Managers |-> FALSE]
    /\ kube = None /\ vkube = [m \in Managers |-> None]
    /\ remote = [r \in Remotes |-> {}]
    /\ jobs = [r \in Remotes |-> {}]
    /\ queue = [m \in Managers |-> Bundles] /\ w = [m \in Managers |-> Idle]
    /\ changes = 0 /\ faults = 0

objects == <<bundle, running, kube>>
caches == <<vbundle, vrunning, vkube>>
installed == <<remote, jobs>>

Fault == faults < MaxFaults /\ faults' = faults + 1
NoFault == UNCHANGED faults

(***************************************************************************)
(* A manager's worker.                                                     *)
(***************************************************************************)
\* Every way out but the last of Reconcile comes back to the bundle: with an
\* error, or RequeueAfter while there is no cluster or it is not Running.
Return(m) == w' = [w EXCEPT ![m] = Idle] /\ UNCHANGED queue
GiveUp(m) == Return(m)
Again(m) ==
    /\ w' = [w EXCEPT ![m] = Idle]
    /\ queue' = [queue EXCEPT ![m] = @ \cup w[m].bundle]

Ready(m) == vrunning[m] /\ vkube[m] # None

\* A bundle is taken from the queue and what concerns it is read from the
\* caches.
Look(m) ==
    /\ w[m].step = "idle"
    /\ \E b \in queue[m] :
          IF vbundle[m][b].installed
          THEN w' = w /\ queue' = [queue EXCEPT ![m] = @ \ {b}]
          ELSE IF Ready(m)
          THEN /\ w' = [w EXCEPT ![m] = [step |-> "look", bundle |-> {b}, at |-> vkube[m],
                                         part |-> 1, ver |-> vbundle[m][b].ver]]
               /\ queue' = [queue EXCEPT ![m] = @ \ {b}]
          ELSE UNCHANGED <<w, queue>>
    /\ UNCHANGED <<objects, caches, installed, changes, faults>>

Part(m) == Parts[w[m].part]

Exists(m) ==
    IF Part(m) = "job" THEN w[m].bundle \subseteq jobs[w[m].at]
    ELSE Part(m) \in remote[w[m].at]

\* A namespaced object needs its namespace.
Possible(m) == Part(m) \in {"account", "job"} => "namespace" \in remote[w[m].at]

\* Bug: the end of the list is missed by one.
OnePartMore(m) ==
    w' = [w EXCEPT ![m] = IF w[m].part > Len(Parts)
                          THEN [w[m] EXCEPT !.step = "status"]
                          ELSE [w[m] EXCEPT !.step = "look", !.part = @ + 1]]

\* Bug: and the other way round.
OnePartLess(m) ==
    w' = [w EXCEPT ![m] = IF w[m].part + 1 >= Len(Parts)
                          THEN [w[m] EXCEPT !.step = "status"]
                          ELSE [w[m] EXCEPT !.step = "look", !.part = @ + 1]]

NextPart(m) ==
    w' = [w EXCEPT ![m] = IF w[m].part = Len(Parts)
                          THEN [w[m] EXCEPT !.step = "status"]
                          ELSE [w[m] EXCEPT !.step = "look", !.part = @ + 1]]

\* The Get of createNamespace, createServiceAccount, createClusterRoleBinding
\* and createInstallJob.
GetPart(m) ==
    /\ w[m].step = "look"
    /\ \/ /\ NoFault /\ UNCHANGED queue
          /\ IF Exists(m) THEN NextPart(m) ELSE w' = [w EXCEPT ![m].step = "make"]
       \/ Fault /\ Again(m)
    /\ UNCHANGED <<objects, caches, installed, changes>>

\* Their Create; another manager may have come first.
Refused(m) == Exists(m) \/ ~Possible(m)

CreatePart(m) ==
    /\ w[m].step = "make"
    /\ \/ /\ NoFault /\ ~Refused(m)
          /\ IF Part(m) = "job"
             THEN /\ jobs' = [jobs EXCEPT ![w[m].at] = @ \cup w[m].bundle]
                  /\ UNCHANGED remote
             ELSE /\ remote' = [remote EXCEPT ![w[m].at] = @ \cup {Part(m)}]
                  /\ UNCHANGED jobs
          /\ NextPart(m) /\ UNCHANGED queue
       \/ /\ IF Refused(m) THEN NoFault ELSE Fault
          /\ Again(m) /\ UNCHANGED installed
    /\ UNCHANGED <<objects, caches, changes>>

\* The phase is written into the copy read at the start.
WritePhase(m) ==
    /\ w[m].step = "status"
    /\ \E b \in w[m].bundle :
          LET accepted == bundle[b].ver = w[m].ver
          IN \/ /\ NoFault /\ accepted
                /\ bundle' = [bundle EXCEPT ![b] = [installed |-> TRUE, ver |-> @.ver + 1]]
                /\ Return(m)
             \/ /\ IF accepted THEN Fault ELSE NoFault
                /\ Again(m) /\ UNCHANGED bundle
    /\ UNCHANGED <<running, kube, caches, installed, changes>>

\* A manager dies; the next one syncs its caches and queues every bundle.
Crash(m) ==
    /\ Fault
    /\ vbundle' = [vbundle EXCEPT ![m] = bundle]
    /\ vrunning' = [vrunning EXCEPT ![m] = running]
    /\ vkube' = [vkube EXCEPT ![m] = kube]
    /\ w' = [w EXCEPT ![m] = Idle] /\ queue' = [queue EXCEPT ![m] = Bundles]
    /\ UNCHANGED <<objects, installed, changes>>

WorkerStep(m) == Look(m) \/ GetPart(m) \/ CreatePart(m) \/ WritePhase(m)

(***************************************************************************)
(* Informers; only those of bundles queue anything.                        *)
(***************************************************************************)
RefreshBundle(m, b) ==
    /\ vbundle[m][b] # bundle[b]
    /\ vbundle' = [vbundle EXCEPT ![m][b] = bundle[b]]
    /\ queue' = [queue EXCEPT ![m] = @ \cup {b}]
    /\ UNCHANGED <<objects, vrunning, vkube, installed, w, changes, faults>>

RefreshCluster(m) ==
    /\ vrunning[m] # running /\ vrunning' = [vrunning EXCEPT ![m] = running]
    /\ UNCHANGED <<objects, vbundle, vkube, installed, queue, w, changes, faults>>

RefreshSecret(m) ==
    /\ vkube[m] # kube /\ vkube' = [vkube EXCEPT ![m] = kube]
    /\ UNCHANGED <<objects, vbundle, vrunning, installed, queue, w, changes, faults>>

Refresh(m) == RefreshCluster(m) \/ RefreshSecret(m) \/ \E b \in Bundles : RefreshBundle(m, b)

(***************************************************************************)
(* The machine and cluster controllers and users.                          *)
(***************************************************************************)
\* A master is provisioned: its address is stored, then the cluster runs.
Provisioned ==
    /\ kube = None /\ \E r \in Remotes : kube' = r
    /\ UNCHANGED <<bundle, running, caches, installed, queue, w, changes, faults>>

Runs ==
    /\ kube # None /\ ~running /\ running' = TRUE
    /\ UNCHANGED <<bundle, kube, caches, installed, queue, w, changes, faults>>

Change == changes < MaxChanges /\ changes' = changes + 1
          /\ UNCHANGED <<caches, installed, queue, w, faults>>

EditBundle(b) ==
    /\ Change /\ bundle' = [bundle EXCEPT ![b].ver = @ + 1]
    /\ UNCHANGED <<running, kube>>

\* The cluster waits for a master again; a new master is another cluster.
StopsRunning == Change /\ running /\ running' = FALSE /\ UNCHANGED <<bundle, kube>>

MasterReplaced ==
    /\ Change /\ kube # None
    /\ \E r \in Remotes \ {kube} : remote[r] = {} /\ kube' = r
    /\ UNCHANGED <<bundle, running>>

Next ==
    \/ \E m \in Managers : WorkerStep(m) \/ Crash(m) \/ Refresh(m)
    \/ Provisioned \/ Runs \/ StopsRunning \/ MasterReplaced
    \/ \E b \in Bundles : EditBundle(b)

Spec == Init /\ [][Next]_vars

\* The workers and the informers go on.  A queue serves its keys in turn.
Fairness ==
    \A m \in Managers :
        /\ WF_vars(GetPart(m)) /\ WF_vars(CreatePart(m)) /\ WF_vars(WritePhase(m))
        /\ \A b \in Bundles :
              /\ WF_vars(RefreshBundle(m, b))
              /\ SF_vars(Look(m) /\ w'[m].bundle = {b})
        /\ WF_vars(Look(m)) /\ WF_vars(RefreshCluster(m)) /\ WF_vars(RefreshSecret(m))

FairSpec == Spec /\ Fairness

(***************************************************************************)
(* Properties                                                              *)
(***************************************************************************)

\* A job finds the service account it runs as, with its rights.
AccountBeforeJob ==
    \A r \in Remotes, b \in Bundles :
        b \in jobs[r] => remote[r] = {"namespace", "account", "binding"}

\* A bundle is called installed only when its job has been created somewhere.
InstalledHasJob ==
    \A b \in Bundles : bundle[b].installed => \E r \in Remotes : b \in jobs[r]

\* The inductive invariant behind these: a worker that has come to a part has
\* found or made those before it, on one managed cluster, for one bundle.
Made(m, n) == n < w[m].part \/ w[m].step = "status"

Knows(m) ==
    /\ w[m].at \in Remotes
    /\ \E b \in Bundles :
          /\ w[m].bundle = {b}
          /\ w[m].step = "status" => b \in jobs[w[m].at]
    /\ w[m].step = "status" => w[m].part = Len(Parts)
    /\ \A n \in 1 .. 3 : Made(m, n) => Parts[n] \in remote[w[m].at]

PartsMade == \A m \in Managers : w[m].step # "idle" => Knows(m)

AppInv == Shapes /\ PartsMade /\ AccountBeforeJob /\ InstalledHasJob

\* If the cluster runs in the end, every bundle is installed.
InstalledInTheEnd == <>[]running => <>(\A b \in Bundles : bundle[b].installed)

=============================================================================
