------------------------------- MODULE Startup -------------------------------
(***************************************************************************)
(* The life of the operator's processes, one to a pod: each installs the   *)
(* custom resource definitions it does not find, takes the resources that  *)
(* the API server serves into its REST mapper, registers its controllers,  *)
(* and then runs a web server and the manager side by side.  Every error   *)
(* on the way ends the process, which is started again.                    *)
(*                                                                         *)
(* One CnctCluster stands for what the controllers and the calls read.     *)
(***************************************************************************)
EXTENDS Naturals, Sequences

CONSTANTS
    Pods,       \* processes that run at the same time
    MaxSignals, \* bound on SIGTERMs
    MaxFaults   \* bound on failed requests and killed processes

ASSUME BoundsAssumption == MaxSignals \in Nat /\ MaxFaults \in Nat

\* In the order of installCrdsIfNotFound.
Crds == <<"cnctclusters", "cnctmachines", "cnctmachinesets", "appbundles">>
Kinds == {"cnctclusters", "cnctmachines", "cnctmachinesets", "appbundles"}

VARIABLES
    crd,        \* whether each definition is there, and whether it is served yet
    pod,        \* what each process does
    cluster,    \* the CnctCluster exists
    listed,     \* the last list a client got shows it
    signals, faults

vars == <<crd, pod, cluster, listed, signals, faults>>

Process == [at : {"get", "create", "manager", "register", "main"},
            crd : 1 .. Len(Crds),
            mapper : SUBSET Kinds,                          \* resources that can be mapped
            web : BOOLEAN,                                  \* the web server serves
            mgr : {"no", "starting", "running", "stopped"}, \* the manager
            sees : BOOLEAN]                                 \* the cluster is in the cache

TypeOK ==
    /\ crd \in [Kinds -> {"none", "created", "served"}]
    /\ pod \in [Pods -> Process]
    /\ cluster \in BOOLEAN /\ listed \in BOOLEAN
    /\ signals \in 0 .. MaxSignals /\ faults \in 0 .. MaxFaults

Runs(at, mapper, web, mgr, sees) ==
    [at |-> at, crd |-> 1, mapper |-> mapper, web |-> web, mgr |-> mgr, sees |-> sees]

New == Runs("get", {}, FALSE, "no", FALSE)

\* An earlier version of the operator may have installed some definitions.
Init ==
    /\ crd \in [Kinds -> {"none", "served"}]
    /\ pod = [p \in Pods |-> New]
    /\ cluster \in BOOLEAN /\ (cluster => crd["cnctclusters"] = "served")
    /\ listed = FALSE
    /\ signals = 0 /\ faults = 0

Fault == faults < MaxFaults /\ faults' = faults + 1
NoFault == UNCHANGED faults

world == <<crd, cluster, listed, signals>>

\* os.Exit(1), and the container is started again.
Exit(p) == pod' = [pod EXCEPT ![p] = New]

(***************************************************************************)
(* operator                                                                *)
(***************************************************************************)
Crd(p) == Crds[pod[p].crd]

NextCrd(p) ==
    pod' = [pod EXCEPT ![p] = IF pod[p].crd = Len(Crds)
                              THEN [pod[p] EXCEPT !.at = "manager"]
                              ELSE [New EXCEPT !.crd = pod[p].crd + 1]]

\* For a mutant: it creates every definition without a look.
GetNothing(p) ==
    /\ pod[p].at = "get" /\ NoFault /\ pod' = [pod EXCEPT ![p].at = "create"]
    /\ UNCHANGED world

\* installCrdsIfNotFound looks a definition up ...
GetCrd(p) ==
    /\ pod[p].at = "get"
    /\ \/ /\ NoFault
          /\ IF crd[Crd(p)] = "none" THEN pod' = [pod EXCEPT ![p].at = "create"] ELSE NextCrd(p)
       \/ Fault /\ Exit(p)
    /\ UNCHANGED world

\* ... and creates it; another process may have come first.
CreateCrd(p) ==
    /\ pod[p].at = "create"
    /\ \/ /\ NoFault /\ crd[Crd(p)] = "none"
          /\ crd' = [crd EXCEPT ![Crd(p)] = "created"] /\ NextCrd(p)
       \/ /\ IF crd[Crd(p)] = "none" THEN Fault ELSE NoFault
          /\ Exit(p) /\ UNCHANGED crd
    /\ UNCHANGED <<cluster, listed, signals>>

\* manager.New discovers once what can be mapped.
NewManager(p) ==
    /\ pod[p].at = "manager"
    /\ \/ /\ NoFault
          /\ pod' = [pod EXCEPT ![p] = Runs("register", {k \in Kinds : crd[k] = "served"},
                                            FALSE, "no", FALSE)]
       \/ Fault /\ Exit(p)
    /\ UNCHANGED world

\* The watches of the controllers need their resources.  Without the MAAS
\* client, or the port of the web server, the process ends, too.
RegistrableFirst(p) == Crds[1] \in pod[p].mapper
Registrable(p) == pod[p].mapper = Kinds

AddToManager(p) ==
    /\ pod[p].at = "register"
    /\ \/ NoFault /\ Registrable(p) /\ pod' = [pod EXCEPT ![p].at = "main"]
       \/ (IF Registrable(p) THEN Fault ELSE NoFault) /\ Exit(p)
    /\ UNCHANGED world

\* The two goroutines of operator.
ServeWeb(p) ==
    /\ pod[p].at = "main" /\ ~pod[p].web /\ pod' = [pod EXCEPT ![p].web = TRUE]
    /\ UNCHANGED <<world, faults>>

\* For a mutant: the web server is not in a goroutine of its own.
StartManagerFirst(p) ==
    /\ pod[p].at = "main" /\ pod[p].mgr = "no" /\ ~pod[p].web
    /\ pod' = [pod EXCEPT ![p].mgr = "starting"]
    /\ UNCHANGED <<world, faults>>

StartManager(p) ==
    /\ pod[p].at = "main" /\ pod[p].mgr = "no" /\ pod' = [pod EXCEPT ![p].mgr = "starting"]
    /\ UNCHANGED <<world, faults>>

\* The caches have synced and the controllers run, or a controller fails.
CachesSynced(p) ==
    /\ pod[p].mgr = "starting"
    /\ \/ /\ NoFault
          /\ pod' = [pod EXCEPT ![p] = Runs("main", pod[p].mapper, pod[p].web, "running", cluster)]
       \/ Fault /\ Exit(p)
    /\ UNCHANGED world

Operator(p) ==
    \/ GetCrd(p) \/ CreateCrd(p) \/ NewManager(p) \/ AddToManager(p)
    \/ ServeWeb(p) \/ StartManager(p) \/ CachesSynced(p)

(***************************************************************************)
(* What a running process meets.                                           *)
(***************************************************************************)
Refresh(p) ==
    /\ pod[p].mgr = "running" /\ pod[p].sees # cluster
    /\ pod' = [pod EXCEPT ![p].sees = cluster]
    /\ UNCHANGED <<world, faults>>

\* GetClusterList answers from the cache, filled or not.
GetClusterList(p) ==
    /\ pod[p].web /\ listed' = pod[p].sees
    /\ UNCHANGED <<crd, pod, cluster, signals, faults>>

\* The first SIGTERM stops the manager, which does not wait for its
\* controllers; the next one, or one that meets no handler, ends the process.
StopsManager(p) == pod[p].mgr \in {"starting", "running"}

Signal(p) ==
    /\ signals < MaxSignals /\ signals' = signals + 1
    /\ IF StopsManager(p) THEN pod' = [pod EXCEPT ![p].mgr = "stopped"] ELSE Exit(p)
    /\ UNCHANGED <<crd, cluster, listed, faults>>

Killed(p) == Fault /\ Exit(p) /\ UNCHANGED world

\* The API server comes to serve a definition.
Establish(k) ==
    /\ crd[k] = "created" /\ crd' = [crd EXCEPT ![k] = "served"]
    /\ UNCHANGED <<pod, cluster, listed, signals, faults>>

ClusterCreated ==
    /\ ~cluster /\ crd["cnctclusters"] = "served" /\ cluster' = TRUE
    /\ UNCHANGED <<crd, pod, listed, signals, faults>>

Next ==
    \/ \E p \in Pods :
          Operator(p) \/ Refresh(p) \/ GetClusterList(p) \/ Signal(p) \/ Killed(p)
    \/ ClusterCreated \/ \E k \in Kinds : Establish(k)

Spec == Init /\ [][Next]_vars

\* Processes go on and are started again, the API server establishes what has
\* been created.
Fairness ==
    /\ \A p \in Pods : WF_vars(Operator(p)) /\ WF_vars(Refresh(p))
    /\ \A k \in Kinds : WF_vars(Establish(k))

FairSpec == Spec /\ Fairness

(***************************************************************************)
(* Properties                                                              *)
(***************************************************************************)

\* Controllers run only against an API server that serves all they watch,
\* although each process has read that once, before it was sure.
RunningIsServed ==
    \A p \in Pods : pod[p].mgr # "no" => \A k \in Kinds : crd[k] = "served"

\* However processes race for the definitions and however often they end, all
\* of them come to run their controllers, unless they are told to stop.
AllRun == <>[](\A p \in Pods : pod[p].mgr \in {"running", "stopped"} /\ pod[p].web)

\* "Will retrieve a list of clusters": with web servers that answer before
\* their caches are filled, a later list may leave out what an earlier one has
\* shown, but not for ever, unless a process that has been told to stop goes
\* on answering from caches that no longer follow.
ListsSettle ==
    <>[][(\A p \in Pods : pod[p].mgr # "stopped") => (listed /\ cluster => listed')]_vars

=============================================================================
