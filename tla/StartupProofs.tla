---------------------------- MODULE StartupProofs ----------------------------
(***************************************************************************)
(* Proofs about Startup, for any number of processes and faults.           *)
(***************************************************************************)
EXTENDS Startup, TLAPS

\* What a process knows of the API server stays true: what it can map is
\* served, and it runs a manager only when it can map everything.
Known(p) ==
    /\ \A k \in Kinds : k \in pod[p].mapper => crd[k] = "served"
    /\ pod[p].at = "main" => pod[p].mapper = Kinds
    /\ pod[p].mgr # "no" => pod[p].at = "main"

StartupInv ==
    /\ crd \in [Kinds -> {"none", "created", "served"}]
    /\ pod \in [Pods -> Process] /\ cluster \in BOOLEAN
    /\ \A p \in Pods : Known(p)

\* The list of the definitions is well formed.
LEMMA CrdsListed == Len(Crds) = 4 /\ \A i \in 1 .. 4 : Crds[i] \in Kinds
BY DEF Crds, Kinds

\* A process that starts again knows nothing.
LEMMA NewProcess ==
    /\ New \in Process /\ New.at = "get" /\ New.mgr = "no" /\ New.mapper = {}
BY CrdsListed DEF New, Runs, Process

LEMMA StartupInit == Init => StartupInv
BY NewProcess DEF Init, StartupInv, Known

\* A definition that is served stays so, and one process changes at a time.
LEMMA OneProcess ==
    ASSUME StartupInv, NEW p \in Pods, NEW q \in Process,
           pod' = [pod EXCEPT ![p] = q],
           crd' \in [Kinds -> {"none", "created", "served"}], UNCHANGED cluster,
           \A k \in Kinds : crd[k] = "served" => crd'[k] = "served",
           \A k \in Kinds : k \in q.mapper => crd[k] = "served",
           q.at = "main" => q.mapper = Kinds,
           q.mgr # "no" => q.at = "main"
    PROVE StartupInv'
<1>1. pod' \in [Pods -> Process]
  BY DEF StartupInv
<1>2. ASSUME NEW o \in Pods PROVE Known(o)'
  BY DEF StartupInv, Known
<1> QED
  BY <1>1, <1>2 DEF StartupInv

\* Every way to end keeps the invariant.
LEMMA ExitStep ==
    ASSUME StartupInv, NEW p \in Pods, Exit(p), UNCHANGED <<crd, cluster>>
    PROVE StartupInv'
BY NewProcess, OneProcess DEF Exit, StartupInv

\* The loop over the definitions.
LEMMA NextCrdStep ==
    ASSUME StartupInv, NEW p \in Pods, NextCrd(p),
           pod[p].at \in {"get", "create"},
           crd' \in [Kinds -> {"none", "created", "served"}], UNCHANGED cluster,
           \A k \in Kinds : crd[k] = "served" => crd'[k] = "served"
    PROVE StartupInv'
<1>1. pod[p] \in Process /\ Known(p) /\ pod[p].mgr = "no"
  BY DEF StartupInv, Known
<1>2. CASE pod[p].crd = Len(Crds)
  <2> DEFINE q == [pod[p] EXCEPT !.at = "manager"]
  <2>1. /\ q \in Process /\ q.at = "manager"
        /\ q.mapper = pod[p].mapper /\ q.mgr = "no"
    BY <1>1 DEF Process
  <2>2. pod' = [pod EXCEPT ![p] = q]
    BY <1>2 DEF NextCrd
  <2> HIDE DEF q
  <2> QED
    BY <1>1, <2>1, <2>2, OneProcess DEF Known
<1>3. CASE pod[p].crd # Len(Crds)
  <2> DEFINE q == [New EXCEPT !.crd = pod[p].crd + 1]
  <2>1. q \in Process /\ q.at = "get" /\ q.mapper = {} /\ q.mgr = "no"
    <3>1. pod[p].crd + 1 \in 1 .. Len(Crds)
      BY <1>1, <1>3, CrdsListed DEF Process
    <3> QED
      BY <3>1, NewProcess DEF Process
  <2>2. pod' = [pod EXCEPT ![p] = q]
    BY <1>3 DEF NextCrd
  <2> HIDE DEF q
  <2> QED
    BY <2>1, <2>2, OneProcess
<1> QED
  BY <1>2, <1>3

\* The steps of a process up to its two goroutines.
LEMMA OperatorStep ==
    ASSUME StartupInv, NEW p \in Pods, Operator(p)
    PROVE StartupInv'
<1>1. pod[p] \in Process /\ Known(p) /\ crd \in [Kinds -> {"none", "created", "served"}]
  BY DEF StartupInv
<1>2. Crd(p) \in Kinds
  BY <1>1, CrdsListed DEF Crd, Process
<1>3. CASE GetCrd(p)
  <2>1. CASE pod' = [pod EXCEPT ![p].at = "create"]
    <3> DEFINE q == [pod[p] EXCEPT !.at = "create"]
    <3>1. q \in Process /\ q.at = "create" /\ q.mapper = pod[p].mapper /\ q.mgr = pod[p].mgr
      BY <1>1 DEF Process
    <3>2. pod' = [pod EXCEPT ![p] = q]
      BY <2>1
    <3>3. pod[p].mgr = "no"
      BY <1>1, <1>3 DEF Known, GetCrd
    <3> HIDE DEF q
    <3> QED
      BY <1>1, <1>3, <3>1, <3>2, <3>3, OneProcess DEF GetCrd, world, Known
  <2> QED
    BY <1>1, <1>3, <2>1, ExitStep, NextCrdStep DEF GetCrd, world
<1>4. CASE CreateCrd(p)
  <2>1. CASE crd[Crd(p)] = "none" /\ crd' = [crd EXCEPT ![Crd(p)] = "created"] /\ NextCrd(p)
    BY <1>1, <1>2, <1>4, <2>1, NextCrdStep DEF CreateCrd
  <2> QED
    BY <1>4, <2>1, ExitStep DEF CreateCrd
<1>5. CASE NewManager(p)
  <2> DEFINE served == {k \in Kinds : crd[k] = "served"}
             q == Runs("register", served, FALSE, "no", FALSE)
  <2>1. CASE pod' = [pod EXCEPT ![p] = q]
    <3>1. q \in Process /\ q.at = "register" /\ q.mapper = served /\ q.mgr = "no"
      BY CrdsListed DEF Process, Runs
    <3>2. \A k \in Kinds : k \in served => crd[k] = "served"
      OBVIOUS
    <3> HIDE DEF q, served
    <3> QED
      BY <1>1, <1>5, <2>1, <3>1, <3>2, OneProcess DEF NewManager, world
  <2> QED
    BY <1>5, <2>1, ExitStep DEF NewManager, world
<1>6. CASE AddToManager(p)
  <2>1. CASE Registrable(p) /\ pod' = [pod EXCEPT ![p].at = "main"]
    <3> DEFINE q == [pod[p] EXCEPT !.at = "main"]
    <3>1. q \in Process /\ q.at = "main" /\ q.mapper = pod[p].mapper
      BY <1>1 DEF Process
    <3>2. pod' = [pod EXCEPT ![p] = q]
      BY <2>1
    <3> HIDE DEF q
    <3> QED
      BY <1>1, <1>6, <2>1, <3>1, <3>2, OneProcess DEF AddToManager, world, Known, Registrable
  <2> QED
    BY <1>6, <2>1, ExitStep DEF AddToManager, world
<1>7. CASE ServeWeb(p)
  <2> DEFINE q == [pod[p] EXCEPT !.web = TRUE]
  <2>1. q \in Process /\ q.at = pod[p].at /\ q.mapper = pod[p].mapper /\ q.mgr = pod[p].mgr
    BY <1>1 DEF Process
  <2>2. pod' = [pod EXCEPT ![p] = q]
    BY <1>7 DEF ServeWeb
  <2>3. crd' = crd /\ cluster' = cluster
    BY <1>7 DEF ServeWeb, world
  <2> HIDE DEF q
  <2> QED
    BY <1>1, <2>1, <2>2, <2>3, OneProcess DEF Known
<1>8. CASE StartManager(p)
  <2> DEFINE q == [pod[p] EXCEPT !.mgr = "starting"]
  <2>1. q \in Process /\ q.at = pod[p].at /\ q.mapper = pod[p].mapper
    BY <1>1 DEF Process
  <2>2. pod' = [pod EXCEPT ![p] = q] /\ pod[p].at = "main"
    BY <1>8 DEF StartManager
  <2>3. crd' = crd /\ cluster' = cluster
    BY <1>8 DEF StartManager, world
  <2> HIDE DEF q
  <2> QED
    BY <1>1, <2>1, <2>2, <2>3, OneProcess DEF Known
<1>9. CASE CachesSynced(p)
  <2> DEFINE q == Runs("main", pod[p].mapper, pod[p].web, "running", cluster)
  <2>1. CASE pod' = [pod EXCEPT ![p] = q]
    <3>1. q \in Process /\ q.at = "main" /\ q.mapper = pod[p].mapper
      BY <1>1, CrdsListed DEF Process, Runs, StartupInv
    <3>2. pod[p].at = "main" /\ crd' = crd /\ cluster' = cluster
      BY <1>1, <1>9 DEF CachesSynced, world, Known
    <3> HIDE DEF q
    <3> QED
      BY <1>1, <2>1, <3>1, <3>2, OneProcess DEF Known
  <2> QED
    BY <1>9, <2>1, ExitStep DEF CachesSynced, world
<1> QED
  BY <1>3, <1>4, <1>5, <1>6, <1>7, <1>8, <1>9 DEF Operator

\* What comes from outside: deliveries, signals, clients, the API server.
LEMMA OutsideStep ==
    ASSUME StartupInv, NEW p \in Pods,
           Refresh(p) \/ GetClusterList(p) \/ Signal(p) \/ Killed(p)
    PROVE StartupInv'
<1>1. pod[p] \in Process /\ Known(p) /\ crd \in [Kinds -> {"none", "created", "served"}]
  BY DEF StartupInv
<1>2. crd' = crd /\ cluster' = cluster
  BY DEF Refresh, GetClusterList, Signal, Killed, world
<1>3. CASE Refresh(p)
  <2> DEFINE q == [pod[p] EXCEPT !.sees = cluster]
  <2>1. q \in Process /\ q.at = pod[p].at /\ q.mapper = pod[p].mapper /\ q.mgr = pod[p].mgr
    BY <1>1 DEF Process, StartupInv
  <2>2. pod' = [pod EXCEPT ![p] = q]
    BY <1>3 DEF Refresh
  <2> HIDE DEF q
  <2> QED
    BY <1>1, <1>2, <2>1, <2>2, OneProcess DEF Known
<1>4. CASE GetClusterList(p)
  BY <1>2, <1>4 DEF GetClusterList, StartupInv, Known
<1>5. CASE Signal(p) \/ Killed(p)
  <2>1. CASE StopsManager(p) /\ pod' = [pod EXCEPT ![p].mgr = "stopped"]
    <3> DEFINE q == [pod[p] EXCEPT !.mgr = "stopped"]
    <3>1. q \in Process /\ q.at = pod[p].at /\ q.mapper = pod[p].mapper
      BY <1>1 DEF Process
    <3>2. pod' = [pod EXCEPT ![p] = q] /\ pod[p].mgr # "no"
      BY <2>1 DEF StopsManager
    <3> HIDE DEF q
    <3> QED
      BY <1>1, <1>2, <3>1, <3>2, OneProcess DEF Known
  <2> QED
    BY <1>2, <1>5, <2>1, ExitStep DEF Signal, Killed
<1> QED
  BY <1>3, <1>4, <1>5

\* What a process can map stays served: the inductive invariant.
THEOREM StartupInvariant == Spec => []StartupInv
<1>1. StartupInv /\ [Next]_vars => StartupInv'
  <2> SUFFICES ASSUME StartupInv, [Next]_vars PROVE StartupInv'
    OBVIOUS
  <2>1. CASE UNCHANGED vars
    BY <2>1 DEF vars, StartupInv, Known
  <2>2. CASE ClusterCreated
    BY <2>2 DEF ClusterCreated, StartupInv, Known
  <2>3. ASSUME NEW k \in Kinds, Establish(k) PROVE StartupInv'
    BY <2>3 DEF Establish, StartupInv, Known
  <2> QED
    BY <2>1, <2>2, <2>3, OperatorStep, OutsideStep DEF Next
<1> QED
  BY <1>1, StartupInit, PTL DEF Spec

\* Controllers run only against an API server that serves all they watch.
THEOREM ControllersServed == Spec => []RunningIsServed
<1>1. StartupInv => RunningIsServed
  BY DEF StartupInv, Known, RunningIsServed
<1> QED
  BY <1>1, StartupInvariant, PTL

=============================================================================
