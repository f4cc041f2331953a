----------------------------- MODULE MachineSet -----------------------------
(***************************************************************************)
(* The machine set controller: one CnctMachineSet, the CnctMachines of its *)
(* namespace, the controller's single worker and what acts on the same     *)
(* objects: users, the cluster controller, the machine controller and the  *)
(* garbage collector.                                                      *)
(*                                                                         *)
(* Reads come from informer caches, writes carry the version they were     *)
(* computed from; "cache" and "w" (the worker) are the holders a copy of   *)
(* which may be current, as in KubeAPI.                                    *)
(***************************************************************************)
EXTENDS Integers, FiniteSets

CONSTANTS
    Names,      \* names GenerateName draws from; unused ones are reused
    None,       \* no controller reference
    Sizes,      \* the values users give spec.replicas
    Orphans,    \* the machines users post, with the labels of the set
    MayGo,      \* whether users may delete the set
    MaxUser,    \* bound on what users and other controllers do
    Faults,     \* the kinds of fault that may happen in a run
    MaxFaults   \* how many of them, in total

ASSUME NamesAssumption == IsFiniteSet(Names)
ASSUME SizesAssumption == Sizes \subseteq Int /\ Orphans \subseteq Names
ASSUME NoOwnerAssumption == None \notin {"set", "cluster"}
ASSUME BoundsAssumption == MayGo \in BOOLEAN /\ MaxUser \in Nat /\ MaxFaults \in Nat

\* A Create fails, a wait for the cache expires, any other call fails, the
\* manager dies.
ASSUME FaultsAssumption == Faults \subseteq {"create", "wait", "call", "crash"}

VARIABLES
    set, vset, scur,      \* the machine set, the informer's copy, holders of a current copy
    node, vnode, ncur,    \* the same for the machines
    due,                  \* machines with an undelivered event for the set
    queue,                \* the set's key is in the work queue
    w,                    \* the worker
    users, faults         \* how much of the two bounds is used

vars == <<set, vset, scur, node, vnode, ncur, due, queue, w, users, faults>>

(***************************************************************************)
(* Objects.                                                                *)
(***************************************************************************)
SetObj == [live : BOOLEAN, size : Sizes, fin : BOOLEAN, del : BOOLEAN,
           phase : {"", "Ready", "Error"}, count : 0 .. Cardinality(Names)]

NodeObj == [live : BOOLEAN, ctrl : {None, "set", "cluster"}, label : BOOLEAN, del : BOOLEAN]

NoNode == [live |-> FALSE, ctrl |-> None, label |-> FALSE, del |-> FALSE]

Steps == {"idle", "read", "finalize", "adopt", "create", "made", "delete",
          "gone", "hung", "status", "write"}

Worker == [step : Steps, size : Sizes,
           kept : SUBSET Names,     \* filteredMachines
           todo : SUBSET Names,     \* orphans to adopt, machines to delete
           wait : SUBSET Names,     \* machines whose creation or deletion to wait for
           left : Nat,              \* creations left
           failed : BOOLEAN]        \* a create or delete call failed: syncErr

Idle == [step |-> "idle", size |-> CHOOSE r \in Sizes : TRUE,
         kept |-> {}, todo |-> {}, wait |-> {}, left |-> 0, failed |-> FALSE]

TypeOK ==
    /\ set \in SetObj /\ vset \in SetObj /\ scur \in SUBSET {"cache", "w"}
    /\ node \in [Names -> NodeObj] /\ vnode \in [Names -> NodeObj]
    /\ ncur \in [Names -> SUBSET {"cache", "w"}] /\ due \in SUBSET Names
    /\ queue \in BOOLEAN /\ w \in Worker
    /\ users \in 0 .. MaxUser /\ faults \in 0 .. MaxFaults

\* A set has been posted; the manager's caches are synced.
Init ==
    /\ \E r \in Sizes : set = [live |-> TRUE, size |-> r, fin |-> FALSE, del |-> FALSE,
                               phase |-> "", count |-> 0]
    /\ vset = set /\ scur = {"cache"}
    /\ node = [n \in Names |-> NoNode]
    /\ vnode = node /\ ncur = [n \in Names |-> {"cache"}] /\ due = {}
    /\ queue = TRUE /\ w = Idle
    /\ users = 0 /\ faults = 0

\* The replicas: controlled by the set, matched by its selector, not being deleted.
Counted(o) == o.live /\ o.ctrl = "set" /\ o.label /\ ~o.del
Replicas == {n \in Names : Counted(node[n])}

CopiedBy(h, cur) == IF "cache" \in cur THEN cur \cup {h} ELSE cur \ {h}
Orphaned(o) == o.live /\ o.ctrl = None /\ o.label
Fault(kind) == kind \in Faults /\ faults < MaxFaults /\ faults' = faults + 1
NoFault == UNCHANGED faults

\* Every version is delivered in order; one that is, or was, controlled by the
\* set is an event for it, however many versions the cache is behind.
UnwatchedPutNode(n, o) ==
    /\ node' = [node EXCEPT ![n] = o]
    /\ ncur' = [ncur EXCEPT ![n] = {}]
    /\ UNCHANGED due

PutNode(n, o) ==
    /\ node' = [node EXCEPT ![n] = o]
    /\ ncur' = [ncur EXCEPT ![n] = {}]
    /\ due' = IF "set" \in {node[n].ctrl, o.ctrl} THEN due \cup {n} ELSE due

\* A Delete call: a machine that has its finalizer is marked, another one goes.
Deleted(o) == {NoNode, [o EXCEPT !.del = TRUE]}

(***************************************************************************)
(* The worker.                                                             *)
(***************************************************************************)
sets == <<set, vset, scur>>
nodes == <<node, vnode, ncur, due>>
worker == <<queue, w>>

Go(step) == w' = [w EXCEPT !.step = step] /\ UNCHANGED queue

\* The reconcile returns; with an error, or Requeue, the key is queued again.
Return == w' = Idle /\ UNCHANGED queue
Forget == w' = Idle /\ UNCHANGED queue
Requeue == w' = Idle /\ queue' = TRUE

Dequeue ==
    /\ w.step = "idle" /\ queue
    /\ w' = [w EXCEPT !.step = "read"] /\ queue' = FALSE
    /\ UNCHANGED <<sets, nodes, users, faults>>

\* shouldExcludeMachine, of the machines the list holds.
Excluded(o) == o.ctrl = "cluster" \/ o.del \/ ~o.label

\* Nothing is done for a set that is gone or being deleted, and nothing before
\* a set has its finalizer.
OnlyGone(o) == ~o.live
Ignored(o) == ~o.live \/ o.del
NeverFinalized(o) == FALSE
NeedsFinalizer(o) == ~o.fin

\* The set and the machines are read from the caches, and the cluster, which
\* may not be there; a set without the finalizer gets it first.
Read ==
    /\ w.step = "read"
    /\ \/ NoFault /\ Ignored(vset) /\ Return /\ UNCHANGED <<scur, ncur>>
       \/ Fault("call") /\ vset.live /\ Requeue /\ UNCHANGED <<scur, ncur>>
       \/ /\ NoFault /\ ~Ignored(vset)
          /\ \/ /\ NeedsFinalizer(vset) /\ Go("finalize")
                /\ scur' = CopiedBy("w", scur) /\ UNCHANGED ncur
             \/ /\ ~NeedsFinalizer(vset)
                /\ ncur' = [n \in Names |->
                               IF Orphaned(vnode[n]) THEN CopiedBy("w", ncur[n]) ELSE ncur[n]]
                /\ LET here == {n \in Names : vnode[n].live /\ ~Excluded(vnode[n])}
                       orphans == {n \in here : vnode[n].ctrl = None}
                   IN w' = [w EXCEPT !.step = "adopt", !.size = vset.size,
                                     !.kept = here \ orphans, !.todo = orphans]
                /\ UNCHANGED <<scur, queue>>
    /\ UNCHANGED <<set, vset, node, vnode, due, users>>

\* The owner reference to the cluster and the finalizer are written together.
AddFinalizer ==
    /\ w.step = "finalize" /\ Requeue
    /\ LET accepted == "w" \in scur /\ set.live
       IN \/ /\ NoFault /\ accepted
             /\ set' = [set EXCEPT !.fin = TRUE] /\ scur' = {}
          \/ /\ IF accepted THEN Fault("call") ELSE NoFault
             /\ UNCHANGED set /\ scur' = scur \ {"w"}
    /\ UNCHANGED <<vset, nodes, users>>

\* adoptOrphan; a machine it fails for is not among the filtered ones.
AnyVersion(n) == node[n].live
Adoptable(n) == "w" \in ncur[n] /\ node[n].live

Adopt(n) ==
    /\ w.step = "adopt" /\ n \in w.todo
    /\ \/ /\ NoFault /\ Adoptable(n)
          /\ PutNode(n, [node[n] EXCEPT !.ctrl = "set"])
          /\ w' = [w EXCEPT !.todo = @ \ {n}, !.kept = @ \cup {n}]
       \/ /\ IF Adoptable(n) THEN Fault("call") ELSE NoFault
          /\ w' = [w EXCEPT !.todo = @ \ {n}]
          /\ UNCHANGED <<node, ncur, due>>
    /\ UNCHANGED <<sets, vnode, queue, users>>

Excess == Cardinality(w.kept) - w.size
Missing == -Excess

\* getMachinesToDeletePrioritized: as many as there are, at most.  Which ones
\* is left open; the annotation for deletion only narrows the choice.
Victims ==
    {D \in SUBSET w.kept :
        Cardinality(D) = IF Excess > Cardinality(w.kept) THEN Cardinality(w.kept) ELSE Excess}

\* syncReplicas decides what to do.  The WaitGroup is given Excess, one
\* goroutine is started for each victim: with fewer victims Wait never returns.
Sync ==
    /\ w.step = "adopt" /\ w.todo = {}
    /\ \/ Excess = 0 /\ w' = [w EXCEPT !.step = "status"]
       \/ Excess < 0 /\ w' = [w EXCEPT !.step = "create", !.left = Missing]
       \/ /\ Excess > 0
          /\ \E D \in Victims : w' = [w EXCEPT !.step = "delete", !.todo = D, !.wait = D]
    /\ ncur' = [n \in Names |-> ncur[n] \ {"w"}]
    /\ UNCHANGED <<sets, node, vnode, due, queue, users, faults>>

\* A name that no object, cache or list has.
Fresh(n) == ~node[n].live /\ ~vnode[n].live /\ n \notin w.kept \cup w.wait

NewReplica == [live |-> TRUE, ctrl |-> "set", label |-> TRUE, del |-> FALSE]

\* The machines are created one by one; after a failed call nothing is
\* waited for.
CreateMachine ==
    /\ w.step = "create"
    /\ \E ok \in BOOLEAN :
          LET n == CHOOSE n \in Names : Fresh(n)
              failed == w.failed \/ ~ok
              next == [w EXCEPT !.left = @ - 1, !.failed = failed,
                                !.step = IF w.left > 1 THEN "create"
                                         ELSE IF failed THEN "status" ELSE "made"]
          IN IF ok
             THEN /\ NoFault /\ \E f \in Names : Fresh(f)
                  /\ PutNode(n, NewReplica)
                  /\ w' = [next EXCEPT !.wait = IF next.step = "status" THEN {} ELSE @ \cup {n}]
             ELSE /\ Fault("create") /\ w' = [next EXCEPT !.wait = IF w.left > 1 THEN @ ELSE {}]
                  /\ UNCHANGED <<node, ncur, due>>
    /\ UNCHANGED <<sets, vnode, queue, users>>

\* One of the parallel deletes; to find nothing is a failure too.
DeleteMachine(n) ==
    /\ w.step = "delete" /\ n \in w.todo
    /\ \/ /\ NoFault /\ node[n].live
          /\ \E o \in Deleted(node[n]) : PutNode(n, o)
          /\ w' = [w EXCEPT !.todo = @ \ {n}]
       \/ /\ IF node[n].live THEN Fault("call") ELSE NoFault
          /\ w' = [w EXCEPT !.todo = @ \ {n}, !.failed = TRUE]
          /\ UNCHANGED <<node, ncur, due>>
    /\ UNCHANGED <<sets, vnode, queue, users>>

\* wg.Wait
DeletesDone ==
    /\ w.step = "delete" /\ w.todo = {}
    /\ w' = IF Excess > Cardinality(w.wait) THEN [w EXCEPT !.step = "hung"]
            ELSE IF w.failed THEN [w EXCEPT !.step = "status", !.wait = {}]
            ELSE [w EXCEPT !.step = "gone"]
    /\ UNCHANGED <<sets, nodes, queue, users, faults>>

\* What a wait polls the cache for.
AtOnce(n) == TRUE
Confirmed(n) == IF w.step = "made" THEN vnode[n].live ELSE ~vnode[n].live \/ vnode[n].del

\* waitForMachineCreation and waitForMachineDeletion, in any order.
Confirm(n) ==
    /\ w.step \in {"made", "gone"} /\ n \in w.wait /\ Confirmed(n)
    /\ w' = [w EXCEPT !.wait = @ \ {n}, !.step = IF w.wait = {n} THEN "status" ELSE @]
    /\ UNCHANGED <<sets, nodes, queue, users, faults>>

\* Ten seconds pass: the cache lags that long (a fault), or what is waited
\* for has been created and has gone unseen.
WaitExpires ==
    /\ w.step \in {"made", "gone"}
    /\ IF \A n \in w.wait : w.step = "made" /\ ~node[n].live /\ ~vnode[n].live
       THEN NoFault ELSE Fault("wait")
    /\ w' = [w EXCEPT !.step = "status", !.wait = {}, !.failed = TRUE]
    /\ UNCHANGED <<sets, nodes, queue, users>>

\* updateStatus gets a fresh copy of the set from the cache ...
GetFresh ==
    /\ w.step = "status"
    /\ IF vset.live THEN Go("write") /\ scur' = CopiedBy("w", scur)
                    ELSE Requeue /\ UNCHANGED scur
    /\ UNCHANGED <<set, vset, nodes, users, faults>>

\* ... and writes into it the phase and the count of before the sync.  A
\* write that changes nothing but the time makes a version unless it falls
\* into the same second.
WriteStatus ==
    /\ w.step = "write"
    /\ LET o == [set EXCEPT !.phase = IF w.failed THEN "Error" ELSE "Ready",
                            !.count = Cardinality(w.kept)]
           accepted == "w" \in scur /\ set.live
       IN \/ /\ NoFault /\ accepted
             /\ set' = o
             /\ scur' \in {{}} \cup (IF o = set THEN {scur \ {"w"}} ELSE {})
             /\ IF w.failed THEN Requeue ELSE Return
          \/ /\ IF accepted THEN Fault("call") ELSE NoFault
             /\ Requeue /\ UNCHANGED set /\ scur' = scur \ {"w"}
    /\ UNCHANGED <<vset, nodes, users>>

\* The manager dies; the next one has synced its caches and queues every set.
Crash ==
    /\ Fault("crash")
    /\ vset' = set /\ scur' = {"cache"}
    /\ vnode' = node /\ ncur' = [n \in Names |-> {"cache"}] /\ due' = {}
    /\ w' = Idle /\ queue' = set.live
    /\ UNCHANGED <<set, node, users>>

WorkerStep ==
    \/ Dequeue \/ Read \/ AddFinalizer \/ Sync \/ CreateMachine
    \/ DeletesDone \/ WaitExpires \/ GetFresh \/ WriteStatus
    \/ \E n \in Names : Adopt(n) \/ DeleteMachine(n) \/ Confirm(n)

(***************************************************************************)
(* The informers and the two watches of the controller.                    *)
(***************************************************************************)
RefreshSet ==
    /\ "cache" \notin scur
    /\ vset' = set /\ scur' = scur \cup {"cache"}
    /\ queue' = TRUE
    /\ UNCHANGED <<set, nodes, w, users, faults>>

\* EnqueueRequestForOwner for a machine the set controls, MachineToMachineSets
\* for an orphan it selects.
RefreshNode(n) ==
    /\ "cache" \notin ncur[n]
    /\ vnode' = [vnode EXCEPT ![n] = node[n]]
    /\ ncur' = [ncur EXCEPT ![n] = @ \cup {"cache"}]
    /\ due' = due \ {n}
    /\ queue' = (queue \/ n \in due \/ Orphaned(node[n]))
    /\ UNCHANGED <<sets, node, w, users, faults>>

(***************************************************************************)
(* The others.                                                             *)
(***************************************************************************)
Others == users < MaxUser /\ users' = users + 1 /\ UNCHANGED <<vset, vnode, worker, faults>>

PutSet(o) == set' = o /\ scur' = {} /\ UNCHANGED <<node, ncur, due>>

\* ScaleNodePool, or kubectl scale.
Scale ==
    /\ Others /\ set.live
    /\ \E r \in Sizes \ {set.size} : PutSet([set EXCEPT !.size = r])

DeleteSet ==
    /\ Others /\ MayGo /\ set.live /\ ~set.del
    /\ PutSet([set EXCEPT !.del = TRUE, !.live = set.fin])

\* A user posts a machine with the labels of the set.
PostOrphan(n) ==
    /\ Others /\ n \in Orphans /\ Fresh(n)
    /\ PutNode(n, [NewReplica EXCEPT !.ctrl = None]) /\ UNCHANGED <<set, scur>>

\* A user deletes or relabels a machine, or the machine controller writes its
\* status.
EditNode(n) ==
    /\ Others /\ node[n].live
    /\ \E o \in Deleted(node[n]) \cup (IF node[n].ctrl = None THEN {node[n]} ELSE {})
                    \cup (IF Orphans = {} THEN {} ELSE {[node[n] EXCEPT !.label = ~@]}) : PutNode(n, o)
    /\ UNCHANGED <<set, scur>>

\* ClusterController claims an orphan; the version check makes the claim atomic.
ClaimByCluster(n) ==
    /\ node[n].live /\ node[n].ctrl = None
    /\ PutNode(n, [node[n] EXCEPT !.ctrl = "cluster"])
    /\ UNCHANGED <<sets, vnode, worker, users, faults>>

\* The machine controller has finished a deletion.
MachineGoes(n) ==
    /\ node[n].live /\ node[n].del
    /\ PutNode(n, NoNode)
    /\ UNCHANGED <<sets, vnode, worker, users, faults>>

\* The garbage collector deletes the machines of a set that is deleted or
\* gone, and lets the set go after them.
CollectNode(n) ==
    /\ set.del \/ ~set.live
    /\ node[n].live /\ node[n].ctrl = "set" /\ ~node[n].del
    /\ \E o \in Deleted(node[n]) : PutNode(n, o)
    /\ UNCHANGED <<sets, vnode, worker, users, faults>>

CollectSet ==
    /\ set.live /\ set.del /\ \A n \in Names : ~(node[n].live /\ node[n].ctrl = "set")
    /\ PutSet([set EXCEPT !.live = FALSE])
    /\ UNCHANGED <<vset, vnode, worker, users, faults>>

Environment ==
    \/ Scale \/ DeleteSet
    \/ \E n \in Names : PostOrphan(n) \/ EditNode(n)

Cluster ==
    \/ RefreshSet \/ CollectSet
    \/ \E n \in Names :
          RefreshNode(n) \/ ClaimByCluster(n) \/ MachineGoes(n) \/ CollectNode(n)

Next == WorkerStep \/ Crash \/ Environment \/ Cluster

Spec == Init /\ [][Next]_vars

\* The worker, the informers, the garbage collector and the machine
\* controller keep working; users and faults need not happen, and whether
\* the cluster controller claims an orphan first is left open.
Fairness ==
    /\ WF_vars(WorkerStep) /\ WF_vars(RefreshSet) /\ WF_vars(CollectSet)
    /\ \A n \in Names : WF_vars(RefreshNode(n)) /\ WF_vars(MachineGoes(n)) /\ WF_vars(CollectNode(n))

FairSpec == Spec /\ Fairness

(***************************************************************************)
(* Properties.                                                             *)
(***************************************************************************)

\* The controller of a machine never changes: of the machine set controller
\* and the cluster controller, both working from stale copies, one gets it.
OneController ==
    [][\A n \in Names :
          node[n].live /\ node[n].ctrl # None /\ node'[n].live => node'[n].ctrl = node[n].ctrl]_vars

\* Machines controlled by a set that has lost its finalizer, or never had
\* it, would outlive it: adoption and creation come after the finalizer.
FinalizerFirst ==
    set.live => set.fin \/ \A n \in Names : ~(node[n].live /\ node[n].ctrl = "set")

\* Why: the finalizer stays, and the worker creates and adopts nothing before
\* it has seen it in the cache.
FinalizerInv ==
    /\ (\E n \in Names : node[n].live /\ node[n].ctrl = "set") => set.fin
    /\ vset.fin => set.fin
    /\ w.step \notin {"idle", "read", "finalize"} => set.fin

\* The one behind OneController: the worker adopts a machine only from a copy
\* that is current, and says that nobody controls it.
AdoptInv ==
    /\ \A n \in Names : "cache" \in ncur[n] => vnode[n] = node[n]
    /\ w.step = "adopt" => \A n \in w.todo : "w" \in ncur[n] => node[n].ctrl = None

\* "Too few replicas": the controller creates a machine only when there are
\* fewer replicas than the size it read.
CreatesOnlyIfTooFew ==
    [][(\E n \in Names : ~node[n].live /\ node'[n].live /\ node'[n].ctrl = "set")
          => Cardinality(Replicas) < w.size]_vars

\* Why, where no Create fails, no wait expires and users post no machines of
\* their own: a replica the cache does not show is one the worker has created
\* and is waiting for, so that it begins no new reconcile before the cache
\* shows all.
ReplicasInv ==
    /\ \A n \in Names :
           /\ node[n].live => node[n].ctrl = "set" /\ node[n].label
           /\ vnode[n].live => vnode[n].ctrl = "set" /\ vnode[n].label
           /\ Counted(node[n]) =>
                 \/ Counted(vnode[n])
                 \/ ~vnode[n].live /\ n \in w.wait /\ w.step \in {"create", "made"}
    /\ w.step \in {"idle", "read", "adopt"} => w.wait = {}
    /\ w.step \in {"idle", "read", "adopt", "create"} => ~w.failed
    /\ w.step = "adopt" => Replicas \subseteq w.kept
    /\ w.step = "create" =>
           /\ Cardinality(w.kept) + Cardinality(w.wait) + w.left = w.size
           /\ Replicas \subseteq w.kept \cup w.wait

\* The calls a worker has still to make are counted.
CreationsLeft == w.step = "create" => w.left > 0

Wanted == set.live /\ ~set.del

\* Once nobody interferes there are as many replicas as the spec says.
Converges == <>[](Wanted => Cardinality(Replicas) = set.size)

\* ... and the status, counted before each sync, says so, whatever has failed
\* before.  A model that has run out of names says nothing.
StatusConverges ==
    <>[](Wanted /\ (\E n \in Names : ~node[n].live) => set.count = set.size /\ set.phase = "Ready")

\* No machine outlives its set for ever, those created from a stale copy of
\* the set included.
SetCollected == <>[](~Wanted => \A n \in Names : ~(node[n].live /\ node[n].ctrl = "set"))

=============================================================================
