-------------------------- MODULE MachineSetProofs --------------------------
(***************************************************************************)
(* Proofs about MachineSet, for any set of names, sizes and user machines, *)
(* and any number of faults unless a theorem says otherwise.               *)
(***************************************************************************)
EXTENDS MachineSet, FiniteSetTheorems, TLAPS

(***************************************************************************)
(* Types.                                                                  *)
(***************************************************************************)

\* What the caches show the worker of the machines of the set, and of those it
\* may adopt.
Here == {n \in Names : vnode[n].live /\ ~Excluded(vnode[n])}
OrphansHere == {n \in Here : vnode[n].ctrl = None}

SomeFault == \E kind \in Faults : Fault(kind)

LEMMA FaultKinds == \A kind : Fault(kind) => SomeFault
BY DEF Fault, SomeFault

\* The objects and the idle worker have their types.
LEMMA ObjectTypes ==
    /\ NoNode \in NodeObj /\ NewReplica \in NodeObj
    /\ [NewReplica EXCEPT !.ctrl = None] \in NodeObj
    /\ ~NoNode.live /\ NewReplica.live /\ NewReplica.ctrl = "set"
    /\ Idle.step = "idle" /\ Idle.wait = {} /\ Idle.failed = FALSE
BY DEF NoNode, NodeObj, NewReplica, Idle

LEMMA IdleType ==
    ASSUME Sizes # {}
    PROVE  Idle \in Worker
BY DEF Idle, Worker, Steps

\* A Delete keeps the type, the controller and the label of a machine.
LEMMA DeletedType ==
    ASSUME NEW p \in NodeObj, NEW o \in Deleted(p)
    PROVE  /\ o \in NodeObj
           /\ o.live => o.ctrl = p.ctrl /\ o.label = p.label /\ o.live = p.live /\ o.del
<1>1. CASE o = NoNode
  BY <1>1, ObjectTypes
<1>2. CASE o = [p EXCEPT !.del = TRUE]
  BY <1>2 DEF NodeObj
<1> QED
  BY <1>1, <1>2 DEF Deleted

\* The worker counts the machines it keeps.
LEMMA KeptCounted ==
    ASSUME TypeOK, NEW S \in SUBSET Names
    PROVE  /\ IsFiniteSet(S) /\ Cardinality(S) \in Nat
           /\ Cardinality(S) \in 0 .. Cardinality(Names)
BY NamesAssumption, FS_Subset, FS_CardinalityType

LEMMA ExcessInt ==
    ASSUME TypeOK
    PROVE  /\ Sizes # {} /\ w.size \in Int /\ Excess \in Int /\ Missing \in Int
           /\ Missing = -Excess
<1>1. w.kept \in SUBSET Names /\ w.size \in Sizes
  BY DEF TypeOK, Worker
<1>2. w.size \in Int
  BY <1>1, SizesAssumption
<1>3. Cardinality(w.kept) \in Nat
  BY <1>1, KeptCounted
<1> QED
  BY <1>1, <1>2, <1>3 DEF Excess, Missing

\* What the creation of a machine does to the worker: one call less is left,
\* and its name is waited for, unless it was the last of them and one has failed.
LEMMA Creation ==
    ASSUME TypeOK, CreationsLeft, CreateMachine
    PROVE  /\ w' \in Worker /\ CreationsLeft' /\ w'.step \in {"create", "made", "status"}
           /\ w'.kept = w.kept /\ w'.size = w.size
           /\ \/ /\ NoFault /\ w'.failed = w.failed
                 /\ \E n \in Names :
                       /\ Fresh(n) /\ PutNode(n, NewReplica)
                       /\ w'.step # "status" => w'.wait = w.wait \cup {n}
                 /\ w'.step = "status" => w.failed
              \/ Fault("create") /\ UNCHANGED <<node, ncur, due>>
           /\ w'.step = "create" => w'.left = w.left - 1
<1>0. w \in Worker /\ w.left \in Nat /\ w.left > 0 /\ w.step = "create"
  BY DEF TypeOK, Worker, CreationsLeft, CreateMachine
<1>1. PICK ok \in BOOLEAN :
          LET n == CHOOSE n \in Names : Fresh(n)
              failed == w.failed \/ ~ok
              next == [w EXCEPT !.left = @ - 1, !.failed = failed,
                                !.step = IF w.left > 1 THEN "create"
                                         ELSE IF failed THEN "status" ELSE "made"]
          IN IF ok
             THEN /\ NoFault /\ \E f \in Names : Fresh(f)
                  /\ PutNode(n, NewReplica)
                  /\ w' = [next EXCEPT !.wait = IF next.step = "status" THEN {} ELSE @ \cup {n}]
             ELSE /\ Fault("create") /\ w' = [next EXCEPT !.wait = IF w.left > 1 THEN @ ELSE {}]
                  /\ UNCHANGED <<node, ncur, due>>
  BY DEF CreateMachine
<1> DEFINE n == CHOOSE n \in Names : Fresh(n)
           failed == w.failed \/ ~ok
           step == IF w.left > 1 THEN "create" ELSE IF failed THEN "status" ELSE "made"
           next == [w EXCEPT !.left = @ - 1, !.failed = failed, !.step = step]
<1>2. /\ step \in Steps /\ step \in {"create", "made", "status"}
      /\ step = "create" => w.left > 1
      /\ step = "status" => failed
      /\ failed \in BOOLEAN /\ w.left - 1 \in Nat
  BY <1>0 DEF Steps, Worker
<1>3. CASE ok
  <2>1. /\ NoFault /\ PutNode(n, NewReplica) /\ \E f \in Names : Fresh(f)
        /\ w' = [next EXCEPT !.wait = IF next.step = "status" THEN {} ELSE @ \cup {n}]
    BY <1>1, <1>3
  <2>2. n \in Names /\ Fresh(n)
    BY <2>1
  <2>3. failed = w.failed
    BY <1>0, <1>3 DEF Worker
  <2> HIDE DEF n, failed, step
  <2>4. /\ w'.step = step /\ w'.left = w.left - 1 /\ w'.failed = failed /\ w'.kept = w.kept
        /\ w'.size = w.size /\ w' \in Worker
        /\ step # "status" => w'.wait = w.wait \cup {n}
    BY <1>0, <1>2, <2>1, <2>2 DEF Worker
  <2> QED
    BY <1>0, <1>2, <2>1, <2>2, <2>3, <2>4 DEF CreationsLeft
<1>4. CASE ~ok
  <2>1. /\ Fault("create") /\ UNCHANGED <<node, ncur, due>>
        /\ w' = [next EXCEPT !.wait = IF w.left > 1 THEN @ ELSE {}]
    BY <1>1, <1>4
  <2> HIDE DEF n, failed, step
  <2>2. /\ w'.step = step /\ w'.left = w.left - 1 /\ w'.kept = w.kept
        /\ w'.size = w.size /\ w' \in Worker
    BY <1>0, <1>2, <2>1 DEF Worker
  <2> QED
    BY <1>0, <1>2, <2>1, <2>2 DEF CreationsLeft
<1> QED
  BY <1>3, <1>4

\* Types and the count of what is left to create.
Typed == TypeOK /\ CreationsLeft

\* A step of somebody else, or of the worker, that writes at most one machine.
LEMMA NodesTyped ==
    ASSUME TypeOK, NEW n \in Names, NEW o \in NodeObj, PutNode(n, o)
    PROVE  /\ node' \in [Names -> NodeObj] /\ ncur' \in [Names -> SUBSET {"cache", "w"}]
           /\ due' \in SUBSET Names
BY DEF TypeOK, PutNode

LEMMA BoundsTyped ==
    ASSUME TypeOK
    PROVE  /\ NoFault => faults' \in 0 .. MaxFaults
           /\ SomeFault => faults' \in 0 .. MaxFaults
           /\ users < MaxUser /\ users' = users + 1 => users' \in 0 .. MaxUser
           /\ UNCHANGED faults => faults' \in 0 .. MaxFaults
           /\ UNCHANGED users => users' \in 0 .. MaxUser
BY BoundsAssumption DEF TypeOK, NoFault, SomeFault, Fault

\* The worker's calls before it knows what to do.
LEMMA ReadTyped ==
    ASSUME Typed, Dequeue \/ Read \/ AddFinalizer
    PROVE  Typed'
<1>0. /\ Idle \in Worker /\ w \in Worker /\ vset \in SetObj /\ set \in SetObj
      /\ ncur \in [Names -> SUBSET {"cache", "w"}]
  BY ExcessInt, IdleType DEF Typed, TypeOK
<1> USE DEF Typed, TypeOK, CreationsLeft
<1>1. CASE w' = Idle /\ UNCHANGED <<nodes, vset, users>>
  <2>1. CreationsLeft' /\ w' \in Worker
    BY <1>0, <1>1, ObjectTypes
  <2>2. faults' \in 0 .. MaxFaults /\ queue' \in BOOLEAN
    BY <1>1, BoundsTyped, FaultKinds DEF Dequeue, Read, AddFinalizer, Return, Requeue, Go
  <2>3. set' \in SetObj /\ scur' \in SUBSET {"cache", "w"}
    BY <1>0 DEF Dequeue, Read, AddFinalizer, SetObj, CopiedBy, sets
  <2> QED
    BY <1>1, <2>1, <2>2, <2>3 DEF nodes
<1>2. CASE Dequeue
  <2>1. w' \in Worker /\ w'.step = "read"
    BY <1>0, <1>2 DEF Dequeue, Worker, Steps
  <2> QED
    BY <1>2, <2>1 DEF Dequeue, sets, nodes
<1>3. ASSUME Read, w' # Idle PROVE Typed'
  <2>1. /\ w' \in Worker /\ w'.step \in {"finalize", "adopt"}
        /\ queue' = queue
    <3>1. CASE Go("finalize")
      BY <1>0, <3>1 DEF Go, Worker, Steps
    <3>2. CASE /\ w' = [w EXCEPT !.step = "adopt", !.size = vset.size,
                                 !.kept = Here \ OrphansHere, !.todo = OrphansHere]
               /\ UNCHANGED queue
      <4>1. vset.size \in Sizes /\ Here \ OrphansHere \in SUBSET Names /\ OrphansHere \in SUBSET Names
        BY <1>0 DEF SetObj, Here, OrphansHere
      <4> HIDE DEF Here, OrphansHere
      <4> QED
        BY <1>0, <3>2, <4>1 DEF Worker, Steps
    <3> QED
      BY <1>3, <3>1, <3>2 DEF Read, Return, Requeue, Here, OrphansHere
  <2>2. scur' \in SUBSET {"cache", "w"} /\ ncur' \in [Names -> SUBSET {"cache", "w"}]
    BY <1>0, <1>3 DEF Read, CopiedBy
  <2>3. NoFault \/ SomeFault
    BY <1>3, FaultKinds DEF Read
  <2> QED
    BY <1>3, <2>1, <2>2, <2>3, BoundsTyped DEF Read
<1>4. CASE AddFinalizer
  BY <1>1, <1>4 DEF AddFinalizer, Requeue, nodes
<1>5. CASE Read /\ w' = Idle
  <2>1. Return \/ Requeue
    <3>1. ~Go("finalize")
      BY <1>0, <1>5, ObjectTypes DEF Go, Worker
    <3>2. ~\E a, b, c : w' = [w EXCEPT !.step = "adopt", !.size = a, !.kept = b, !.todo = c]
      BY <1>0, <1>5, ObjectTypes DEF Worker
    <3> QED
      BY <1>5, <3>1, <3>2 DEF Read
  <2>2. scur' \in SUBSET {"cache", "w"} /\ ncur' \in [Names -> SUBSET {"cache", "w"}]
    BY <1>0, <1>5 DEF Read, CopiedBy
  <2>3. (NoFault \/ SomeFault) /\ queue' \in BOOLEAN
    BY <1>5, <2>1, FaultKinds DEF Read, Return, Requeue
  <2>4. CreationsLeft'
    BY <1>5, ObjectTypes
  <2> QED
    BY <1>0, <1>5, <2>2, <2>3, <2>4, BoundsTyped DEF Read
<1> QED
  BY <1>2, <1>3, <1>4, <1>5

\* The calls that adopt, create and delete machines.
LEMMA SyncTyped ==
    ASSUME Typed, Sync \/ CreateMachine \/ \E n \in Names : Adopt(n) \/ DeleteMachine(n)
    PROVE  Typed'
<1>0. /\ w \in Worker /\ node \in [Names -> NodeObj]
      /\ ncur \in [Names -> SUBSET {"cache", "w"}]
  BY DEF Typed, TypeOK
<1> USE DEF Typed, TypeOK
<1>1. ASSUME w' \in Worker, UNCHANGED <<sets, vnode, queue, users>>, NoFault \/ SomeFault,
             \/ UNCHANGED <<node, ncur, due>>
             \/ \E n \in Names, o \in NodeObj : PutNode(n, o),
             CreationsLeft'
      PROVE  Typed'
  BY <1>1, NodesTyped, BoundsTyped DEF sets
<1>2. CASE CreateMachine
  <2>1. UNCHANGED <<sets, vnode, queue, users>>
    BY <1>2 DEF CreateMachine
  <2> QED
    BY <1>1, <1>2, <2>1, Creation, ObjectTypes, FaultKinds
<1>3. ASSUME NEW n \in Names, Adopt(n) PROVE Typed'
  <2>1. /\ w' \in Worker /\ w'.step = "adopt"
    <3>1. CASE w' = [w EXCEPT !.todo = @ \ {n}, !.kept = @ \cup {n}]
      BY <1>0, <1>3, <3>1 DEF Adopt, Worker
    <3>2. CASE w' = [w EXCEPT !.todo = @ \ {n}]
      BY <1>0, <1>3, <3>2 DEF Adopt, Worker
    <3> QED
      BY <1>3, <3>1, <3>2 DEF Adopt
  <2>2. [node[n] EXCEPT !.ctrl = "set"] \in NodeObj
    BY <1>0 DEF NodeObj
  <2>3. NoFault \/ SomeFault
    BY <1>3, FaultKinds DEF Adopt
  <2> QED
    BY <1>1, <1>3, <2>1, <2>2, <2>3 DEF Adopt, CreationsLeft
<1>4. ASSUME NEW n \in Names, DeleteMachine(n) PROVE Typed'
  <2>1. /\ w' \in Worker /\ w'.step = "delete"
    <3>1. CASE w' = [w EXCEPT !.todo = @ \ {n}]
      BY <1>0, <1>4, <3>1 DEF DeleteMachine, Worker
    <3>2. CASE w' = [w EXCEPT !.todo = @ \ {n}, !.failed = TRUE]
      BY <1>0, <1>4, <3>2 DEF DeleteMachine, Worker
    <3> QED
      BY <1>4, <3>1, <3>2 DEF DeleteMachine
  <2>2. NoFault \/ SomeFault
    BY <1>4, FaultKinds DEF DeleteMachine
  <2>3. \/ UNCHANGED <<node, ncur, due>>
        \/ \E o \in NodeObj : PutNode(n, o)
    BY <1>0, <1>4, DeletedType DEF DeleteMachine
  <2> QED
    BY <1>1, <1>4, <2>1, <2>2, <2>3 DEF DeleteMachine, CreationsLeft
<1>5. CASE Sync
  <2>1. w' \in Worker /\ CreationsLeft'
    <3>1. CASE Excess = 0 /\ w' = [w EXCEPT !.step = "status"]
      BY <1>0, <3>1 DEF Worker, Steps, CreationsLeft
    <3>2. CASE Excess < 0 /\ w' = [w EXCEPT !.step = "create", !.left = Missing]
      <4>1. Missing \in Nat /\ Missing > 0
        BY <3>2, ExcessInt
      <4> QED
        BY <1>0, <3>2, <4>1 DEF Worker, Steps, CreationsLeft
    <3>3. ASSUME NEW D \in Victims, w' = [w EXCEPT !.step = "delete", !.todo = D, !.wait = D]
          PROVE  w' \in Worker /\ CreationsLeft'
      <4>1. D \in SUBSET Names
        BY <1>0 DEF Victims, Worker
      <4> QED
        BY <1>0, <3>3, <4>1 DEF Worker, Steps, CreationsLeft
    <3> QED
      BY <1>5, <3>1, <3>2, <3>3 DEF Sync
  <2>2. ncur' \in [Names -> SUBSET {"cache", "w"}]
    BY <1>0, <1>5 DEF Sync
  <2> QED
    BY <1>5, <2>1, <2>2 DEF Sync, sets
<1> QED
  BY <1>2, <1>3, <1>4, <1>5

\* The calls after them.
LEMMA StatusTyped ==
    ASSUME Typed,
           DeletesDone \/ WaitExpires \/ GetFresh \/ WriteStatus \/ \E n \in Names : Confirm(n)
    PROVE  Typed'
<1>0. /\ w \in Worker /\ Idle \in Worker /\ set \in SetObj
  BY ExcessInt, IdleType DEF Typed, TypeOK
<1> USE DEF Typed, TypeOK
<1>1. ASSUME w' \in Worker, w'.step # "create", UNCHANGED <<vset, nodes, users>>,
             set' \in SetObj, scur' \in SUBSET {"cache", "w"}, queue' \in BOOLEAN,
             NoFault \/ SomeFault
      PROVE  Typed'
  BY <1>1, BoundsTyped DEF nodes, CreationsLeft
<1>2. CASE DeletesDone
  <2>1. w' \in Worker /\ w'.step # "create"
    BY <1>0, <1>2 DEF DeletesDone, Worker, Steps
  <2> QED
    BY <1>1, <1>2, <2>1 DEF DeletesDone, sets, NoFault
<1>3. CASE WaitExpires
  <2>1. w' \in Worker /\ w'.step # "create"
    BY <1>0, <1>3 DEF WaitExpires, Worker, Steps
  <2>2. NoFault \/ SomeFault
    BY <1>3, FaultKinds DEF WaitExpires
  <2> QED
    BY <1>1, <1>3, <2>1, <2>2 DEF WaitExpires, sets
<1>4. CASE GetFresh
  <2>1. w' \in Worker /\ w'.step # "create" /\ queue' \in BOOLEAN
    BY <1>0, <1>4, ObjectTypes DEF GetFresh, Go, Requeue, Worker, Steps
  <2>2. scur' \in SUBSET {"cache", "w"}
    BY <1>4 DEF GetFresh, CopiedBy
  <2> QED
    BY <1>1, <1>4, <2>1, <2>2 DEF GetFresh, NoFault
<1>5. CASE WriteStatus
  <2> DEFINE o == [set EXCEPT !.phase = IF w.failed THEN "Error" ELSE "Ready",
                              !.count = Cardinality(w.kept)]
  <2>1. w.kept \in SUBSET Names
    BY <1>0 DEF Worker
  <2>2. Cardinality(w.kept) \in 0 .. Cardinality(Names)
    BY <2>1, KeptCounted
  <2>3. o \in SetObj
    BY <1>0, <2>2 DEF SetObj
  <2>4. set' = o \/ set' = set
    BY <1>5 DEF WriteStatus
  <2>5. w' = Idle /\ queue' \in BOOLEAN /\ (NoFault \/ SomeFault)
    BY <1>5, FaultKinds DEF WriteStatus, Requeue, Return
  <2>6. scur' \in SUBSET {"cache", "w"}
    BY <1>5 DEF WriteStatus
  <2> HIDE DEF o
  <2>7. set' \in SetObj
    BY <1>0, <2>3, <2>4
  <2>8. w' \in Worker /\ w'.step # "create"
    BY <1>0, <2>5, ObjectTypes
  <2>9. UNCHANGED <<vset, nodes, users>>
    BY <1>5 DEF WriteStatus
  <2> QED
    BY <1>1, <2>5, <2>6, <2>7, <2>8, <2>9
<1>6. ASSUME NEW n \in Names, Confirm(n) PROVE Typed'
  <2>1. w' \in Worker /\ w'.step # "create"
    BY <1>0, <1>6 DEF Confirm, Worker, Steps
  <2> QED
    BY <1>1, <1>6, <2>1 DEF Confirm, sets, NoFault
<1> QED
  BY <1>2, <1>3, <1>4, <1>5, <1>6

\* Everybody else.
LEMMA OthersTyped ==
    ASSUME Typed, Crash \/ Environment \/ Cluster \/ UNCHANGED vars
    PROVE  Typed'
<1>0. /\ node \in [Names -> NodeObj] /\ set \in SetObj /\ Idle \in Worker
  BY ExcessInt, IdleType DEF Typed, TypeOK
<1> USE DEF Typed, TypeOK
<1>1. CASE Crash
  <2>1. CreationsLeft'
    BY <1>1, ObjectTypes DEF Crash, CreationsLeft
  <2>2. queue' \in BOOLEAN
    BY <1>0, <1>1 DEF Crash, SetObj
  <2> QED
    BY <1>0, <1>1, <2>1, <2>2, BoundsTyped, FaultKinds DEF Crash
<1>2. ASSUME UNCHANGED <<vset, vnode, worker>>, UNCHANGED faults,
             UNCHANGED users \/ (users < MaxUser /\ users' = users + 1),
             UNCHANGED sets \/ \E o \in SetObj : PutSet(o),
             UNCHANGED <<node, ncur, due>> \/ \E n \in Names, o \in NodeObj : PutNode(n, o)
      PROVE  Typed'
  <2>1. set' \in SetObj /\ scur' \in SUBSET {"cache", "w"}
    BY <1>2 DEF sets, PutSet
  <2>2. CreationsLeft' /\ w' \in Worker /\ queue' \in BOOLEAN
    BY <1>2 DEF worker, CreationsLeft
  <2> QED
    BY <1>2, <2>1, <2>2, NodesTyped, BoundsTyped
<1>3. CASE Scale \/ DeleteSet \/ CollectSet
  <2>1. \E o \in SetObj : PutSet(o)
    BY <1>0, <1>3 DEF Scale, DeleteSet, CollectSet, SetObj
  <2> QED
    BY <1>2, <1>3, <2>1 DEF Scale, DeleteSet, CollectSet, Others, PutSet
<1>4. ASSUME NEW n \in Names,
             PostOrphan(n) \/ EditNode(n) \/ ClaimByCluster(n) \/ MachineGoes(n) \/ CollectNode(n)
      PROVE  Typed'
  <2>1. /\ [node[n] EXCEPT !.ctrl = "cluster"] \in NodeObj
        /\ [node[n] EXCEPT !.label = ~@] \in NodeObj
        /\ Deleted(node[n]) \subseteq NodeObj
    <3>1. node[n] \in NodeObj
      BY <1>0
    <3>2. Deleted(node[n]) \subseteq NodeObj
      BY <3>1, DeletedType
    <3>3. [node[n] EXCEPT !.ctrl = "cluster"] \in NodeObj
      BY <3>1 DEF NodeObj
    <3>4. [node[n] EXCEPT !.label = ~@] \in NodeObj
      BY <3>1 DEF NodeObj
    <3> QED
      BY <3>2, <3>3, <3>4
  <2>2. \E o \in NodeObj : PutNode(n, o)
    BY <1>0, <1>4, <2>1, ObjectTypes
       DEF PostOrphan, EditNode, ClaimByCluster, MachineGoes, CollectNode
  <2>3. /\ UNCHANGED <<vset, vnode, worker>> /\ UNCHANGED faults /\ UNCHANGED sets
        /\ UNCHANGED users \/ (users < MaxUser /\ users' = users + 1)
    BY <1>4 DEF PostOrphan, EditNode, ClaimByCluster, MachineGoes, CollectNode, Others, sets
  <2> QED
    BY <1>2, <2>2, <2>3
<1>5. CASE RefreshSet \/ (\E n \in Names : RefreshNode(n)) \/ UNCHANGED vars
  BY <1>0, <1>5 DEF RefreshSet, RefreshNode, vars, sets, nodes, CreationsLeft
<1> QED
  BY <1>1, <1>3, <1>4, <1>5 DEF Environment, Cluster

\* A worker counts the creations it has left: it never makes one too many.
THEOREM TypesHold == Spec => []Typed
<1>1. Init => Typed
  <2> SUFFICES ASSUME Init PROVE Typed
    OBVIOUS
  <2>1. Sizes # {} /\ Cardinality(Names) \in Nat
    BY NamesAssumption, FS_CardinalityType DEF Init
  <2>2. set \in SetObj
    <3>1. PICK r \in Sizes : set = [live |-> TRUE, size |-> r, fin |-> FALSE, del |-> FALSE,
                                    phase |-> "", count |-> 0]
      BY DEF Init
    <3>2. 0 \in 0 .. Cardinality(Names)
      BY <2>1
    <3> QED
      BY <3>1, <3>2 DEF SetObj
  <2>3. w \in Worker /\ CreationsLeft
    BY <2>1, ObjectTypes, IdleType DEF Init, CreationsLeft
  <2>4. users \in 0 .. MaxUser /\ faults \in 0 .. MaxFaults
    <3>1. users = 0 /\ faults = 0
      BY DEF Init
    <3> QED
      BY <3>1, BoundsAssumption
  <2>5. node \in [Names -> NodeObj]
    BY ObjectTypes DEF Init
  <2>6. vset \in SetObj /\ scur \in SUBSET {"cache", "w"} /\ queue \in BOOLEAN
    BY <2>2 DEF Init
  <2>7. /\ vnode \in [Names -> NodeObj] /\ due \in SUBSET Names
        /\ ncur \in [Names -> SUBSET {"cache", "w"}]
    BY <2>5 DEF Init
  <2> QED
    BY <2>2, <2>3, <2>4, <2>5, <2>6, <2>7 DEF Typed, TypeOK
<1>2. Typed /\ [Next]_vars => Typed'
  BY ReadTyped, SyncTyped, StatusTyped, OthersTyped DEF Next, WorkerStep
<1> QED
  BY <1>1, <1>2, PTL DEF Spec

(***************************************************************************)
(* The finalizer of the set.                                               *)
(***************************************************************************)

\* The calls that come after the finalizer has been seen in the cache.
Bound == w.step \notin {"idle", "read", "finalize"}

\* Where a worker gets beyond it.
LEMMA BoundSteps ==
    ASSUME Typed, [Next]_vars, Bound'
    PROVE  Bound \/ vset.fin
<1>0. w \in Worker
  BY DEF Typed, TypeOK
<1> USE DEF Bound
<1>1. CASE UNCHANGED w
  BY <1>1
<1>2. CASE WorkerStep
  <2>1. ~Dequeue
    BY <1>0 DEF Dequeue, Worker
  <2>2. ~AddFinalizer
    BY ObjectTypes DEF AddFinalizer, Requeue
  <2>3. CASE Read
    BY <1>0, <2>3, ObjectTypes DEF Read, Return, Requeue, Go, NeedsFinalizer, Worker
  <2> QED
    BY <1>2, <2>1, <2>2, <2>3 DEF WorkerStep, Sync, CreateMachine, DeletesDone, WaitExpires,
       GetFresh, WriteStatus, Adopt, DeleteMachine, Confirm
<1>3. CASE Crash
  BY <1>3, ObjectTypes DEF Crash
<1> QED
  BY <1>1, <1>2, <1>3 DEF Next, Environment, Scale, DeleteSet, PostOrphan, EditNode, Others, worker,
     Cluster, RefreshSet, CollectSet, RefreshNode, ClaimByCluster, MachineGoes, CollectNode, vars

\* The finalizer of the set is never removed, and the cache does not invent it.
LEMMA FinalizerStays ==
    ASSUME Typed, [Next]_vars
    PROVE  (set.fin => set'.fin) /\ (vset' = vset \/ (vset' = set /\ set' = set))
<1>0. set \in SetObj
  BY DEF Typed, TypeOK
<1>1. CASE WorkerStep
  <2>1. UNCHANGED vset
    BY <1>1 DEF WorkerStep, Dequeue, Read, AddFinalizer, Sync, CreateMachine, DeletesDone,
       WaitExpires, GetFresh, WriteStatus, Adopt, DeleteMachine, Confirm, sets
  <2>2. \/ UNCHANGED set \/ set' = [set EXCEPT !.fin = TRUE]
        \/ \E p, c : set' = [set EXCEPT !.phase = p, !.count = c]
    BY <1>1 DEF WorkerStep, Dequeue, Read, AddFinalizer, Sync, CreateMachine, DeletesDone,
       WaitExpires, GetFresh, WriteStatus, Adopt, DeleteMachine, Confirm, sets
  <2> QED
    BY <1>0, <2>1, <2>2 DEF SetObj
<1>2. CASE Scale \/ DeleteSet \/ CollectSet
  BY <1>0, <1>2 DEF Scale, DeleteSet, CollectSet, PutSet, Others, SetObj
<1>3. CASE Crash \/ RefreshSet
  BY <1>3 DEF Crash, RefreshSet
<1>4. ASSUME NEW n \in Names, PostOrphan(n) \/ EditNode(n) \/ RefreshNode(n) \/ ClaimByCluster(n)
                                 \/ MachineGoes(n) \/ CollectNode(n)
      PROVE  set' = set /\ vset' = vset
  BY <1>4 DEF PostOrphan, EditNode, Others, RefreshNode, ClaimByCluster, MachineGoes, CollectNode,
     sets
<1>5. CASE UNCHANGED vars
  BY <1>5 DEF vars
<1> QED
  BY <1>1, <1>2, <1>3, <1>4, <1>5 DEF Next, Environment, Cluster

(***************************************************************************)
(* What a step may do to a machine.                                        *)
(***************************************************************************)
MayBecome(n, o) ==
    \/ o = NoNode \/ o = node[n] \/ (node[n].live /\ o = [node[n] EXCEPT !.del = TRUE])
    \/ Orphans # {} /\ o = [node[n] EXCEPT !.label = ~@]
    \/ Orphans # {} /\ ~node[n].live /\ o = [NewReplica EXCEPT !.ctrl = None]
    \/ node[n].live /\ node[n].ctrl = None /\ o = [node[n] EXCEPT !.ctrl = "cluster"]
    \/ /\ w.step = "adopt" /\ n \in w.todo /\ "w" \in ncur[n] /\ node[n].live
       /\ o = [node[n] EXCEPT !.ctrl = "set"]
    \/ CreateMachine /\ Fresh(n) /\ o = NewReplica

\* One machine is written, one copy refreshed, all are, or nothing changes but
\* what copies the worker has.
NodeMoves ==
    \/ UNCHANGED <<node, vnode>> /\ \A n \in Names : "cache" \in ncur'[n] => "cache" \in ncur[n]
    \/ /\ UNCHANGED vnode
       /\ \E n \in Names : \E o \in NodeObj : PutNode(n, o) /\ MayBecome(n, o)
    \/ \E n \in Names : RefreshNode(n)
    \/ Crash

LEMMA NodeSteps ==
    ASSUME Typed, [Next]_vars
    PROVE  NodeMoves
<1>0. node \in [Names -> NodeObj] /\ ncur \in [Names -> SUBSET {"cache", "w"}]
  BY DEF Typed, TypeOK
<1>1. ASSUME NEW n \in Names, NEW o, MayBecome(n, o), PutNode(n, o), UNCHANGED vnode
      PROVE  NodeMoves
  <2>1. o \in NodeObj
    <3>1. node[n] \in NodeObj
      BY <1>0
    <3>2. /\ [node[n] EXCEPT !.del = TRUE] \in NodeObj
          /\ [node[n] EXCEPT !.label = ~@] \in NodeObj
      BY <3>1 DEF NodeObj
    <3>3. /\ [node[n] EXCEPT !.ctrl = "cluster"] \in NodeObj
          /\ [node[n] EXCEPT !.ctrl = "set"] \in NodeObj
      BY <3>1 DEF NodeObj
    <3> QED
      BY <1>1, <3>1, <3>2, <3>3, ObjectTypes DEF MayBecome
  <2> QED
    BY <1>1, <2>1 DEF NodeMoves
<1>2. ASSUME UNCHANGED <<node, vnode, ncur>> PROVE NodeMoves
  BY <1>2 DEF NodeMoves
<1>3. CASE Read \/ Sync
  <2>1. UNCHANGED <<node, vnode>>
    BY <1>3 DEF Read, Sync
  <2>2. \A n \in Names : "cache" \in ncur'[n] => "cache" \in ncur[n]
    BY <1>0, <1>3 DEF Read, Sync, CopiedBy
  <2> QED
    BY <2>1, <2>2 DEF NodeMoves
<1>4. CASE CreateMachine
  <2>1. UNCHANGED vnode /\ w.step = "create"
    BY <1>4 DEF CreateMachine
  <2> QED
    BY <1>1, <1>2, <1>4, <2>1, Creation DEF Typed, MayBecome
<1>5. ASSUME NEW n \in Names, Adopt(n) PROVE NodeMoves
  BY <1>1, <1>2, <1>5 DEF Adopt, Adoptable, MayBecome
<1>6. ASSUME NEW n \in Names, DeleteMachine(n) \/ CollectNode(n) PROVE NodeMoves
  BY <1>1, <1>2, <1>6 DEF DeleteMachine, CollectNode, Deleted, MayBecome
<1>7. ASSUME NEW n \in Names,
             PostOrphan(n) \/ EditNode(n) \/ ClaimByCluster(n) \/ MachineGoes(n)
      PROVE  NodeMoves
  <2>1. UNCHANGED vnode
    BY <1>7 DEF PostOrphan, EditNode, ClaimByCluster, MachineGoes, Others
  <2>2. \E o : PutNode(n, o) /\ MayBecome(n, o)
    BY <1>7 DEF PostOrphan, EditNode, ClaimByCluster, MachineGoes, Fresh, Deleted, MayBecome
  <2> QED
    BY <1>1, <2>1, <2>2
<1>8. CASE Crash \/ \E n \in Names : RefreshNode(n)
  BY <1>8 DEF NodeMoves
<1>9. CASE Dequeue \/ AddFinalizer \/ DeletesDone \/ WaitExpires \/ GetFresh \/ WriteStatus
             \/ (\E n \in Names : Confirm(n)) \/ RefreshSet \/ CollectSet \/ Scale \/ DeleteSet
             \/ UNCHANGED vars
  BY <1>2, <1>9 DEF Dequeue, AddFinalizer, DeletesDone, WaitExpires, GetFresh, WriteStatus, Confirm,
     RefreshSet, CollectSet, Scale, DeleteSet, PutSet, Others, nodes, vars
<1> QED
  BY <1>3, <1>4, <1>5, <1>6, <1>7, <1>8, <1>9 DEF Next, WorkerStep, Environment, Cluster

(***************************************************************************)
(* Finalizer and controller.                                               *)
(***************************************************************************)
LEMMA FinalizerStep ==
    ASSUME Typed, FinalizerInv, [Next]_vars
    PROVE  FinalizerInv'
<1>0. /\ node \in [Names -> NodeObj] /\ NodeMoves
      /\ set.fin => set'.fin
      /\ vset' = vset \/ (vset' = set /\ set' = set)
  BY NodeSteps, FinalizerStays DEF Typed, TypeOK
<1>1. vset'.fin => set'.fin
  BY <1>0 DEF FinalizerInv
<1>2. Bound' => set'.fin
  BY <1>0, BoundSteps DEF FinalizerInv, Bound
<1>3. ASSUME NEW m \in Names, node'[m].live, node'[m].ctrl = "set" PROVE set'.fin
  <2>1. CASE node' = node
    BY <1>0, <1>3, <2>1 DEF FinalizerInv
  <2>2. ASSUME NEW n \in Names, NEW o \in NodeObj, PutNode(n, o), MayBecome(n, o) PROVE set'.fin
    <3>1. CASE m # n
      BY <1>0, <1>3, <2>2, <3>1 DEF FinalizerInv, PutNode
    <3>2. CASE m = n
      <4>1. o.live /\ o.ctrl = "set"
        BY <1>0, <1>3, <2>2, <3>2 DEF PutNode
      <4>2. w.step \in {"adopt", "create"} \/ (node[n].live /\ node[n].ctrl = "set")
        <5>1. node[n] \in NodeObj
          BY <1>0
        <5>2. o # NoNode /\ o # [NewReplica EXCEPT !.ctrl = None]
              /\ o # [node[n] EXCEPT !.ctrl = "cluster"]
          BY <4>1, <5>1, NoOwnerAssumption DEF NoNode, NewReplica, NodeObj
        <5>3. \/ o = node[n] \/ o = [node[n] EXCEPT !.del = TRUE]
              \/ o = [node[n] EXCEPT !.label = ~@] \/ w.step \in {"adopt", "create"}
          BY <2>2, <5>2 DEF MayBecome, CreateMachine
        <5> QED
          BY <4>1, <5>1, <5>3 DEF NodeObj
      <4> QED
        BY <1>0, <4>2 DEF FinalizerInv
    <3> QED
      BY <3>1, <3>2
  <2> QED
    BY <1>0, <2>1, <2>2 DEF NodeMoves, RefreshNode, Crash
<1> QED
  BY <1>1, <1>2, <1>3 DEF FinalizerInv, Bound

\* No machine is created or adopted for a set that could go without the
\* garbage collector waiting for it.
THEOREM FinalizerComesFirst == Spec => []FinalizerFirst
<1>1. Init => FinalizerInv
  <2> SUFFICES ASSUME Init PROVE FinalizerInv
    OBVIOUS
  <2>1. w.step = "idle" /\ vset = set /\ \A n \in Names : ~node[n].live
    BY ObjectTypes DEF Init
  <2> QED
    BY <2>1 DEF FinalizerInv
<1>2. Typed /\ FinalizerInv /\ [Next]_vars => FinalizerInv'
  BY FinalizerStep
<1>3. FinalizerInv => FinalizerFirst
  BY DEF FinalizerInv, FinalizerFirst
<1> QED
  BY <1>1, <1>2, <1>3, TypesHold, PTL DEF Spec

\* Where the steps of the deletion, and the end of a wait, lead to.
LEMMA DeletionSteps ==
    ASSUME w \in Worker
    PROVE  /\ \A n \in Names : DeleteMachine(n) => w.step = "delete" /\ w'.step = "delete"
           /\ DeletesDone => w.step = "delete" /\ w'.step \in {"hung", "status", "gone"}
           /\ WaitExpires => w.step \in {"made", "gone"} /\ w'.step = "status"
<1>1. ASSUME NEW n \in Names, DeleteMachine(n) PROVE w.step = "delete" /\ w'.step = "delete"
  <2>1. CASE w' = [w EXCEPT !.todo = @ \ {n}]
    BY <1>1, <2>1 DEF DeleteMachine, Worker
  <2>2. CASE w' = [w EXCEPT !.todo = @ \ {n}, !.failed = TRUE]
    BY <1>1, <2>2 DEF DeleteMachine, Worker
  <2> QED
    BY <1>1, <2>1, <2>2 DEF DeleteMachine
<1>2. ASSUME DeletesDone PROVE w.step = "delete" /\ w'.step \in {"hung", "status", "gone"}
  <2>1. CASE w' = [w EXCEPT !.step = "hung"]
    BY <1>2, <2>1 DEF DeletesDone, Worker
  <2>2. CASE w' = [w EXCEPT !.step = "status", !.wait = {}]
    BY <1>2, <2>2 DEF DeletesDone, Worker
  <2>3. CASE w' = [w EXCEPT !.step = "gone"]
    BY <1>2, <2>3 DEF DeletesDone, Worker
  <2> QED
    BY <1>2, <2>1, <2>2, <2>3 DEF DeletesDone
<1>3. ASSUME WaitExpires PROVE w.step \in {"made", "gone"} /\ w'.step = "status"
  <2>1. w' = [w EXCEPT !.step = "status", !.wait = {}, !.failed = TRUE]
    BY <1>3 DEF WaitExpires
  <2> QED
    BY <1>3, <2>1 DEF WaitExpires, Worker
<1> QED
  BY <1>1, <1>2, <1>3

\* What is adopted: nothing but what the worker's list showed without owner.
LEMMA AdoptSteps ==
    ASSUME Typed, AdoptInv, [Next]_vars, w'.step = "adopt", NEW n \in w'.todo, "w" \in ncur'[n]
    PROVE  /\ n \in Names
           /\ \/ w.step = "adopt" /\ n \in w.todo /\ "w" \in ncur[n]
              \/ UNCHANGED node /\ node[n].ctrl = None
<1>0. /\ w \in Worker /\ w' \in Worker /\ ncur \in [Names -> SUBSET {"cache", "w"}]
      /\ node \in [Names -> NodeObj]
  BY ReadTyped, SyncTyped, StatusTyped, OthersTyped DEF Typed, TypeOK, Next, WorkerStep
<1>1. n \in Names
  BY <1>0 DEF Worker
<1>2. CASE Read
  <2>1. /\ w' = [w EXCEPT !.step = "adopt", !.size = vset.size,
                          !.kept = Here \ OrphansHere, !.todo = OrphansHere]
        /\ ncur' = [k \in Names |->
                       IF Orphaned(vnode[k]) THEN CopiedBy("w", ncur[k]) ELSE ncur[k]]
    BY <1>0, <1>2, ObjectTypes
       DEF Read, Return, Requeue, Go, Worker, Here, OrphansHere
  <2>2. n \in OrphansHere
    BY <1>0, <2>1 DEF Worker
  <2>3. Orphaned(vnode[n]) /\ vnode[n].ctrl = None
    BY <2>2 DEF OrphansHere, Here, Orphaned, Excluded
  <2>4. "cache" \in ncur[n]
    BY <1>1, <2>1, <2>3 DEF CopiedBy
  <2> QED
    BY <1>1, <1>2, <2>3, <2>4 DEF AdoptInv, Read
<1>3. ASSUME NEW k \in Names, Adopt(k) PROVE w.step = "adopt" /\ n \in w.todo /\ "w" \in ncur[n]
  <2>1. w.step = "adopt" /\ w'.todo \subseteq w.todo
    <3>1. CASE w' = [w EXCEPT !.todo = @ \ {k}, !.kept = @ \cup {k}]
      BY <1>0, <1>3, <3>1 DEF Adopt, Worker
    <3>2. CASE w' = [w EXCEPT !.todo = @ \ {k}]
      BY <1>0, <1>3, <3>2 DEF Adopt, Worker
    <3> QED
      BY <1>3, <3>1, <3>2 DEF Adopt
  <2>2. "w" \in ncur[n]
    BY <1>0, <1>1, <1>3 DEF Adopt, PutNode
  <2> QED
    BY <2>1, <2>2
<1>4. ASSUME WorkerStep, ~Read, ~\E k \in Names : Adopt(k) PROVE FALSE
  <2>1. ~Dequeue /\ ~AddFinalizer /\ ~WriteStatus
    BY <1>0, ObjectTypes DEF Dequeue, AddFinalizer, WriteStatus, Requeue, Return, Worker
  <2>2. ~Sync /\ ~CreateMachine
    <3>1. ASSUME Sync PROVE \E step \in {"status", "create", "delete"} : \E i, D, E :
                               \/ w' = [w EXCEPT !.step = step]
                               \/ w' = [w EXCEPT !.step = step, !.left = i]
                               \/ w' = [w EXCEPT !.step = step, !.todo = D, !.wait = E]
      BY <3>1 DEF Sync
    <3> QED
      BY <1>0, <3>1, Creation DEF Typed, Worker
  <2>3. ASSUME GetFresh PROVE FALSE
    <3>1. CASE w' = Idle
      BY <3>1, ObjectTypes
    <3>2. CASE w' = [w EXCEPT !.step = "write"]
      BY <1>0, <3>2 DEF Worker
    <3> QED
      BY <2>3, <3>1, <3>2 DEF GetFresh, Go, Requeue
  <2>4. ~DeletesDone /\ ~WaitExpires
    BY <1>0, DeletionSteps
  <2>5. ASSUME NEW k \in Names, DeleteMachine(k) PROVE FALSE
    BY <1>0, <2>5, DeletionSteps
  <2>6. ASSUME NEW k \in Names, Confirm(k) PROVE FALSE
    <3>1. /\ w.step \in {"made", "gone"}
          /\ \E step \in {"status", w.step} :
                w' = [w EXCEPT !.wait = @ \ {k}, !.step = step]
      BY <2>6 DEF Confirm
    <3> QED
      BY <1>0, <3>1 DEF Worker
  <2> QED
    BY <1>4, <2>1, <2>2, <2>3, <2>4, <2>5, <2>6 DEF WorkerStep
<1>5. ~Crash
  BY ObjectTypes DEF Crash
<1>6. CASE UNCHANGED w
  <2>1. "w" \in ncur[n]
    <3>1. CASE ncur' = ncur
      BY <3>1
    <3>2. ASSUME NEW k \in Names, ncur' = [ncur EXCEPT ![k] = {}] PROVE "w" \in ncur[n]
      BY <1>0, <1>1, <3>2
    <3>3. ASSUME NEW k \in Names, RefreshNode(k) PROVE "w" \in ncur[n]
      BY <1>0, <1>1, <3>3 DEF RefreshNode
    <3>4. CASE WorkerStep
      BY <1>3, <1>4, <1>0, <3>4, <1>6 DEF Read, Worker
    <3> QED
      BY <1>5, <3>1, <3>2, <3>3, <3>4
         DEF Next, Environment, Cluster, Scale, DeleteSet, PostOrphan, EditNode, PutSet, PutNode,
             RefreshSet, CollectSet, ClaimByCluster, MachineGoes, CollectNode, nodes, vars
  <2> QED
    BY <1>6, <1>1, <2>1
<1>7. WorkerStep \/ UNCHANGED w
  BY <1>5 DEF Next, Environment, Scale, DeleteSet, PostOrphan, EditNode, Others, worker,
     Cluster, RefreshSet, CollectSet, RefreshNode, ClaimByCluster, MachineGoes, CollectNode, vars
<1> QED
  BY <1>1, <1>2, <1>3, <1>4, <1>6, <1>7

LEMMA AdoptStep ==
    ASSUME Typed, AdoptInv, [Next]_vars
    PROVE  AdoptInv'
<1>0. /\ node \in [Names -> NodeObj] /\ vnode \in [Names -> NodeObj] /\ NodeMoves
      /\ ncur \in [Names -> SUBSET {"cache", "w"}]
  BY NodeSteps DEF Typed, TypeOK
<1>1. ASSUME NEW n \in Names, "cache" \in ncur'[n] PROVE vnode'[n] = node'[n]
  <2>1. CASE UNCHANGED <<node, vnode>> /\ "cache" \in ncur[n]
    BY <2>1 DEF AdoptInv
  <2>2. ASSUME UNCHANGED vnode, NEW k \in Names, NEW o \in NodeObj, PutNode(k, o)
        PROVE  vnode'[n] = node'[n]
    <3>1. n # k
      BY <1>0, <1>1, <2>2 DEF PutNode
    <3> QED
      BY <1>0, <1>1, <2>2, <3>1 DEF PutNode, AdoptInv
  <2>3. ASSUME NEW k \in Names, RefreshNode(k) PROVE vnode'[n] = node'[n]
    BY <1>0, <1>1, <2>3 DEF RefreshNode, AdoptInv
  <2>4. CASE Crash
    BY <2>4 DEF Crash
  <2> QED
    BY <1>0, <1>1, <2>1, <2>2, <2>3, <2>4 DEF NodeMoves
<1>2. ASSUME w'.step = "adopt", NEW n \in w'.todo, "w" \in ncur'[n] PROVE node'[n].ctrl = None
  <2>1. /\ n \in Names
        /\ \/ w.step = "adopt" /\ n \in w.todo /\ "w" \in ncur[n]
           \/ UNCHANGED node /\ node[n].ctrl = None
    BY <1>2, AdoptSteps
  <2>2. CASE UNCHANGED node /\ node[n].ctrl = None
    BY <2>2
  <2>3. CASE w.step = "adopt" /\ n \in w.todo /\ "w" \in ncur[n]
    <3>1. node[n].ctrl = None
      BY <2>3 DEF AdoptInv
    <3>2. CASE UNCHANGED node
      BY <3>1, <3>2
    <3>3. ASSUME NEW k \in Names, NEW o \in NodeObj, PutNode(k, o) PROVE node'[n].ctrl = None
      <4>1. n # k
        BY <1>0, <1>2, <2>1, <3>3 DEF PutNode
      <4> QED
        BY <1>0, <2>1, <3>1, <3>3, <4>1 DEF PutNode
    <3> QED
      BY <1>0, <3>2, <3>3 DEF NodeMoves, RefreshNode, Crash
  <2> QED
    BY <2>1, <2>2, <2>3
<1>3. \A n \in w'.todo : w'.step = "adopt" /\ "w" \in ncur'[n] => node'[n].ctrl = None
  BY <1>2
<1> QED
  BY <1>1, <1>3 DEF AdoptInv

LEMMA AdoptHolds == Spec => []AdoptInv
<1>1. Init => AdoptInv
  BY ObjectTypes DEF Init, AdoptInv
<1>2. Typed /\ AdoptInv /\ [Next]_vars => AdoptInv'
  BY AdoptStep
<1> QED
  BY <1>1, <1>2, TypesHold, PTL DEF Spec

\* A machine has one controller for life: of the machine set controller and
\* the cluster controller, each working from a copy that may be old, the
\* second one's Update is refused.
THEOREM OneControllerForLife == Spec => OneController
<1> DEFINE Keeps == \A n \in Names :
          node[n].live /\ node[n].ctrl # None /\ node'[n].live => node'[n].ctrl = node[n].ctrl
<1>1. Typed /\ AdoptInv /\ [Next]_vars => Keeps
  <2> SUFFICES ASSUME Typed, AdoptInv, [Next]_vars, NEW n \in Names,
                      node[n].live, node[n].ctrl # None, node'[n].live
               PROVE  node'[n].ctrl = node[n].ctrl
    OBVIOUS
  <2>0. node \in [Names -> NodeObj] /\ NodeMoves /\ node[n] \in NodeObj
    BY NodeSteps DEF Typed, TypeOK
  <2>1. CASE UNCHANGED node
    BY <2>1
  <2>2. ASSUME NEW k \in Names, NEW o \in NodeObj, PutNode(k, o), MayBecome(k, o)
        PROVE  node'[n].ctrl = node[n].ctrl
    <3>1. CASE k # n
      BY <2>0, <2>2, <3>1 DEF PutNode
    <3>2. CASE k = n
      <4>1. o = node'[n]
        BY <2>0, <2>2, <3>2 DEF PutNode
      <4>2. o # NoNode /\ ~Fresh(n)
        BY <4>1, ObjectTypes DEF Fresh
      <4>3. ~(w.step = "adopt" /\ n \in w.todo /\ "w" \in ncur[n])
        BY DEF AdoptInv
      <4>4. \/ o = node[n] \/ o = [node[n] EXCEPT !.del = TRUE] \/ o = [node[n] EXCEPT !.label = ~@]
        BY <2>2, <3>2, <4>2, <4>3 DEF MayBecome
      <4> QED
        BY <2>0, <4>1, <4>4 DEF NodeObj
    <3> QED
      BY <3>1, <3>2
  <2> QED
    BY <2>0, <2>1, <2>2 DEF NodeMoves, RefreshNode, Crash
<1> HIDE DEF Keeps
<1>2. Spec => [][Keeps]_vars
  BY <1>1, TypesHold, AdoptHolds, PTL DEF Spec
<1> USE DEF Keeps
<1> QED
  BY <1>2 DEF OneController

(***************************************************************************)
(* The number of replicas, where no Create fails, no wait for the cache    *)
(* expires and users post no machines with the labels of the set.  After   *)
(* either of the two the next reconcile may count in a cache that does not *)
(* show a machine the worker has created, and create another for it.       *)
(***************************************************************************)
Undisturbed == Orphans = {} /\ "create" \notin Faults /\ "wait" \notin Faults

LEMMA NotThese ==
    ASSUME Undisturbed
    PROVE  ~Fault("create") /\ ~Fault("wait")
BY DEF Undisturbed, Fault

\* Nobody but the worker, and it only when it creates one, brings a replica
\* about.
LEMMA ReplicasShrink ==
    ASSUME Undisturbed, Typed, ReplicasInv, [Next]_vars, ~CreateMachine, NEW n \in Names
    PROVE  /\ node'[n].live => node[n].live /\ node'[n].ctrl = "set" /\ node'[n].label
           /\ Counted(node'[n]) => Counted(node[n])
<1>0. node \in [Names -> NodeObj] /\ NodeMoves /\ node[n] \in NodeObj /\ Orphans = {}
  BY NodeSteps DEF Typed, TypeOK, Undisturbed
<1>1. node[n].live => node[n].ctrl = "set" /\ node[n].label
  BY DEF ReplicasInv
<1>2. CASE node'[n] = node[n]
  BY <1>1, <1>2
<1>3. ASSUME NEW o \in NodeObj, MayBecome(n, o), node'[n] = o
      PROVE  /\ node'[n].live => node[n].live /\ node'[n].ctrl = "set" /\ node'[n].label
             /\ Counted(node'[n]) => Counted(node[n])
  <2>1. CASE o = NoNode
    <3>1. ~o.live
      BY <2>1, ObjectTypes
    <3> QED
      BY <1>3, <3>1 DEF Counted
  <2>2. CASE node[n].live /\ o = [node[n] EXCEPT !.del = TRUE]
    BY <1>0, <1>1, <1>3, <2>2 DEF NodeObj, Counted
  <2>3. CASE node[n].live /\ o = [node[n] EXCEPT !.ctrl = "set"]
    BY <1>0, <1>1, <1>3, <2>3 DEF NodeObj, Counted
  <2>4. ~(node[n].live /\ node[n].ctrl = None)
    BY <1>1, NoOwnerAssumption
  <2> QED
    BY <1>0, <1>2, <1>3, <2>1, <2>2, <2>3, <2>4 DEF MayBecome
<1>4. ASSUME NEW k \in Names, NEW o \in NodeObj, PutNode(k, o), MayBecome(k, o)
      PROVE  node'[n] = node[n] \/ (k = n /\ node'[n] = o)
  BY <1>0, <1>4 DEF PutNode
<1> QED
  BY <1>0, <1>2, <1>3, <1>4 DEF NodeMoves, RefreshNode, Crash

\* What the worker does next, as far as its replicas go.
StartsOver == w' = Idle /\ w.step \notin {"create", "made"}
Starts == w.step = "idle" /\ w' = [w EXCEPT !.step = "read"]
Lists == w.step = "read" /\ w' = [w EXCEPT !.step = "adopt", !.size = vset.size,
                                           !.kept = Here \ OrphansHere, !.todo = OrphansHere]
Adopts == /\ w.step = "adopt" /\ w'.step = "adopt" /\ w.kept \subseteq w'.kept
          /\ w'.wait = w.wait /\ w'.failed = w.failed
Creates == w.step = "adopt" /\ w' = [w EXCEPT !.step = "create", !.left = Missing]
Elsewhere == /\ w.step \notin {"create", "made"}
             /\ w'.step \notin {"idle", "read", "adopt", "create", "made"}
Waits == /\ w.step = "made" /\ w'.step \in {"made", "status"}
         /\ \A n \in w.wait : n \in w'.wait \/ vnode[n].live \/ ~node[n].live
         /\ w'.step = "status" => w'.wait = {}

WorkerMoves == UNCHANGED w \/ StartsOver \/ Starts \/ Lists \/ Adopts \/ Creates \/ Elsewhere \/ Waits

LEMMA WorkerSteps ==
    ASSUME Undisturbed, Typed, [Next]_vars, ~CreateMachine, ~Crash
    PROVE  /\ WorkerMoves
           /\ UNCHANGED vnode \/ (UNCHANGED w /\ \E n \in Names : RefreshNode(n))
<1>0. w \in Worker /\ ~Fault("wait")
  BY NotThese DEF Typed, TypeOK
<1>1. CASE WorkerStep
  <2>1. UNCHANGED vnode
    BY <1>1 DEF WorkerStep, Dequeue, Read, AddFinalizer, Sync, CreateMachine, DeletesDone,
       WaitExpires, GetFresh, WriteStatus, Adopt, DeleteMachine, Confirm, nodes
  <2> SUFFICES WorkerMoves
    BY <2>1
  <2>2. CASE Dequeue
    BY <2>2 DEF Dequeue, Starts, WorkerMoves
  <2>3. CASE AddFinalizer \/ WriteStatus
    <3>1. StartsOver
      BY <2>3 DEF AddFinalizer, WriteStatus, Requeue, Return, StartsOver
    <3> QED
      BY <3>1 DEF WorkerMoves
  <2>4. CASE Read
    <3>0. w.step = "read"
      BY <2>4 DEF Read
    <3>1. CASE Return \/ Requeue
      <4>1. StartsOver
        BY <3>0, <3>1 DEF Return, Requeue, StartsOver
      <4> QED
        BY <4>1 DEF WorkerMoves
    <3>2. CASE Go("finalize")
      <4>1. Elsewhere
        BY <1>0, <3>0, <3>2 DEF Go, Worker, Elsewhere
      <4> QED
        BY <4>1 DEF WorkerMoves
    <3>3. CASE w' = [w EXCEPT !.step = "adopt", !.size = vset.size,
                              !.kept = Here \ OrphansHere, !.todo = OrphansHere]
      BY <3>0, <3>3 DEF Lists, WorkerMoves
    <3> QED
      BY <1>0, <2>4, <3>1, <3>2, <3>3 DEF Read, Here, OrphansHere
  <2>5. ASSUME NEW n \in Names, Adopt(n) PROVE WorkerMoves
    <3>1. CASE w' = [w EXCEPT !.todo = @ \ {n}, !.kept = @ \cup {n}]
      <4>1. Adopts
        BY <1>0, <2>5, <3>1 DEF Adopt, Worker, Adopts
      <4> QED
        BY <4>1 DEF WorkerMoves
    <3>2. CASE w' = [w EXCEPT !.todo = @ \ {n}]
      <4>1. Adopts
        BY <1>0, <2>5, <3>2 DEF Adopt, Worker, Adopts
      <4> QED
        BY <4>1 DEF WorkerMoves
    <3> QED
      BY <2>5, <3>1, <3>2 DEF Adopt
  <2>6. CASE Sync
    <3>0. w.step = "adopt"
      BY <2>6 DEF Sync
    <3>1. CASE w' = [w EXCEPT !.step = "status"]
      <4>1. Elsewhere
        BY <1>0, <3>0, <3>1 DEF Worker, Elsewhere
      <4> QED
        BY <4>1 DEF WorkerMoves
    <3>2. CASE w' = [w EXCEPT !.step = "create", !.left = Missing]
      BY <3>0, <3>2 DEF Creates, WorkerMoves
    <3>3. ASSUME NEW D, w' = [w EXCEPT !.step = "delete", !.todo = D, !.wait = D]
          PROVE  WorkerMoves
      <4>1. Elsewhere
        BY <1>0, <3>0, <3>3 DEF Worker, Elsewhere
      <4> QED
        BY <4>1 DEF WorkerMoves
    <3> QED
      BY <2>6, <3>1, <3>2, <3>3 DEF Sync
  <2>7. ASSUME DeletesDone \/ \E n \in Names : DeleteMachine(n) PROVE WorkerMoves
    <3>1. Elsewhere
      BY <1>0, <2>7, DeletionSteps DEF Elsewhere
    <3> QED
      BY <3>1 DEF WorkerMoves
  <2>8. CASE GetFresh
    <3>0. w.step = "status"
      BY <2>8 DEF GetFresh
    <3>1. CASE w' = Idle
      <4>1. StartsOver
        BY <3>0, <3>1 DEF StartsOver
      <4> QED
        BY <4>1 DEF WorkerMoves
    <3>2. CASE w' = [w EXCEPT !.step = "write"]
      <4>1. Elsewhere
        BY <1>0, <3>0, <3>2 DEF Worker, Elsewhere
      <4> QED
        BY <4>1 DEF WorkerMoves
    <3> QED
      BY <2>8, <3>1, <3>2 DEF GetFresh, Go, Requeue
  <2>9. ASSUME NEW n \in Names, Confirm(n) PROVE WorkerMoves
    <3> DEFINE step == IF w.wait = {n} THEN "status" ELSE w.step
    <3>1. /\ w.step \in {"made", "gone"} /\ n \in w.wait
          /\ w' = [w EXCEPT !.wait = @ \ {n}, !.step = step]
          /\ w.step = "made" => vnode[n].live
      BY <2>9 DEF Confirm, Confirmed
    <3>2. /\ step \in {w.step, "status"}
          /\ step = "status" => w.wait \ {n} = {} \/ w.step = "status"
      OBVIOUS
    <3> HIDE DEF step
    <3>3. w'.step = step /\ w'.wait = w.wait \ {n}
      BY <1>0, <3>1 DEF Worker
    <3>4. Waits \/ Elsewhere
      BY <3>1, <3>2, <3>3 DEF Waits, Elsewhere
    <3> QED
      BY <3>4 DEF WorkerMoves
  <2>10. CASE WaitExpires
    <3>1. /\ w' = [w EXCEPT !.step = "status", !.wait = {}, !.failed = TRUE]
          /\ \A n \in w.wait : w.step = "made" /\ ~node[n].live
      BY <1>0, <2>10 DEF WaitExpires
    <3>2. w.step \in {"made", "gone"} /\ w'.step = "status" /\ w'.wait = {}
      BY <1>0, <2>10, <3>1, DeletionSteps DEF Worker
    <3>3. Waits \/ Elsewhere
      BY <3>1, <3>2 DEF Waits, Elsewhere
    <3> QED
      BY <3>3 DEF WorkerMoves
  <2> QED
    BY <1>1, <2>1, <2>2, <2>3, <2>4, <2>5, <2>6, <2>7, <2>8, <2>9, <2>10 DEF WorkerStep
<1>2. CASE ~WorkerStep
  <2>1. UNCHANGED w
    BY <1>2 DEF Next, Environment, Scale, DeleteSet, PostOrphan, EditNode, Others, worker,
     Cluster, RefreshSet, CollectSet, RefreshNode, ClaimByCluster, MachineGoes, CollectNode, vars
  <2>2. UNCHANGED vnode \/ \E n \in Names : RefreshNode(n)
    BY <1>2 DEF Next, Environment, Scale, DeleteSet, PostOrphan, EditNode, Others,
     Cluster, RefreshSet, CollectSet, ClaimByCluster, MachineGoes, CollectNode, nodes, vars
  <2> QED
    BY <2>1, <2>2 DEF WorkerMoves
<1> QED
  BY <1>1, <1>2

\* Every creation is waited for.
LEMMA ReplicasCreate ==
    ASSUME Undisturbed, Typed, ReplicasInv, CreateMachine
    PROVE  ReplicasInv'
<1>0. /\ w \in Worker /\ w' \in Worker /\ node \in [Names -> NodeObj] /\ ~Fault("create")
      /\ w.step = "create" /\ UNCHANGED vnode /\ ~w.failed /\ w.left \in Nat
  BY NotThese, Creation DEF Typed, TypeOK, Worker, CreateMachine, ReplicasInv
<1>1. /\ w'.step \in {"create", "made"} /\ w'.failed = w.failed
      /\ w'.kept = w.kept /\ w'.size = w.size
      /\ w'.step = "create" => w'.left = w.left - 1
  BY <1>0, Creation DEF Typed
<1>2. PICK n \in Names : /\ Fresh(n) /\ PutNode(n, NewReplica)
                         /\ w'.wait = w.wait \cup {n}
  BY <1>0, <1>1, Creation DEF Typed
<1>3. node'[n] = NewReplica /\ \A m \in Names \ {n} : node'[m] = node[m]
  BY <1>0, <1>2 DEF PutNode
<1>4. ~vnode[n].live /\ n \notin w.wait
  BY <1>2 DEF Fresh
<1>5. ASSUME NEW m \in Names
      PROVE  /\ node'[m].live => node'[m].ctrl = "set" /\ node'[m].label
             /\ vnode'[m].live => vnode'[m].ctrl = "set" /\ vnode'[m].label
             /\ Counted(node'[m]) => \/ Counted(vnode'[m])
                                     \/ /\ ~vnode'[m].live /\ m \in w'.wait
                                        /\ w'.step \in {"create", "made"}
  <2>1. CASE m = n
    <3>1. node'[m].ctrl = "set" /\ node'[m].label
      BY <1>3, <2>1 DEF NewReplica
    <3> QED
      BY <1>0, <1>1, <1>2, <1>4, <2>1, <3>1
  <2>2. CASE m # n
    BY <1>0, <1>1, <1>2, <1>3, <2>2 DEF ReplicasInv
  <2> QED
    BY <2>1, <2>2
<1>6. Replicas' \subseteq Replicas \cup {n}
  BY <1>3 DEF Replicas
<1>7. Replicas \subseteq w.kept \cup w.wait
  BY <1>0 DEF ReplicasInv
<1>8. ASSUME w'.step = "create"
      PROVE  Cardinality(w'.kept) + Cardinality(w'.wait) + w'.left = w'.size
  <2>1. Cardinality(w.kept) \in Nat /\ Cardinality(w.wait) \in Nat /\ IsFiniteSet(w.wait)
    BY <1>0, KeptCounted DEF Typed, Worker
  <2>2. Cardinality(w'.wait) = Cardinality(w.wait) + 1
    BY <1>2, <1>4, <2>1, FS_AddElement
  <2>3. Cardinality(w.kept) + Cardinality(w.wait) + w.left = w.size
    BY <1>0 DEF ReplicasInv
  <2> QED
    BY <1>0, <1>1, <1>8, <2>1, <2>2, <2>3
<1> QED
  BY <1>0, <1>1, <1>2, <1>5, <1>6, <1>7, <1>8 DEF ReplicasInv

\* ... and nothing else hides a replica from the next reconcile.
LEMMA ReplicasOther ==
    ASSUME Undisturbed, Typed, ReplicasInv, [Next]_vars, ~CreateMachine, ~Crash
    PROVE  ReplicasInv'
<1>0. /\ w \in Worker /\ WorkerMoves /\ node \in [Names -> NodeObj] /\ vnode \in [Names -> NodeObj]
      /\ UNCHANGED vnode \/ (UNCHANGED w /\ \E n \in Names : RefreshNode(n))
  BY WorkerSteps DEF Typed, TypeOK
<1>1. Replicas' \subseteq Replicas
  BY ReplicasShrink DEF Replicas
<1>2. ASSUME NEW n \in Names, Counted(node[n]), w.step \notin {"create", "made"}
      PROVE  Counted(vnode[n])
  BY <1>2 DEF ReplicasInv
<1>3. ASSUME NEW n \in Names
      PROVE  /\ node'[n].live => node'[n].ctrl = "set" /\ node'[n].label
             /\ vnode'[n].live => vnode'[n].ctrl = "set" /\ vnode'[n].label
  <2>1. CASE UNCHANGED vnode
    BY <2>1, ReplicasShrink DEF ReplicasInv
  <2>2. ASSUME NEW k \in Names, RefreshNode(k)
        PROVE  vnode'[n].live => vnode'[n].ctrl = "set" /\ vnode'[n].label
    <3>1. vnode'[n] \in {vnode[n], node[n]}
      BY <1>0, <2>2 DEF RefreshNode
    <3> QED
      BY <3>1 DEF ReplicasInv
  <2> QED
    BY <1>0, <2>1, <2>2, ReplicasShrink
<1>4. ASSUME NEW n \in Names, Counted(node'[n])
      PROVE  \/ Counted(vnode'[n])
             \/ ~vnode'[n].live /\ n \in w'.wait /\ w'.step \in {"create", "made"}
  <2>0. Counted(node[n])
    BY <1>4, ReplicasShrink
  <2>1. \/ Counted(vnode[n])
        \/ ~vnode[n].live /\ n \in w.wait /\ w.step \in {"create", "made"}
    BY <2>0 DEF ReplicasInv
  <2>2. ASSUME UNCHANGED w, NEW k \in Names, RefreshNode(k)
        PROVE  \/ Counted(vnode'[n])
               \/ ~vnode'[n].live /\ n \in w'.wait /\ w'.step \in {"create", "made"}
    <3>1. vnode'[n] = vnode[n] \/ vnode'[n] = node[n]
      BY <1>0, <2>2 DEF RefreshNode
    <3> QED
      BY <2>0, <2>1, <2>2, <3>1
  <2>3. CASE UNCHANGED vnode /\ ~vnode[n].live /\ n \in w.wait /\ w.step \in {"create", "made"}
    <3>1. UNCHANGED w \/ Waits
      BY <1>0, <2>3 DEF WorkerMoves, StartsOver, Starts, Lists, Adopts, Creates, Elsewhere
    <3>2. ASSUME Waits PROVE n \in w'.wait /\ w'.step = "made"
      BY <2>0, <2>3, <3>2 DEF Waits, Counted
    <3> QED
      BY <2>3, <3>1, <3>2
  <2> QED
    BY <1>0, <2>1, <2>2, <2>3
<1>5. w'.step \in {"idle", "read", "adopt", "create"} =>
         UNCHANGED w \/ StartsOver \/ Starts \/ Lists \/ Adopts \/ Creates
  BY <1>0 DEF WorkerMoves, Elsewhere, Waits
<1>6. /\ w'.step \in {"idle", "read", "adopt"} => w'.wait = {}
      /\ w'.step \in {"idle", "read", "adopt", "create"} => ~w'.failed
  <2>1. CASE UNCHANGED w
    BY <2>1 DEF ReplicasInv
  <2>2. CASE StartsOver
    BY <2>2, ObjectTypes DEF StartsOver
  <2>3. CASE Starts \/ Lists
    <3>1. w.wait = {} /\ ~w.failed
      BY <2>3 DEF ReplicasInv, Starts, Lists
    <3>2. w'.wait = w.wait /\ w'.failed = w.failed
      BY <1>0, <2>3 DEF Starts, Lists, Worker
    <3> QED
      BY <3>1, <3>2
  <2>4. CASE Adopts
    BY <2>4 DEF ReplicasInv, Adopts
  <2>5. CASE Creates
    <3>1. ~w.failed /\ w'.step = "create" /\ w'.failed = w.failed
      BY <1>0, <2>5 DEF ReplicasInv, Creates, Worker
    <3> QED
      BY <3>1
  <2> QED
    BY <1>5, <2>1, <2>2, <2>3, <2>4, <2>5
<1>7. ASSUME w'.step = "adopt" PROVE Replicas' \subseteq w'.kept
  <2>1. CASE UNCHANGED w
    BY <1>1, <1>7, <2>1 DEF ReplicasInv
  <2>2. CASE Lists
    <3>1. w'.kept = Here \ OrphansHere
      BY <1>0, <2>2 DEF Lists, Worker
    <3>2. ASSUME NEW n \in Replicas PROVE n \in Here \ OrphansHere
      <4>1. n \in Names /\ Counted(vnode[n])
        BY <1>2, <2>2, <3>2 DEF Lists, Replicas
      <4> QED
        BY <4>1, NoOwnerAssumption DEF Counted, Here, OrphansHere, Excluded
    <3> QED
      BY <1>1, <3>1, <3>2
  <2>3. CASE Adopts
    BY <1>1, <2>3 DEF ReplicasInv, Adopts
  <2>4. ~StartsOver /\ ~Starts /\ ~Creates
    BY <1>0, <1>7, ObjectTypes DEF StartsOver, Starts, Creates, Worker
  <2> QED
    BY <1>5, <1>7, <2>1, <2>2, <2>3, <2>4
<1>8. ASSUME w'.step = "create"
      PROVE  /\ Cardinality(w'.kept) + Cardinality(w'.wait) + w'.left = w'.size
             /\ Replicas' \subseteq w'.kept \cup w'.wait
  <2>1. CASE UNCHANGED w
    BY <1>1, <1>8, <2>1 DEF ReplicasInv
  <2>2. CASE Creates
    <3>1. w.wait = {} /\ Replicas \subseteq w.kept
      BY <2>2 DEF ReplicasInv, Creates
    <3>2. w'.kept = w.kept /\ w'.wait = {} /\ w'.size = w.size /\ w'.left = Missing
      BY <1>0, <2>2, <3>1 DEF Creates, Worker
    <3>3. Cardinality({}) = 0 /\ Cardinality(w.kept) \in Nat /\ w.size \in Int
      BY <1>0, KeptCounted, ExcessInt, FS_EmptySet DEF Typed, Worker
    <3>4. Cardinality(w'.kept) + Cardinality(w'.wait) + w'.left = w'.size
      BY <3>2, <3>3 DEF Missing, Excess
    <3> QED
      BY <1>1, <3>1, <3>2, <3>4
  <2>3. ~StartsOver /\ ~Starts /\ ~Lists /\ ~Adopts
    BY <1>0, <1>8, ObjectTypes DEF StartsOver, Starts, Lists, Adopts, Worker
  <2> QED
    BY <1>5, <1>8, <2>1, <2>2, <2>3
<1> QED
  BY <1>3, <1>4, <1>6, <1>7, <1>8 DEF ReplicasInv

\* A manager that starts has synced its caches.
LEMMA ReplicasCrash ==
    ASSUME ReplicasInv, Crash
    PROVE  ReplicasInv'
<1>1. /\ vnode' = node /\ node' = node /\ w'.step = "idle" /\ w'.wait = {} /\ w'.failed = FALSE
  BY ObjectTypes DEF Crash
<1> QED
  BY <1>1 DEF ReplicasInv

\* Where the hypothesis on the constants holds the controller never makes the
\* set larger than the size it has read.
THEOREM CreatesOnlyWhenTooFew == ASSUME Undisturbed PROVE Spec => CreatesOnlyIfTooFew
<1> DEFINE TooFew == (\E n \in Names : ~node[n].live /\ node'[n].live /\ node'[n].ctrl = "set")
                        => Cardinality(Replicas) < w.size
<1>1. Init => ReplicasInv
  <2> SUFFICES ASSUME Init PROVE ReplicasInv
    OBVIOUS
  <2>1. /\ w.step = "idle" /\ w.wait = {} /\ w.failed = FALSE
        /\ \A n \in Names : ~node[n].live /\ ~vnode[n].live
    BY ObjectTypes DEF Init
  <2> QED
    BY <2>1 DEF ReplicasInv, Counted
<1>2. Typed /\ ReplicasInv /\ [Next]_vars => ReplicasInv'
  BY ReplicasCreate, ReplicasOther, ReplicasCrash
<1>3. Typed /\ ReplicasInv /\ [Next]_vars => TooFew
  <2> SUFFICES ASSUME Typed, ReplicasInv, [Next]_vars,
                      NEW n \in Names, ~node[n].live, node'[n].live
               PROVE  Cardinality(Replicas) < w.size
    OBVIOUS
  <2>1. CreateMachine
    BY ReplicasShrink
  <2>2. w.step = "create" /\ w.left > 0 /\ w \in Worker
    BY <2>1 DEF CreateMachine, Typed, TypeOK, CreationsLeft
  <2>3. /\ Cardinality(w.kept) + Cardinality(w.wait) + w.left = w.size
        /\ Replicas \subseteq w.kept \cup w.wait
    BY <2>2 DEF ReplicasInv
  <2>4. /\ IsFiniteSet(w.kept) /\ IsFiniteSet(w.wait) /\ w.kept \cup w.wait \in SUBSET Names
        /\ w.kept \cap w.wait \in SUBSET Names
    BY <2>2, KeptCounted DEF Typed, Worker
  <2>5. Cardinality(w.kept \cup w.wait) =
           Cardinality(w.kept) + Cardinality(w.wait) - Cardinality(w.kept \cap w.wait)
    BY <2>4, FS_Union
  <2>6. Cardinality(Replicas) <= Cardinality(w.kept \cup w.wait)
    BY <2>3, <2>4, KeptCounted, FS_Subset DEF Typed
  <2>7. /\ Cardinality(w.kept) \in Nat /\ Cardinality(w.wait) \in Nat
        /\ Cardinality(w.kept \cap w.wait) \in Nat /\ Cardinality(w.kept \cup w.wait) \in Nat
    BY <2>2, <2>4, KeptCounted DEF Typed, Worker
  <2>8. Cardinality(Replicas) \in Nat /\ w.left \in Nat
    BY <2>2, KeptCounted DEF Typed, Worker, Replicas
  <2> QED
    BY <2>2, <2>3, <2>5, <2>6, <2>7, <2>8
<1> HIDE DEF TooFew
<1>4. Spec => [][TooFew]_vars
  BY <1>1, <1>2, <1>3, TypesHold, PTL DEF Spec
<1> USE DEF TooFew
<1> QED
  BY <1>4 DEF CreatesOnlyIfTooFew

=============================================================================
