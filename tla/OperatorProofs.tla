--------------------------- MODULE OperatorProofs ---------------------------
(***************************************************************************)
(* Proofs about Operator for every set of machines and systems, every set  *)
(* of user operations and every number of faults: its inductive invariant, *)
(* and the safety properties that follow from it.                          *)
(***************************************************************************)
EXTENDS Operator, TLAPS

\* The records that stand for objects just posted or gone have their types.
LEMMA ObjectTypes ==
    /\ NewMachine \in MachineObj /\ GoneMachine \in MachineObj
    /\ NewCluster \in ClusterObj /\ GoneCluster \in ClusterObj
    /\ NewSecret \in SecretObj /\ GoneSecret \in SecretObj
    /\ MachineIdle \in MachineWorker /\ ClusterIdle \in ClusterWorker
    /\ NoUserdata \in Userdata
  BY DEF NewMachine, GoneMachine, MachineObj, MachinePhase, NewCluster, GoneCluster,
         ClusterObj, ClusterPhase, NewSecret, GoneSecret, SecretObj, MachineIdle,
         MachineWorker, MachineStep, ClusterIdle, ClusterWorker, ClusterStep,
         NoUserdata, Userdata

\* A machine that is new or gone has coherent fields.
LEMMA CoherentObjects == Coherent(NewMachine) /\ Coherent(GoneMachine)
  BY DEF Coherent, NewMachine, GoneMachine

\* Objects just posted, synced caches and idle workers satisfy the invariant.
LEMMA InitialInvariant == Init => IInv
  <1> SUFFICES ASSUME Init PROVE IInv
      OBVIOUS
  <1> USE DEF Init, KubeInit, MaasInit, MachineControllerInit, ClusterControllerInit
  <1>1. TypeOK
    <2>1. KubeTypeOK
      BY ObjectTypes DEF KubeTypeOK
    <2>2. MaasTypeOK
      BY ObjectTypes, FaultsAssumption DEF MaasTypeOK
    <2>3. MachineControllerTypeOK /\ ClusterControllerTypeOK
      BY ObjectTypes, MachinesAssumption DEF MachineControllerTypeOK, ClusterControllerTypeOK
    <2> QED
      BY <2>1, <2>2, <2>3 DEF TypeOK
  <1>2. RecordsCoherent /\ CopiesCurrent
    BY CoherentObjects DEF RecordsCoherent, CopiesCurrent
  <1>3. StepFitsCopy
    BY DEF StepFitsCopy, Holding, Creating, Removing, At, MachineIdle
  <1> QED
    BY <1>1, <1>2, <1>3 DEF IInv

\* A Delete keeps the fields of a machine coherent.
LEMMA DeletedMachine ==
    ASSUME NEW o \in MachineObj, Coherent(o), ~o.del
    PROVE  Deleted(o) \in MachineObj /\ Coherent(Deleted(o))
  BY ObjectTypes, CoherentObjects DEF Deleted, MachineObj, Coherent, GoneMachine, NewMachine

\* Actions of users, of the garbage collector and of the cluster controller:
\* machine m becomes o, and no copy of it is current any more.
LEMMA MachineWritten ==
    ASSUME IInv, NEW m \in Machines, NEW o \in MachineObj, Coherent(o), OnMachine(m, o)
    PROVE  IInv'
  <1> USE DEF IInv, OnMachine, PutMachine, maasVars, mcVars, ccVars
  <1>1. TypeOK'
    BY DEF TypeOK, KubeTypeOK, MaasTypeOK, MachineControllerTypeOK, ClusterControllerTypeOK
  <1>2. RecordsCoherent'
    BY DEF RecordsCoherent, TypeOK, KubeTypeOK
  <1>3. CopiesCurrent'
    BY DEF CopiesCurrent, TypeOK, KubeTypeOK, Holding
  <1>4. StepFitsCopy'
    BY DEF StepFitsCopy, Holding, Creating, Removing, At
  <1> QED
    BY <1>1, <1>2, <1>3, <1>4

(***************************************************************************)
(* The ways a step of the machine controller leaves its reconcile.         *)
(***************************************************************************)

\* MAAS and the deployed systems keep their types.
LEMMA MaasTypes ==
    ASSUME MaasTypeOK
    PROVE  /\ \A s \in Systems : AllocateMachine(s) => MaasTypeOK'
           /\ \A s, d : d \in Userdata /\ StartMachine(s, d) /\ budget' \in 0 .. MaxFaults
                            => MaasTypeOK'
           /\ \A s : ReleaseMachine(s) => MaasTypeOK'
           /\ \A s \in Systems : Boot(s) => MaasTypeOK'
           /\ NoFault => budget' \in 0 .. MaxFaults
           /\ \A kind : Fault(kind) => budget' \in 0 .. MaxFaults
           /\ NoSystemChange /\ budget' \in 0 .. MaxFaults => MaasTypeOK'
           /\ UNCHANGED maasVars => MaasTypeOK'
  <1> USE ObjectTypes, FaultsAssumption DEF MaasTypeOK, NoFault, Fault, NoSystemChange
  <1>1. ASSUME NEW s \in Systems, AllocateMachine(s) PROVE MaasTypeOK'
    BY <1>1 DEF AllocateMachine
  <1>2. ASSUME NEW s, NEW d, d \in Userdata, StartMachine(s, d), budget' \in 0 .. MaxFaults
        PROVE MaasTypeOK'
    BY <1>2 DEF StartMachine
  <1>3. ASSUME NEW s, ReleaseMachine(s) PROVE MaasTypeOK'
    BY <1>3 DEF ReleaseMachine
  <1>4. ASSUME NEW s \in Systems, Boot(s) PROVE MaasTypeOK'
    BY <1>4, NoneAssumption DEF Boot, Userdata
  <1>5. ASSUME NoFault PROVE budget' \in 0 .. MaxFaults
    BY <1>5
  <1>6. ASSUME NEW kind, Fault(kind) PROVE budget' \in 0 .. MaxFaults
    BY <1>6
  <1>7. ASSUME NoSystemChange, budget' \in 0 .. MaxFaults PROVE MaasTypeOK'
    BY <1>7
  <1>8. ASSUME UNCHANGED maasVars PROVE MaasTypeOK'
    BY <1>8 DEF maasVars
  <1> QED
    BY <1>1, <1>2, <1>3, <1>4, <1>5, <1>6, <1>7, <1>8

\* Without a write of the machine: Retry and the early returns.
LEMMA ReconcileLeft ==
    ASSUME IInv, NEW again \in SUBSET Machines, Leave(again), MaasTypeOK', UNCHANGED ccVars
    PROVE  IInv'
  <1> USE DEF IInv, Leave, Done, DroppedBy, ccVars
  <1>1. TypeOK'
    BY ObjectTypes DEF TypeOK, KubeTypeOK, MachineControllerTypeOK, ClusterControllerTypeOK
  <1>2. RecordsCoherent'
    BY DEF RecordsCoherent
  <1>3. CopiesCurrent'
    BY DEF CopiesCurrent, TypeOK, KubeTypeOK
  <1>4. StepFitsCopy'
    BY DEF StepFitsCopy, Holding, Creating, Removing, At, MachineIdle
  <1> QED
    BY <1>1, <1>2, <1>3, <1>4

\* With a write of the machine that is its last step.
LEMMA ReconcileWritten ==
    ASSUME IInv, NEW again \in SUBSET Machines, NEW o \in MachineObj, Coherent(o),
           mw.m \in Machines, PutMachine(mw.m, o, {}), Done(again), MaasTypeOK',
           UNCHANGED ccVars
    PROVE  IInv'
  <1> USE DEF IInv, PutMachine, Done, ccVars
  <1>1. TypeOK'
    BY ObjectTypes DEF TypeOK, KubeTypeOK, MachineControllerTypeOK, ClusterControllerTypeOK
  <1>2. RecordsCoherent'
    BY DEF RecordsCoherent, TypeOK, KubeTypeOK
  <1>3. CopiesCurrent'
    BY DEF CopiesCurrent, TypeOK, KubeTypeOK
  <1>4. StepFitsCopy'
    BY DEF StepFitsCopy, Holding, Creating, Removing, At, MachineIdle
  <1> QED
    BY <1>1, <1>2, <1>3, <1>4

\* With the next call of the same reconcile, the machine and its copies left
\* alone.
LEMMA ReconcileGoesOn ==
    ASSUME IInv, MaasTypeOK', KubeTypeOK', mw' \in MachineWorker, Holding, Holding',
           mw'.m = mw.m, mw'.obj = mw.obj, StepFitsCopy',
           UNCHANGED <<queue, machine, mcache, mcur, ccVars>>
    PROVE  IInv'
  <1> USE DEF IInv, ccVars
  <1>1. TypeOK'
    BY DEF TypeOK, MachineControllerTypeOK, ClusterControllerTypeOK
  <1>2. RecordsCoherent'
    BY DEF RecordsCoherent
  <1>3. CopiesCurrent'
    BY DEF CopiesCurrent
  <1> QED
    BY <1>1, <1>2, <1>3

(***************************************************************************)
(* The steps of the machine controller keep the invariant.                 *)
(***************************************************************************)

\* Dequeue and GetMachine: the copy read is coherent and fits the step.
LEMMA GetKeepsInvariant ==
    ASSUME IInv, UNCHANGED ccVars, GetMachine \/ \E m \in Machines : Dequeue(m)
    PROVE  IInv'
  <1>0. MaasTypeOK'
    BY MaasTypes DEF IInv, TypeOK, GetMachine, Dequeue
  <1>1. ASSUME NEW m \in Machines, Dequeue(m) PROVE IInv'
    <2> USE <1>1 DEF IInv, Dequeue, kubeVars, ccVars, At
    <2>1. TypeOK'
      BY <1>0, ObjectTypes DEF TypeOK, KubeTypeOK, MachineControllerTypeOK,
         ClusterControllerTypeOK, MachineWorker, MachineStep, MachineIdle
    <2>2. RecordsCoherent' /\ CopiesCurrent'
      BY DEF RecordsCoherent, CopiesCurrent, Holding
    <2>3. StepFitsCopy'
      BY DEF StepFitsCopy, Holding, Creating, Removing, MachineIdle
    <2> QED
      BY <2>1, <2>2, <2>3
  <1>2. ASSUME GetMachine, FirstStep(mcache[mw.m]) = "idle" PROVE IInv'
    BY <1>0, <1>2, ReconcileLeft DEF GetMachine
  <1>3. ASSUME GetMachine, FirstStep(mcache[mw.m]) # "idle" PROVE IInv'
    <2> DEFINE o == mcache[mw.m]
               step == FirstStep(o)
    <2> USE DEF IInv, ccVars
    <2>1. mw.m \in Machines /\ At("get") /\ mw.pc = "get"
      BY <1>3 DEF GetMachine, StepFitsCopy, At
    <2>2. o \in MachineObj /\ Coherent(o)
      BY <2>1 DEF TypeOK, KubeTypeOK, CopiesCurrent
    <2>3. /\ step \in {"mark", "delete", "wait", "prepare"}
          /\ o.live
          /\ step = "mark" => o.del /\ o.phase # "Deleting"
          /\ step = "delete" => o.phase = "Deleting"
          /\ step = "wait" => o.phase = "Provisioning" /\ ~o.del
          /\ step = "prepare" => o.phase = "" /\ ~o.del
      BY <1>3, <2>2 DEF FirstStep, MachineObj, MachinePhase
    <2>4. /\ mw' = [mw EXCEPT !.pc = step, !.obj = o]
          /\ mcur' = [mcur EXCEPT ![mw.m] = CopiedBy("mw", @)]
          /\ UNCHANGED <<queue, machine, cluster, secret, mcache, ccache, scache, ccur, scur>>
      BY <1>3 DEF GetMachine
    <2> HIDE DEF o, step
    <2>5. /\ mw' \in MachineWorker
          /\ mw'.pc = step /\ mw'.m = mw.m /\ mw'.obj = o
      BY <2>2, <2>3, <2>4 DEF TypeOK, MachineControllerTypeOK, MachineWorker, MachineStep
    <2>6. TypeOK'
      BY <1>0, <2>4, <2>5 DEF TypeOK, KubeTypeOK, MachineControllerTypeOK,
         ClusterControllerTypeOK, CopiedBy
    <2>7. RecordsCoherent'
      BY <2>4 DEF RecordsCoherent
    <2>8. CopiesCurrent'
      BY <2>1, <2>3, <2>4, <2>5 DEF CopiesCurrent, Holding, TypeOK, KubeTypeOK, CopiedBy, o
    <2>9. StepFitsCopy'
      BY <2>1, <2>2, <2>3, <2>5 DEF StepFitsCopy, Holding, Creating, Removing, At
    <2> QED
      BY <2>6, <2>7, <2>8, <2>9
  <1> QED
    BY <1>1, <1>2, <1>3

\* MarkDeleting: the copy stored with phase Deleting stays the current one.
LEMMA MarkKeepsInvariant ==
    ASSUME IInv, UNCHANGED ccVars, MarkDeleting
    PROVE  IInv'
  <1>0. MaasTypeOK' /\ mw.m \in Machines
    BY MaasTypes DEF IInv, TypeOK, MarkDeleting, StepFitsCopy, At
  <1>1. CASE ~Accepted("mw", mw.m)
    BY <1>0, <1>1, ReconcileLeft DEF MarkDeleting, Retry
  <1>2. CASE Accepted("mw", mw.m)
    <2> DEFINE o == [mw.obj EXCEPT !.phase = "Deleting"]
    <2> USE DEF IInv, ccVars
    <2>1. /\ machine' = [machine EXCEPT ![mw.m] = o]
          /\ mcur' = [mcur EXCEPT ![mw.m] = {"mw"}]
          /\ mw' = [mw EXCEPT !.pc = "delete", !.obj = o]
          /\ UNCHANGED <<queue, cluster, secret, mcache, ccache, scache, ccur, scur>>
      BY <1>2 DEF MarkDeleting, PutMachine
    <2>2. o \in MachineObj /\ Coherent(o) /\ o.live /\ o.phase = "Deleting"
      BY DEF MarkDeleting, At, StepFitsCopy, Holding, Coherent, TypeOK,
         MachineControllerTypeOK, MachineWorker, MachineObj, MachinePhase
    <2> HIDE DEF o
    <2>3. mw' \in MachineWorker /\ mw'.pc = "delete" /\ mw'.m = mw.m /\ mw'.obj = o
      BY <2>1, <2>2 DEF TypeOK, MachineControllerTypeOK, MachineWorker, MachineStep
    <2>4. TypeOK'
      BY <1>0, <2>1, <2>2, <2>3 DEF TypeOK, KubeTypeOK, MachineControllerTypeOK,
         ClusterControllerTypeOK
    <2>5. RecordsCoherent'
      BY <2>1, <2>2 DEF RecordsCoherent, TypeOK, KubeTypeOK
    <2>6. CopiesCurrent'
      BY <1>0, <2>1, <2>3 DEF CopiesCurrent, Holding, TypeOK, KubeTypeOK
    <2>7. StepFitsCopy'
      BY <1>0, <2>2, <2>3 DEF StepFitsCopy, Holding, Creating, Removing, At
    <2> QED
      BY <2>4, <2>5, <2>6, <2>7
  <1> QED
    BY <1>1, <1>2

\* What the steps of a create share: the machine the worker holds is
\* pending, and the request can be put back.
LEMMA CreatingFacts ==
    ASSUME IInv, Creating
    PROVE  /\ mw \in MachineWorker /\ mw.m \in Machines /\ {mw.m} \in SUBSET Machines
           /\ mw.obj \in MachineObj /\ mw.obj.live /\ Coherent(mw.obj)
           /\ mw.obj.phase = "" /\ ~mw.obj.del
           /\ Holding
           /\ KubeTypeOK /\ MaasTypeOK
  BY DEF IInv, TypeOK, MachineControllerTypeOK, MachineWorker, StepFitsCopy, Creating,
     Holding, At

\* PrepareCreate and Allocate write no object; a system is in hand after them.
LEMMA PrepareKeepsInvariant ==
    ASSUME IInv, UNCHANGED ccVars, PrepareCreate \/ Allocate
    PROVE  IInv'
  <1>0. Creating
    BY DEF PrepareCreate, Allocate, At, Creating
  <1>1. MaasTypeOK'
    BY MaasTypes DEF IInv, TypeOK, PrepareCreate, Allocate
  <1>2. CASE Retry
    BY <1>0, <1>1, <1>2, ReconcileLeft, CreatingFacts DEF Retry
  <1>3. ASSUME PrepareCreate, ~Retry PROVE IInv'
    <2>1. /\ mw.pc = "prepare"
          /\ mw'.pc \in {"allocate", "fail"} /\ mw' \in MachineWorker
          /\ mw'.m = mw.m /\ mw'.obj = mw.obj
          /\ UNCHANGED <<queue, machine, cluster, secret, mcache, ccache, scache, mcur, ccur>>
      BY <1>0, <1>3, CreatingFacts, NoneAssumption
         DEF PrepareCreate, Goto, At, MachineWorker, MachineStep, KubeTypeOK, ClusterObj, kubeVars
    <2>2. KubeTypeOK'
      BY <1>0, <1>3, <2>1, CreatingFacts DEF PrepareCreate, KubeTypeOK, CopiedBy, kubeVars
    <2>3. StepFitsCopy' /\ Holding'
      BY <1>0, <2>1, CreatingFacts DEF StepFitsCopy, Holding, Creating, Removing, At
    <2> QED
      BY <1>0, <1>1, <2>1, <2>2, <2>3, ReconcileGoesOn, CreatingFacts
  <1>4. ASSUME Allocate, ~Retry PROVE IInv'
    <2>1. /\ mw.pc = "allocate"
          /\ mw'.pc = "start" /\ mw'.s \in Systems /\ mw' \in MachineWorker
          /\ mw'.m = mw.m /\ mw'.obj = mw.obj
          /\ UNCHANGED <<queue, kubeVars>>
      BY <1>0, <1>4, CreatingFacts DEF Allocate, At, MachineWorker, MachineStep
    <2>2. KubeTypeOK'
      BY <1>0, <2>1, CreatingFacts DEF KubeTypeOK, kubeVars
    <2>3. StepFitsCopy' /\ Holding'
      BY <1>0, <2>1, CreatingFacts DEF StepFitsCopy, Holding, Creating, Removing, At
    <2> QED
      BY <1>0, <1>1, <2>1, <2>2, <2>3, ReconcileGoesOn, CreatingFacts DEF kubeVars
  <1> QED
    BY <1>2, <1>3, <1>4

\* Start and ReleaseWithoutAddress change MAAS and the step only.
LEMMA StartKeepsInvariant ==
    ASSUME IInv, UNCHANGED ccVars, Start \/ ReleaseWithoutAddress
    PROVE  IInv'
  <1>0. Creating
    BY DEF Start, ReleaseWithoutAddress, At, Creating
  <1>1. MaasTypeOK'
    <2>1. [node |-> mw.m, join |-> mw.api] \in Userdata
      BY <1>0, CreatingFacts DEF Userdata, MachineWorker
    <2> QED
      BY <1>0, <2>1, CreatingFacts, MaasTypes DEF Start, ReleaseWithoutAddress
  <1>2. /\ mw.pc \in {"start", "noip"}
        /\ mw'.pc \in {"kubeconfig", "record", "release", "noip", "panic"}
        /\ mw' \in MachineWorker
        /\ mw'.m = mw.m /\ mw'.obj = mw.obj /\ mw'.s = mw.s
        /\ UNCHANGED <<queue, kubeVars>>
    BY <1>0, CreatingFacts DEF Start, ReleaseWithoutAddress, Goto, At, MachineWorker, MachineStep
  <1>3. KubeTypeOK'
    BY <1>0, <1>2, CreatingFacts DEF KubeTypeOK, kubeVars
  <1>4. StepFitsCopy' /\ Holding'
    BY <1>0, <1>2, CreatingFacts DEF IInv, StepFitsCopy, Holding, Creating, Removing, At
  <1> QED
    BY <1>0, <1>1, <1>2, <1>3, <1>4, ReconcileGoesOn, CreatingFacts DEF kubeVars

\* CreateKubeconfig and UpdateCluster write the secret and the cluster only.
LEMMA PublishKeepsInvariant ==
    ASSUME IInv, UNCHANGED ccVars, CreateKubeconfig \/ UpdateCluster
    PROVE  IInv'
  <1>0. Creating /\ mw.s \in Systems
    BY DEF IInv, StepFitsCopy, CreateKubeconfig, UpdateCluster, At, Creating
  <1>1. MaasTypeOK'
    BY <1>0, CreatingFacts, MaasTypes DEF CreateKubeconfig, UpdateCluster
  <1>2. CASE Retry
    BY <1>0, <1>1, <1>2, ReconcileLeft, CreatingFacts DEF Retry
  <1>3. CASE ~Retry
    <2>1. /\ mw'.pc \in {"endpoint", "record", "release"} /\ mw' \in MachineWorker
          /\ mw'.m = mw.m /\ mw'.obj = mw.obj /\ mw'.s = mw.s
          /\ UNCHANGED <<queue, machine, mcache, ccache, scache, mcur>>
      BY <1>0, <1>3, CreatingFacts
         DEF CreateKubeconfig, UpdateCluster, Goto, At, MachineWorker, MachineStep, kubeVars
    <2>2. KubeTypeOK'
      BY <1>0, <1>3, <2>1, CreatingFacts
         DEF CreateKubeconfig, UpdateCluster, KubeTypeOK, SecretObj, ClusterObj, kubeVars
    <2>3. StepFitsCopy' /\ Holding'
      BY <1>0, <2>1, CreatingFacts DEF IInv, StepFitsCopy, Holding, Creating, Removing, At
    <2> QED
      BY <1>0, <1>1, <2>1, <2>2, <2>3, ReconcileGoesOn, CreatingFacts
  <1> QED
    BY <1>2, <1>3

\* UpdateMachine, Release and Fail: the machine is recorded coherently, or the
\* reconcile ends without a write of it.
LEMMA RecordKeepsInvariant ==
    ASSUME IInv, UNCHANGED ccVars, UpdateMachine \/ Release \/ Fail
    PROVE  IInv'
  <1>0. Creating /\ (At("record") => mw.s \in Systems)
    BY DEF IInv, StepFitsCopy, UpdateMachine, Release, Fail, At, Creating
  <1>1. MaasTypeOK'
    BY <1>0, CreatingFacts, MaasTypes DEF UpdateMachine, Release, Fail
  <1>2. ASSUME UpdateMachine, Accepted("mw", mw.m) PROVE IInv'
    <2> DEFINE o == [mw.obj EXCEPT !.fin = TRUE, !.phase = "Provisioning", !.sys = mw.s]
    <2>1. o \in MachineObj /\ Coherent(o)
      BY <1>0, <1>2, CreatingFacts, NoneAssumption
         DEF UpdateMachine, MachineObj, MachinePhase, Coherent
    <2>2. PutMachine(mw.m, o, {}) /\ Done({})
      BY <1>2 DEF UpdateMachine
    <2> QED
      BY <1>0, <1>1, <2>1, <2>2, ReconcileWritten, CreatingFacts
  <1>3. ASSUME UpdateMachine, ~Accepted("mw", mw.m) PROVE IInv'
    <2>1. /\ mw'.pc = "release" /\ mw' \in MachineWorker
          /\ mw'.m = mw.m /\ mw'.obj = mw.obj /\ mw'.s = mw.s
          /\ UNCHANGED <<queue, kubeVars>>
      BY <1>0, <1>3, CreatingFacts DEF UpdateMachine, Goto, MachineWorker, MachineStep
    <2>2. KubeTypeOK'
      BY <1>0, <2>1, CreatingFacts DEF KubeTypeOK, kubeVars
    <2>3. StepFitsCopy' /\ Holding'
      BY <1>0, <1>3, <2>1, CreatingFacts
         DEF UpdateMachine, StepFitsCopy, Holding, Creating, Removing, At
    <2> QED
      BY <1>0, <1>1, <2>1, <2>2, <2>3, ReconcileGoesOn, CreatingFacts DEF kubeVars
  <1>4. ASSUME Release \/ (Fail /\ ~Accepted("mw", mw.m)) PROVE IInv'
    BY <1>0, <1>1, <1>4, ReconcileLeft, CreatingFacts DEF Release, Fail, UpdateAndFinish, Retry
  <1>5. ASSUME Fail, Accepted("mw", mw.m) PROVE IInv'
    <2> DEFINE o == [mw.obj EXCEPT !.phase = "Error"]
    <2>1. o \in MachineObj /\ Coherent(o)
      BY <1>0, CreatingFacts DEF MachineObj, MachinePhase, Coherent
    <2>2. PutMachine(mw.m, o, {}) /\ Done({})
      BY <1>5 DEF Fail, UpdateAndFinish
    <2> QED
      BY <1>0, <1>1, <2>1, <2>2, ReconcileWritten, CreatingFacts
  <1> QED
    BY <1>2, <1>3, <1>4, <1>5

\* WaitForReady: the machine becomes Ready, or is deleted for want of a secret.
LEMMA WaitKeepsInvariant ==
    ASSUME IInv, UNCHANGED ccVars, WaitForReady
    PROVE  IInv'
  <1>0. /\ mw.m \in Machines /\ {mw.m} \in SUBSET Machines /\ {} \in SUBSET Machines
        /\ mw.obj \in MachineObj /\ Coherent(mw.obj) /\ mw.obj.phase = "Provisioning"
        /\ mw.obj.live /\ ~mw.obj.del
        /\ machine[mw.m] \in MachineObj /\ Coherent(machine[mw.m])
    BY DEF IInv, TypeOK, MachineControllerTypeOK, MachineWorker, KubeTypeOK,
       RecordsCoherent, StepFitsCopy, Holding, WaitForReady, At
  <1>1. MaasTypeOK'
    BY MaasTypes DEF IInv, TypeOK, WaitForReady
  <1>2. CASE Retry \/ Leave({})
    BY <1>0, <1>1, <1>2, ReconcileLeft DEF Retry
  <1>3. ASSUME Accepted("mw", mw.m), Done({}),
               PutMachine(mw.m, [mw.obj EXCEPT !.phase = "Ready"], {})
        PROVE IInv'
    <2> DEFINE o == [mw.obj EXCEPT !.phase = "Ready"]
    <2>1. o \in MachineObj /\ Coherent(o)
      BY <1>0 DEF MachineObj, MachinePhase, Coherent
    <2> QED
      BY <1>0, <1>1, <1>3, <2>1, ReconcileWritten
  <1>4. ASSUME ~machine[mw.m].del, Done({mw.m}),
               PutMachine(mw.m, Deleted(machine[mw.m]), {})
        PROVE IInv'
    BY <1>0, <1>1, <1>4, DeletedMachine, ReconcileWritten
  <1> QED
    BY <1>2, <1>3, <1>4 DEF WaitForReady, UpdateAndFinish

\* handleDelete and deleteMachine: the machine stays Deleting until it goes.
LEMMA DeleteKeepsInvariant ==
    ASSUME IInv, UNCHANGED ccVars,
           HandleDelete \/ DeleteNode \/ Unprovision \/ RemoveFinalizer
    PROVE  IInv'
  <1>0. /\ mw.m \in Machines /\ {mw.m} \in SUBSET Machines /\ {} \in SUBSET Machines
        /\ mw \in MachineWorker /\ mw.obj.live /\ Coherent(mw.obj)
        /\ mw.obj.phase = "Deleting"
        /\ Holding /\ KubeTypeOK /\ MaasTypeOK
    BY DEF IInv, TypeOK, MachineControllerTypeOK, StepFitsCopy, Holding, Removing,
       HandleDelete, DeleteNode, Unprovision, RemoveFinalizer, At
  <1>1. MaasTypeOK'
    <2>1. CASE DeleteNode
      BY <1>0, <2>1, MaasTypes DEF DeleteNode, MaasTypeOK
    <2>2. CASE HandleDelete \/ Unprovision \/ RemoveFinalizer
      BY <1>0, <2>2, MaasTypes DEF HandleDelete, Unprovision, RemoveFinalizer
    <2> QED
      BY <2>1, <2>2
  <1>2. CASE Retry
    BY <1>0, <1>1, <1>2, ReconcileLeft DEF Retry
  <1>3. ASSUME RemoveFinalizer, ~Retry PROVE IInv'
    <2>1. PutMachine(mw.m, GoneMachine, {}) /\ Done({})
      BY <1>3 DEF RemoveFinalizer, UpdateAndFinish
    <2> QED
      BY <1>0, <1>1, <2>1, ObjectTypes, CoherentObjects, ReconcileWritten
  <1>4. ASSUME HandleDelete \/ DeleteNode \/ Unprovision, ~Retry PROVE IInv'
    <2>1. /\ mw'.pc \in {"finalize", "unprovision", "removeNode"} /\ mw' \in MachineWorker
          /\ mw'.m = mw.m /\ mw'.obj = mw.obj
          /\ UNCHANGED <<queue, kubeVars>>
      BY <1>0, <1>4 DEF HandleDelete, DeleteNode, Unprovision, Goto, MachineWorker,
         MachineStep, KubeTypeOK, SecretObj
    <2>2. KubeTypeOK'
      BY <1>0, <2>1 DEF KubeTypeOK, kubeVars
    <2>3. StepFitsCopy' /\ Holding'
      BY <1>0, <2>1 DEF StepFitsCopy, Holding, Creating, Removing, At
    <2> QED
      BY <1>0, <1>1, <2>1, <2>2, <2>3, ReconcileGoesOn DEF kubeVars
  <1> QED
    BY <1>2, <1>3, <1>4

(***************************************************************************)
(* The steps of the cluster controller keep the invariant.                 *)
(***************************************************************************)

\* They leave the machine controller alone and, but for claims, the machines;
\* of the copies of the machines they move only the cluster controller's.
LEMMA ClusterStepKeepsInvariant ==
    ASSUME IInv, TypeOK', UNCHANGED <<mcVars, machine, mcache>>,
           \A m \in Machines : mcur'[m] \ {"cw"} = mcur[m] \ {"cw"}
    PROVE  IInv'
  <1> USE DEF IInv, mcVars
  <1>1. RecordsCoherent' /\ StepFitsCopy'
    BY DEF RecordsCoherent, StepFitsCopy, Holding, Creating, Removing, At
  <1>2. CopiesCurrent'
    BY DEF CopiesCurrent, Holding
  <1> QED
    BY <1>1, <1>2

\* The cluster controller keeps the types, of the objects it writes and its own.
LEMMA ClusterTypes ==
    ASSUME TypeOK, UNCHANGED mcVars, ClusterControllerNext
    PROVE  TypeOK'
  <1> USE DEF TypeOK, mcVars
  <1>0. MaasTypeOK'
    BY MaasTypes DEF ClusterControllerNext, WorkCluster, ReconcileCluster, ReconcileClusterGone,
       Claim, CreateClusterSecrets, UpdateStatus, CheckServices, NothingToReconcile, DeleteSecret
  <1>1. MachineControllerTypeOK'
    BY DEF MachineControllerTypeOK
  <1>2. ClusterControllerTypeOK'
    <2> USE ObjectTypes DEF ClusterControllerTypeOK
    <2>1. CASE ReconcileCluster
      BY <2>1 DEF ReconcileCluster, ClusterWorker, ClusterStep, KubeTypeOK, ClusterObj, CanClaim
    <2>2. CASE ReconcileClusterGone
      BY <2>2 DEF ReconcileClusterGone, ClusterWorker, ClusterStep, ClusterIdle
    <2>3. ASSUME NEW again \in BOOLEAN, FinishCluster(again) PROVE ClusterControllerTypeOK'
      BY <2>3 DEF FinishCluster
    <2>4. ASSUME NEW m \in Machines, Claim(m) PROVE ClusterControllerTypeOK'
      BY <2>3, <2>4 DEF Claim, RetryCluster, ClusterWorker
    <2>5. CASE CreateClusterSecrets
      BY <2>3, <2>5 DEF CreateClusterSecrets, RetryCluster, ClusterWorker, ClusterStep
    <2>6. CASE UpdateStatus \/ CheckServices \/ NothingToReconcile \/ DeleteSecret
      BY <2>3, <2>6 DEF UpdateStatus, CheckServices, NothingToReconcile, DeleteSecret, RetryCluster
    <2> QED
      BY <2>1, <2>2, <2>4, <2>5, <2>6 DEF ClusterControllerNext, WorkCluster
  <1>3. KubeTypeOK'
    <2>1. CASE ReconcileCluster \/ ReconcileClusterGone
      BY <2>1 DEF ReconcileCluster, ReconcileClusterGone, KubeTypeOK, CopiedBy, kubeVars
    <2>2. CASE RetryCluster
      BY <2>2 DEF RetryCluster, FinishCluster, DroppedBy, KubeTypeOK
    <2>3. ASSUME NEW m \in Machines, Claim(m), ~RetryCluster PROVE KubeTypeOK'
      <3>0. machine[m] \in MachineObj
        BY DEF KubeTypeOK
      <3>1. [machine[m] EXCEPT !.owned = TRUE] \in MachineObj
        BY <3>0 DEF MachineObj
      <3> QED
        BY <2>3, <3>1 DEF Claim, PutMachine, KubeTypeOK
    <2>4. ASSUME CreateClusterSecrets, ~RetryCluster PROVE KubeTypeOK'
      BY <2>4, ObjectTypes DEF CreateClusterSecrets, KubeTypeOK
    <2>5. ASSUME NEW c \in ClusterObj, PutCluster(c), NEW again, FinishCluster(again)
          PROVE KubeTypeOK'
      BY <2>5 DEF PutCluster, FinishCluster, DroppedBy, KubeTypeOK
    <2>6. ASSUME UpdateStatus, ~RetryCluster PROVE KubeTypeOK'
      <3>1. [cluster EXCEPT !.phase = "Reconciling", !.endpoint = cw.endpoint] \in ClusterObj
        BY DEF KubeTypeOK, ClusterObj, ClusterPhase, ClusterControllerTypeOK, ClusterWorker
      <3> QED
        BY <2>5, <2>6, <3>1, ObjectTypes DEF UpdateStatus
    <2>7. ASSUME CheckServices, ~RetryCluster PROVE KubeTypeOK'
      <3>1. [cluster EXCEPT !.phase = "Running"] \in ClusterObj
        BY DEF KubeTypeOK, ClusterObj, ClusterPhase
      <3> QED
        BY <2>5, <2>7, <3>1 DEF CheckServices
    <2>8. ASSUME NothingToReconcile \/ DeleteSecret, ~RetryCluster PROVE KubeTypeOK'
      BY <2>8, ObjectTypes DEF NothingToReconcile, DeleteSecret, FinishCluster, DroppedBy,
         KubeTypeOK
    <2> QED
      BY <2>1, <2>2, <2>3, <2>4, <2>6, <2>7, <2>8 DEF ClusterControllerNext, WorkCluster
  <1> QED
    BY <1>0, <1>1, <1>2, <1>3

\* The cluster controller keeps the invariant: to a machine it only adds an owner.
LEMMA ClusterControllerKeepsInvariant ==
    ASSUME IInv, UNCHANGED mcVars, ClusterControllerNext
    PROVE  IInv'
  <1>0. TypeOK /\ TypeOK'
    BY ClusterTypes DEF IInv
  <1>1. ASSUME NEW m \in Machines, Claim(m), ~RetryCluster PROVE IInv'
    <2> DEFINE o == [machine[m] EXCEPT !.owned = TRUE]
    <2>1. PutMachine(m, o, {}) /\ machine[m].live /\ UNCHANGED mcache
      BY <1>1 DEF Claim, Accepted
    <2>2. Coherent(o) /\ o.live
      BY <1>0, <2>1 DEF IInv, RecordsCoherent, Coherent, TypeOK, KubeTypeOK, MachineObj
    <2>3. RecordsCoherent'
      BY <1>0, <2>1, <2>2 DEF IInv, RecordsCoherent, PutMachine, TypeOK, KubeTypeOK
    <2>4. CopiesCurrent'
      BY <1>0, <2>1 DEF IInv, CopiesCurrent, PutMachine, TypeOK, KubeTypeOK, Holding, mcVars
    <2>5. StepFitsCopy'
      BY DEF IInv, StepFitsCopy, Holding, Creating, Removing, At, mcVars
    <2> QED
      BY <1>0, <2>3, <2>4, <2>5 DEF IInv
  <1>2. CASE RetryCluster \/ ~\E m \in Machines : Claim(m)
    <2>1. UNCHANGED <<machine, mcache>>
      BY <1>2 DEF ClusterControllerNext, WorkCluster, ReconcileCluster, ReconcileClusterGone,
         CreateClusterSecrets, UpdateStatus, CheckServices, NothingToReconcile, DeleteSecret,
         RetryCluster, FinishCluster, kubeVars
    <2>2. \A m \in Machines : mcur'[m] \ {"cw"} = mcur[m] \ {"cw"}
      <3>1. CASE ReconcileCluster
        BY <1>0, <3>1 DEF ReconcileCluster, CopiedBy
      <3>2. CASE mcur' = DroppedBy("cw") \/ UNCHANGED mcur
        BY <3>2 DEF DroppedBy
      <3> QED
        BY <1>2, <3>1, <3>2 DEF ClusterControllerNext, WorkCluster, ReconcileClusterGone,
           CreateClusterSecrets, UpdateStatus, CheckServices, NothingToReconcile, DeleteSecret,
           RetryCluster, FinishCluster, kubeVars
    <2> QED
      BY <1>0, <2>1, <2>2, ClusterStepKeepsInvariant
  <1> QED
    BY <1>1, <1>2

(***************************************************************************)
(* Informers, users, the garbage collector, the deployed systems and the   *)
(* restart of the manager keep the invariant.                              *)
(***************************************************************************)

\* A refresh makes the cache's copies equal to the objects; a resync only
\* fills the work queues.
LEMMA InformersKeepInvariant ==
    ASSUME IInv, Refresh \/ Resync
    PROVE  IInv'
  <1> USE DEF IInv, maasVars, mcVars, ccVars, kubeVars
  <1>1. TypeOK'
    <2>1. MaasTypeOK'
      BY MaasTypes DEF TypeOK, Refresh, Resync, RefreshMachines, RefreshCluster, RefreshSecret
    <2>2. KubeTypeOK'
      BY DEF TypeOK, KubeTypeOK, Refresh, Resync, RefreshMachines, RefreshCluster, RefreshSecret
    <2>3. MachineControllerTypeOK' /\ ClusterControllerTypeOK'
      BY DEF TypeOK, KubeTypeOK, ClusterObj, MachineControllerTypeOK, ClusterControllerTypeOK,
         Refresh, Resync, RefreshMachines, RefreshCluster, RefreshSecret
    <2> QED
      BY <2>1, <2>2, <2>3 DEF TypeOK
  <1>2. UNCHANGED <<machine, mw>>
    BY DEF Refresh, Resync, RefreshMachines, RefreshCluster, RefreshSecret
  <1>3. RecordsCoherent' /\ StepFitsCopy'
    BY <1>2 DEF RecordsCoherent, StepFitsCopy, Holding, Creating, Removing, At
  <1>4. CopiesCurrent'
    <2>1. CASE RefreshMachines
      BY <2>1 DEF RefreshMachines, CopiesCurrent, RecordsCoherent, TypeOK, KubeTypeOK, Holding
    <2>2. CASE RefreshCluster \/ RefreshSecret \/ Resync
      BY <2>2 DEF RefreshCluster, RefreshSecret, Resync, CopiesCurrent, Holding
    <2> QED
      BY <2>1, <2>2 DEF Refresh
  <1> QED
    BY <1>1, <1>3, <1>4

\* Writes of the cluster, by users and by the garbage collector, and the
\* deletion of the namespace leave machines and copies of machines alone.
LEMMA ClusterWrittenKeepsInvariant ==
    ASSUME IInv, DeleteNamespace \/ \E c \in ClusterObj : OnCluster(c)
    PROVE  IInv'
  <1>1. TypeOK'
    BY ObjectTypes, MaasTypes
       DEF IInv, TypeOK, DeleteNamespace, OnCluster, KubeTypeOK, MachineControllerTypeOK,
           ClusterControllerTypeOK, mcVars, ccVars
  <1>2. UNCHANGED <<mcVars, machine, mcache, mcur>>
    BY DEF DeleteNamespace, OnCluster
  <1> QED
    BY <1>1, <1>2, ClusterStepKeepsInvariant

\* What users and the garbage collector do to machines and cluster.
LEMMA UsersKeepInvariant ==
    ASSUME IInv, User \/ Collect
    PROVE  IInv'
  <1>0. /\ machine \in [Machines -> MachineObj] /\ cluster \in ClusterObj
        /\ \A m \in Machines : Coherent(machine[m])
    BY DEF IInv, TypeOK, KubeTypeOK, RecordsCoherent
  <1>1. ASSUME NEW m \in Machines, CreateMachine(m) PROVE IInv'
    BY <1>1, ObjectTypes, CoherentObjects, MachineWritten DEF CreateMachine
  <1>2. ASSUME NEW m \in Machines, DeleteMachine(m) \/ CollectMachine(m) PROVE IInv'
    BY <1>0, <1>2, DeletedMachine, MachineWritten DEF DeleteMachine, CollectMachine
  <1>3. ASSUME NEW m \in Machines, EditMachine(m) PROVE IInv'
    BY <1>0, <1>3, MachineWritten DEF EditMachine
  <1>4. ASSUME EditCluster \/ DeleteCluster \/ CollectCluster \/ DeleteNamespace PROVE IInv'
    BY <1>0, <1>4, ObjectTypes, ClusterWrittenKeepsInvariant
       DEF EditCluster, DeleteCluster, CollectCluster
  <1>5. ASSUME DeleteClusterForeground PROVE IInv'
    <2>1. [cluster EXCEPT !.del = TRUE] \in ClusterObj
      BY <1>0 DEF ClusterObj
    <2> QED
      BY <1>5, <2>1, ClusterWrittenKeepsInvariant DEF DeleteClusterForeground
  <1> QED
    BY <1>1, <1>2, <1>3, <1>4, <1>5 DEF User, Collect

\* A deployed system boots: no object changes.
LEMMA BootKeepsInvariant ==
    ASSUME IInv, NEW s \in Systems, BootSystem(s)
    PROVE  IInv'
  <1>1. MaasTypeOK'
    BY MaasTypes DEF IInv, TypeOK, BootSystem
  <1>2. TypeOK'
    BY <1>1 DEF IInv, TypeOK, BootSystem, kubeVars, mcVars, ccVars, KubeTypeOK,
       MachineControllerTypeOK, ClusterControllerTypeOK
  <1> QED
    BY <1>2, ClusterStepKeepsInvariant DEF BootSystem, kubeVars

\* A new manager starts idle, from caches equal to the objects.
LEMMA RestartKeepsInvariant ==
    ASSUME IInv, Restart
    PROVE  IInv'
  <1> USE DEF IInv, Restart
  <1>1. TypeOK'
    <2>1. MaasTypeOK'
      BY MaasTypes DEF TypeOK, NoSystemChange
    <2>2. KubeTypeOK'
      BY DEF TypeOK, KubeTypeOK
    <2>3. MachineControllerTypeOK' /\ ClusterControllerTypeOK'
      BY ObjectTypes DEF TypeOK, KubeTypeOK, ClusterObj, MachineControllerTypeOK,
         ClusterControllerTypeOK
    <2> QED
      BY <2>1, <2>2, <2>3 DEF TypeOK
  <1>2. RecordsCoherent' /\ CopiesCurrent'
    BY DEF RecordsCoherent, CopiesCurrent, Holding, MachineIdle
  <1>3. StepFitsCopy'
    BY DEF StepFitsCopy, Holding, Creating, Removing, At, MachineIdle
  <1> QED
    BY <1>1, <1>2, <1>3

\* So does a step that changes nothing.
LEMMA StutteringKeepsInvariant ==
    ASSUME IInv, UNCHANGED vars
    PROVE  IInv'
  <1>1. TypeOK'
    BY MaasTypes DEF IInv, TypeOK, vars, kubeVars, mcVars, ccVars, KubeTypeOK,
       MachineControllerTypeOK, ClusterControllerTypeOK
  <1> QED
    BY <1>1, ClusterStepKeepsInvariant DEF vars, kubeVars

\* The machine controller keeps the invariant.
LEMMA MachineControllerKeepsInvariant ==
    ASSUME IInv, UNCHANGED ccVars, MachineControllerNext
    PROVE  IInv'
  BY GetKeepsInvariant, MarkKeepsInvariant, PrepareKeepsInvariant, StartKeepsInvariant,
     PublishKeepsInvariant, RecordKeepsInvariant, WaitKeepsInvariant, DeleteKeepsInvariant
     DEF MachineControllerNext, WorkMachine

\* Every step of the system keeps the invariant.
LEMMA StepKeepsInvariant ==
    ASSUME IInv, [Next]_vars
    PROVE  IInv'
  <1>1. CASE StepMachine
    BY <1>1, MachineControllerKeepsInvariant DEF StepMachine
  <1>2. CASE StepCluster
    BY <1>2, ClusterControllerKeepsInvariant DEF StepCluster
  <1>3. CASE Refresh \/ Resync
    BY <1>3, InformersKeepInvariant
  <1>4. CASE User \/ Collect
    BY <1>4, UsersKeepInvariant
  <1>5. CASE \E s \in Systems : BootSystem(s)
    BY <1>5, BootKeepsInvariant
  <1>6. CASE Restart
    BY <1>6, RestartKeepsInvariant
  <1>7. CASE UNCHANGED vars
    BY <1>7, StutteringKeepsInvariant
  <1> QED
    BY <1>1, <1>2, <1>3, <1>4, <1>5, <1>6, <1>7 DEF Next

(***************************************************************************)
(* Theorems.                                                               *)
(***************************************************************************)

\* The invariant holds in every reachable state, with any machines, systems,
\* users and faults.
THEOREM InvariantHolds == Spec => []IInv
  <1>1. Init => IInv
    BY InitialInvariant
  <1>2. IInv /\ [Next]_vars => IInv'
    BY StepKeepsInvariant
  <1> QED
    BY <1>1, <1>2, PTL DEF Spec

\* Type correctness of API server, MAAS and both controllers.
THEOREM TypeCorrect == Spec => []TypeOK
  <1>1. IInv => TypeOK
    BY DEF IInv
  <1> QED
    BY <1>1, InvariantHolds, PTL

\* The records of updateMachine, deleteMachine and the garbage collector never
\* come apart: finalizer, phase, system and deletion of a machine agree.
THEOREM RecordsStayCoherent == Spec => []RecordsCoherent
  <1>1. IInv => RecordsCoherent
    BY DEF IInv
  <1> QED
    BY <1>1, InvariantHolds, PTL

\* No machine that names a MAAS system can go without handleDelete having
\* seen it: it lives, with its finalizer.
THEOREM RecordsFinalized == Spec => []FinalizedWhileRecorded
  <1>1. RecordsCoherent /\ TypeOK => FinalizedWhileRecorded
    BY DEF RecordsCoherent, FinalizedWhileRecorded, Coherent, GoneMachine, NewMachine
  <1> QED
    BY <1>1, TypeCorrect, RecordsStayCoherent, PTL

(***************************************************************************)
(* What any step of the system may do to a CnctMachine, and from it two    *)
(* results for every instance of Operator: the owner reference of a        *)
(* machine is never lost, and the operator implements MachineLifecycle.    *)
(***************************************************************************)

\* Who deletes machines: users, the garbage collector once the cluster is gone
\* or going, and the machine controller for want of a secret.
MayDelete ==
    \/ "deleteMachine" \in Env
    \/ ~cluster.live \/ cluster.del
    \/ At("wait") /\ ~scache.live

\* Record p of a machine may become o in one step.
MayBecome(p, o) ==
    \/ o = p
    \/ ~p.live /\ "createMachine" \in Env /\ o = NewMachine
    \/ p.live /\ ~p.del /\ MayDelete /\ o = Deleted(p)
    \/ p.live /\ o = [p EXCEPT !.owned = TRUE]
    \/ p.live /\ ~p.del /\ p.phase = "" /\ At("record") /\ mw.s \in Systems
       /\ mw' = MachineIdle
       /\ o = [p EXCEPT !.fin = TRUE, !.phase = "Provisioning", !.sys = mw.s]
    \/ p.live /\ ~p.del /\ p.phase = "" /\ o = [p EXCEPT !.phase = "Error"]
    \/ p.live /\ ~p.del /\ p.phase = "Provisioning" /\ o = [p EXCEPT !.phase = "Ready"]
    \/ p.live /\ p.del /\ p.phase # "Deleting" /\ o = [p EXCEPT !.phase = "Deleting"]
    \/ p.live /\ p.phase = "Deleting" /\ o = GoneMachine

\* At most one machine changes in a step, and only as MayBecome says.
MachineMoves ==
    \/ UNCHANGED machine
    \/ \E m \in Machines : \E o \in MachineObj :
           machine' = [machine EXCEPT ![m] = o] /\ MayBecome(machine[m], o)

\* The worker's accepted Updates write what a current copy allows.
LEMMA AcceptedCopy ==
    ASSUME IInv, mw.m \in Machines, Accepted("mw", mw.m)
    PROVE  mw.obj = machine[mw.m] /\ machine[mw.m].live /\ Coherent(machine[mw.m])
  BY DEF IInv, CopiesCurrent, Accepted, RecordsCoherent

\* A write of the machine controller to the machine it reconciles.
LEMMA WorkerMoves ==
    ASSUME IInv, IInv', StepMachine
    PROVE  MachineMoves
  <1>0. /\ machine \in [Machines -> MachineObj] /\ machine' \in [Machines -> MachineObj]
        /\ StepFitsCopy
    BY DEF IInv, TypeOK, KubeTypeOK
  <1>1. ASSUME mw.m \in Machines, NEW o, MayBecome(machine[mw.m], o),
               PutMachine(mw.m, o, {}) \/ PutMachine(mw.m, o, {"mw"})
        PROVE MachineMoves
    <2>1. machine' = [machine EXCEPT ![mw.m] = o]
      BY <1>1 DEF PutMachine
    <2>2. o \in MachineObj
      BY <1>0, <1>1, <2>1
    <2> QED
      BY <1>1, <2>1, <2>2 DEF MachineMoves
  <1>2. CASE MarkDeleting
    <2>1. mw.m \in Machines /\ mw.obj.phase # "Deleting" /\ mw.obj.del
      BY <1>0, <1>2 DEF MarkDeleting, StepFitsCopy, At
    <2>2. CASE Accepted("mw", mw.m)
      <3> DEFINE o == [machine[mw.m] EXCEPT !.phase = "Deleting"]
      <3>0. mw.obj = machine[mw.m] /\ machine[mw.m].live
        BY <2>1, <2>2, AcceptedCopy
      <3>1. PutMachine(mw.m, o, {"mw"})
        BY <1>2, <2>2, <3>0 DEF MarkDeleting
      <3>2. MayBecome(machine[mw.m], o)
        BY <2>1, <3>0 DEF MayBecome
      <3> QED
        BY <1>1, <2>1, <3>1, <3>2
    <2>3. CASE ~Accepted("mw", mw.m)
      BY <1>2, <2>3 DEF MarkDeleting, Retry, Leave, MachineMoves
    <2> QED
      BY <2>2, <2>3
  <1>3. CASE UpdateMachine
    <2>1. mw.m \in Machines /\ mw.s \in Systems /\ mw.obj.phase = "" /\ ~mw.obj.del
      BY <1>0, <1>3 DEF UpdateMachine, StepFitsCopy, At, Creating
    <2> QED
      BY <1>0, <1>1, <1>3, <2>1, AcceptedCopy
         DEF UpdateMachine, Done, MayBecome, MachineMoves, kubeVars
  <1>4. CASE Fail
    <2>1. mw.m \in Machines /\ mw.obj.phase = "" /\ ~mw.obj.del
      BY <1>0, <1>4 DEF Fail, StepFitsCopy, At, Creating
    <2> QED
      BY <1>0, <1>1, <1>4, <2>1, AcceptedCopy
         DEF Fail, UpdateAndFinish, Retry, Leave, MayBecome, MachineMoves
  <1>5. CASE WaitForReady
    <2>1. mw.m \in Machines /\ mw.obj.phase = "Provisioning" /\ ~mw.obj.del
      BY <1>0, <1>5 DEF WaitForReady, StepFitsCopy, At
    <2> QED
      BY <1>0, <1>1, <1>5, <2>1, AcceptedCopy
         DEF WaitForReady, UpdateAndFinish, Retry, Leave, MayBecome, MayDelete, MachineMoves
  <1>6. CASE RemoveFinalizer
    <2>1. mw.m \in Machines /\ mw.obj.phase = "Deleting"
      BY <1>0, <1>6 DEF RemoveFinalizer, StepFitsCopy, At, Removing
    <2> QED
      BY <1>0, <1>1, <1>6, <2>1, AcceptedCopy
         DEF RemoveFinalizer, UpdateAndFinish, Retry, Leave, MayBecome, MachineMoves
  <1>7. ASSUME ~(MarkDeleting \/ UpdateMachine \/ Fail \/ WaitForReady \/ RemoveFinalizer)
        PROVE MachineMoves
    BY <1>7 DEF StepMachine, MachineControllerNext, WorkMachine, Dequeue, GetMachine,
       PrepareCreate, Allocate, Start, ReleaseWithoutAddress, CreateKubeconfig, UpdateCluster,
       Release, HandleDelete, DeleteNode, Unprovision, Retry, Leave, kubeVars, MachineMoves
  <1> QED
    BY <1>2, <1>3, <1>4, <1>5, <1>6, <1>7

\* A step of anything, in a state of the invariant.
LEMMA StepMoves ==
    ASSUME IInv, [Next]_vars
    PROVE  MachineMoves
  <1>0. /\ IInv'
        /\ machine \in [Machines -> MachineObj] /\ machine' \in [Machines -> MachineObj]
    BY StepKeepsInvariant DEF IInv, TypeOK, KubeTypeOK
  <1>1. ASSUME NEW m \in Machines, NEW o, MayBecome(machine[m], o), NEW hs, PutMachine(m, o, hs)
        PROVE MachineMoves
    <2>1. machine' = [machine EXCEPT ![m] = o]
      BY <1>1 DEF PutMachine
    <2>2. o \in MachineObj
      BY <1>0, <2>1
    <2> QED
      BY <1>1, <2>1, <2>2 DEF MachineMoves
  <1>2. CASE StepMachine
    BY <1>0, <1>2, WorkerMoves
  <1>3. ASSUME StepCluster PROVE MachineMoves
    <2>1. ASSUME NEW m \in Machines, Claim(m) PROVE MachineMoves
      BY <1>1, <2>1 DEF Claim, Accepted, RetryCluster, FinishCluster, MayBecome, MachineMoves
    <2>2. CASE ~\E m \in Machines : Claim(m)
      BY <1>3, <2>2 DEF StepCluster, ClusterControllerNext, WorkCluster, ReconcileCluster,
         ReconcileClusterGone, CreateClusterSecrets, UpdateStatus, CheckServices,
         NothingToReconcile, DeleteSecret, RetryCluster, FinishCluster, kubeVars, MachineMoves
    <2> QED
      BY <2>1, <2>2
  <1>4. ASSUME NEW m \in Machines,
               CreateMachine(m) \/ DeleteMachine(m) \/ EditMachine(m) \/ CollectMachine(m)
        PROVE MachineMoves
    BY <1>1, <1>4 DEF CreateMachine, DeleteMachine, EditMachine, CollectMachine, OnMachine,
       MayBecome, MayDelete
  <1>5. CASE \/ Refresh \/ Resync \/ EditCluster \/ DeleteCluster \/ DeleteClusterForeground
             \/ DeleteNamespace \/ CollectCluster \/ (\E s \in Systems : BootSystem(s)) \/ Restart
             \/ UNCHANGED vars
    BY <1>5 DEF Refresh, RefreshMachines, RefreshCluster, RefreshSecret, Resync, EditCluster,
       DeleteCluster, DeleteClusterForeground, DeleteNamespace, CollectCluster, OnCluster,
       BootSystem, Restart, vars, kubeVars, MachineMoves
  <1> QED
    BY <1>2, <1>3, <1>4, <1>5 DEF Next, User, Collect

(***************************************************************************)
(* Owner references.                                                       *)
(***************************************************************************)

\* The owner reference set by claimMachines survives: no write of the machine
\* controller, worked out on an older copy, takes it away.
THEOREM OwnersKept == Spec => OwnerKept
  <1> DEFINE Owned == \A m \in Machines :
                          machine[m].owned /\ machine'[m].live => machine'[m].owned
  <1>1. IInv /\ [Next]_vars => Owned
    <2> SUFFICES ASSUME IInv, [Next]_vars,
                        NEW m \in Machines, machine[m].owned, machine'[m].live
                 PROVE  machine'[m].owned
      OBVIOUS
    <2>0. /\ machine \in [Machines -> MachineObj] /\ Coherent(machine[m])
          /\ MachineMoves
      BY StepMoves DEF IInv, TypeOK, KubeTypeOK, RecordsCoherent
    <2>1. ASSUME NEW o \in MachineObj, MayBecome(machine[m], o), o.live PROVE o.owned
      BY <2>0, <2>1 DEF MayBecome, Deleted, GoneMachine, NewMachine, MachineObj, Coherent
    <2> QED
      BY <2>0, <2>1 DEF MachineMoves
  <1> HIDE DEF Owned
  <1>2. Spec => [][Owned]_vars
    BY <1>1, InvariantHolds, PTL DEF Spec
  <1> USE DEF Owned
  <1> QED
    BY <1>2 DEF OwnerKept

(***************************************************************************)
(* Refinement of MachineLifecycle.                                         *)
(***************************************************************************)

\* Stage and system of the machine records, as MachineLifecycle sees them.
Stages == [m \in Machines |-> StageOf(machine[m])]
SystemsOf == [m \in Machines |-> machine[m].sys]

\* A coherent record moves to the next stage of its life, or stays where it is.
LEMMA StageMoves ==
    ASSUME NEW p \in MachineObj, NEW o \in MachineObj, Coherent(p), MayBecome(p, o)
    PROVE  \/ StageOf(o) = StageOf(p) /\ o.sys = p.sys
           \/ StageOf(p) = "absent" /\ StageOf(o) = "pending" /\ o.sys = p.sys
           \/ StageOf(p) = "pending" /\ StageOf(o) = "failed" /\ o.sys = p.sys
           \/ StageOf(p) = "pending" /\ StageOf(o) = "provisioned" /\ o.sys \in Systems
           \/ StageOf(p) = "provisioned" /\ StageOf(o) = "ready" /\ o.sys = p.sys
           \/ StageOf(p) \in {"pending", "failed"} /\ StageOf(o) = "absent" /\ o.sys = p.sys
           \/ StageOf(p) \in {"provisioned", "ready"} /\ StageOf(o) = "condemned"
              /\ o.sys = p.sys
           \/ StageOf(p) = "condemned" /\ StageOf(o) = "deleting" /\ o.sys = p.sys
           \/ StageOf(p) = "deleting" /\ StageOf(o) = "absent" /\ o.sys = None
  <1> USE DEF Coherent, MachineObj, MachinePhase, StageOf, GoneMachine, NewMachine
  <1>1. CASE o = p \/ (p.live /\ o = [p EXCEPT !.owned = TRUE])
    BY <1>1
  <1>2. CASE ~p.live /\ o = NewMachine
    BY <1>2
  <1>3. CASE p.live /\ ~p.del /\ o = Deleted(p)
    BY <1>3 DEF Deleted
  <1>4. CASE /\ p.live /\ ~p.del /\ p.phase = "" /\ mw.s \in Systems
             /\ o = [p EXCEPT !.fin = TRUE, !.phase = "Provisioning", !.sys = mw.s]
    BY <1>4
  <1>5. CASE p.live /\ ~p.del /\ p.phase = "" /\ o = [p EXCEPT !.phase = "Error"]
    BY <1>5
  <1>6. CASE p.live /\ ~p.del /\ p.phase = "Provisioning" /\ o = [p EXCEPT !.phase = "Ready"]
    BY <1>6
  <1>7. CASE p.live /\ p.del /\ p.phase # "Deleting" /\ o = [p EXCEPT !.phase = "Deleting"]
    BY <1>7
  <1>8. CASE p.live /\ p.phase = "Deleting" /\ o = GoneMachine
    BY <1>8
  <1> QED
    BY <1>1, <1>2, <1>3, <1>4, <1>5, <1>6, <1>7, <1>8 DEF MayBecome

\* The initial states are those of MachineLifecycle.
LEMMA InitialStages == Init => Life!Init
  <1> SUFFICES ASSUME Init PROVE Life!Init
    OBVIOUS
  <1>1. \A m \in Machines : machine[m] \in {NewMachine, GoneMachine}
    BY DEF Init, KubeInit
  <1>2. /\ StageOf(NewMachine) = "pending" /\ StageOf(GoneMachine) = "absent"
        /\ NewMachine.sys = None /\ GoneMachine.sys = None
    BY DEF StageOf, NewMachine, GoneMachine
  <1>3. \A m \in Machines : StageOf(machine[m]) \in {"absent", "pending"} /\ machine[m].sys = None
    BY <1>1, <1>2
  <1> QED
    BY <1>3 DEF Life!Init

\* Every step is a step of MachineLifecycle or leaves its variables alone.
LEMMA StepsThroughStages ==
    ASSUME IInv, [Next]_vars
    PROVE  Life!Next \/ UNCHANGED Life!lifeVars
  <1>0. /\ machine \in [Machines -> MachineObj]
        /\ \A m \in Machines : Coherent(machine[m])
        /\ MachineMoves
    BY StepMoves DEF IInv, TypeOK, KubeTypeOK, RecordsCoherent
  <1>1. CASE UNCHANGED machine
    BY <1>1 DEF Life!lifeVars
  <1>2. ASSUME NEW m \in Machines, NEW o \in MachineObj,
               machine' = [machine EXCEPT ![m] = o], MayBecome(machine[m], o)
        PROVE Life!Next \/ UNCHANGED Life!lifeVars
    <2>1. /\ Stages' = [Stages EXCEPT ![m] = StageOf(o)]
          /\ SystemsOf' = [SystemsOf EXCEPT ![m] = o.sys]
          /\ Stages[m] = StageOf(machine[m]) /\ SystemsOf[m] = machine[m].sys
      BY <1>0, <1>2 DEF Stages, SystemsOf
    <2>2. CASE StageOf(o) = Stages[m] /\ o.sys = SystemsOf[m]
      <3>1. Stages' = Stages /\ SystemsOf' = SystemsOf
        BY <2>1, <2>2 DEF Stages, SystemsOf
      <3> QED
        BY <3>1 DEF Stages, SystemsOf, Life!lifeVars
    <2>3. CASE ~(StageOf(o) = Stages[m] /\ o.sys = SystemsOf[m])
      <3>1. o.sys = SystemsOf[m] => SystemsOf' = SystemsOf
        BY <2>1 DEF SystemsOf
      <3>2. Life!Step(m)
        BY <1>0, <1>2, <2>1, <2>3, <3>1, StageMoves
           DEF Stages, SystemsOf, Life!Step, Life!Keep, Life!Enter, Life!Post, Life!Fail,
               Life!Provision, Life!BecomeReady, Life!Discard, Life!Condemn, Life!Delete,
               Life!Finish
      <3> QED
        BY <3>2 DEF Life!Next
    <2> QED
      BY <2>2, <2>3
  <1> QED
    BY <1>0, <1>1, <1>2 DEF MachineMoves

\* The operator implements MachineLifecycle: whatever copies its writers work
\* from, every machine goes through the stages of its life in their order,
\* with one system from its provisioning to its end.
THEOREM ImplementsLifecycle == Spec => Lifecycle
  <1>1. Init => Life!Init
    BY InitialStages
  <1>2. IInv /\ [Next]_vars => [Life!Next]_Life!lifeVars
    BY StepsThroughStages
  <1> QED
    BY <1>1, <1>2, InvariantHolds, PTL DEF Spec, Lifecycle, Life!Spec

(***************************************************************************)
(* The endpoint of the cluster and the kubeconfig in its secret.           *)
(***************************************************************************)

\* No endpoint is known at first.
LEMMA InitialEndpoint == Init => EndpointInv
  <1> SUFFICES ASSUME Init PROVE EndpointInv
    OBVIOUS
  <1>1. cluster = NewCluster /\ ccache = NewCluster /\ mw = MachineIdle /\ cw = ClusterIdle
    BY DEF Init, KubeInit, MachineControllerInit, ClusterControllerInit
  <1> QED
    BY <1>1 DEF NewCluster, MachineIdle, ClusterIdle, At, EndpointInv, StatusKnown, StatusWritten

\* A step of the machine controller: an endpoint is published by the reconcile
\* that has just stored the kubeconfig.
LEMMA MachineStepEndpoint ==
    ASSUME IInv, EndpointInv, StepMachine
    PROVE  EndpointInv'
  <1>0. /\ cluster \in ClusterObj /\ secret \in SecretObj /\ mw \in MachineWorker
        /\ StepFitsCopy
    BY DEF IInv, TypeOK, KubeTypeOK, MachineControllerTypeOK
  <1> USE DEF EndpointInv, StatusKnown, StatusWritten, StepMachine, ccVars, At
  <1>1. CASE CreateKubeconfig
    <2>1. mw.s # None /\ mw.s \in Systems
      BY <1>0, <1>1, NoneAssumption DEF CreateKubeconfig, StepFitsCopy
    <2>2. CASE Retry
      BY <1>1, <2>2 DEF CreateKubeconfig, Retry, Leave, Done, MachineIdle
    <2>3. ASSUME ~Retry PROVE EndpointInv'
      <3>1. /\ secret.live /\ secret' = [secret EXCEPT !.kube = mw.s]
            /\ mw' = [mw EXCEPT !.pc = "endpoint"]
            /\ UNCHANGED <<cluster, ccache, cw>>
        BY <1>1, <2>3 DEF CreateKubeconfig, Goto
      <3>2. secret'.live /\ secret'.kube = mw.s /\ mw'.s = mw.s
        BY <1>0, <3>1 DEF SecretObj, MachineWorker
      <3> QED
        BY <3>1, <3>2
    <2> QED
      BY <2>2, <2>3
  <1>2. CASE UpdateCluster
    BY <1>0, <1>2 DEF UpdateCluster, ClusterObj, MachineWorker, Goto, kubeVars
  <1>3. ASSUME ~CreateKubeconfig, ~UpdateCluster PROVE EndpointInv'
    <2>1. UNCHANGED <<cluster, secret, ccache>>
      BY <1>3 DEF MachineControllerNext, WorkMachine, Dequeue, GetMachine, MarkDeleting,
         PrepareCreate, Allocate, Start, ReleaseWithoutAddress, UpdateMachine, Release, Fail,
         WaitForReady, HandleDelete, DeleteNode, Unprovision, RemoveFinalizer, UpdateAndFinish,
         Retry, Leave, Done, kubeVars
    <2>2. mw'.pc # "endpoint"
      <3>0. ASSUME NEW again, Done(again) PROVE mw'.pc # "endpoint"
        BY <3>0 DEF Done, MachineIdle
      <3>1. CASE Leave({}) \/ Retry
        BY <3>0, <3>1 DEF Retry, Leave
      <3>2. ASSUME NEW step, Goto(step), step # "endpoint" PROVE mw'.pc # "endpoint"
        BY <1>0, <3>2 DEF Goto, MachineWorker
      <3>3. ASSUME GetMachine, ~Leave({}) PROVE mw'.pc # "endpoint"
        <4>1. FirstStep(mcache[mw.m]) # "endpoint"
          BY DEF FirstStep
        <4>2. mw' = [mw EXCEPT !.pc = FirstStep(mcache[mw.m]), !.obj = mcache[mw.m]]
          BY <3>3 DEF GetMachine
        <4> HIDE DEF FirstStep
        <4> QED
          BY <1>0, <4>1, <4>2 DEF MachineWorker
      <3>4. CASE \E m \in Machines : Dequeue(m)
        BY <3>4 DEF Dequeue, MachineIdle
      <3>5. ASSUME MarkDeleting \/ PrepareCreate \/ Allocate, ~Retry PROVE mw'.pc # "endpoint"
        BY <1>0, <3>2, <3>5 DEF MarkDeleting, PrepareCreate, Allocate, MachineWorker
      <3>6. CASE Start \/ ReleaseWithoutAddress
        BY <3>2, <3>6 DEF Start, ReleaseWithoutAddress
      <3>7. ASSUME UpdateMachine \/ Release \/ Fail \/ WaitForReady \/ RemoveFinalizer,
                   ~Retry, ~Leave({})
            PROVE mw'.pc # "endpoint"
        BY <3>0, <3>2, <3>7 DEF UpdateMachine, Release, Fail, WaitForReady, RemoveFinalizer,
           UpdateAndFinish
      <3>8. ASSUME HandleDelete \/ DeleteNode \/ Unprovision, ~Retry PROVE mw'.pc # "endpoint"
        <4>1. \/ Goto("unprovision") \/ Goto("finalize")
              \/ mw' = [mw EXCEPT !.pc = "removeNode", !.api = scache.kube]
          BY <3>8 DEF HandleDelete, DeleteNode, Unprovision
        <4> HIDE DEF EndpointInv, StatusKnown, StatusWritten, StepMachine
        <4> QED
          BY <1>0, <3>2, <4>1 DEF MachineWorker
      <3> QED
        BY <1>3, <3>1, <3>3, <3>4, <3>5, <3>6, <3>7, <3>8 DEF MachineControllerNext, WorkMachine
    <2> QED
      BY <2>1, <2>2
  <1> QED
    BY <1>1, <1>2, <1>3

\* A step of the cluster controller: it creates the secret only where there is
\* none, and deletes it only when the cluster is gone.
LEMMA ClusterStepEndpoint ==
    ASSUME IInv, EndpointInv, StepCluster
    PROVE  EndpointInv'
  <1>0. /\ cluster \in ClusterObj /\ secret \in SecretObj /\ cw \in ClusterWorker
        /\ ccache \in ClusterObj
    BY DEF IInv, TypeOK, KubeTypeOK, ClusterControllerTypeOK
  <1> USE DEF EndpointInv, StatusKnown, StatusWritten, StepCluster, mcVars, At
  <1>1. CASE RetryCluster
    BY <1>1 DEF RetryCluster, FinishCluster, ClusterIdle
  <1>2. CASE ReconcileCluster \/ ReconcileClusterGone
    <2>1. UNCHANGED <<cluster, secret, ccache, mw>>
      BY <1>2 DEF ReconcileCluster, ReconcileClusterGone, kubeVars
    <2>2. \/ cw'.pc = "claim" /\ cw'.endpoint = ccache.endpoint /\ cw'.phase = ccache.phase
          \/ cw'.pc # "status" /\ cw'.endpoint = None /\ cw'.phase = "" /\ ~ccache.live
      <3>1. CASE ReconcileCluster
        BY <3>1 DEF ReconcileCluster
      <3>2. CASE ReconcileClusterGone
        <4> DEFINE step == IF scache.live THEN "deleteSecret" ELSE "idle"
        <4>1. cw' = [ClusterIdle EXCEPT !.pc = step] /\ ~ccache.live
          BY <3>2 DEF ReconcileClusterGone
        <4>2. step # "status"
          OBVIOUS
        <4> HIDE DEF step, EndpointInv, StatusKnown, StatusWritten, StepCluster
        <4> QED
          BY <4>1, <4>2 DEF ClusterIdle
      <3> QED
        BY <1>2, <3>1, <3>2
    <2> QED
      BY <2>1, <2>2
  <1>3. ASSUME NEW m \in Machines, Claim(m), ~RetryCluster PROVE EndpointInv'
    BY <1>0, <1>3 DEF Claim, ClusterWorker
  <1>4. ASSUME CreateClusterSecrets, ~RetryCluster PROVE EndpointInv'
    <2>1. /\ ~secret.live /\ secret' = NewSecret
          /\ cw' = [cw EXCEPT !.pc = "status"]
          /\ UNCHANGED <<cluster, ccache, mw>>
      BY <1>4 DEF CreateClusterSecrets
    <2>2. /\ secret'.live
          /\ cw'.pc = "status" /\ cw'.phase = cw.phase /\ cw'.endpoint = cw.endpoint
      BY <1>0, <2>1 DEF ClusterWorker, NewSecret
    <2> QED
      BY <2>1, <2>2
  <1>5. ASSUME UpdateStatus \/ CheckServices, ~RetryCluster PROVE EndpointInv'
    <2>1. \/ cluster' = [cluster EXCEPT !.phase = "Reconciling", !.endpoint = cw.endpoint]
          \/ cluster' = [cluster EXCEPT !.phase = "Running"]
          \/ cluster' = GoneCluster
      BY <1>5 DEF UpdateStatus, CheckServices, PutCluster
    <2>2. cw' = ClusterIdle /\ UNCHANGED <<ccache, secret>>
      BY <1>5 DEF UpdateStatus, CheckServices, PutCluster, FinishCluster
    <2>3. cluster.live /\ secret.live
      BY <1>5 DEF UpdateStatus, CheckServices, Claimed
    <2>4. /\ cluster'.live => cluster'.phase \in {"Reconciling", "Running"}
          /\ ~cluster'.live => cluster'.endpoint = None
      BY <1>0, <2>1, <2>3 DEF ClusterObj, GoneCluster, NewCluster
    <2> QED
      BY <2>2, <2>3, <2>4 DEF ClusterIdle
  <1>6. ASSUME NothingToReconcile \/ DeleteSecret, ~RetryCluster PROVE EndpointInv'
    <2>1. cw' = ClusterIdle /\ UNCHANGED <<cluster, ccache, mw>>
      BY <1>6 DEF NothingToReconcile, DeleteSecret, FinishCluster
    <2>2. UNCHANGED secret \/ ~cluster.live
      BY <1>6 DEF NothingToReconcile, DeleteSecret
    <2> QED
      BY <2>1, <2>2 DEF ClusterIdle
  <1> QED
    BY <1>1, <1>2, <1>3, <1>4, <1>5, <1>6 DEF ClusterControllerNext, WorkCluster

\* Nobody else changes an endpoint, or deletes the secret before the cluster.
LEMMA OtherStepEndpoint ==
    ASSUME IInv, EndpointInv,
           \/ Refresh \/ Resync \/ User \/ Collect
           \/ (\E s \in Systems : BootSystem(s)) \/ Restart \/ UNCHANGED vars
    PROVE  EndpointInv'
  <1>0. cluster \in ClusterObj
    BY DEF IInv, TypeOK, KubeTypeOK
  <1> USE DEF EndpointInv, StatusKnown, StatusWritten, At
  <1>1. CASE Refresh \/ Resync
    BY <1>1 DEF Refresh, RefreshMachines, RefreshCluster, RefreshSecret, Resync, mcVars, ccVars,
       kubeVars
  <1>2. CASE \E m \in Machines :
                 CreateMachine(m) \/ DeleteMachine(m) \/ EditMachine(m) \/ CollectMachine(m)
    BY <1>2 DEF CreateMachine, DeleteMachine, EditMachine, CollectMachine, OnMachine, mcVars,
       ccVars
  <1>3. ASSUME NEW c, OnCluster(c), ~c.live => c.endpoint = None,
               c.live => /\ cluster.live /\ c.endpoint = cluster.endpoint
                         /\ c.phase = cluster.phase
        PROVE EndpointInv'
    BY <1>3 DEF OnCluster, mcVars, ccVars
  <1>4. CASE EditCluster \/ DeleteCluster \/ DeleteClusterForeground \/ CollectCluster
    BY <1>0, <1>3, <1>4 DEF EditCluster, DeleteCluster, DeleteClusterForeground, CollectCluster,
       GoneCluster, NewCluster, ClusterObj
  <1>5. CASE DeleteNamespace
    BY <1>5 DEF DeleteNamespace, mcVars, ccVars
  <1>6. CASE (\E s \in Systems : BootSystem(s)) \/ UNCHANGED vars
    BY <1>6 DEF BootSystem, vars, kubeVars, mcVars, ccVars
  <1>7. CASE Restart
    BY <1>7 DEF Restart, MachineIdle, ClusterIdle
  <1> QED
    BY <1>1, <1>2, <1>4, <1>5, <1>6, <1>7 DEF User, Collect

\* A living cluster whose status was written has its secret, the reconcile
\* about to publish an endpoint has stored the kubeconfig for it, and the one
\* about to write the first phase has made the secret and knows no endpoint.
THEOREM EndpointInvariant == Spec => []EndpointInv
  <1>1. Init => EndpointInv
    BY InitialEndpoint
  <1>2. IInv /\ EndpointInv /\ [Next]_vars => EndpointInv'
    BY MachineStepEndpoint, ClusterStepEndpoint, OtherStepEndpoint DEF Next
  <1> QED
    BY <1>1, <1>2, InvariantHolds, PTL DEF Spec

\* What a step does to the cluster's status and to its secret.
StatusMoves ==
    \/ UNCHANGED <<cluster, secret>>
    \/ UNCHANGED cluster /\ At("kubeconfig")
    \/ UNCHANGED cluster /\ ~secret.live
    \/ UNCHANGED cluster /\ ~cluster.live
    \/ UNCHANGED secret /\ ~cluster'.live
    \/ /\ UNCHANGED secret /\ At("endpoint") /\ cluster.live
       /\ cluster'.endpoint = mw.s /\ mw.s # None
    \/ /\ UNCHANGED secret /\ cw.pc = "status" /\ cluster.live
       /\ cluster'.endpoint = cw.endpoint
    \/ /\ UNCHANGED secret /\ cluster.live
       /\ cluster'.endpoint = cluster.endpoint

LEMMA StatusSteps ==
    ASSUME IInv, EndpointInv, [Next]_vars
    PROVE  StatusMoves
  <1>0. cluster \in ClusterObj /\ mw \in MachineWorker /\ StepFitsCopy
    BY DEF IInv, TypeOK, KubeTypeOK, MachineControllerTypeOK
  <1> USE DEF StatusMoves
  <1>1. CASE UNCHANGED <<cluster, secret>>
    BY <1>1
  <1>2. ASSUME StepMachine, ~UNCHANGED <<cluster, secret>> PROVE StatusMoves
    <2>1. CreateKubeconfig \/ UpdateCluster
      BY <1>2 DEF StepMachine, MachineControllerNext, WorkMachine, Dequeue, GetMachine,
         MarkDeleting, PrepareCreate, Allocate, Start, ReleaseWithoutAddress, UpdateMachine,
         Release, Fail, WaitForReady, HandleDelete, DeleteNode, Unprovision, RemoveFinalizer,
         UpdateAndFinish, Retry, Leave, Done, kubeVars
    <2>2. CASE CreateKubeconfig
      BY <1>2, <2>2 DEF CreateKubeconfig, Retry, Leave, Done
    <2>3. CASE UpdateCluster
      <3>1. /\ At("endpoint") /\ cluster.live /\ UNCHANGED secret
            /\ cluster' = [cluster EXCEPT !.endpoint = mw.s]
        BY <1>2, <2>3 DEF UpdateCluster, kubeVars
      <3>2. mw.s # None
        BY <1>0, <3>1, NoneAssumption DEF StepFitsCopy, At
      <3> QED
        BY <1>0, <3>1, <3>2 DEF ClusterObj
    <2> QED
      BY <2>1, <2>2, <2>3
  <1>3. ASSUME StepCluster, ~UNCHANGED <<cluster, secret>> PROVE StatusMoves
    <2>1. CreateClusterSecrets \/ UpdateStatus \/ CheckServices \/ DeleteSecret
      BY <1>3 DEF StepCluster, ClusterControllerNext, WorkCluster, ReconcileCluster,
         ReconcileClusterGone, Claim, NothingToReconcile, RetryCluster, FinishCluster, kubeVars
    <2>2. CASE CreateClusterSecrets
      BY <1>3, <2>2 DEF CreateClusterSecrets, RetryCluster
    <2>3. CASE UpdateStatus \/ CheckServices
      <3>1. /\ UNCHANGED secret /\ cluster.live
            /\ \/ /\ cw.pc = "status"
                  /\ cluster' = [cluster EXCEPT !.phase = "Reconciling",
                                                !.endpoint = cw.endpoint]
               \/ cluster' = [cluster EXCEPT !.phase = "Running"]
               \/ cluster' = GoneCluster
        BY <1>3, <2>3 DEF UpdateStatus, CheckServices, PutCluster, RetryCluster
      <3> QED
        BY <1>0, <3>1 DEF ClusterObj, GoneCluster, NewCluster
    <2>4. CASE DeleteSecret
      BY <1>3, <2>4 DEF DeleteSecret, RetryCluster, EndpointInv
    <2> QED
      BY <2>1, <2>2, <2>3, <2>4
  <1>4. ASSUME Refresh \/ Resync \/ User \/ Collect \/ (\E s \in Systems : BootSystem(s)) \/ Restart,
               ~UNCHANGED <<cluster, secret>>
        PROVE  StatusMoves
    <2>1. \/ EditCluster \/ DeleteCluster \/ DeleteClusterForeground \/ CollectCluster
          \/ DeleteNamespace
      BY <1>4 DEF Refresh, RefreshMachines, RefreshCluster, RefreshSecret, Resync, User, Collect,
         CreateMachine, DeleteMachine, EditMachine, CollectMachine, OnMachine, BootSystem, Restart,
         kubeVars
    <2> QED
      BY <1>0, <2>1 DEF EditCluster, DeleteCluster, DeleteClusterForeground, CollectCluster,
         OnCluster, DeleteNamespace, ClusterObj, GoneCluster, NewCluster
  <1> QED
    BY <1>1, <1>2, <1>3, <1>4 DEF Next, vars, kubeVars

\* The endpoint that workers are told to join and the kubeconfig by which the
\* controllers reach the cluster part only while createKubeconfig has the
\* later of two masters' addresses: no write of the endpoint parts them.
THEOREM EndpointHasKubeconfig == Spec => KubeconfigForEndpoint
  <1>1. ASSUME IInv, EndpointInv, [Next]_vars, Apart'
        PROVE  (Apart \/ At("kubeconfig")) /\ cluster'.endpoint = cluster.endpoint
    <2>1. StatusMoves
      BY <1>1, StatusSteps
    <2> QED
      BY <1>1, <2>1 DEF StatusMoves, Apart, EndpointInv, StatusKnown, StatusWritten
  <1> QED
    BY <1>1, InvariantHolds, EndpointInvariant, PTL DEF Spec, KubeconfigForEndpoint

\* updateStatus erases no endpoint of a cluster that has left its first phase:
\* the reconcile that comes to it is the one that created the secret, and there
\* is one while the cluster lives.
THEOREM EndpointKept == Spec => EndpointStays
  <1>1. ASSUME IInv, EndpointInv, [Next]_vars,
               cluster.phase # "", cluster.endpoint # None, cluster'.live
        PROVE  cluster'.endpoint # None
    <2>1. StatusMoves
      BY <1>1, StatusSteps
    <2> QED
      BY <1>1, <2>1 DEF StatusMoves, EndpointInv
  <1> QED
    BY <1>1, InvariantHolds, EndpointInvariant, PTL DEF Spec, EndpointStays

(***************************************************************************)
(* Systems: who holds them, who records them.                              *)
(***************************************************************************)

\* What a step does to the worker: it leaves it alone, ends or begins a
\* reconcile, or goes on, before, at or after the allocation of a system.
WorkerGoesOn ==
    \/ UNCHANGED mw
    \/ mw' = MachineIdle
    \/ mw'.pc = "get" /\ mw'.s = None
    \/ /\ ~InHand /\ ~At("panic") /\ ~At("allocate")
       /\ mw'.s = mw.s /\ ~InHand' /\ mw'.pc \notin {"idle", "panic"}
    \/ /\ At("allocate") /\ mw'.pc = "start" /\ mw'.s \notin used
       /\ used' = used \cup {mw'.s} /\ UNCHANGED machine
    \/ InHand /\ mw'.s = mw.s /\ (InHand' \/ At("panic")') /\ UNCHANGED machine

LEMMA WorkerSteps ==
    ASSUME IInv, [Next]_vars
    PROVE  WorkerGoesOn
  <1>0. mw \in MachineWorker
    BY DEF IInv, TypeOK, MachineControllerTypeOK
  <1> USE DEF InHand, At, WorkerGoesOn
  <1>1. CASE UNCHANGED mw
    BY <1>1
  <1>2. CASE mw' = MachineIdle
    BY <1>2
  <1>3. ASSUME NEW m \in Machines, Dequeue(m) PROVE WorkerGoesOn
    BY <1>3 DEF Dequeue, MachineIdle
  <1>4. ASSUME GetMachine, mw' # MachineIdle PROVE WorkerGoesOn
    <2>1. FirstStep(mcache[mw.m]) \in {"mark", "delete", "wait", "prepare", "idle"}
      BY DEF FirstStep
    <2>2. /\ mw' = [mw EXCEPT !.pc = FirstStep(mcache[mw.m]), !.obj = mcache[mw.m]]
          /\ FirstStep(mcache[mw.m]) # "idle" /\ mw.pc = "get"
      BY <1>4 DEF GetMachine, Leave, Done
    <2> HIDE DEF FirstStep
    <2> QED
      BY <1>0, <2>1, <2>2 DEF MachineWorker
  <1>5. ASSUME MarkDeleting \/ PrepareCreate, mw' # MachineIdle PROVE WorkerGoesOn
    <2>1. /\ mw.pc \in {"mark", "prepare"}
          /\ \/ mw' = [mw EXCEPT !.pc = "delete", !.obj = [mw.obj EXCEPT !.phase = "Deleting"]]
             \/ mw' = [mw EXCEPT !.pc = "allocate",
                                 !.api = IF IsMaster THEN None ELSE ccache.endpoint]
             \/ mw' = [mw EXCEPT !.pc = "fail"]
      BY <1>5 DEF MarkDeleting, PrepareCreate, Retry, Leave, Done, Goto
    <2> QED
      BY <1>0, <2>1 DEF MachineWorker
  <1>6. ASSUME Allocate, mw' # MachineIdle PROVE WorkerGoesOn
    BY <1>0, <1>6 DEF Allocate, AllocateMachine, Retry, Leave, Done, MachineWorker, kubeVars
  <1>7. ASSUME Start \/ ReleaseWithoutAddress \/ CreateKubeconfig \/ UpdateCluster, mw' # MachineIdle
        PROVE WorkerGoesOn
    <2>1. /\ mw.pc \in {"start", "noip", "kubeconfig", "endpoint"} /\ UNCHANGED machine
          /\ \E step \in {"kubeconfig", "record", "release", "noip", "panic", "endpoint"} :
                mw' = [mw EXCEPT !.pc = step]
      BY <1>7 DEF Start, ReleaseWithoutAddress, CreateKubeconfig, UpdateCluster, Retry, Leave,
         Done, Goto, kubeVars
    <2> QED
      BY <1>0, <2>1 DEF MachineWorker
  <1>8. ASSUME UpdateMachine \/ Release \/ Fail \/ WaitForReady \/ RemoveFinalizer,
               mw' # MachineIdle
        PROVE WorkerGoesOn
    <2>1. mw.pc = "record" /\ mw' = [mw EXCEPT !.pc = "release"] /\ UNCHANGED machine
      BY <1>8 DEF UpdateMachine, Release, Fail, WaitForReady, RemoveFinalizer, UpdateAndFinish,
         Retry, Leave, Done, Goto, kubeVars
    <2> QED
      BY <1>0, <2>1 DEF MachineWorker
  <1>9. ASSUME HandleDelete \/ DeleteNode \/ Unprovision, mw' # MachineIdle PROVE WorkerGoesOn
    <2>1. /\ mw.pc \in {"delete", "removeNode", "unprovision"}
          /\ \/ \E step \in {"finalize", "unprovision"} : mw' = [mw EXCEPT !.pc = step]
             \/ mw' = [mw EXCEPT !.pc = "removeNode", !.api = scache.kube]
      BY <1>9 DEF HandleDelete, DeleteNode, Unprovision, Retry, Leave, Done, Goto
    <2> QED
      BY <1>0, <2>1 DEF MachineWorker
  <1>10. ASSUME ~StepMachine PROVE UNCHANGED mw \/ mw' = MachineIdle
    BY <1>10 DEF Next, StepCluster, Refresh, RefreshMachines, RefreshCluster, RefreshSecret, Resync,
       User, Collect, CreateMachine, DeleteMachine, EditMachine, CollectMachine, OnMachine,
       EditCluster, DeleteCluster, DeleteClusterForeground, CollectCluster, OnCluster,
       DeleteNamespace, BootSystem, Restart, vars, mcVars
  <1> QED
    BY <1>1, <1>2, <1>3, <1>4, <1>5, <1>6, <1>7, <1>8, <1>9, <1>10
       DEF StepMachine, MachineControllerNext, WorkMachine

\* What a step does to the systems MAAS holds: only the worker allocates and
\* releases any, the one in its hand or the one its machine records.
UsedMoves ==
    \/ UNCHANGED used
    \/ At("allocate") /\ used \subseteq used'
    \/ mw.pc \in {"noip", "release"} /\ used' = used \ {mw.s} /\ ~InHand'
    \/ At("unprovision") /\ used' = used \ {mw.obj.sys}

LEMMA UsedSteps ==
    ASSUME IInv, [Next]_vars
    PROVE  UsedMoves
  <1>0. mw \in MachineWorker
    BY DEF IInv, TypeOK, MachineControllerTypeOK
  <1> USE DEF At, UsedMoves
  <1>1. CASE Allocate
    BY <1>1 DEF Allocate, AllocateMachine, maasVars
  <1>2. CASE ReleaseWithoutAddress \/ Release
    <2>1. mw' = MachineIdle \/ mw' = [mw EXCEPT !.pc = "panic"]
      BY <1>2 DEF ReleaseWithoutAddress, Release, Goto, Retry, Leave, Done
    <2>2. ~InHand'
      BY <1>0, <2>1 DEF MachineWorker, MachineIdle, InHand
    <2> QED
      BY <1>2, <2>2 DEF ReleaseWithoutAddress, Release, ReleaseMachine, NoSystemChange
  <1>3. CASE Unprovision
    BY <1>3 DEF Unprovision, ReleaseMachine, NoSystemChange
  <1>4. ASSUME StepMachine, ~Allocate, ~ReleaseWithoutAddress, ~Release, ~Unprovision
        PROVE UNCHANGED used
    BY <1>4 DEF StepMachine, MachineControllerNext, WorkMachine, Dequeue, GetMachine,
       MarkDeleting, PrepareCreate, Start, StartMachine, CreateKubeconfig, UpdateCluster,
       UpdateMachine, Fail, WaitForReady, HandleDelete, DeleteNode, RemoveFinalizer,
       NoSystemChange, maasVars
  <1>5. ASSUME StepCluster PROVE UNCHANGED used
    BY <1>5 DEF StepCluster, ClusterControllerNext, WorkCluster, ReconcileCluster,
       ReconcileClusterGone, Claim, CreateClusterSecrets, UpdateStatus, CheckServices,
       NothingToReconcile, DeleteSecret, NoSystemChange, maasVars
  <1>6. ASSUME ~StepMachine, ~StepCluster PROVE UNCHANGED used
    BY <1>6 DEF Next, Refresh, RefreshMachines, RefreshCluster, RefreshSecret, Resync,
       User, Collect, CreateMachine, DeleteMachine, EditMachine, CollectMachine, OnMachine,
       EditCluster, DeleteCluster, DeleteClusterForeground, CollectCluster, OnCluster,
       DeleteNamespace, BootSystem, Boot, Restart, vars, maasVars
  <1> QED
    BY <1>1, <1>2, <1>3, <1>4, <1>5, <1>6

\* What a step does to the records of the machines that are kept: it adds none
\* and changes none, or records the system in the worker's hand.
KeptMoves ==
    \/ \A n \in Machines : Kept(n)' => Kept(n) /\ machine'[n].sys = machine[n].sys
    \/ /\ At("record") /\ mw' = MachineIdle
       /\ \E k \in Machines :
              /\ Kept(k)' => machine'[k].sys = mw.s
              /\ \A n \in Machines \ {k} : machine'[n] = machine[n]

LEMMA KeptSteps ==
    ASSUME IInv, [Next]_vars
    PROVE  KeptMoves
  <1>0. machine \in [Machines -> MachineObj] /\ MachineMoves
    BY StepMoves DEF IInv, TypeOK, KubeTypeOK
  <1>1. CASE UNCHANGED machine
    BY <1>1 DEF KeptMoves, Kept
  <1>2. ASSUME NEW m \in Machines, NEW o \in MachineObj,
               machine' = [machine EXCEPT ![m] = o], MayBecome(machine[m], o)
        PROVE KeptMoves
    <2>0. /\ machine'[m] = o
          /\ \A n \in Machines \ {m} : machine'[n] = machine[n]
      BY <1>0, <1>2
    <2>1. CASE At("record") /\ mw' = MachineIdle /\ o = [machine[m] EXCEPT !.fin = TRUE,
                 !.phase = "Provisioning", !.sys = mw.s]
      BY <1>0, <2>0, <2>1 DEF KeptMoves, Kept, MachineObj
    <2>2. ASSUME o.sys # None, ~o.del,
                 ~(At("record") /\ mw' = MachineIdle /\ o = [machine[m] EXCEPT !.fin = TRUE,
                      !.phase = "Provisioning", !.sys = mw.s])
          PROVE  machine[m].sys # None /\ ~machine[m].del /\ o.sys = machine[m].sys
      <3> DEFINE p == machine[m]
      <3>0. p \in MachineObj
        BY <1>0
      <3>1. o # NewMachine /\ o # GoneMachine /\ o # [p EXCEPT !.del = TRUE]
        <4>1. NewMachine.sys = None /\ GoneMachine.sys = None
          BY DEF GoneMachine, NewMachine
        <4>2. [p EXCEPT !.del = TRUE].del
          BY <3>0 DEF MachineObj
        <4> QED
          BY <2>2, <4>1, <4>2
      <3>2. \/ o = p \/ o = [p EXCEPT !.owned = TRUE] \/ o = [p EXCEPT !.phase = "Error"]
            \/ o = [p EXCEPT !.phase = "Ready"] \/ o = [p EXCEPT !.phase = "Deleting"]
        BY <1>2, <2>2, <3>1 DEF MayBecome, Deleted
      <3> QED
        BY <2>2, <3>0, <3>2 DEF MachineObj
    <2>3. CASE \A n \in Machines : Kept(n)' => Kept(n) /\ machine'[n].sys = machine[n].sys
      BY <2>3 DEF KeptMoves
    <2> QED
      BY <2>0, <2>1, <2>2, <2>3 DEF Kept
  <1> QED
    BY <1>0, <1>1, <1>2 DEF MachineMoves

\* While no deletion is repeated from a stale copy, the records stay right.
LEMMA HeldStep ==
    ASSUME IInv, HeldInv, ~StaleDeletion, [Next]_vars
    PROVE  HeldInv'
  <1>0. /\ IInv' /\ KeptMoves /\ UsedMoves /\ WorkerGoesOn
        /\ used \in SUBSET Systems
    BY StepKeepsInvariant, KeptSteps, UsedSteps, WorkerSteps DEF IInv, TypeOK, MaasTypeOK
  <1>1. ASSUME NEW n \in Machines, Kept(n) PROVE machine[n].sys \in used'
    <2>1. machine[n].sys \in used
      BY <1>1 DEF HeldInv, RecordedSystemsHeld
    <2>2. CASE mw.pc \in {"noip", "release"}
      <3>1. machine[n].sys # mw.s
        BY <1>1, <2>2 DEF HeldInv, InHand
      <3> QED
        BY <1>0, <2>1, <2>2, <3>1 DEF UsedMoves, At
    <2>3. CASE At("unprovision")
      <3>1. machine[n].sys # mw.obj.sys
        BY <1>1, <2>3 DEF StaleDeletion
      <3> QED
        BY <1>0, <2>1, <2>3, <3>1 DEF UsedMoves, At
    <2>4. CASE mw.pc \notin {"noip", "release", "unprovision"}
      BY <1>0, <2>1, <2>4 DEF UsedMoves, At
    <2> QED
      BY <2>2, <2>3, <2>4 DEF At
  <1>2. RecordedSystemsHeld'
    <2>1. CASE \A n \in Machines : Kept(n)' => Kept(n) /\ machine'[n].sys = machine[n].sys
      BY <1>1, <2>1 DEF HeldInv, RecordedSystemsHeld
    <2>2. ASSUME At("record"), NEW k \in Machines,
                 Kept(k)' => machine'[k].sys = mw.s,
                 \A n \in Machines \ {k} : machine'[n] = machine[n]
          PROVE RecordedSystemsHeld'
      <3>1. mw.s \in used /\ \A n \in Machines : Kept(n) => machine[n].sys # mw.s
        BY <2>2 DEF HeldInv, InHand, At
      <3>2. used' = used
        BY <1>0, <2>2 DEF UsedMoves, At
      <3>3. \A n \in Machines : Kept(n)' =>
                \/ n = k /\ machine'[n].sys = mw.s
                \/ n # k /\ Kept(n) /\ machine'[n].sys = machine[n].sys
        BY <2>2 DEF Kept
      <3> QED
        BY <3>1, <3>2, <3>3 DEF HeldInv, RecordedSystemsHeld
    <2> QED
      BY <1>0, <2>1, <2>2 DEF KeptMoves
  <1>3. ASSUME InHand'
        PROVE  /\ mw'.s \in used'
               /\ \A n \in Machines : Kept(n)' => machine'[n].sys # mw'.s
    <2>1. CASE UNCHANGED mw
      <3>1. InHand /\ mw'.s = mw.s
        BY <1>3, <2>1 DEF InHand
      <3>2. mw.pc \notin {"unprovision", "allocate"} /\ mw' # MachineIdle
        BY <3>1, <2>1 DEF InHand, MachineIdle
      <3>3. mw.s \in used'
        BY <1>0, <1>3, <3>1, <3>2 DEF UsedMoves, At, HeldInv
      <3> QED
        BY <1>0, <3>1, <3>2, <3>3 DEF KeptMoves, HeldInv
    <2>2. CASE At("allocate") /\ mw'.pc = "start" /\ mw'.s \notin used
               /\ used' = used \cup {mw'.s} /\ UNCHANGED machine
      BY <2>2 DEF HeldInv, RecordedSystemsHeld, Kept
    <2>3. CASE InHand /\ mw'.s = mw.s /\ UNCHANGED machine
      <3>1. mw.s \in used'
        BY <1>0, <1>3, <2>3 DEF UsedMoves, At, HeldInv, InHand
      <3> QED
        BY <2>3, <3>1 DEF HeldInv, Kept
    <2>4. mw' # MachineIdle /\ mw'.pc # "get"
      BY <1>3 DEF InHand, MachineIdle
    <2> QED
      BY <1>0, <1>3, <2>1, <2>2, <2>3, <2>4 DEF WorkerGoesOn
  <1> QED
    BY <1>2, <1>3 DEF HeldInv

\* At first no machine is recorded and the worker is idle.
LEMMA InitialHeld == Init => HeldInv
  <1> SUFFICES ASSUME Init PROVE HeldInv
    OBVIOUS
  <1>1. ~InHand
    BY DEF Init, MachineControllerInit, MachineIdle, InHand
  <1>2. \A m \in Machines : machine[m].sys = None
    BY DEF Init, KubeInit, NewMachine, GoneMachine
  <1> QED
    BY <1>1, <1>2 DEF HeldInv, RecordedSystemsHeld, Kept

\* As long as no deletion is repeated from a stale copy on a system that has
\* been given to another machine, MAAS holds what every machine that is kept
\* records, and no two of them record the same system.
THEOREM HeldUnlessStaleDeletion == Spec /\ []~StaleDeletion => []RecordedSystemsHeld
  <1>1. Init => HeldInv
    BY InitialHeld
  <1>2. IInv /\ HeldInv /\ ~StaleDeletion /\ [Next]_vars => HeldInv'
    BY HeldStep
  <1>3. HeldInv => RecordedSystemsHeld
    BY DEF HeldInv
  <1> QED
    BY <1>1, <1>2, <1>3, InvariantHolds, PTL DEF Spec

\* What the records that stand for no work and for no object say.
LEMMA IdleFields ==
    /\ MachineIdle.pc = "idle" /\ MachineIdle.s = None
    /\ ClusterIdle.pc = "idle"
    /\ NewSecret.live /\ ~GoneSecret.live
    /\ ~NewMachine.del /\ NewMachine.phase = ""
    /\ ~GoneMachine.live /\ ~GoneMachine.del /\ GoneMachine.phase = ""
  BY DEF MachineIdle, ClusterIdle, NewSecret, GoneSecret, NewMachine, GoneMachine

\* Where nobody deletes a machine or the cluster, no deletion can be stale.
UsersDeleteNothing == Env \cap {"deleteMachine", "deleteCluster", "foreground"} = {}

\* The informers only ever deliver what the API server stores.
LEMMA CachesMove ==
    ASSUME [Next]_vars
    PROVE  /\ mcache' = mcache \/ (mcache' = machine /\ machine' = machine)
           /\ ccache' = ccache \/ ccache' = cluster
           /\ scache' = scache \/ scache' = secret
  <1>1. ASSUME StepMachine PROVE UNCHANGED <<mcache, ccache, scache>>
    BY <1>1 DEF StepMachine, MachineControllerNext, WorkMachine, Dequeue, GetMachine,
       MarkDeleting, PrepareCreate, Allocate, Start, ReleaseWithoutAddress, CreateKubeconfig,
       UpdateCluster, UpdateMachine, Release, Fail, WaitForReady, HandleDelete, DeleteNode,
       Unprovision, RemoveFinalizer, UpdateAndFinish, Retry, Leave, Done, kubeVars
  <1>2. ASSUME StepCluster PROVE UNCHANGED <<mcache, ccache, scache>>
    BY <1>2 DEF StepCluster, ClusterControllerNext, WorkCluster, ReconcileCluster,
       ReconcileClusterGone, Claim, CreateClusterSecrets, UpdateStatus, CheckServices,
       NothingToReconcile, DeleteSecret, RetryCluster, FinishCluster, kubeVars
  <1>3. CASE Refresh \/ Restart
    BY <1>3 DEF Refresh, RefreshMachines, RefreshCluster, RefreshSecret, Restart
  <1>4. ASSUME User \/ Collect \/ Resync \/ (\E s \in Systems : BootSystem(s)) \/ UNCHANGED vars
        PROVE  UNCHANGED <<mcache, ccache, scache>>
    BY <1>4 DEF User, Collect, CreateMachine, DeleteMachine, EditMachine, CollectMachine,
       OnMachine, EditCluster, DeleteCluster, DeleteClusterForeground, CollectCluster, OnCluster,
       DeleteNamespace, Resync, BootSystem, vars, kubeVars
  <1> QED
    BY <1>1, <1>2, <1>3, <1>4 DEF Next

\* Then the cluster stays, and so does its secret.
LEMMA ClusterStays ==
    ASSUME UsersDeleteNothing, IInv, NothingDeleted, [Next]_vars
    PROVE  /\ cluster'.live /\ ~cluster'.del /\ cw'.pc # "deleteSecret"
           /\ secret.live => secret'.live
  <1>0. /\ cluster \in ClusterObj /\ secret \in SecretObj /\ cw \in ClusterWorker
        /\ cluster.live /\ ~cluster.del /\ ccache.live /\ cw.pc # "deleteSecret"
    BY DEF IInv, TypeOK, KubeTypeOK, ClusterControllerTypeOK, NothingDeleted
  <1>1. CASE StepMachine
    <2>1. UNCHANGED cw
      BY <1>1 DEF StepMachine, ccVars
    <2>2. UNCHANGED cluster \/ cluster' = [cluster EXCEPT !.endpoint = mw.s]
      BY <1>1 DEF StepMachine, MachineControllerNext, WorkMachine, Dequeue, GetMachine,
         MarkDeleting, PrepareCreate, Allocate, Start, ReleaseWithoutAddress, CreateKubeconfig,
         UpdateCluster, UpdateMachine, Release, Fail, WaitForReady, HandleDelete, DeleteNode,
         Unprovision, RemoveFinalizer, UpdateAndFinish, Retry, Leave, Done, kubeVars
    <2>3. UNCHANGED secret \/ secret' = [secret EXCEPT !.kube = mw.s]
      BY <1>1 DEF StepMachine, MachineControllerNext, WorkMachine, Dequeue, GetMachine,
         MarkDeleting, PrepareCreate, Allocate, Start, ReleaseWithoutAddress, CreateKubeconfig,
         UpdateCluster, UpdateMachine, Release, Fail, WaitForReady, HandleDelete, DeleteNode,
         Unprovision, RemoveFinalizer, UpdateAndFinish, Retry, Leave, Done, kubeVars
    <2> QED
      BY <1>0, <2>1, <2>2, <2>3 DEF ClusterObj, SecretObj
  <1>2. CASE StepCluster
    <2>1. \/ UNCHANGED cluster
          \/ cluster' = [cluster EXCEPT !.phase = "Reconciling", !.endpoint = cw.endpoint]
          \/ cluster' = [cluster EXCEPT !.phase = "Running"]
      BY <1>0, <1>2 DEF StepCluster, ClusterControllerNext, WorkCluster, ReconcileCluster,
         ReconcileClusterGone, Claim, CreateClusterSecrets, UpdateStatus, CheckServices, PutCluster,
         NothingToReconcile, DeleteSecret, RetryCluster, kubeVars
    <2>2. UNCHANGED secret \/ secret' = NewSecret
      BY <1>0, <1>2 DEF StepCluster, ClusterControllerNext, WorkCluster, ReconcileCluster,
         ReconcileClusterGone, Claim, CreateClusterSecrets, UpdateStatus, CheckServices, PutCluster,
         NothingToReconcile, DeleteSecret, RetryCluster, kubeVars
    <2>3. cw'.pc # "deleteSecret"
      <3>1. CASE RetryCluster \/ FinishCluster(FALSE)
        BY <3>1, IdleFields DEF RetryCluster, FinishCluster
      <3>2. ASSUME NEW m \in Machines, Claim(m), ~RetryCluster PROVE cw'.pc # "deleteSecret"
        BY <1>0, <3>2 DEF Claim, ClusterWorker
      <3>3. CASE ReconcileCluster
        BY <3>3 DEF ReconcileCluster
      <3>4. ASSUME CreateClusterSecrets, ~RetryCluster PROVE cw'.pc # "deleteSecret"
        BY <1>0, <3>4 DEF CreateClusterSecrets, ClusterWorker
      <3> QED
        BY <1>0, <1>2, <3>1, <3>2, <3>3, <3>4 DEF StepCluster, ClusterControllerNext, WorkCluster,
           ReconcileClusterGone, UpdateStatus, CheckServices, NothingToReconcile, DeleteSecret
    <2>4. secret.live => secret'.live
      BY <2>2, IdleFields
    <2>5. cluster'.live /\ ~cluster'.del
      BY <1>0, <2>1 DEF ClusterObj
    <2> QED
      BY <2>3, <2>4, <2>5
  <1>3. CASE ~StepMachine /\ ~StepCluster
    <2>1. "deleteCluster" \notin Env /\ "foreground" \notin Env
      BY DEF UsersDeleteNothing
    <2>2. UNCHANGED cluster /\ UNCHANGED secret
      BY <1>0, <1>3, <2>1 DEF Next, Refresh, RefreshMachines, RefreshCluster, RefreshSecret, Resync,
         User, Collect, CreateMachine, DeleteMachine, EditMachine, CollectMachine, OnMachine,
         EditCluster, DeleteCluster, DeleteClusterForeground, CollectCluster, OnCluster,
         DeleteNamespace, BootSystem, Restart, vars, kubeVars
    <2>3. UNCHANGED cw \/ cw' = ClusterIdle
      BY <1>3 DEF Next, Refresh, RefreshMachines, RefreshCluster, RefreshSecret, Resync,
         User, Collect, CreateMachine, DeleteMachine, EditMachine, CollectMachine, OnMachine,
         EditCluster, DeleteCluster, DeleteClusterForeground, CollectCluster, OnCluster,
         DeleteNamespace, BootSystem, Restart, vars, ccVars
    <2> QED
      BY <1>0, <2>2, <2>3, IdleFields
  <1> QED
    BY <1>1, <1>2, <1>3

\* And the worker deletes nothing, and has seen the secret where it creates.
LEMMA WorkerDeletesNothing ==
    ASSUME IInv, NothingDeleted, [Next]_vars
    PROVE  /\ Holding' => ~mw'.obj.del
           /\ mw'.pc = "allocate" \/ InHand' \/ At("wait")' => scache.live
  <1>0. /\ mw \in MachineWorker /\ StepFitsCopy
        /\ Holding => ~mw.obj.del
        /\ mw.pc = "allocate" \/ InHand \/ At("wait") => scache.live
    BY DEF IInv, TypeOK, MachineControllerTypeOK, NothingDeleted
  <1> USE DEF Holding, InHand, At
  <1>1. CASE UNCHANGED mw
    BY <1>0, <1>1
  <1>2. CASE mw' = MachineIdle \/ \E m \in Machines : Dequeue(m)
    <2>1. CASE mw' = MachineIdle
      BY <2>1, IdleFields
    <2>2. CASE \E m \in Machines : Dequeue(m)
      <3>1. mw'.pc = "get"
        BY <2>2 DEF Dequeue, MachineIdle
      <3> QED
        BY <3>1
    <2> QED
      BY <1>2, <2>1, <2>2
  <1>3. ASSUME GetMachine, mw' # MachineIdle
        PROVE  /\ Holding' => ~mw'.obj.del
               /\ mw'.pc = "allocate" \/ InHand' \/ At("wait")' => scache.live
    <2> DEFINE o == mcache[mw.m]
    <2>1. mw.m \in Machines /\ ~o.del
      BY <1>0, <1>3 DEF GetMachine, StepFitsCopy, NothingDeleted
    <2>2. FirstStep(o) = "wait" => scache.live
      BY <2>1 DEF FirstStep, NothingDeleted
    <2>3. FirstStep(o) \in {"mark", "delete", "wait", "prepare", "idle"}
      BY DEF FirstStep
    <2>4. mw' = [mw EXCEPT !.pc = FirstStep(o), !.obj = o]
      BY <1>3 DEF GetMachine, Leave, Done
    <2> HIDE DEF FirstStep, o
    <2> QED
      BY <1>0, <2>1, <2>2, <2>3, <2>4 DEF MachineWorker
  <1>4. ASSUME PrepareCreate, mw' # MachineIdle
        PROVE  mw'.obj = mw.obj /\ scache.live /\ Holding
    BY <1>0, <1>4 DEF PrepareCreate, Retry, Leave, Done, Goto, CanCreate, MachineWorker
  <1>5. ASSUME MarkDeleting PROVE FALSE
    BY <1>0, <1>5 DEF MarkDeleting, StepFitsCopy
  <1>6. ASSUME Allocate, mw' # MachineIdle PROVE mw'.obj = mw.obj /\ scache.live /\ Holding
    BY <1>0, <1>6 DEF Allocate, Retry, Leave, Done, MachineWorker
  <1>7. ASSUME Start \/ ReleaseWithoutAddress \/ CreateKubeconfig \/ UpdateCluster \/ UpdateMachine,
               mw' # MachineIdle
        PROVE mw'.obj = mw.obj /\ scache.live /\ Holding
    BY <1>0, <1>7 DEF Start, ReleaseWithoutAddress, CreateKubeconfig, UpdateCluster, UpdateMachine,
       Retry, Leave, Done, Goto, MachineWorker
  <1>8. ASSUME Release \/ Fail \/ WaitForReady \/ RemoveFinalizer PROVE mw' = MachineIdle
    BY <1>8 DEF Release, Fail, WaitForReady, RemoveFinalizer, UpdateAndFinish, Retry, Leave, Done
  <1>9. ASSUME HandleDelete \/ DeleteNode \/ Unprovision, mw' # MachineIdle
        PROVE  mw'.obj = mw.obj /\ mw'.pc \in {"removeNode", "unprovision", "finalize"} /\ Holding
    <2>1. /\ mw.pc \in {"delete", "removeNode", "unprovision"}
          /\ \/ \E step \in {"finalize", "unprovision"} : mw' = [mw EXCEPT !.pc = step]
             \/ mw' = [mw EXCEPT !.pc = "removeNode", !.api = scache.kube]
      BY <1>9 DEF HandleDelete, DeleteNode, Unprovision, Retry, Leave, Done, Goto
    <2> QED
      BY <1>0, <2>1 DEF MachineWorker
  <1>10. ASSUME ~StepMachine PROVE UNCHANGED mw \/ mw' = MachineIdle
    BY <1>10 DEF Next, StepCluster, Refresh, RefreshMachines, RefreshCluster, RefreshSecret, Resync,
       User, Collect, CreateMachine, DeleteMachine, EditMachine, CollectMachine, OnMachine,
       EditCluster, DeleteCluster, DeleteClusterForeground, CollectCluster, OnCluster,
       DeleteNamespace, BootSystem, Restart, vars, mcVars
  <1> QED
    BY <1>0, <1>1, <1>2, <1>3, <1>4, <1>5, <1>6, <1>7, <1>8, <1>9, <1>10
       DEF StepMachine, MachineControllerNext, WorkMachine

LEMMA NothingDeletedStep ==
    ASSUME UsersDeleteNothing, IInv, NothingDeleted, [Next]_vars
    PROVE  NothingDeleted'
  <1>0. /\ machine \in [Machines -> MachineObj] /\ mcache \in [Machines -> MachineObj]
        /\ MachineMoves
    BY StepMoves DEF IInv, TypeOK, KubeTypeOK
  <1>1. cluster'.live /\ ~cluster'.del /\ cw'.pc # "deleteSecret" /\ ccache'.live
    BY ClusterStays, CachesMove DEF NothingDeleted
  <1>2. (scache'.live => secret'.live) /\ (scache.live => scache'.live)
    BY ClusterStays, CachesMove DEF NothingDeleted
  <1>3. ~MayDelete
    BY DEF MayDelete, NothingDeleted, UsersDeleteNothing
  <1>4. ASSUME NEW m \in Machines
        PROVE  ~machine'[m].del /\ (machine'[m].phase = "Provisioning" => scache.live)
    <2>1. CASE UNCHANGED machine
      BY <1>4, <2>1 DEF NothingDeleted
    <2>2. ASSUME NEW o \in MachineObj, MayBecome(machine[m], o)
          PROVE  ~o.del /\ (o.phase = "Provisioning" => scache.live)
      <3> DEFINE p == machine[m]
      <3>0. p \in MachineObj /\ ~p.del /\ (p.phase = "Provisioning" => scache.live)
        BY <1>0 DEF NothingDeleted
      <3>1. CASE o = p \/ o = [p EXCEPT !.owned = TRUE]
        BY <3>0, <3>1 DEF MachineObj
      <3>2. CASE o = NewMachine \/ o = GoneMachine
        <4>1. ~o.del /\ o.phase = ""
          BY <3>2, IdleFields
        <4> QED
          BY <4>1
      <3>3. CASE /\ At("record")
                 /\ o = [p EXCEPT !.fin = TRUE, !.phase = "Provisioning", !.sys = mw.s]
        BY <3>0, <3>3 DEF MachineObj, NothingDeleted, InHand, At
      <3>4. CASE o = [p EXCEPT !.phase = "Error"] \/ o = [p EXCEPT !.phase = "Ready"]
        BY <3>0, <3>4 DEF MachineObj
      <3> QED
        BY <1>3, <2>2, <3>0, <3>1, <3>2, <3>3, <3>4 DEF MayBecome
    <2> QED
      BY <1>0, <2>1, <2>2 DEF MachineMoves, NothingDeleted
  <1>5. ASSUME NEW m \in Machines
        PROVE  ~mcache'[m].del /\ (mcache'[m].phase = "Provisioning" => scache.live)
    BY CachesMove DEF NothingDeleted
  <1>6. /\ Holding' => ~mw'.obj.del
        /\ mw'.pc = "allocate" \/ InHand' \/ At("wait")' => scache.live
    BY WorkerDeletesNothing
  <1> QED
    BY <1>1, <1>2, <1>4, <1>5, <1>6 DEF NothingDeleted

\* Where nothing is deleted, MAAS holds the systems of all the machines, and
\* each is one machine's: no update conflict, stale copy, crash or fault of MAAS
\* makes two machines share a system or one lose its own.
THEOREM RecordsHeld ==
    ASSUME UsersDeleteNothing
    PROVE  Spec => []RecordedSystemsHeld
  <1>1. Init => NothingDeleted
    <2> SUFFICES ASSUME Init PROVE NothingDeleted
      OBVIOUS
    <2>1. \A m \in Machines : ~machine[m].del /\ machine[m].phase = ""
      BY DEF Init, KubeInit, NewMachine, GoneMachine
    <2>2. mw.pc = "idle" /\ cw.pc = "idle" /\ cluster.live /\ ~cluster.del
      BY DEF Init, KubeInit, MachineControllerInit, ClusterControllerInit, MachineIdle,
         ClusterIdle, NewCluster
    <2> QED
      BY <2>1, <2>2 DEF Init, KubeInit, GoneSecret, NewSecret, NothingDeleted, Holding, InHand, At
  <1>2. UsersDeleteNothing /\ IInv /\ NothingDeleted /\ [Next]_vars => NothingDeleted'
    BY NothingDeletedStep
  <1>3. IInv /\ NothingDeleted => ~StaleDeletion
    BY DEF IInv, StepFitsCopy, NothingDeleted, StaleDeletion, Holding, Removing, Coherent, At
  <1> QED
    BY <1>1, <1>2, <1>3, InvariantHolds, HeldUnlessStaleDeletion, PTL DEF Spec

(***************************************************************************)
(* The system in the worker's hand.                                        *)
(***************************************************************************)

\* A worker names a system only while it has one in hand, or panics.
LEMMA SystemInHandHolds == Spec => []SystemInHand
  <1>1. Init => SystemInHand
    BY IdleFields DEF Init, MachineControllerInit, SystemInHand
  <1>2. IInv /\ SystemInHand /\ [Next]_vars => SystemInHand'
    <2> SUFFICES ASSUME IInv, SystemInHand, [Next]_vars PROVE SystemInHand'
      OBVIOUS
    <2>1. CASE UNCHANGED mw \/ mw' = MachineIdle
      BY <2>1, IdleFields DEF SystemInHand, InHand, At
    <2> QED
      BY <2>1, WorkerSteps DEF WorkerGoesOn, SystemInHand, InHand, At
  <1> QED
    BY <1>1, <1>2, InvariantHolds, PTL DEF Spec

\* Only the worker and a restart move the worker.
LEMMA WorkerMovedBy ==
    ASSUME [Next]_vars
    PROVE  StepMachine \/ Restart \/ UNCHANGED mw
  BY DEF Next, StepCluster, Refresh, RefreshMachines, RefreshCluster, RefreshSecret, Resync,
     User, Collect, CreateMachine, DeleteMachine, EditMachine, CollectMachine, OnMachine,
     EditCluster, DeleteCluster, DeleteClusterForeground, CollectCluster, OnCluster,
     DeleteNamespace, BootSystem, vars, mcVars

\* A step that lets go of a system, and is not a fault, leaves it recorded or
\* released.
LEMMA LetsGoStep ==
    ASSUME IInv, SystemInHand, [Next]_vars, LetsGo, NoFault
    PROVE  mw.s \notin used' \/ machine'[mw.m].sys = mw.s
  <1>0. /\ mw \in MachineWorker /\ machine \in [Machines -> MachineObj] /\ budget \in Nat
        /\ mw.pc \in {"start", "noip", "endpoint", "record", "release"} /\ mw.m \in Machines
    <2>1. mw \in MachineWorker /\ machine \in [Machines -> MachineObj]
      BY DEF IInv, TypeOK, KubeTypeOK, MachineControllerTypeOK
    <2>2. budget \in Nat
      BY FaultsAssumption DEF IInv, TypeOK, MaasTypeOK
    <2>3. mw.pc \in {"start", "noip", "endpoint", "record", "release"}
      BY DEF LetsGo, SystemInHand, InHand, At
    <2>4. mw.m \in Machines
      BY <2>3 DEF IInv, StepFitsCopy, At
    <2> QED
      BY <2>1, <2>2, <2>3, <2>4
  <1>1. ~UNCHANGED mw
    BY <1>0 DEF LetsGo
  <1>2. ~Restart
    BY <1>0 DEF Restart, At, Fault, NoFault
  <1>3. MachineControllerNext
    BY <1>1, <1>2, WorkerMovedBy DEF StepMachine
  <1>4. CASE mw.pc \in {"start", "endpoint"}
    <2>1. Start \/ UpdateCluster
      BY <1>3, <1>4 DEF MachineControllerNext, WorkMachine, Dequeue, GetMachine, MarkDeleting,
         PrepareCreate, Allocate, ReleaseWithoutAddress, CreateKubeconfig, UpdateMachine, Release,
         Fail, WaitForReady, HandleDelete, DeleteNode, Unprovision, RemoveFinalizer, At
    <2>2. \E step \in {"kubeconfig", "record", "release", "noip"} : mw' = [mw EXCEPT !.pc = step]
      BY <2>1 DEF Start, UpdateCluster, Goto
    <2> QED
      BY <1>0, <2>2 DEF LetsGo, MachineWorker
  <1>5. CASE mw.pc \in {"noip", "release"}
    <2>1. ReleaseWithoutAddress \/ Release
      BY <1>3, <1>5 DEF MachineControllerNext, WorkMachine, Dequeue, GetMachine, MarkDeleting,
         PrepareCreate, Allocate, Start, CreateKubeconfig, UpdateCluster, UpdateMachine,
         Fail, WaitForReady, HandleDelete, DeleteNode, Unprovision, RemoveFinalizer, At
    <2> QED
      BY <1>0, <2>1 DEF ReleaseWithoutAddress, Release, ReleaseMachine, Fault, NoFault
  <1>6. CASE mw.pc = "record"
    <2>1. UpdateMachine
      BY <1>3, <1>6 DEF MachineControllerNext, WorkMachine, Dequeue, GetMachine, MarkDeleting,
         PrepareCreate, Allocate, Start, ReleaseWithoutAddress, CreateKubeconfig, UpdateCluster,
         Release, Fail, WaitForReady, HandleDelete, DeleteNode, Unprovision, RemoveFinalizer, At
    <2>2. CASE Accepted("mw", mw.m)
      <3>1. mw.obj = machine[mw.m]
        BY <1>0, <2>2, AcceptedCopy
      <3>2. machine' = [machine EXCEPT ![mw.m] = [mw.obj EXCEPT !.fin = TRUE,
                            !.phase = "Provisioning", !.sys = mw.s]]
        BY <2>1, <2>2 DEF UpdateMachine, PutMachine
      <3> QED
        BY <1>0, <3>1, <3>2 DEF MachineObj
    <2>3. CASE ~Accepted("mw", mw.m)
      BY <1>0, <2>1, <2>3 DEF UpdateMachine, Goto, LetsGo, MachineWorker
    <2> QED
      BY <2>2, <2>3
  <1> QED
    BY <1>0, <1>4, <1>5, <1>6

\* Every way out of a create but a failed write of the kubeconfig takes care of
\* the system it allocated: a failed start, a lost address, a conflict on the
\* cluster or on the machine release it, success records it.
THEOREM NoOtherLeak == Spec => LeaksOnlyAtKubeconfig
  <1>1. IInv /\ SystemInHand /\ [Next]_vars
        => (LetsGo /\ NoFault => mw.s \notin used' \/ machine'[mw.m].sys = mw.s)
    BY LetsGoStep
  <1> QED
    BY <1>1, InvariantHolds, SystemInHandHolds, PTL DEF Spec, LeaksOnlyAtKubeconfig

(***************************************************************************)
(* The secret and the last machine.                                        *)
(***************************************************************************)

\* A deletion of the secret is begun only when the cache shows no machine.
LEMMA SecretDeletionBegins ==
    ASSUME IInv, [Next]_vars, cw'.pc = "deleteSecret"
    PROVE  cw.pc = "deleteSecret" \/ \A m \in Machines : ~mcache[m].live
  <1>0. cw \in ClusterWorker
    BY DEF IInv, TypeOK, ClusterControllerTypeOK
  <1>1. CASE StepCluster
    <2>1. CASE ReconcileClusterGone
      BY <2>1 DEF ReconcileClusterGone
    <2>2. ~RetryCluster /\ ~FinishCluster(FALSE)
      BY IdleFields DEF RetryCluster, FinishCluster
    <2>3. ~ReconcileCluster
      BY DEF ReconcileCluster
    <2>4. ASSUME NEW m \in Machines, Claim(m) PROVE cw.pc = "deleteSecret"
      BY <1>0, <2>2, <2>4 DEF Claim, ClusterWorker
    <2>5. ~CreateClusterSecrets
      BY <1>0, <2>2 DEF CreateClusterSecrets, ClusterWorker
    <2> QED
      BY <1>1, <2>1, <2>2, <2>3, <2>4, <2>5 DEF StepCluster, ClusterControllerNext, WorkCluster,
         UpdateStatus, CheckServices, NothingToReconcile, DeleteSecret
  <1>2. CASE ~StepCluster
    <2>1. UNCHANGED cw \/ cw' = ClusterIdle
      BY <1>2 DEF Next, StepMachine, Refresh, RefreshMachines, RefreshCluster, RefreshSecret,
         Resync, User, Collect, CreateMachine, DeleteMachine, EditMachine, CollectMachine,
         OnMachine, EditCluster, DeleteCluster, DeleteClusterForeground, CollectCluster, OnCluster,
         DeleteNamespace, BootSystem, Restart, vars, ccVars
    <2> QED
      BY <2>1, IdleFields
  <1> QED
    BY <1>1, <1>2

\* A machine that is gone stays gone, unless a user posts it anew.
LEMMA GoneStaysGone ==
    ASSUME "createMachine" \notin Env, IInv, [Next]_vars,
           NEW m \in Machines, machine'[m].live
    PROVE  machine[m].live
  <1>0. machine \in [Machines -> MachineObj] /\ MachineMoves
    BY StepMoves DEF IInv, TypeOK, KubeTypeOK
  <1> QED
    BY <1>0 DEF MachineMoves, MayBecome

LEMMA LastMachineGoneStep ==
    ASSUME "createMachine" \notin Env, IInv, LastMachineGone, [Next]_vars
    PROVE  LastMachineGone'
  <1>1. \A m \in Machines : ~mcache'[m].live => ~machine'[m].live
    BY GoneStaysGone, CachesMove DEF LastMachineGone
  <1>2. cw'.pc = "deleteSecret" => \A m \in Machines : ~machine'[m].live
    BY GoneStaysGone, SecretDeletionBegins DEF LastMachineGone
  <1> QED
    BY <1>1, <1>2 DEF LastMachineGone

\* The cluster controller deletes the credentials of the managed cluster last:
\* after the cluster, and after every machine there was. A machine posted
\* into the namespace of a cluster that is gone already is not waited for.
THEOREM SecretGoesLast ==
    ASSUME "createMachine" \notin Env
    PROVE  Spec => SecretDeletedLast
  <1>1. Init => LastMachineGone
    BY IdleFields DEF Init, KubeInit, ClusterControllerInit, LastMachineGone
  <1>2. "createMachine" \notin Env /\ IInv /\ LastMachineGone /\ [Next]_vars => LastMachineGone'
    BY LastMachineGoneStep
  <1>3. EndpointInv /\ LastMachineGone /\ [Next]_vars
        => (cw.pc = "deleteSecret" /\ secret.live /\ ~secret'.live
               => ~cluster.live /\ \A m \in Machines : ~machine[m].live)
    BY DEF EndpointInv, LastMachineGone
  <1> QED
    BY <1>1, <1>2, <1>3, InvariantHolds, EndpointInvariant, PTL DEF Spec, SecretDeletedLast
=============================================================================
