--------------------------- MODULE GatewayProofs ---------------------------
(***************************************************************************)
(* Proofs about the gRPC server and the gateway in front of it, for any    *)
(* number of calls, pools, faults and requests given up.                   *)
(***************************************************************************)
EXTENDS Gateway, FiniteSetTheorems, TLAPS

(***************************************************************************)
(* The path of a call.                                                     *)
(***************************************************************************)
LEMMA IdleType == /\ Idle \in Handler /\ Idle.step = "idle" /\ Idle.op = "GetCluster"
                  /\ NoAnswer \in Answer /\ NoAnswer.code = "none" /\ NoAnswer.op = "GetCluster"
BY DEF Idle, Handler, AllOps, Steps, NoAnswer, Answer, Status

\* Where each call may be.
OnPath(h) ==
    /\ h.step \in {"namespace", "cluster", "master"} => h.op = "CreateCluster"
    /\ h.step = "sets" => h.op \in {"CreateCluster", "AddNodePool"}
    /\ h.step = "secret" => h.op = "GetCluster"
    /\ h.step = "get" => h.op # "CreateCluster"
    /\ h.step \in {"delete", "getns", "deletens"} => h.op = "DeleteCluster"
    /\ h.step = "update" => h.op = "UpgradeCluster"
    /\ h.step \in {"getset", "writeset"} => h.op \in {"DeleteNodePool", "ScaleNodePool"}

LEMMA Path ==
    ASSUME NEW h \in Handler
    PROVE  h.step = "idle" \/ h.step \in StepsOf[h.op] <=> OnPath(h)
<1>1. h.op \in AllOps /\ h.step \in Steps
  BY DEF Handler
<1>2. CASE h.op = "CreateCluster"
  BY <1>1, <1>2 DEF StepsOf, OnPath, Steps
<1>3. CASE h.op = "GetCluster"
  BY <1>1, <1>3 DEF StepsOf, OnPath, Steps
<1>4. CASE h.op = "DeleteCluster"
  BY <1>1, <1>4 DEF StepsOf, OnPath, Steps
<1>5. CASE h.op = "UpgradeCluster"
  BY <1>1, <1>5 DEF StepsOf, OnPath, Steps
<1>6. CASE h.op = "AddNodePool"
  BY <1>1, <1>6 DEF StepsOf, OnPath, Steps
<1>7. CASE h.op = "DeleteNodePool"
  BY <1>1, <1>7 DEF StepsOf, OnPath, Steps
<1>8. CASE h.op = "ScaleNodePool"
  BY <1>1, <1>8 DEF StepsOf, OnPath, Steps
<1> QED
  BY <1>1, <1>2, <1>3, <1>4, <1>5, <1>6, <1>7, <1>8 DEF AllOps

LEMMA Paths ==
    ASSUME TypeOK
    PROVE  HandlerInv <=> \A c \in Calls : OnPath(call[c])
<1>1. \A c \in Calls : call[c] \in Handler
  BY DEF TypeOK
<1> QED
  BY <1>1, Path DEF HandlerInv, At

\* The other calls and their answers.
Alone(c) == \A d \in Calls \ {c} : call'[d] = call[d] /\ answer'[d] = answer[d]

\* A handler goes to its next step ...
Continues(c) ==
    /\ Alone(c) /\ UNCHANGED answer /\ call' \in [Calls -> Handler]
    /\ call'[c].op = call[c].op /\ call'[c].step # "idle" /\ OnPath(call'[c])

\* ... or returns.
Returns(c) ==
    /\ Alone(c) /\ call' \in [Calls -> Handler] /\ answer' \in [Calls -> Answer]
    /\ call'[c] = Idle
    /\ answer'[c].op = call[c].op /\ answer'[c].code \in {"OK", "NotFound", "Internal"}

LEMMA GotoMoves ==
    ASSUME TypeOK, NEW c \in Calls, NEW s \in Steps, Goto(c, s)
    PROVE  /\ Alone(c) /\ UNCHANGED answer /\ call' \in [Calls -> Handler]
           /\ call'[c].op = call[c].op /\ call'[c].step = s
BY DEF TypeOK, Goto, Alone, Handler

LEMMA ReplyMoves ==
    ASSUME TypeOK, NEW c \in Calls, NEW code \in {"OK", "NotFound", "Internal"},
           NEW status \in Status, Reply(c, code, status)
    PROVE  Returns(c) /\ answer'[c].code = code
<1> DEFINE a == [op |-> call[c].op, code |-> code, did |-> call[c].did,
                 status |-> status, kube |-> call[c].kube]
<1>1. call[c] \in Handler /\ answer \in [Calls -> Answer] /\ call \in [Calls -> Handler]
  BY DEF TypeOK
<1>2. a \in Answer /\ a.op = call[c].op /\ a.code = code
  BY <1>1 DEF Answer, Handler
<1>3. answer' = [answer EXCEPT ![c] = a] /\ call' = [call EXCEPT ![c] = Idle]
  BY DEF Reply
<1> HIDE DEF a
<1>4. answer'[c] = a /\ answer' \in [Calls -> Answer]
  BY <1>1, <1>2, <1>3
<1>5. call'[c] = Idle /\ call' \in [Calls -> Handler]
  BY <1>1, <1>3, IdleType
<1>6. Alone(c)
  BY <1>1, <1>3 DEF Alone
<1> QED
  BY <1>2, <1>4, <1>5, <1>6 DEF Returns

LEMMA OkRefuse ==
    ASSUME TypeOK, NEW c \in Calls
    PROVE  /\ Ok(c) => Returns(c) /\ answer'[c].code = "OK"
           /\ \A code \in {"NotFound", "Internal"} :
                 Refuse(c, code) => Returns(c) /\ answer'[c].code = code
<1>1. "PROVISIONING" \in Status
  BY DEF Status
<1> QED
  BY <1>1, ReplyMoves DEF Ok, Refuse

LEMMA HandleMoves ==
    ASSUME TypeOK, HandlerInv, NEW c \in Calls, Handle(c)
    PROVE  Returns(c) \/ Continues(c)
<1>0. /\ call \in [Calls -> Handler] /\ call[c] \in Handler /\ OnPath(call[c])
      /\ call[c].op \in AllOps
  BY Paths DEF TypeOK, Handler
<1>1. ASSUME NEW s \in Steps, Goto(c, s), s # "idle",
             OnPath([call[c] EXCEPT !.step = s])
      PROVE  Continues(c)
  <2>1. call'[c] = [call[c] EXCEPT !.step = s]
    BY <1>0, <1>1 DEF Goto
  <2> QED
    BY <1>1, <2>1, GotoMoves DEF Continues
<1>2. CASE CreateNamespace(c)
  <2>1. CASE Refuse(c, "Internal")
    BY <2>1, OkRefuse
  <2>2. CASE /\ call' = [call EXCEPT ![c].step = "cluster", ![c].did = TRUE]
             /\ UNCHANGED answer
    <3>1. call[c].op = "CreateCluster"
      BY <1>0, <1>2 DEF CreateNamespace, At, OnPath
    <3>2. call'[c] = [call[c] EXCEPT !.step = "cluster", !.did = TRUE]
      BY <1>0, <2>2
    <3>3. call'[c].step = "cluster" /\ call'[c].op = "CreateCluster" /\ call'[c] \in Handler
      BY <1>0, <3>1, <3>2 DEF Handler, Steps
    <3>4. Alone(c) /\ call' \in [Calls -> Handler]
      BY <1>0, <2>2, <3>3 DEF Alone
    <3> QED
      BY <2>2, <3>1, <3>3, <3>4 DEF Continues, OnPath
  <2> QED
    BY <1>2, <2>1, <2>2 DEF CreateNamespace
<1>3. CASE CreateClusterObject(c)
  <2>1. "master" \in Steps /\ (At(c, "cluster") => OnPath([call[c] EXCEPT !.step = "master"]))
    BY <1>0 DEF Steps, At, OnPath, Handler
  <2> QED
    BY <1>1, <1>3, <2>1, OkRefuse DEF CreateClusterObject
<1>4. CASE CreateControlPlane(c)
  <2>1. "sets" \in Steps /\ (At(c, "master") => OnPath([call[c] EXCEPT !.step = "sets"]))
    BY <1>0 DEF Steps, At, OnPath, Handler
  <2> QED
    BY <1>1, <1>4, <2>1, OkRefuse DEF CreateControlPlane
<1>5. CASE CreateSet(c)
  <2>1. CASE Refuse(c, "Internal")
    BY <2>1, OkRefuse
  <2>2. ASSUME NEW p \in call[c].left, UNCHANGED answer,
               call' = [call EXCEPT ![c].left = @ \ {p}, ![c].did = TRUE]
        PROVE  Continues(c)
    <3>1. call'[c] = [call[c] EXCEPT !.left = @ \ {p}, !.did = TRUE]
      BY <1>0, <2>2
    <3>2. call'[c].step = "sets" /\ call'[c].op = call[c].op /\ call'[c] \in Handler
      BY <1>0, <1>5, <3>1 DEF Handler, CreateSet, At
    <3>3. Alone(c) /\ call' \in [Calls -> Handler]
      BY <1>0, <2>2, <3>2 DEF Alone
    <3> QED
      BY <1>0, <1>5, <2>2, <3>2, <3>3 DEF Continues, OnPath, CreateSet, At
  <2> QED
    BY <1>5, <2>1, <2>2 DEF CreateSet
<1>6. CASE SetsCreated(c) \/ DeleteNamespace(c) \/ UpdateCluster(c) \/ SetsWritten(c)
  BY <1>6, OkRefuse DEF SetsCreated, DeleteNamespace, UpdateCluster, SetsWritten
<1>7. CASE GetKubeConfig(c)
  <2>1. call'[c] = [call[c] EXCEPT !.step = "get", !.kube = vkube] /\ vkube \in BOOLEAN
    BY <1>0, <1>7 DEF GetKubeConfig, TypeOK
  <2>2. call'[c].step = "get" /\ call'[c].op = call[c].op /\ call'[c] \in Handler
    BY <1>0, <2>1 DEF Handler, Steps
  <2>3. Alone(c) /\ call' \in [Calls -> Handler]
    BY <1>0, <1>7, <2>2 DEF Alone, GetKubeConfig
  <2> QED
    BY <1>0, <1>7, <2>2, <2>3 DEF Continues, OnPath, GetKubeConfig, At
<1>8. CASE GetClusterObject(c)
  <2>1. CASE Refuse(c, "NotFound") \/ Refuse(c, "Internal")
    BY <2>1, OkRefuse
  <2>2. CASE Reply(c, "OK", TranslateClusterStatus(vcluster.phase))
    <3>1. vcluster.phase \in {"", "Reconciling", "Running"}
      BY DEF TypeOK, ClusterObj, Phase
    <3>2. TranslateClusterStatus(vcluster.phase) \in Status
      BY <3>1 DEF TranslateClusterStatus, Status
    <3> QED
      BY <2>2, <3>2, ReplyMoves
  <2>3. CASE call[c].op # "GetCluster" /\ Goto(c, AfterGet[call[c].op])
    <3> DEFINE s == AfterGet[call[c].op]
    <3>1. call[c].step = "get" /\ call[c].op \notin {"GetCluster", "CreateCluster"}
      BY <1>0, <1>8, <2>3 DEF GetClusterObject, At, OnPath
    <3>2. /\ s \in {"delete", "update", "sets", "getset"}
          /\ s = "delete" => call[c].op = "DeleteCluster"
          /\ s = "update" => call[c].op = "UpgradeCluster"
          /\ s = "sets" => call[c].op = "AddNodePool"
          /\ s = "getset" => call[c].op \in {"DeleteNodePool", "ScaleNodePool"}
      <4>1. CASE call[c].op = "DeleteCluster"
        BY <4>1 DEF AfterGet
      <4>2. CASE call[c].op = "UpgradeCluster"
        BY <4>2 DEF AfterGet
      <4>3. CASE call[c].op = "AddNodePool"
        BY <4>3 DEF AfterGet
      <4>4. CASE call[c].op = "DeleteNodePool"
        BY <4>4 DEF AfterGet
      <4>5. CASE call[c].op = "ScaleNodePool"
        BY <4>5 DEF AfterGet
      <4> QED
        BY <1>0, <3>1, <4>1, <4>2, <4>3, <4>4, <4>5 DEF AllOps
    <3>3. Goto(c, s)
      BY <2>3
    <3> HIDE DEF s
    <3>4. s \in Steps /\ s # "idle" /\ OnPath([call[c] EXCEPT !.step = s])
      BY <1>0, <3>2 DEF Steps, OnPath, Handler
    <3> QED
      BY <1>1, <3>3, <3>4
  <2> QED
    BY <1>8, <2>1, <2>2, <2>3 DEF GetClusterObject
<1>9. CASE DeleteClusterObject(c)
  <2>1. "getns" \in Steps /\ (At(c, "delete") => OnPath([call[c] EXCEPT !.step = "getns"]))
    BY <1>0 DEF Steps, At, OnPath, Handler
  <2> QED
    BY <1>1, <1>9, <2>1, OkRefuse DEF DeleteClusterObject
<1>10. CASE GetNamespace(c)
  <2>1. "deletens" \in Steps /\ (At(c, "getns") => OnPath([call[c] EXCEPT !.step = "deletens"]))
    BY <1>0 DEF Steps, At, OnPath, Handler
  <2> QED
    BY <1>1, <1>10, <2>1, OkRefuse DEF GetNamespace
<1>11. CASE GetSet(c)
  <2>1. CASE Refuse(c, "NotFound") \/ Refuse(c, "Internal")
    BY <2>1, OkRefuse
  <2>2. ASSUME NEW p \in call[c].left, UNCHANGED answer,
               call' = [call EXCEPT ![c].step = "writeset", ![c].pool = {p}, ![c].left = @ \ {p}]
        PROVE  Continues(c)
    <3> DEFINE P == {p}
               L == call[c].left \ P
    <3>0. P \in SUBSET Pools /\ L \in SUBSET Pools
      BY <1>0, <2>2 DEF Handler
    <3>1. call'[c] = [call[c] EXCEPT !.step = "writeset", !.pool = P, !.left = L]
      BY <1>0, <2>2
    <3> HIDE DEF P, L
    <3>2. call'[c].step = "writeset" /\ call'[c].op = call[c].op /\ call'[c] \in Handler
      BY <1>0, <3>0, <3>1 DEF Handler, Steps
    <3>3. Alone(c) /\ call' \in [Calls -> Handler]
      BY <1>0, <2>2, <3>2 DEF Alone
    <3> QED
      BY <1>0, <1>11, <2>2, <3>2, <3>3 DEF Continues, OnPath, GetSet, At
  <2> QED
    BY <1>11, <2>1, <2>2 DEF GetSet
<1>12. CASE WriteSet(c)
  <2>1. CASE Refuse(c, "Internal")
    BY <2>1, OkRefuse
  <2>2. CASE UNCHANGED answer /\ call' = [call EXCEPT ![c].step = "getset", ![c].pool = {}]
    <3>1. call'[c] = [call[c] EXCEPT !.step = "getset", !.pool = {}]
      BY <1>0, <2>2
    <3>2. call'[c].step = "getset" /\ call'[c].op = call[c].op /\ call'[c] \in Handler
      BY <1>0, <3>1 DEF Handler, Steps
    <3>3. Alone(c) /\ call' \in [Calls -> Handler]
      BY <1>0, <2>2, <3>2 DEF Alone
    <3> QED
      BY <1>0, <1>12, <2>2, <3>2, <3>3 DEF Continues, OnPath, WriteSet, At
  <2> QED
    BY <1>12, <2>1, <2>2 DEF WriteSet
<1> QED
  BY <1>2, <1>3, <1>4, <1>5, <1>6, <1>7, <1>8, <1>9, <1>10, <1>11, <1>12 DEF Handle

\* What a call sees and changes of the cluster.
ObjectsTyped ==
    /\ ns \in {"none", "active", "terminating"} /\ vns \in BOOLEAN
    /\ cluster \in ClusterObj /\ vcluster \in ClusterObj /\ ccur \in SUBSET (Calls \cup {"cache"})
    /\ kube \in BOOLEAN /\ vkube \in BOOLEAN
    /\ pool \in SUBSET Pools /\ vpool \in SUBSET Pools
    /\ pcur \in [Pools -> SUBSET (Calls \cup {"cache"})]
    /\ made \in 0 .. MaxCalls /\ faults \in 0 .. MaxFaults

LEMMA FaultTyped ==
    ASSUME TypeOK, Fault \/ NoFault
    PROVE  faults' \in 0 .. MaxFaults
BY BoundsAssumption DEF TypeOK, Fault, NoFault

LEMMA HandleTyped ==
    ASSUME TypeOK, NEW c \in Calls, Handle(c)
    PROVE  ObjectsTyped'
<1> USE DEF TypeOK, ObjectsTyped, nsVars, clusterVars, secretVars, poolVars
<1>0. NoCluster \in ClusterObj /\ [NoCluster EXCEPT !.live = TRUE] \in ClusterObj
  BY DEF NoCluster, ClusterObj, Phase
<1>1. CASE CreateNamespace(c)
  BY <1>1, FaultTyped DEF CreateNamespace
<1>2. CASE CreateClusterObject(c)
  <2>1. faults' \in 0 .. MaxFaults
    BY <1>2, FaultTyped DEF CreateClusterObject
  <2>2. cluster' \in ClusterObj /\ ccur' \in SUBSET (Calls \cup {"cache"})
    BY <1>0, <1>2 DEF CreateClusterObject
  <2> QED
    BY <1>2, <2>1, <2>2 DEF CreateClusterObject
<1>3. CASE CreateControlPlane(c)
  BY <1>3, FaultTyped DEF CreateControlPlane
<1>4. CASE CreateSet(c)
  <2>1. faults' \in 0 .. MaxFaults
    BY <1>4, FaultTyped DEF CreateSet
  <2>2. call[c].left \in SUBSET Pools
    <3>1. call[c] \in Handler
      OBVIOUS
    <3> QED
      BY <3>1 DEF Handler
  <2>3. pool' \in SUBSET Pools /\ pcur' \in [Pools -> SUBSET (Calls \cup {"cache"})]
    BY <1>4, <2>2 DEF CreateSet
  <2> QED
    BY <1>4, <2>1, <2>3 DEF CreateSet
<1>5. CASE SetsCreated(c) \/ SetsWritten(c) \/ GetKubeConfig(c)
  BY <1>5 DEF SetsCreated, SetsWritten, GetKubeConfig
<1>6. CASE GetClusterObject(c)
  <2>1. ccur' \in SUBSET (Calls \cup {"cache"})
    BY <1>6 DEF GetClusterObject, CopiedBy
  <2>2. faults' \in 0 .. MaxFaults
    BY <1>6, FaultTyped DEF GetClusterObject
  <2> QED
    BY <1>6, <2>1, <2>2 DEF GetClusterObject
<1>7. CASE DeleteClusterObject(c)
  <2>1. faults' \in 0 .. MaxFaults
    BY <1>7, FaultTyped DEF DeleteClusterObject
  <2>2. cluster' \in ClusterObj /\ ccur' \in SUBSET (Calls \cup {"cache"})
    BY <1>0, <1>7 DEF DeleteClusterObject
  <2> QED
    BY <1>7, <2>1, <2>2 DEF DeleteClusterObject
<1>8. CASE GetNamespace(c)
  BY <1>8, FaultTyped DEF GetNamespace
<1>9. CASE DeleteNamespace(c)
  BY <1>9, FaultTyped DEF DeleteNamespace
<1>10. CASE UpdateCluster(c)
  <2>1. faults' \in 0 .. MaxFaults
    BY <1>10, FaultTyped DEF UpdateCluster
  <2>2. ccur' \in SUBSET (Calls \cup {"cache"})
    BY <1>10 DEF UpdateCluster
  <2> QED
    BY <1>10, <2>1, <2>2 DEF UpdateCluster
<1>11. CASE GetSet(c)
  <2>1. pcur' \in [Pools -> SUBSET (Calls \cup {"cache"})]
    <3>1. UNCHANGED pcur \/ \E p : pcur' = [pcur EXCEPT ![p] = CopiedBy(c, @)]
      BY <1>11 DEF GetSet
    <3>2. ASSUME NEW p, pcur' = [pcur EXCEPT ![p] = CopiedBy(c, @)]
          PROVE  pcur' \in [Pools -> SUBSET (Calls \cup {"cache"})]
      BY <3>2 DEF CopiedBy
    <3> QED
      BY <3>1, <3>2
  <2>2. faults' \in 0 .. MaxFaults
    BY <1>11, FaultTyped DEF GetSet
  <2> QED
    BY <1>11, <2>1, <2>2 DEF GetSet
<1>12. CASE WriteSet(c)
  <2>1. faults' \in 0 .. MaxFaults
    BY <1>12, FaultTyped DEF WriteSet
  <2>2. pool' \in SUBSET Pools /\ pcur' \in [Pools -> SUBSET (Calls \cup {"cache"})]
    BY <1>12 DEF WriteSet
  <2> QED
    BY <1>12, <2>1, <2>2 DEF WriteSet
<1> QED
  BY <1>1, <1>2, <1>3, <1>4, <1>5, <1>6, <1>7, <1>8, <1>9, <1>10, <1>11, <1>12 DEF Handle

LEMMA OthersTyped ==
    ASSUME TypeOK, Others \/ UNCHANGED vars
    PROVE  /\ ObjectsTyped' /\ UNCHANGED <<call, answer>>
           /\ masters' \in {masters, 0} /\ masters' \in 0 .. MaxCalls /\ UNCHANGED made
<1> USE DEF TypeOK, ObjectsTyped, nsVars, clusterVars, secretVars, poolVars
<1>0. NoCluster \in ClusterObj /\ 0 \in 0 .. MaxCalls
  <2>1. NoCluster \in ClusterObj
    BY DEF NoCluster, ClusterObj, Phase
  <2>2. 0 \in 0 .. MaxCalls
    BY BoundsAssumption
  <2> QED
    BY <2>1, <2>2
<1>1. CASE RefreshNamespace \/ RefreshCluster \/ RefreshSecret \/ UNCHANGED vars
  BY <1>1 DEF RefreshNamespace, RefreshCluster, RefreshSecret, vars
<1>2. CASE NamespaceGoes
  <2>1. /\ ns' = "none" /\ cluster' = NoCluster /\ kube' = FALSE /\ pool' = {} /\ masters' = 0
        /\ UNCHANGED <<vns, vcluster, vkube, vpool, call, answer, made, faults>>
    BY <1>2 DEF NamespaceGoes
  <2>2. ccur' \in SUBSET (Calls \cup {"cache"})
    BY <1>2 DEF NamespaceGoes
  <2>3. pcur' \in [Pools -> SUBSET (Calls \cup {"cache"})]
    BY <1>2 DEF NamespaceGoes
  <2> QED
    BY <1>0, <2>1, <2>2, <2>3
<1>3. CASE ClusterAdvances
  <2>1. cluster' \in ClusterObj
    <3>1. CASE cluster' = [cluster EXCEPT !.phase = "Reconciling"]
      BY <3>1 DEF ClusterObj, Phase
    <3>2. CASE cluster' = [cluster EXCEPT !.phase = "Running"]
      BY <3>2 DEF ClusterObj, Phase
    <3> QED
      BY <1>3, <3>1, <3>2 DEF ClusterAdvances
  <2> QED
    BY <1>3, <2>1 DEF ClusterAdvances
<1>4. CASE KubeconfigStored
  BY <1>4 DEF KubeconfigStored
<1>5. ASSUME NEW p \in Pools, RefreshPool(p)
      PROVE  /\ ObjectsTyped' /\ UNCHANGED <<call, answer>>
             /\ masters' \in {masters, 0} /\ masters' \in 0 .. MaxCalls /\ UNCHANGED made
  <2>1. vpool' \in SUBSET Pools /\ pcur' \in [Pools -> SUBSET (Calls \cup {"cache"})]
    BY <1>5 DEF RefreshPool
  <2> QED
    BY <1>5, <2>1 DEF RefreshPool
<1>6. ASSUME NEW p \in Pools, StatusWritten(p)
      PROVE  /\ ObjectsTyped' /\ UNCHANGED <<call, answer>>
             /\ masters' \in {masters, 0} /\ masters' \in 0 .. MaxCalls /\ UNCHANGED made
  BY <1>6 DEF StatusWritten
<1> QED
  BY <1>1, <1>2, <1>3, <1>4, <1>5, <1>6 DEF Others

\* The call that a client makes.
LEMMA RequestMoves ==
    ASSUME TypeOK, NEW c \in Calls, Request(c)
    PROVE  /\ ObjectsTyped' /\ Alone(c) /\ call' \in [Calls -> Handler]
           /\ answer' \in [Calls -> Answer] /\ answer'[c] = NoAnswer
           /\ call[c].step = "idle" /\ call'[c].step \in {"namespace", "secret", "get"}
           /\ OnPath(call'[c]) /\ call'[c].op \in Ops
           /\ UNCHANGED <<ns, cluster, masters>> /\ made' = made + 1
<1>0. call \in [Calls -> Handler] /\ answer \in [Calls -> Answer] /\ made \in 0 .. MaxCalls
  BY DEF TypeOK
<1>1. PICK op \in Ops, S \in SUBSET Pools :
          call' = [call EXCEPT ![c] = [Idle EXCEPT !.op = op, !.step = FirstStep(op), !.left = S]]
  BY DEF Request
<1> DEFINE h == [Idle EXCEPT !.op = op, !.step = FirstStep(op), !.left = S]
           s == FirstStep(op)
<1>2. op \in AllOps
  BY OpsAssumption
<1>3. /\ s \in {"namespace", "secret", "get"}
      /\ s = "namespace" => op = "CreateCluster"
      /\ s = "secret" => op = "GetCluster"
      /\ s = "get" => op # "CreateCluster"
  BY <1>2 DEF FirstStep, AllOps
<1>4. h = [Idle EXCEPT !.op = op, !.step = s, !.left = S]
  OBVIOUS
<1>41. s \in Steps
  BY <1>3 DEF Steps
<1> HIDE DEF s, h
<1>5. h.step = s /\ h.op = op /\ h \in Handler /\ OnPath(h)
  <2>1. Idle \in Handler
    BY IdleType
  <2>2. h.step = s /\ h.op = op /\ h \in Handler
    BY <1>2, <1>4, <1>41, <2>1 DEF Handler
  <2> QED
    BY <1>3, <2>2 DEF OnPath
<1>6. call' = [call EXCEPT ![c] = h]
  BY <1>1 DEF h
<1> HIDE DEF h
<1>7. call'[c] = h /\ call' \in [Calls -> Handler] /\ answer' = [answer EXCEPT ![c] = NoAnswer]
  BY <1>0, <1>5, <1>6 DEF Request
<1>8. answer'[c] = NoAnswer /\ answer' \in [Calls -> Answer] /\ Alone(c)
  BY <1>0, <1>6, <1>7, IdleType DEF Alone
<1>9. made' \in 0 .. MaxCalls /\ made' = made + 1 /\ call[c].step = "idle"
  BY <1>0, BoundsAssumption DEF Request, At
<1>10. ObjectsTyped' /\ UNCHANGED <<ns, cluster, masters>>
  BY <1>9 DEF TypeOK, ObjectsTyped, Request, nsVars, clusterVars, secretVars, poolVars
<1> QED
  BY <1>3, <1>5, <1>7, <1>8, <1>9, <1>10

(***************************************************************************)
(* Types.  The number of machines is bounded by the number of calls, so    *)
(* that the type invariant needs the steps that lead to one.               *)
(***************************************************************************)
Early == {"namespace", "cluster", "master"}

LEMMA EarlySteps ==
    ASSUME TypeOK, HandlerInv, NEW c \in Calls, Handle(c)
    PROVE  /\ call[c].step # "idle"
           /\ call'[c].step \in Early => call[c].step \in Early
           /\ \/ masters' = masters
              \/ masters' = masters + 1 /\ call[c].step = "master" /\ call'[c].step = "sets"
<1>0. /\ call \in [Calls -> Handler] /\ call[c] \in Handler /\ OnPath(call[c])
      /\ Returns(c) \/ Continues(c)
  BY Paths, HandleMoves DEF TypeOK
<1>1. call[c].step # "idle"
  BY DEF Handle, CreateNamespace, CreateClusterObject, CreateControlPlane, CreateSet, SetsCreated,
     GetKubeConfig, GetClusterObject, DeleteClusterObject, GetNamespace, DeleteNamespace,
     UpdateCluster, GetSet, WriteSet, SetsWritten, At
<1>2. ASSUME call'[c].step \in Early PROVE call[c].step \in Early
  <2>1. Continues(c) /\ call'[c].op = "CreateCluster" /\ call[c].op = "CreateCluster"
    BY <1>0, <1>2, IdleType DEF Returns, Continues, OnPath, Early
  <2>2. CASE call[c].step = "sets"
    <3>1. CreateSet(c) \/ SetsCreated(c)
      BY <2>2 DEF Handle, CreateNamespace, CreateClusterObject, CreateControlPlane,
         GetKubeConfig, GetClusterObject, DeleteClusterObject, GetNamespace, DeleteNamespace,
         UpdateCluster, GetSet, WriteSet, SetsWritten, At
    <3>2. ASSUME Refuse(c, "Internal") \/ Ok(c) PROVE FALSE
      BY <1>2, <3>2, OkRefuse, IdleType DEF Returns, Early
    <3>3. call'[c].step = "sets"
      <4>1. ASSUME NEW p, call' = [call EXCEPT ![c].left = @ \ {p}, ![c].did = TRUE]
            PROVE  call'[c].step = "sets"
        <5>1. call'[c] = [call[c] EXCEPT !.left = @ \ {p}, !.did = TRUE]
          BY <1>0, <4>1
        <5> QED
          BY <1>0, <2>2, <5>1 DEF Handler
      <4> QED
        BY <3>1, <3>2, <4>1 DEF CreateSet, SetsCreated
    <3> QED
      BY <1>2, <3>3 DEF Early
  <2> QED
    BY <1>0, <1>1, <2>1, <2>2 DEF OnPath, Early, Handler, Steps
<1>3. CASE CreateControlPlane(c)
  <2>1. ASSUME Goto(c, "sets") PROVE call'[c].step = "sets"
    BY <1>0, <2>1 DEF Goto
  <2> QED
    BY <1>1, <1>2, <1>3, <2>1 DEF CreateControlPlane, At
<1>4. CASE ~CreateControlPlane(c)
  BY <1>1, <1>2, <1>4
     DEF Handle, CreateNamespace, CreateClusterObject, CreateSet, SetsCreated, GetKubeConfig,
     GetClusterObject, DeleteClusterObject, GetNamespace, DeleteNamespace, UpdateCluster, GetSet,
     WriteSet, SetsWritten
<1> QED
  BY <1>3, <1>4

LEMMA HandleKeepsMade ==
    ASSUME NEW c \in Calls, Handle(c)
    PROVE  UNCHANGED made
BY DEF Handle, CreateNamespace, CreateClusterObject, CreateControlPlane, CreateSet, SetsCreated,
   GetKubeConfig, GetClusterObject, DeleteClusterObject, GetNamespace, DeleteNamespace,
   UpdateCluster, GetSet, WriteSet, SetsWritten

Typed == TypeOK /\ HandlerInv /\ MastersCounted

\* The calls that may still make a machine are a finite set.
LEMMA CreatingFinite ==
    ASSUME TypeOK
    PROVE  /\ IsFiniteSet(Creating) /\ Cardinality(Creating) \in Nat
           /\ \A S \in SUBSET Creating : IsFiniteSet(S) /\ Cardinality(S) \in Nat
                                         /\ Cardinality(S) <= Cardinality(Creating)
<1>1. IsFiniteSet(Creating)
  BY CallsAssumption, FS_Subset DEF Creating
<1> QED
  BY <1>1, FS_Subset, FS_CardinalityType

\* From the parts of a step to the types of the next state.
LEMMA TypedAgain ==
    ASSUME Typed, ObjectsTyped', call' \in [Calls -> Handler], answer' \in [Calls -> Answer],
           masters' \in Nat, HandlerInv', MastersCounted', IsFiniteSet(Creating')
    PROVE  Typed'
<1>1. Cardinality(Creating') \in Nat /\ made' \in 0 .. MaxCalls
  BY FS_CardinalityType DEF ObjectsTyped
<1>2. masters' \in 0 .. MaxCalls
  BY <1>1, BoundsAssumption DEF MastersCounted
<1> QED
  BY <1>2 DEF Typed, TypeOK, ObjectsTyped

\* A handler stays on its path; so does a call that ends.
LEMMA PathKept ==
    ASSUME TypeOK, HandlerInv, NEW c \in Calls, Alone(c), call' \in [Calls -> Handler],
           call'[c].step = "idle" \/ OnPath(call'[c])
    PROVE  HandlerInv'
<1>1. \A d \in Calls : OnPath(call[d])
  BY Paths
<1>2. \A d \in Calls : call'[d].step = "idle" \/ OnPath(call'[d])
  BY <1>1 DEF Alone
<1>3. \A d \in Calls : call'[d].step = "idle" \/ call'[d].step \in StepsOf[call'[d].op]
  BY <1>2, Path
<1> QED
  BY <1>3 DEF HandlerInv, At

LEMMA HandleStep ==
    ASSUME Typed, NEW c \in Calls, Handle(c)
    PROVE  Typed'
<1>0. /\ TypeOK /\ HandlerInv /\ MastersCounted /\ masters \in Nat /\ made \in Nat
      /\ UNCHANGED made /\ ObjectsTyped' /\ call \in [Calls -> Handler]
      /\ answer \in [Calls -> Answer]
  BY HandleTyped, HandleKeepsMade DEF Typed, TypeOK
<1>1. /\ Alone(c) /\ call' \in [Calls -> Handler] /\ answer' \in [Calls -> Answer]
      /\ call'[c].step = "idle" \/ OnPath(call'[c])
  BY <1>0, HandleMoves, IdleType DEF Returns, Continues
<1>2. HandlerInv'
  BY <1>0, <1>1, PathKept
<1>3. Creating' \subseteq Creating
  <2>1. call'[c].step \in Early => call[c].step \in Early
    BY <1>0, EarlySteps
  <2> QED
    BY <1>1, <2>1 DEF Alone, Creating, Early
<1>4. /\ IsFiniteSet(Creating) /\ IsFiniteSet(Creating') /\ Cardinality(Creating) \in Nat
      /\ Cardinality(Creating') \in Nat /\ Cardinality(Creating') <= Cardinality(Creating)
  BY <1>0, <1>3, CreatingFinite
<1>5. CASE masters' = masters
  BY <1>0, <1>1, <1>2, <1>4, <1>5, TypedAgain DEF MastersCounted
<1>6. CASE masters' = masters + 1 /\ call[c].step = "master" /\ call'[c].step = "sets"
  <2>1. c \in Creating /\ Creating' \subseteq Creating \ {c}
    BY <1>3, <1>6 DEF Creating
  <2>2. /\ IsFiniteSet(Creating \ {c}) /\ Cardinality(Creating \ {c}) = Cardinality(Creating) - 1
    BY <1>4, <2>1, FS_RemoveElement
  <2>3. Cardinality(Creating') <= Cardinality(Creating) - 1
    BY <2>1, <2>2, FS_Subset
  <2> QED
    BY <1>0, <1>1, <1>2, <1>4, <1>6, <2>3, TypedAgain DEF MastersCounted
<1> QED
  BY <1>0, <1>5, <1>6, EarlySteps

LEMMA RequestStep ==
    ASSUME Typed, NEW c \in Calls, Request(c)
    PROVE  Typed'
<1>0. /\ TypeOK /\ HandlerInv /\ MastersCounted /\ masters \in Nat /\ made \in Nat
      /\ ObjectsTyped' /\ Alone(c) /\ call' \in [Calls -> Handler] /\ answer' \in [Calls -> Answer]
      /\ OnPath(call'[c]) /\ masters' = masters /\ made' = made + 1
  BY RequestMoves DEF Typed, TypeOK
<1>1. HandlerInv'
  BY <1>0, PathKept
<1>2. Creating' \subseteq Creating \cup {c}
  BY <1>0 DEF Alone, Creating
<1>3. /\ IsFiniteSet(Creating) /\ Cardinality(Creating) \in Nat
  BY <1>0, CreatingFinite
<1>4. /\ IsFiniteSet(Creating \cup {c})
      /\ Cardinality(Creating \cup {c}) \in {Cardinality(Creating), Cardinality(Creating) + 1}
  BY <1>3, FS_AddElement
<1>5. IsFiniteSet(Creating') /\ Cardinality(Creating') <= Cardinality(Creating \cup {c})
  BY <1>2, <1>4, FS_Subset
<1>6. Cardinality(Creating') \in Nat
  BY <1>5, FS_CardinalityType
<1> QED
  BY <1>0, <1>1, <1>3, <1>4, <1>5, <1>6, TypedAgain DEF MastersCounted

LEMMA OthersStep ==
    ASSUME Typed, Others \/ UNCHANGED vars
    PROVE  Typed'
<1>0. /\ TypeOK /\ HandlerInv /\ MastersCounted /\ masters \in Nat /\ made \in Nat
      /\ ObjectsTyped' /\ call' = call /\ answer' = answer /\ made' = made
      /\ masters' \in {masters, 0}
  BY OthersTyped DEF Typed, TypeOK
<1>1. HandlerInv' /\ Creating' = Creating
  BY <1>0 DEF HandlerInv, Creating, At
<1>2. IsFiniteSet(Creating) /\ Cardinality(Creating) \in Nat
  BY <1>0, CreatingFinite
<1>3. MastersCounted'
  BY <1>0, <1>1, <1>2 DEF MastersCounted
<1> QED
  BY <1>0, <1>1, <1>2, <1>3, TypedAgain DEF TypeOK

LEMMA TypedInit == Init => Typed
<1> SUFFICES ASSUME Init PROVE Typed
  OBVIOUS
<1>1. TypeOK
  <2>1. NoCluster \in ClusterObj
    BY DEF NoCluster, ClusterObj, Phase
  <2>2. 0 \in 0 .. MaxCalls /\ 0 \in 0 .. MaxFaults
    BY BoundsAssumption
  <2>3. call \in [Calls -> Handler] /\ answer \in [Calls -> Answer]
    BY IdleType DEF Init
  <2> QED
    BY <2>1, <2>2, <2>3 DEF Init, TypeOK
<1>2. HandlerInv /\ Creating = {}
  BY IdleType DEF Init, HandlerInv, At, Creating
<1>3. MastersCounted
  BY <1>2, FS_EmptySet DEF Init, MastersCounted
<1> QED
  BY <1>1, <1>2, <1>3 DEF Typed

\* A handler holds a step of its own call, a copy it has read and an answer of
\* its operation, and there are no more machines than calls.
THEOREM TypesKept == Spec => []TypeOK
<1>1. Typed /\ [Next]_vars => Typed'
  BY HandleStep, RequestStep, OthersStep DEF Next
<1>2. Spec => []Typed
  BY TypedInit, <1>1, PTL DEF Spec
<1>3. Typed => TypeOK
  BY DEF Typed
<1> QED
  BY <1>2, <1>3, PTL

(***************************************************************************)
(* What the calls leave of a cluster.                                      *)
(***************************************************************************)
Tending == {"cluster", "getns", "deletens"}

LEMMA Faultless ==
    ASSUME TypeOK, UNCHANGED faults
    PROVE  ~Fault
BY DEF TypeOK, Fault

\* A call whose step tends to no cluster leaves none by going on.
LEMMA Untended ==
    ASSUME NEW c \in Calls, Alone(c), call[c].step \notin Tending,
           ns' = ns, cluster'.live = cluster.live, Abandoned'
    PROVE  Abandoned
<1>1. ASSUME Tended PROVE Tended'
  <2>1. PICK d \in Calls : call[d].step \in Tending
    BY <1>1 DEF Tended, Tending
  <2>2. call'[d].step \in Tending
    BY <2>1 DEF Alone
  <2> QED
    BY <2>2 DEF Tended, Tending
<1> QED
  BY <1>1 DEF Abandoned

LEMMA HandleLeaves ==
    ASSUME TypeOK, HandlerInv, NEW c \in Calls, Handle(c), ~Abandoned, Abandoned',
           faults' = faults
    PROVE  Overlooked
<1> SUFFICES ASSUME ~Overlooked PROVE FALSE
  OBVIOUS
<1>0. /\ call \in [Calls -> Handler] /\ Alone(c) /\ ~Fault
      /\ ns' = "active" /\ ~cluster'.live /\ call'[c].step \notin Tending
      /\ call[c].step \in Tending \/ ns' # ns \/ cluster'.live # cluster.live
  <2>1. Alone(c)
    BY HandleMoves DEF Returns, Continues
  <2>2. ns' = "active" /\ ~cluster'.live /\ call'[c].step \notin Tending
    BY DEF Abandoned, Tended, Tending
  <2> QED
    BY <2>1, <2>2, Untended, Faultless DEF TypeOK
<1>1. ~CreateNamespace(c)
  <2> SUFFICES ASSUME CreateNamespace(c) PROVE FALSE
    OBVIOUS
  <2>1. ns' # ns /\ call' = [call EXCEPT ![c].step = "cluster", ![c].did = TRUE]
    BY <1>0 DEF CreateNamespace, clusterVars, At, Tending
  <2>2. call'[c] = [call[c] EXCEPT !.step = "cluster", !.did = TRUE]
    BY <1>0, <2>1
  <2>3. call'[c].step = "cluster"
    BY <1>0, <2>2 DEF Handler
  <2> QED
    BY <1>0, <2>3 DEF Tending
<1>2. ~CreateClusterObject(c)
  <2> SUFFICES ASSUME CreateClusterObject(c) PROVE FALSE
    OBVIOUS
  <2>1. ns' = ns
    BY DEF CreateClusterObject, nsVars
  <2>2. ASSUME cluster' = [NoCluster EXCEPT !.live = TRUE] PROVE cluster'.live
    BY <2>2 DEF NoCluster
  <2>3. UNCHANGED cluster /\ (ns # "active" \/ cluster.live)
    BY <1>0, <2>2 DEF CreateClusterObject
  <2> QED
    BY <1>0, <2>1, <2>3
<1>3. ~DeleteClusterObject(c)
  <2> SUFFICES ASSUME DeleteClusterObject(c) PROVE FALSE
    OBVIOUS
  <2>1. ns' = ns /\ call[c].step \notin Tending
    BY DEF DeleteClusterObject, nsVars, At, Tending
  <2>2. Goto(c, "getns")
    BY <1>0, <2>1 DEF DeleteClusterObject
  <2>3. call'[c].step = "getns"
    BY <1>0, <2>2 DEF Goto
  <2> QED
    BY <1>0, <2>3 DEF Tending
<1>4. ~GetNamespace(c)
  <2> SUFFICES ASSUME GetNamespace(c) PROVE FALSE
    OBVIOUS
  <2>1. vns
    BY DEF GetNamespace, Overlooked
  <2>2. Goto(c, "deletens")
    BY <1>0, <2>1 DEF GetNamespace, NamespaceSeen
  <2>3. call'[c].step = "deletens"
    BY <1>0, <2>2 DEF Goto
  <2> QED
    BY <1>0, <2>3 DEF Tending
<1>5. ~DeleteNamespace(c)
  BY <1>0 DEF DeleteNamespace
<1>6. ~(SetsCreated(c) \/ CreateControlPlane(c) \/ CreateSet(c) \/ GetKubeConfig(c)
        \/ GetClusterObject(c) \/ UpdateCluster(c) \/ GetSet(c) \/ WriteSet(c) \/ SetsWritten(c))
  BY <1>0 DEF SetsCreated, CreateControlPlane, CreateSet, GetKubeConfig, GetClusterObject,
     UpdateCluster, GetSet, WriteSet, SetsWritten, At, Tending, nsVars, clusterVars
<1> QED
  BY <1>1, <1>2, <1>3, <1>4, <1>5, <1>6 DEF Handle

LEMMA OthersLeave ==
    ASSUME TypeOK, Others \/ UNCHANGED vars, Abandoned'
    PROVE  Abandoned
<1>1. UNCHANGED call /\ ns' = "active" /\ ~cluster'.live
  BY OthersTyped DEF Abandoned
<1>2. ns' = ns /\ cluster'.live = cluster.live
  <2>1. CASE ClusterAdvances
    <3>1. CASE cluster' = [cluster EXCEPT !.phase = "Reconciling"]
      BY <2>1, <3>1 DEF ClusterAdvances, TypeOK, ClusterObj, nsVars
    <3>2. CASE cluster' = [cluster EXCEPT !.phase = "Running"]
      BY <2>1, <3>2 DEF ClusterAdvances, TypeOK, ClusterObj, nsVars
    <3> QED
      BY <2>1, <3>1, <3>2 DEF ClusterAdvances
  <2>2. CASE ~ClusterAdvances
    BY <1>1, <2>2 DEF Others, RefreshNamespace, RefreshCluster, RefreshSecret, NamespaceGoes,
       KubeconfigStored, RefreshPool, StatusWritten, nsVars, clusterVars, vars
  <2> QED
    BY <2>1, <2>2
<1> QED
  BY <1>1, <1>2 DEF Abandoned, Tended

\* A namespace without its cluster is left behind by a failed write of
\* CreateCluster or DeleteCluster, or by a cache that does not show it, and by
\* no interleaving of calls.
THEOREM NothingLeftBehind == Spec => NoLeftovers
<1> DEFINE Leaves == ~Abandoned /\ Abandoned' => faults' # faults \/ Overlooked
<1>1. TypeOK /\ HandlerInv /\ [Next]_vars => Leaves
  <2> SUFFICES ASSUME TypeOK, HandlerInv, [Next]_vars, ~Abandoned, Abandoned', faults' = faults
               PROVE  Overlooked
    OBVIOUS
  <2>1. ASSUME NEW c \in Calls, Request(c) PROVE FALSE
    <3>1. Alone(c) /\ call[c].step \notin Tending /\ UNCHANGED <<ns, cluster>>
      BY <2>1, RequestMoves DEF Tending
    <3> QED
      BY <3>1, Untended
  <2> QED
    BY <2>1, HandleLeaves, OthersLeave DEF Next
<1> HIDE DEF Leaves
<1>2. Typed /\ [Next]_vars => Typed'
  BY HandleStep, RequestStep, OthersStep DEF Next
<1>3. Typed => TypeOK /\ HandlerInv
  BY DEF Typed
<1>4. Spec => [][Leaves]_vars
  BY TypedInit, <1>1, <1>2, <1>3, PTL DEF Spec
<1> USE DEF Leaves
<1> QED
  BY <1>4 DEF NoLeftovers

\* The one way to answer a DeleteCluster with Ok.
LEMMA HandleDeletes ==
    ASSUME TypeOK, HandlerInv, NEW c \in Calls, Handle(c),
           answer'[c].op = "DeleteCluster", answer'[c].code = "OK", answer[c] = NoAnswer
    PROVE  ns' # "active" \/ faults' # faults \/ Overlooked
<1> SUFFICES ASSUME UNCHANGED faults, ~Overlooked PROVE ns' # "active"
  OBVIOUS
<1>0. ~Fault /\ OnPath(call[c]) /\ Returns(c)
  BY Faultless, Paths, HandleMoves, IdleType DEF Continues
<1>1. call[c].op = "DeleteCluster"
  BY <1>0 DEF Returns
<1>2. call[c].step \in {"get", "delete", "getns", "deletens"}
  <2>1. call[c].step \in Steps /\ call[c].step # "idle"
    BY EarlySteps DEF TypeOK, Handler
  <2> QED
    BY <1>0, <1>1, <2>1 DEF OnPath, Steps
<1>3. ~Refuse(c, "Internal") /\ ~Refuse(c, "NotFound")
  BY OkRefuse
<1>4. \A s \in Steps \ {"idle"} : ~Goto(c, s)
  BY <1>0, GotoMoves, IdleType DEF Returns
<1>5. "getns" \in Steps \ {"idle"} /\ "deletens" \in Steps \ {"idle"} /\ "delete" \in Steps \ {"idle"}
  BY DEF Steps
<1>6. ~GetClusterObject(c)
  <2>1. AfterGet[call[c].op] = "delete"
    BY <1>1 DEF AfterGet
  <2> QED
    BY <1>1, <1>3, <1>4, <1>5, <2>1 DEF GetClusterObject
<1>7. ~DeleteClusterObject(c)
  BY <1>0, <1>3, <1>4, <1>5 DEF DeleteClusterObject
<1>8. ~GetNamespace(c)
  BY <1>0, <1>3, <1>4, <1>5 DEF GetNamespace, NamespaceSeen, Overlooked
<1>9. DeleteNamespace(c)
  BY <1>2, <1>6, <1>7, <1>8
     DEF Handle, CreateNamespace, CreateClusterObject, CreateControlPlane, CreateSet, SetsCreated,
     GetKubeConfig, UpdateCluster, GetSet, WriteSet, SetsWritten, At
<1> QED
  BY <1>0, <1>3, <1>9 DEF DeleteNamespace

\* The client that deletes a cluster is told so only when the namespace is on
\* its way out, whatever other calls do to it in between.
THEOREM DeletedIsGone == Spec => DeletedMeansGone
<1> DEFINE Gone == \A c \in Calls : Answered(c, "DeleteCluster", "OK") =>
                      ns' # "active" \/ faults' # faults \/ Overlooked
<1>1. TypeOK /\ HandlerInv /\ [Next]_vars => Gone
  <2> SUFFICES ASSUME TypeOK, HandlerInv, [Next]_vars, NEW c \in Calls,
                      answer'[c].op = "DeleteCluster", answer'[c].code = "OK", answer[c] = NoAnswer
               PROVE  ns' # "active" \/ faults' # faults \/ Overlooked
    BY DEF Answered
  <2>1. answer'[c] # answer[c] /\ answer'[c] # NoAnswer
    BY IdleType
  <2>2. ASSUME NEW d \in Calls, Handle(d) PROVE Handle(c)
    BY <2>1, <2>2, HandleMoves DEF Returns, Continues, Alone
  <2>3. ASSUME NEW d \in Calls PROVE ~Request(d)
    BY <2>1, <2>3, RequestMoves DEF Alone
  <2>4. ~Others /\ ~UNCHANGED vars
    BY <2>1, OthersTyped
  <2> QED
    BY <2>2, <2>3, <2>4, HandleDeletes DEF Next
<1> HIDE DEF Gone
<1>2. Typed /\ [Next]_vars => Typed'
  BY HandleStep, RequestStep, OthersStep DEF Next
<1>3. Typed => TypeOK /\ HandlerInv
  BY DEF Typed
<1>4. Spec => [][Gone]_vars
  BY TypedInit, <1>1, <1>2, <1>3, PTL DEF Spec
<1> USE DEF Gone
<1> QED
  BY <1>4 DEF DeletedMeansGone

(***************************************************************************)
(* The gateway, where no client deletes clusters.                          *)
(***************************************************************************)
CreatorInv == SoleCreator /\ CreatedInv /\ SingleControlPlane

\* A step that leaves namespace, cluster and machines as they are.
LEMMA QuietStep ==
    ASSUME CreatorInv, NEW c \in Calls, Alone(c),
           ns' = ns, cluster'.live = cluster.live, masters' = masters,
           call'[c].step \notin {"cluster", "master"}, call'[c].op # "DeleteCluster",
           call'[c].step = "sets" /\ call'[c].op = "CreateCluster" => Made,
           answer'[c].op = "CreateCluster" /\ answer'[c].code = "OK" => Made
    PROVE  CreatorInv'
<1>1. SoleCreator'
  <2>1. ASSUME NEW d \in Calls, call'[d].step \in {"cluster", "master"}
        PROVE  d # c /\ call[d].step \in {"cluster", "master"}
    BY <2>1 DEF Alone
  <2>2. \A d \in Calls : call'[d].op # "DeleteCluster"
    BY DEF Alone, CreatorInv, SoleCreator
  <2> QED
    BY <2>1, <2>2 DEF CreatorInv, SoleCreator
<1>2. Made' <=> Made
  BY DEF Made
<1>3. ASSUME NEW d \in Calls
      PROVE  /\ call'[d].step = "master" => cluster'.live
             /\ call'[d].step = "sets" /\ call'[d].op = "CreateCluster" => Made
             /\ answer'[d].op = "CreateCluster" /\ answer'[d].code = "OK" => Made
  BY DEF CreatorInv, CreatedInv, At, Alone
<1> QED
  BY <1>1, <1>2, <1>3 DEF CreatorInv, CreatedInv, SingleControlPlane, At

\* What a call does that is no CreateCluster and no DeleteCluster.
LEMMA OtherCalls ==
    ASSUME TypeOK, HandlerInv, CreatorInv, NEW c \in Calls, Handle(c),
           call[c].op # "CreateCluster"
    PROVE  CreatorInv'
<1>0. /\ OnPath(call[c]) /\ call[c].op # "DeleteCluster"
      /\ Returns(c) \/ Continues(c)
  BY Paths, HandleMoves DEF CreatorInv, SoleCreator
<1>1. call[c].step \notin {"namespace", "cluster", "master", "delete", "getns", "deletens"}
  BY <1>0 DEF OnPath
<1>2. ns' = ns /\ cluster'.live = cluster.live /\ masters' = masters
  BY <1>1 DEF Handle, CreateNamespace, CreateClusterObject, CreateControlPlane, CreateSet,
     SetsCreated, GetKubeConfig, GetClusterObject, DeleteClusterObject, GetNamespace,
     DeleteNamespace, UpdateCluster, GetSet, WriteSet, SetsWritten, At, nsVars, clusterVars
<1>3. CASE Returns(c)
  <2>1. /\ Alone(c) /\ call'[c].step \notin {"cluster", "master", "sets"}
        /\ call'[c].op # "DeleteCluster" /\ answer'[c].op # "CreateCluster"
    BY <1>3, IdleType DEF Returns
  <2> QED
    BY <1>2, <2>1, QuietStep
<1>4. CASE Continues(c)
  <2>1. /\ Alone(c) /\ UNCHANGED answer /\ call'[c].op = call[c].op
        /\ call'[c].step \notin {"cluster", "master"}
    BY <1>4 DEF Continues, OnPath
  <2>2. answer'[c].op = "CreateCluster" /\ answer'[c].code = "OK" => Made
    BY <2>1 DEF CreatorInv, CreatedInv
  <2> QED
    BY <1>0, <1>2, <2>1, <2>2, QuietStep
<1> QED
  BY <1>0, <1>3, <1>4

\* A call that is refused.
LEMMA RefusedCalls ==
    ASSUME TypeOK, CreatorInv, NEW c \in Calls, Refuse(c, "Internal"),
           ns' = ns, cluster' = cluster, masters' = masters
    PROVE  CreatorInv'
<1>1. Returns(c) /\ answer'[c].code = "Internal"
  BY OkRefuse
<1>2. /\ Alone(c) /\ call'[c].step \notin {"cluster", "master", "sets"}
      /\ call'[c].op # "DeleteCluster" /\ answer'[c].code # "OK"
  BY <1>1, IdleType DEF Returns
<1> QED
  BY <1>2, QuietStep

\* The first three steps of CreateCluster.
LEMMA NamespaceMade ==
    ASSUME TypeOK, HandlerInv, CreatorInv, NEW c \in Calls, CreateNamespace(c)
    PROVE  CreatorInv'
<1>1. CASE Refuse(c, "Internal") /\ UNCHANGED ns
  BY <1>1, RefusedCalls DEF CreateNamespace, clusterVars
<1>2. CASE /\ ns = "none" /\ ns' = "active" /\ UNCHANGED answer
           /\ call' = [call EXCEPT ![c].step = "cluster", ![c].did = TRUE]
  <2>0. /\ call \in [Calls -> Handler] /\ masters' = 0 /\ masters = 0 /\ UNCHANGED <<cluster, answer>>
        /\ call[c].op # "DeleteCluster"
        /\ \A d \in Calls : call[d].step \notin {"cluster", "master"}
    BY <1>2 DEF TypeOK, CreatorInv, SoleCreator, CreateNamespace, clusterVars
  <2>1. call'[c] = [call[c] EXCEPT !.step = "cluster", !.did = TRUE]
    BY <1>2, <2>0
  <2>2. call'[c].step = "cluster" /\ call'[c].op = call[c].op
    BY <2>0, <2>1 DEF Handler
  <2>3. \A d \in Calls \ {c} : call'[d] = call[d]
    BY <1>2, <2>0
  <2>4. SoleCreator'
    BY <1>2, <2>0, <2>2, <2>3 DEF CreatorInv, SoleCreator
  <2>5. CreatedInv'
    BY <1>2, <2>0, <2>2, <2>3 DEF CreatorInv, CreatedInv, Made, At
  <2> QED
    BY <2>0, <2>4, <2>5 DEF CreatorInv, SingleControlPlane
<1> QED
  BY <1>1, <1>2 DEF CreateNamespace, NamespaceTaken, CreatorInv, SoleCreator

LEMMA ClusterMade ==
    ASSUME TypeOK, HandlerInv, CreatorInv, NEW c \in Calls, CreateClusterObject(c)
    PROVE  CreatorInv'
<1>1. CASE Refuse(c, "Internal") /\ UNCHANGED cluster
  BY <1>1, RefusedCalls DEF CreateClusterObject, nsVars
<1>2. CASE Goto(c, "master") /\ ns = "active" /\ cluster' = [NoCluster EXCEPT !.live = TRUE]
  <2>0. /\ call \in [Calls -> Handler] /\ masters \in Nat /\ masters' = masters
        /\ ns' = "active" /\ call[c].step = "cluster"
        /\ call[c].op # "DeleteCluster"
    BY <1>2 DEF TypeOK, CreatorInv, SoleCreator, CreateClusterObject, nsVars, At
  <2>1. "master" \in Steps
    BY DEF Steps
  <2>2. /\ Alone(c) /\ UNCHANGED answer /\ call'[c].op = call[c].op /\ call'[c].step = "master"
    BY <1>2, <2>1, GotoMoves
  <2>3. masters = 0
    BY <2>0 DEF CreatorInv, SoleCreator
  <2>4. cluster'.live
    BY <1>2 DEF NoCluster
  <2>5. SoleCreator'
    <3>1. ASSUME NEW d \in Calls, call'[d].step \in {"cluster", "master"}
          PROVE  call[d].step \in {"cluster", "master"}
      BY <2>0, <2>2, <3>1 DEF Alone
    <3>2. \A d \in Calls : call'[d].op # "DeleteCluster"
      BY <2>0, <2>2 DEF Alone, CreatorInv, SoleCreator
    <3> QED
      BY <2>0, <2>3, <3>1, <3>2 DEF CreatorInv, SoleCreator
  <2>6. CreatedInv'
    BY <2>0, <2>2, <2>3, <2>4 DEF CreatorInv, CreatedInv, Made, At, Alone
  <2> QED
    BY <2>0, <2>3, <2>5, <2>6 DEF CreatorInv, SingleControlPlane
<1> QED
  BY <1>1, <1>2 DEF CreateClusterObject

LEMMA MasterMade ==
    ASSUME TypeOK, HandlerInv, CreatorInv, NEW c \in Calls, CreateControlPlane(c)
    PROVE  CreatorInv'
<1>1. CASE Refuse(c, "Internal") /\ UNCHANGED masters
  BY <1>1, RefusedCalls DEF CreateControlPlane, nsVars, clusterVars
<1>2. CASE Goto(c, "sets") /\ ns = "active" /\ masters' = masters + 1
  <2>0. /\ call \in [Calls -> Handler] /\ masters \in Nat /\ UNCHANGED <<ns, cluster>>
        /\ call[c].step = "master" /\ call[c].op # "DeleteCluster" /\ cluster.live
    BY <1>2 DEF TypeOK, CreatorInv, SoleCreator, CreatedInv, CreateControlPlane, nsVars,
       clusterVars, At
  <2>1. "sets" \in Steps
    BY DEF Steps
  <2>2. /\ Alone(c) /\ UNCHANGED answer /\ call'[c].op = call[c].op /\ call'[c].step = "sets"
    BY <1>2, <2>1, GotoMoves
  <2>3. masters = 0 /\ masters' = 1
    BY <1>2, <2>0 DEF CreatorInv, SoleCreator
  <2>4. \A d \in Calls \ {c} : call[d].step \notin {"cluster", "master"}
    BY <2>0 DEF CreatorInv, SoleCreator
  <2>5. \A d \in Calls : call'[d].step \notin {"cluster", "master"}
    BY <2>2, <2>4 DEF Alone
  <2>6. \A d \in Calls : call'[d].op # "DeleteCluster"
    BY <2>0, <2>2 DEF Alone, CreatorInv, SoleCreator
  <2>7. SoleCreator'
    BY <1>2, <2>0, <2>5, <2>6 DEF SoleCreator
  <2>8. Made'
    BY <1>2, <2>0, <2>3 DEF Made
  <2>9. CreatedInv'
    BY <2>5, <2>8 DEF CreatedInv, At
  <2> QED
    BY <2>3, <2>7, <2>9 DEF CreatorInv, SingleControlPlane
<1> QED
  BY <1>1, <1>2 DEF CreateControlPlane

LEMMA CreatorHandle ==
    ASSUME TypeOK, HandlerInv, CreatorInv, NEW c \in Calls, Handle(c)
    PROVE  CreatorInv'
<1>1. CASE call[c].op # "CreateCluster"
  BY <1>1, OtherCalls
<1>2. CASE CreateNamespace(c) \/ CreateClusterObject(c) \/ CreateControlPlane(c)
  BY <1>2, NamespaceMade, ClusterMade, MasterMade
<1>3. CASE call[c].op = "CreateCluster" /\ (CreateSet(c) \/ SetsCreated(c))
  <2>0. /\ call[c].step = "sets" /\ Made /\ UNCHANGED <<ns, cluster, masters>>
        /\ Returns(c) \/ Continues(c)
    BY <1>3, HandleMoves
       DEF CreateSet, SetsCreated, At, nsVars, clusterVars, CreatorInv, CreatedInv
  <2>1. Alone(c) /\ call'[c].op # "DeleteCluster"
    BY <1>3, <2>0, IdleType DEF Returns, Continues
  <2>2. call'[c].step \notin {"cluster", "master"}
    <3>1. call'[c].step \in Early => call[c].step \in Early
      BY EarlySteps
    <3> QED
      BY <2>0, <3>1 DEF Early
  <2> QED
    BY <2>0, <2>1, <2>2, QuietStep
<1>4. CASE /\ call[c].op = "CreateCluster"
           /\ ~(CreateNamespace(c) \/ CreateClusterObject(c) \/ CreateControlPlane(c))
           /\ ~(CreateSet(c) \/ SetsCreated(c))
  <2>1. OnPath(call[c])
    BY Paths
  <2>2. call[c].step \in {"namespace", "cluster", "master", "sets"}
    <3>1. call[c].step \in Steps /\ call[c].step # "idle"
      BY EarlySteps DEF TypeOK, Handler
    <3> QED
      BY <1>4, <2>1, <3>1 DEF OnPath, Steps
  <2> QED
    BY <1>4, <2>2
       DEF Handle, GetKubeConfig, GetClusterObject, DeleteClusterObject, GetNamespace,
       DeleteNamespace, UpdateCluster, GetSet, WriteSet, SetsWritten, At
<1> QED
  BY <1>1, <1>2, <1>3, <1>4

LEMMA CreatorOthers ==
    ASSUME TypeOK, CreatorInv, Others \/ UNCHANGED vars
    PROVE  CreatorInv'
<1>1. UNCHANGED <<call, answer>> /\ ns # "terminating"
  BY OthersTyped DEF CreatorInv, SoleCreator
<1>2. ns' = ns /\ masters' = masters /\ cluster'.live = cluster.live
  <2>1. CASE ClusterAdvances
    <3>1. CASE cluster' = [cluster EXCEPT !.phase = "Reconciling"]
      BY <2>1, <3>1 DEF ClusterAdvances, TypeOK, ClusterObj, nsVars
    <3>2. CASE cluster' = [cluster EXCEPT !.phase = "Running"]
      BY <2>1, <3>2 DEF ClusterAdvances, TypeOK, ClusterObj, nsVars
    <3> QED
      BY <2>1, <3>1, <3>2 DEF ClusterAdvances
  <2>2. CASE ~ClusterAdvances
    BY <1>1, <2>2 DEF Others, RefreshNamespace, RefreshCluster, RefreshSecret, NamespaceGoes,
       KubeconfigStored, RefreshPool, StatusWritten, nsVars, clusterVars, vars
  <2> QED
    BY <2>1, <2>2
<1> QED
  BY <1>1, <1>2 DEF CreatorInv, SoleCreator, CreatedInv, SingleControlPlane, Made, At

LEMMA CreatorRequest ==
    ASSUME TypeOK, CreatorInv, "DeleteCluster" \notin Ops, NEW c \in Calls, Request(c)
    PROVE  CreatorInv'
<1>1. /\ Alone(c) /\ call'[c].step \notin {"cluster", "master", "sets"}
      /\ call'[c].op # "DeleteCluster" /\ answer'[c].code # "OK"
      /\ UNCHANGED <<ns, cluster, masters>>
  BY RequestMoves, IdleType
<1> QED
  BY <1>1, QuietStep

(***************************************************************************)
(* The gateway's handlers.                                                 *)
(***************************************************************************)
HttpObj == [stage : {"none", "annotate", "request", "waiting", "reading"},
            rpc : DOMAIN Patterns, ctx : {"alive", "canceling", "canceled"}]

FrontTyped == http \in [Calls -> HttpObj] /\ got \in [Calls -> Codes] /\ giveups \in 0 .. MaxGiveUps

LEMMA RpcsRouted == Rpcs \subseteq DOMAIN Patterns
<1>1. \A r \in AllOps \cup {"GetClusterList", "GetClusterNodesStatus", "GetVersionInformation",
                            "GetUpgradeClusterInformation"} : r \in DOMAIN Patterns
  BY DEF Patterns, AllOps
<1> QED
  BY <1>1, OpsAssumption, ReadsAssumption DEF Rpcs

\* One handler's request and answer.
Served(c, h, code) ==
    /\ h \in HttpObj /\ http' = [http EXCEPT ![c] = h]
    /\ code \in Codes /\ got' = [got EXCEPT ![c] = code]

LEMMA ServedTyped ==
    ASSUME FrontTyped, NEW c \in Calls, NEW h, NEW code, Served(c, h, code)
    PROVE  /\ http' \in [Calls -> HttpObj] /\ got' \in [Calls -> Codes]
           /\ http'[c] = h /\ got'[c] = code
           /\ \A d \in Calls \ {c} : http'[d] = http[d] /\ got'[d] = got[d]
BY DEF FrontTyped, Served

\* The step to a stage, and to an answer.
LEMMA StageServed ==
    ASSUME FrontTyped, NEW c \in Calls,
           NEW s \in {"none", "annotate", "request", "waiting", "reading"}, Stage(c, s)
    PROVE  /\ \E h \in HttpObj : /\ http' = [http EXCEPT ![c] = h]
                                 /\ h.stage = s /\ h.rpc = http[c].rpc
           /\ UNCHANGED got =>
                 \E h : Served(c, h, got[c]) /\ h.stage = s /\ h.rpc = http[c].rpc
<1> DEFINE g == [http[c] EXCEPT !.stage = s]
<1>1. http \in [Calls -> HttpObj] /\ http[c] \in HttpObj /\ got \in [Calls -> Codes]
  BY DEF FrontTyped
<1>2. g \in HttpObj /\ g.stage = s /\ g.rpc = http[c].rpc
  BY <1>1 DEF HttpObj
<1>3. http' = [http EXCEPT ![c] = g]
  BY <1>1 DEF Stage
<1> HIDE DEF g
<1>4. UNCHANGED got => got' = [got EXCEPT ![c] = got[c]] /\ got[c] \in Codes
  BY <1>1
<1> QED
  BY <1>2, <1>3, <1>4 DEF Served

LEMMA RespondServed ==
    ASSUME FrontTyped, NEW c \in Calls, NEW code \in Codes, Respond(c, code)
    PROVE  \E h : Served(c, h, code) /\ h.stage = "none"
<1>1. Stage(c, "none") /\ got' = [got EXCEPT ![c] = code]
  BY DEF Respond
<1>2. PICK h \in HttpObj : http' = [http EXCEPT ![c] = h] /\ h.stage = "none"
  BY <1>1, StageServed
<1>3. Served(c, h, code)
  BY <1>1, <1>2 DEF Served
<1> QED
  BY <1>2, <1>3

\* What a handler of the gateway does, of which the server sees the call only.
Answers(c, h, code) ==
    /\ UNCHANGED vars
    /\ \/ h.stage \in {"annotate", "request"}
       \/ h.stage = "none" /\ (code # "200" \/ http[c].stage = "none")
       \/ h.stage = "none" /\ http[c].stage = "waiting" /\ answer[c].code = "OK"

Calling(c, h) ==
    /\ h.rpc = http[c].rpc
    /\ \/ h.stage = "waiting" /\ Request(c) /\ call'[c].op = http[c].rpc
       \/ h.stage = "reading" /\ UNCHANGED vars /\ http[c].rpc \in Reads

ReadsOnly(c, h) ==
    /\ Fault \/ NoFault
    /\ h.stage = "none" /\ http[c].stage = "reading"
    /\ UNCHANGED <<nsVars, clusterVars, secretVars, masters, poolVars, call, answer, made>>

LEMMA GatewayMoves ==
    ASSUME FrontTyped, TypeOK, NEW c \in Calls, Gateway(c)
    PROVE  /\ giveups' \in 0 .. MaxGiveUps
           /\ \E h, code : /\ Served(c, h, code)
                           /\ \/ Answers(c, h, code) \/ Calling(c, h) \/ ReadsOnly(c, h)
                              \/ /\ UNCHANGED vars
                                 /\ h.stage = http[c].stage /\ h.rpc = http[c].rpc
<1> DEFINE Moves == \E h, code :
              /\ Served(c, h, code)
              /\ \/ Answers(c, h, code) \/ Calling(c, h) \/ ReadsOnly(c, h)
                 \/ /\ UNCHANGED vars
                    /\ h.stage = http[c].stage /\ h.rpc = http[c].rpc
<1>0. /\ http \in [Calls -> HttpObj] /\ http[c] \in HttpObj /\ got \in [Calls -> Codes]
      /\ got[c] \in Codes /\ giveups \in 0 .. MaxGiveUps
  BY DEF FrontTyped
<1>1. giveups' \in 0 .. MaxGiveUps
  BY <1>0, ReadsAssumption DEF Gateway, ServeHTTP, AnnotateContext, BadRequest, CallServer, ReadAnswered,
     Forward, GiveUp, CancelArrives, Respond
<1>2. CASE ServeHTTP(c)
  <2>1. CASE got' = [got EXCEPT ![c] = "405"] /\ UNCHANGED http
    <3>1. Served(c, http[c], "405")
      BY <1>0, <2>1 DEF Served, Codes
    <3>2. http[c].stage = "none" /\ UNCHANGED vars
      BY <1>2 DEF ServeHTTP
    <3> QED
      BY <1>1, <3>1, <3>2
  <2>2. ASSUME NEW r \in Rpcs,
               http' = [http EXCEPT ![c] = [stage |-> "annotate", rpc |-> r, ctx |-> "alive"]],
               got' = [got EXCEPT ![c] = "none"]
        PROVE  Moves
    <3> DEFINE h == [stage |-> "annotate", rpc |-> r, ctx |-> "alive"]
    <3>1. h \in HttpObj /\ h.stage = "annotate"
      BY RpcsRouted DEF HttpObj
    <3>2. http' = [http EXCEPT ![c] = h]
      BY <2>2
    <3> HIDE DEF h
    <3>3. Served(c, h, "none")
      BY <2>2, <3>1, <3>2 DEF Served, Codes
    <3>4. Answers(c, h, "none")
      BY <1>2, <3>1 DEF ServeHTTP, Answers
    <3> QED
      BY <3>3, <3>4
  <2> QED
    BY <1>1, <1>2, <2>1, <2>2 DEF ServeHTTP, Routed
<1>3. CASE AnnotateContext(c)
  <2>1. CASE Stage(c, "request") /\ UNCHANGED got
    <3>1. PICK h : Served(c, h, got[c]) /\ h.stage = "request"
      BY <2>1, StageServed
    <3>2. Answers(c, h, got[c])
      BY <1>3, <3>1 DEF AnnotateContext, Answers
    <3> QED
      BY <1>1, <3>1, <3>2
  <2>2. CASE Respond(c, "400")
    <3>1. PICK h : Served(c, h, "400") /\ h.stage = "none"
      BY <2>2, RespondServed DEF Codes
    <3>2. Answers(c, h, "400")
      BY <1>3, <3>1 DEF AnnotateContext, Answers
    <3> QED
      BY <1>1, <3>1, <3>2
  <2> QED
    BY <1>3, <2>1, <2>2 DEF AnnotateContext
<1>4. CASE BadRequest(c)
  <2>1. PICK h : Served(c, h, "400") /\ h.stage = "none"
    BY <1>4, RespondServed DEF BadRequest, Codes
  <2>2. Answers(c, h, "400")
    BY <1>4, <2>1 DEF BadRequest, Answers
  <2> QED
    BY <1>1, <2>1, <2>2
<1>5. CASE CallServer(c)
  <2>1. CASE Stage(c, "reading") /\ UNCHANGED vars /\ http[c].rpc \in Reads
    <3>1. PICK h : Served(c, h, got[c]) /\ h.stage = "reading" /\ h.rpc = http[c].rpc
      BY <1>5, <2>1, StageServed DEF CallServer
    <3>2. Calling(c, h)
      BY <2>1, <3>1 DEF Calling
    <3> QED
      BY <1>1, <3>1, <3>2
  <2>2. CASE Request(c) /\ call'[c].op = http[c].rpc /\ Stage(c, "waiting")
    <3>1. PICK h : Served(c, h, got[c]) /\ h.stage = "waiting" /\ h.rpc = http[c].rpc
      BY <1>5, <2>2, StageServed DEF CallServer
    <3>2. Calling(c, h)
      BY <2>2, <3>1 DEF Calling
    <3> QED
      BY <1>1, <3>1, <3>2
  <2> QED
    BY <1>5, <2>1, <2>2 DEF CallServer
<1>6. CASE ReadAnswered(c)
  <2>1. PICK code \in Codes : Respond(c, code)
    BY <1>6 DEF ReadAnswered, Codes
  <2>2. PICK h : Served(c, h, code) /\ h.stage = "none"
    BY <2>1, RespondServed
  <2>3. ReadsOnly(c, h)
    BY <1>6, <2>2 DEF ReadAnswered, ReadsOnly
  <2> QED
    BY <1>1, <2>2, <2>3
<1>7. CASE Forward(c)
  <2> DEFINE code == HttpCode(answer[c].code)
  <2>1. code \in Codes /\ (code = "200" => answer[c].code = "OK")
    BY DEF HttpCode, Codes
  <2>2. Respond(c, code) /\ http[c].stage = "waiting" /\ UNCHANGED vars
    BY <1>7 DEF Forward
  <2> HIDE DEF code
  <2>3. PICK h : Served(c, h, code) /\ h.stage = "none"
    BY <2>1, <2>2, RespondServed
  <2>4. Answers(c, h, code)
    BY <2>1, <2>2, <2>3 DEF Answers
  <2> QED
    BY <1>1, <2>3, <2>4
<1>8. CASE GiveUp(c)
  <2>1. PICK code \in {"none", "503", "504"} : got' = [got EXCEPT ![c] = code]
    BY <1>8 DEF GiveUp
  <2> DEFINE h == [http[c] EXCEPT !.stage = "none", !.ctx = "canceling"]
  <2>2. h \in HttpObj /\ h.stage = "none" /\ http' = [http EXCEPT ![c] = h]
    BY <1>0, <1>8 DEF GiveUp, HttpObj
  <2> HIDE DEF h
  <2>3. Served(c, h, code) /\ Answers(c, h, code)
    BY <1>8, <2>1, <2>2 DEF GiveUp, Served, Answers, Codes
  <2> QED
    BY <1>1, <2>3
<1>9. CASE CancelArrives(c)
  <2> DEFINE h == [http[c] EXCEPT !.ctx = "canceled"]
  <2>1. /\ h \in HttpObj /\ h.stage = http[c].stage /\ h.rpc = http[c].rpc
        /\ http' = [http EXCEPT ![c] = h]
    BY <1>0, <1>9 DEF CancelArrives, HttpObj
  <2> HIDE DEF h
  <2>2. Served(c, h, got[c]) /\ UNCHANGED vars
    BY <1>0, <1>9, <2>1 DEF CancelArrives, Served
  <2> QED
    BY <1>1, <2>1, <2>2
<1> QED
  BY <1>2, <1>3, <1>4, <1>5, <1>6, <1>7, <1>8, <1>9 DEF Gateway

\* A request, of which the server's handler goes on or returns.
LEMMA AnswerKept ==
    ASSUME OwnAnswer, UNCHANGED http, NEW c \in Calls, call[c].step # "idle",
           Returns(c) \/ Continues(c)
    PROVE  OwnAnswer'
<1>1. ASSUME NEW d \in Calls, d # c
      PROVE  call'[d] = call[d] /\ answer'[d] = answer[d] /\ http'[d] = http[d]
  BY <1>1 DEF Returns, Continues, Alone
<1>2. /\ http'[c].stage = "waiting" =>
           IF call'[c].step = "idle" THEN answer'[c].op = http'[c].rpc ELSE call'[c].op = http'[c].rpc
      /\ call'[c].step # "idle" => answer'[c].code = "none"
      /\ http'[c].stage = "reading" => http'[c].rpc \in Reads
  <2>1. CASE Returns(c)
    BY <2>1, IdleType DEF Returns, OwnAnswer, At
  <2>2. CASE Continues(c)
    BY <2>2 DEF Continues, OwnAnswer, At
  <2> QED
    BY <2>1, <2>2
<1> QED
  BY <1>1, <1>2 DEF OwnAnswer, At

LEMMA CancelStep ==
    ASSUME Typed, NEW c \in Calls, CancelledWrite(c)
    PROVE  Typed' /\ Returns(c) /\ call[c].step # "idle"
<1>0. TypeOK /\ HandlerInv /\ MastersCounted
  BY DEF Typed
<1>1. Returns(c) /\ call[c].step # "idle"
  BY <1>0, OkRefuse DEF CancelledWrite, Writes
<1>2. HandlerInv'
  BY <1>0, <1>1, PathKept, IdleType DEF Returns
<1>3. Creating' \subseteq Creating
  BY <1>1, IdleType DEF Returns, Alone, Creating
<1>4. /\ IsFiniteSet(Creating') /\ Cardinality(Creating') <= Cardinality(Creating)
      /\ Cardinality(Creating') \in Nat /\ Cardinality(Creating) \in Nat
  BY <1>0, <1>3, CreatingFinite
<1>5. masters' = masters /\ made' = made /\ masters \in Nat /\ made \in Nat
  BY <1>0 DEF CancelledWrite, TypeOK
<1>6. ObjectsTyped'
  <2>1. ccur' \in SUBSET (Calls \cup {"cache"})
    BY <1>0 DEF CancelledWrite, TypeOK
  <2>2. pcur' \in [Pools -> SUBSET (Calls \cup {"cache"})]
    BY <1>0 DEF CancelledWrite, TypeOK
  <2> QED
    BY <1>0, <2>1, <2>2 DEF CancelledWrite, TypeOK, ObjectsTyped, nsVars, secretVars
<1>7. MastersCounted'
  BY <1>0, <1>4, <1>5 DEF MastersCounted
<1> QED
  BY <1>1, <1>2, <1>4, <1>5, <1>6, <1>7, TypedAgain DEF Returns

GatewayInv == FrontTyped /\ Typed /\ OwnAnswer /\ CreatorInv

\* Where the server does not move.
LEMMA ServerRests ==
    ASSUME GatewayInv, FrontTyped', UNCHANGED <<call, answer>>, Typed', CreatorInv',
           NEW c \in Calls, \A d \in Calls \ {c} : http'[d] = http[d],
           http'[c].stage = "waiting" => http[c].stage = "waiting" /\ http'[c].rpc = http[c].rpc,
           http'[c].stage = "reading" => http'[c].rpc \in Reads
    PROVE  GatewayInv'
BY DEF GatewayInv, OwnAnswer, At

LEMMA FrontStep ==
    ASSUME GatewayInv, "DeleteCluster" \notin Ops, NEW c \in Calls, Gateway(c)
    PROVE  GatewayInv'
<1>0. FrontTyped /\ Typed /\ TypeOK /\ OwnAnswer /\ CreatorInv
  BY DEF GatewayInv, Typed
<1>1. PICK h, code : /\ Served(c, h, code)
                     /\ \/ Answers(c, h, code) \/ Calling(c, h) \/ ReadsOnly(c, h)
                        \/ /\ UNCHANGED vars
                           /\ h.stage = http[c].stage /\ h.rpc = http[c].rpc
  BY <1>0, GatewayMoves
<1>2. /\ http'[c] = h /\ \A d \in Calls \ {c} : http'[d] = http[d]
      /\ FrontTyped'
  BY <1>0, <1>1, ServedTyped, GatewayMoves DEF FrontTyped
<1>3. UNCHANGED vars => Typed' /\ CreatorInv' /\ UNCHANGED <<call, answer>>
  BY <1>0, OthersStep, CreatorOthers DEF vars
<1>4. CASE Answers(c, h, code)
  BY <1>2, <1>3, <1>4, ServerRests DEF Answers
<1>5. CASE Calling(c, h) /\ UNCHANGED vars
  <2>1. h.stage = "waiting" => ~UNCHANGED vars
    <3>1. ASSUME Request(c) PROVE call'[c] # call[c]
      BY <1>0, <3>1, RequestMoves
    <3> QED
      BY <1>3, <1>5, <3>1 DEF Calling
  <2> QED
    BY <1>2, <1>3, <1>5, <2>1, ServerRests DEF Calling
<1>6. CASE Calling(c, h) /\ Request(c) /\ h.stage = "waiting" /\ call'[c].op = http[c].rpc
  <2>1. Typed' /\ CreatorInv'
    BY <1>0, <1>6, RequestStep, CreatorRequest
  <2>2. /\ Alone(c) /\ answer'[c].code = "none" /\ call'[c].step # "idle"
        /\ call'[c].op = http'[c].rpc /\ http'[c].stage = "waiting"
    BY <1>0, <1>2, <1>6, RequestMoves, IdleType DEF Calling
  <2>3. OwnAnswer'
    BY <1>0, <1>2, <2>2 DEF OwnAnswer, Alone, At
  <2> QED
    BY <1>2, <2>1, <2>3 DEF GatewayInv
<1>7. CASE ReadsOnly(c, h)
  <2>1. UNCHANGED <<call, answer>> /\ CreatorInv'
    BY <1>0, <1>7 DEF ReadsOnly, nsVars, clusterVars, CreatorInv, SoleCreator, CreatedInv,
       SingleControlPlane, Made, At
  <2>2. Typed'
    <3>1. faults' \in 0 .. MaxFaults
      BY <1>0, <1>7, FaultTyped DEF ReadsOnly
    <3>2. TypeOK'
      BY <1>0, <1>7, <3>1 DEF ReadsOnly, TypeOK, nsVars, clusterVars, secretVars, poolVars
    <3>3. HandlerInv' /\ MastersCounted'
      BY <1>0, <1>7 DEF ReadsOnly, Typed, HandlerInv, MastersCounted, Creating, At
    <3> QED
      BY <3>2, <3>3 DEF Typed
  <2> QED
    BY <1>2, <1>7, <2>1, <2>2, ServerRests DEF ReadsOnly
<1>8. CASE UNCHANGED vars /\ h.stage = http[c].stage /\ h.rpc = http[c].rpc
  <2>1. h.stage = "reading" => h.rpc \in Reads
    BY <1>0, <1>8 DEF OwnAnswer
  <2> QED
    BY <1>2, <1>3, <1>8, <2>1, ServerRests
<1> QED
  BY <1>1, <1>4, <1>5, <1>6, <1>7, <1>8 DEF Calling

LEMMA GatewayStep ==
    ASSUME GatewayInv, "DeleteCluster" \notin Ops, [GatewayNext]_allVars
    PROVE  GatewayInv'
<1>0. FrontTyped /\ Typed /\ TypeOK /\ HandlerInv /\ OwnAnswer /\ CreatorInv
  BY DEF GatewayInv, Typed
<1>1. UNCHANGED gatewayVars => FrontTyped' /\ UNCHANGED http
  BY <1>0 DEF gatewayVars, FrontTyped
<1>2. ASSUME NEW c \in Calls, Proceed(c) PROVE GatewayInv'
  <2>1. Handle(c) /\ UNCHANGED gatewayVars
    BY <1>2 DEF Proceed
  <2>2. Typed' /\ CreatorInv'
    BY <1>0, <2>1, HandleStep, CreatorHandle
  <2>3. OwnAnswer'
    BY <1>0, <1>1, <2>1, HandleMoves, EarlySteps, AnswerKept
  <2> QED
    BY <1>1, <2>1, <2>2, <2>3 DEF GatewayInv
<1>3. ASSUME NEW c \in Calls, CancelledWrite(c) PROVE GatewayInv'
  <2>1. /\ UNCHANGED gatewayVars /\ Refuse(c, "Internal")
        /\ ns' = ns /\ cluster' = cluster /\ masters' = masters
    BY <1>3 DEF CancelledWrite, nsVars
  <2>2. Typed' /\ Returns(c) /\ call[c].step # "idle"
    BY <1>0, <1>3, CancelStep
  <2>3. CreatorInv' /\ OwnAnswer'
    BY <1>0, <1>1, <2>1, <2>2, RefusedCalls, AnswerKept
  <2> QED
    BY <1>1, <2>1, <2>2, <2>3 DEF GatewayInv
<1>4. CASE (Others \/ UNCHANGED vars) /\ UNCHANGED gatewayVars
  <2>1. Typed' /\ CreatorInv' /\ UNCHANGED <<call, answer>>
    BY <1>0, <1>4, OthersStep, CreatorOthers, OthersTyped
  <2>2. OwnAnswer'
    BY <1>0, <1>1, <1>4, <2>1 DEF OwnAnswer, At
  <2> QED
    BY <1>1, <1>4, <2>1, <2>2 DEF GatewayInv
<1> QED
  BY <1>2, <1>3, <1>4, FrontStep DEF GatewayNext, allVars

LEMMA GatewayStarts == GatewayInit => GatewayInv
<1> SUFFICES ASSUME GatewayInit PROVE GatewayInv
  OBVIOUS
<1>1. Typed /\ Init
  BY TypedInit DEF GatewayInit
<1>2. FrontTyped
  <2>1. "GetCluster" \in DOMAIN Patterns
    BY DEF Patterns
  <2>2. [stage |-> "none", rpc |-> "GetCluster", ctx |-> "alive"] \in HttpObj
    BY <2>1 DEF HttpObj
  <2> QED
    BY <2>2, ReadsAssumption DEF GatewayInit, FrontTyped, Codes
<1>3. \A c \in Calls : /\ call[c].step = "idle" /\ call[c].op = "GetCluster"
                       /\ answer[c].code = "none" /\ http[c].stage = "none"
  BY IdleType DEF GatewayInit, Init
<1>4. OwnAnswer
  BY <1>3 DEF OwnAnswer, At
<1>5. ns = "none" /\ masters = 0
  BY <1>1 DEF Init
<1>6. CreatorInv
  BY <1>3, <1>5 DEF CreatorInv, SoleCreator, CreatedInv, SingleControlPlane, At
<1> QED
  BY <1>1, <1>2, <1>4, <1>6 DEF GatewayInv

LEMMA GatewayHolds == ASSUME "DeleteCluster" \notin Ops PROVE GatewaySpec => []GatewayInv
<1>1. GatewayInv /\ [GatewayNext]_allVars => GatewayInv'
  BY GatewayStep
<1> QED
  BY GatewayStarts, <1>1, PTL DEF GatewaySpec

\* "currently only creates 1 machine": however many CreateClusters run, fail,
\* are given up or tried again, one makes a control plane machine.
THEOREM OneControlPlane ==
    ASSUME "DeleteCluster" \notin Ops PROVE GatewaySpec => []SingleControlPlane
<1>1. GatewayInv => SingleControlPlane
  BY DEF GatewayInv, CreatorInv
<1> QED
  BY <1>1, GatewayHolds, PTL

\* A 200 to a CreateCluster is the answer to this request, and its cluster is
\* there.
THEOREM OkWhenMade == ASSUME "DeleteCluster" \notin Ops PROVE GatewaySpec => OkMeansMade
<1> DEFINE Means == \A c \in Calls : GotNow(c, "CreateCluster", {"200"}) =>
                       ns = "active" /\ cluster.live /\ masters = 1
<1>1. GatewayInv /\ [GatewayNext]_allVars => Means
  <2> SUFFICES ASSUME GatewayInv, [GatewayNext]_allVars, NEW c \in Calls,
                      http[c].stage # "none", http'[c].stage = "none",
                      http[c].rpc = "CreateCluster", got'[c] = "200"
               PROVE  Made
    BY DEF GotNow, Made
  <2>0. FrontTyped /\ TypeOK /\ OwnAnswer /\ CreatorInv
    BY DEF GatewayInv, Typed
  <2>1. ~UNCHANGED gatewayVars
    BY DEF gatewayVars
  <2>2. PICK d \in Calls : Gateway(d)
    BY <2>1 DEF GatewayNext, Proceed, CancelledWrite, allVars
  <2>3. PICK h, code : /\ Served(d, h, code)
                       /\ \/ Answers(d, h, code) \/ Calling(d, h) \/ ReadsOnly(d, h)
                          \/ /\ UNCHANGED vars
                             /\ h.stage = http[d].stage /\ h.rpc = http[d].rpc
    BY <2>0, <2>2, GatewayMoves
  <2>4. d = c /\ h.stage = "none" /\ code = "200"
    BY <2>0, <2>3, ServedTyped
  <2>5. ~ReadsOnly(d, h)
    BY <2>0, <2>4, ReadsAssumption DEF ReadsOnly, OwnAnswer
  <2>6. http[c].stage = "waiting" /\ answer[c].code = "OK"
    BY <2>3, <2>4, <2>5 DEF Answers, Calling
  <2>7. answer[c].op = "CreateCluster"
    BY <2>0, <2>6 DEF OwnAnswer
  <2> QED
    BY <2>0, <2>6, <2>7 DEF CreatorInv, CreatedInv
<1> HIDE DEF Means
<1>2. GatewaySpec => [][Means]_allVars
  BY <1>1, GatewayHolds, PTL DEF GatewaySpec
<1> USE DEF Means
<1> QED
  BY <1>2 DEF OkMeansMade

=============================================================================
