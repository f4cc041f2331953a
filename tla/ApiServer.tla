------------------------------ MODULE ApiServer ------------------------------
(***************************************************************************)
(* The gRPC server: concurrent calls about one cluster name, each a        *)
(* sequence of requests to the API server and reads of informer caches.    *)
(* No call locks anything, none undoes what it has done before it fails.   *)
(*                                                                         *)
(* Of an object the calls tell apart whether it exists and, for an Update, *)
(* who holds a current copy of it ("cache" and the calls).                 *)
(***************************************************************************)
EXTENDS Naturals, FiniteSets

CONSTANTS
    Calls,      \* handlers that may run at the same time
    Pools,      \* names of node pools
    Ops,        \* the calls clients make
    MaxCalls,   \* bound on the calls made
    MaxFaults   \* bound on requests that fail

AllOps == {"CreateCluster", "GetCluster", "DeleteCluster", "UpgradeCluster",
           "AddNodePool", "DeleteNodePool", "ScaleNodePool"}

ASSUME CallsAssumption == IsFiniteSet(Calls)
ASSUME OpsAssumption == Ops \subseteq AllOps
ASSUME BoundsAssumption == MaxCalls \in Nat /\ MaxFaults \in Nat

VARIABLES
    ns, vns,               \* the namespace and the informer's view of it
    cluster, vcluster, ccur,
    kube, vkube,           \* the secret holds a kubeconfig
    masters,               \* control plane machines in the namespace
    pool, vpool, pcur,     \* the machine sets
    call,                  \* what each handler does
    answer,                \* the last answer of each handler
    made, faults           \* how much of the bounds is used

vars == <<ns, vns, cluster, vcluster, ccur, kube, vkube, masters, pool, vpool, pcur,
          call, answer, made, faults>>

Phase == {"", "Reconciling", "Running"}
ClusterObj == [live : BOOLEAN, phase : Phase]
NoCluster == [live |-> FALSE, phase |-> ""]

Status == {"STATUS_UNSPECIFIED", "PROVISIONING", "RUNNING", "RECONCILING"}

Verbatim(phase) == phase

\* TranslateClusterStatus, for the phases a controller writes.
TranslateClusterStatus(phase) ==
    CASE phase = "" -> "STATUS_UNSPECIFIED"
      [] phase = "Running" -> "RUNNING"
      [] phase = "Reconciling" -> "RECONCILING"

Steps == {"idle", "namespace", "cluster", "master", "sets", "secret", "get", "delete",
          "getns", "deletens", "update", "getset", "writeset"}

Handler == [op : AllOps, step : Steps,
            left : SUBSET Pools,          \* pools of the request still to be done
            pool : SUBSET Pools,          \* the pool a copy is held of
            did : BOOLEAN,                \* the call has created something
            kube : BOOLEAN]               \* GetCluster has read a kubeconfig

NoAnswer == [op |-> "GetCluster", code |-> "none", did |-> FALSE, status |-> "PROVISIONING",
             kube |-> FALSE]

Answer == [op : AllOps, code : {"none", "OK", "NotFound", "Internal"}, did : BOOLEAN,
           status : Status, kube : BOOLEAN]

Idle == [op |-> "GetCluster", step |-> "idle", left |-> {}, pool |-> {},
         did |-> FALSE, kube |-> FALSE]

TypeOK ==
    /\ ns \in {"none", "active", "terminating"} /\ vns \in BOOLEAN
    /\ cluster \in ClusterObj /\ vcluster \in ClusterObj /\ ccur \in SUBSET (Calls \cup {"cache"})
    /\ kube \in BOOLEAN /\ vkube \in BOOLEAN /\ masters \in 0 .. MaxCalls
    /\ pool \in SUBSET Pools /\ vpool \in SUBSET Pools
    /\ pcur \in [Pools -> SUBSET (Calls \cup {"cache"})]
    /\ call \in [Calls -> Handler] /\ answer \in [Calls -> Answer]
    /\ made \in 0 .. MaxCalls /\ faults \in 0 .. MaxFaults

Init ==
    /\ ns = "none" /\ vns = FALSE
    /\ cluster = NoCluster /\ vcluster = NoCluster /\ ccur = {"cache"}
    /\ kube = FALSE /\ vkube = FALSE /\ masters = 0
    /\ pool = {} /\ vpool = {} /\ pcur = [p \in Pools |-> {"cache"}]
    /\ call = [c \in Calls |-> Idle] /\ answer = [c \in Calls |-> NoAnswer]
    /\ made = 0 /\ faults = 0

nsVars == <<ns, vns>>
clusterVars == <<cluster, vcluster, ccur>>
secretVars == <<kube, vkube>>
poolVars == <<pool, vpool, pcur>>

CopiedBy(h, cur) == IF "cache" \in cur THEN cur \cup {h} ELSE cur \ {h}
Fault == faults < MaxFaults /\ faults' = faults + 1
NoFault == UNCHANGED faults

(***************************************************************************)
(* A handler's answer, and its next step.                                  *)
(***************************************************************************)
Goto(c, step) == call' = [call EXCEPT ![c].step = step] /\ UNCHANGED answer

Reply(c, code, status) ==
    /\ answer' = [answer EXCEPT ![c] =
          [op |-> call[c].op, code |-> code, did |-> call[c].did,
           status |-> status, kube |-> call[c].kube]]
    /\ call' = [call EXCEPT ![c] = Idle]

Ok(c) == Reply(c, "OK", "PROVISIONING")
Refuse(c, code) == Reply(c, code, "PROVISIONING")

At(c, step) == call[c].step = step

(***************************************************************************)
(* CreateCluster                                                           *)
(***************************************************************************)
NamespaceTaken == ns # "none"

CreateNamespace(c) ==
    /\ At(c, "namespace")
    /\ \/ /\ NoFault /\ ~NamespaceTaken
          /\ ns' = "active"
          /\ call' = [call EXCEPT ![c].step = "cluster", ![c].did = TRUE]
          /\ UNCHANGED answer
       \/ /\ IF NamespaceTaken THEN NoFault ELSE Fault
          /\ Refuse(c, "Internal") /\ UNCHANGED ns
    /\ UNCHANGED <<vns, clusterVars, secretVars, masters, poolVars, made>>

CreateClusterObject(c) ==
    /\ At(c, "cluster")
    /\ LET taken == ns # "active" \/ cluster.live
       IN \/ /\ NoFault /\ ~taken
             /\ cluster' = [NoCluster EXCEPT !.live = TRUE] /\ ccur' = {}
             /\ Goto(c, "master")
          \/ /\ IF taken THEN NoFault ELSE Fault
             /\ Refuse(c, "Internal") /\ UNCHANGED <<cluster, ccur>>
    /\ UNCHANGED <<nsVars, vcluster, secretVars, masters, poolVars, made>>

RetriedControlPlane(c) ==
    /\ At(c, "master") /\ ns = "active" /\ masters' = masters + 1
    /\ \/ NoFault /\ Goto(c, "sets")
       \/ Fault /\ UNCHANGED <<call, answer>>
    /\ UNCHANGED <<nsVars, clusterVars, secretVars, poolVars, made>>

\* One machine, whatever the count of the request says.
CreateControlPlane(c) ==
    /\ At(c, "master")
    /\ \/ /\ NoFault /\ ns = "active"
          /\ masters' = masters + 1 /\ Goto(c, "sets")
       \/ /\ IF ns = "active" THEN Fault ELSE NoFault
          /\ Refuse(c, "Internal") /\ UNCHANGED masters
    /\ UNCHANGED <<nsVars, clusterVars, secretVars, poolVars, made>>

\* CreateCluster and AddNodePool create the machine sets of the request one by
\* one.  A fault also stands for a set that ValidateMachineSet refuses.
CreateSet(c) ==
    /\ At(c, "sets") /\ call[c].left # {}
    /\ \E p \in call[c].left :
          LET taken == ns # "active" \/ p \in pool
          IN \/ /\ NoFault /\ ~taken
                /\ pool' = pool \cup {p} /\ pcur' = [pcur EXCEPT ![p] = {}]
                /\ call' = [call EXCEPT ![c].left = @ \ {p}, ![c].did = TRUE]
                /\ UNCHANGED answer
             \/ /\ IF taken THEN NoFault ELSE Fault
                /\ Refuse(c, "Internal") /\ UNCHANGED <<pool, pcur>>
    /\ UNCHANGED <<nsVars, clusterVars, secretVars, masters, vpool, made>>

\* The app bundle is created last; that this fails is only logged.
SetsCreated(c) ==
    /\ At(c, "sets") /\ call[c].left = {} /\ Ok(c)
    /\ UNCHANGED <<nsVars, clusterVars, secretVars, masters, poolVars, made, faults>>

(***************************************************************************)
(* GetCluster: the secret first, then the cluster.                         *)
(***************************************************************************)
GetKubeConfig(c) ==
    /\ At(c, "secret")
    /\ call' = [call EXCEPT ![c].step = "get", ![c].kube = vkube]
    /\ UNCHANGED <<nsVars, clusterVars, secretVars, masters, poolVars, answer, made, faults>>

\* Every call but CreateCluster gets the cluster from the cache; a Get can fail
\* otherwise than by finding nothing.
AfterGet == [DeleteCluster |-> "delete", UpgradeCluster |-> "update",
             AddNodePool |-> "sets", DeleteNodePool |-> "getset", ScaleNodePool |-> "getset"]

GetClusterObject(c) ==
    /\ At(c, "get")
    /\ \/ /\ NoFault
          /\ IF ~vcluster.live THEN Refuse(c, "NotFound")
             ELSE IF call[c].op = "GetCluster"
                  THEN Reply(c, "OK", TranslateClusterStatus(vcluster.phase))
                  ELSE Goto(c, AfterGet[call[c].op])
          /\ ccur' = IF vcluster.live /\ call[c].op = "UpgradeCluster"
                     THEN CopiedBy(c, ccur) ELSE ccur
       \/ Fault /\ Refuse(c, "Internal") /\ UNCHANGED ccur
    /\ UNCHANGED <<nsVars, cluster, vcluster, secretVars, masters, poolVars, made>>

(***************************************************************************)
(* DeleteCluster                                                           *)
(***************************************************************************)
DeleteClusterObject(c) ==
    /\ At(c, "delete")
    /\ \/ /\ NoFault /\ cluster.live
          /\ cluster' = NoCluster /\ ccur' = {}
          /\ Goto(c, "getns")
       \/ /\ IF cluster.live THEN Fault ELSE NoFault
          /\ Refuse(c, "Internal") /\ UNCHANGED <<cluster, ccur>>
    /\ UNCHANGED <<nsVars, vcluster, secretVars, masters, poolVars, made>>

\* An error of this Get, not found or any other, is taken for success.
NamespaceSeen == vns

SkipNamespace(c) ==
    /\ At(c, "getns") /\ Ok(c)
    /\ UNCHANGED <<nsVars, clusterVars, secretVars, masters, poolVars, made, faults>>

InvertedGetNamespace(c) ==
    /\ At(c, "getns") /\ NoFault
    /\ IF NamespaceSeen THEN Refuse(c, "Internal") ELSE Goto(c, "deletens")
    /\ UNCHANGED <<nsVars, clusterVars, secretVars, masters, poolVars, made>>

GetNamespace(c) ==
    /\ At(c, "getns")
    /\ \/ NoFault /\ NamespaceSeen /\ Goto(c, "deletens")
       \/ (IF NamespaceSeen THEN Fault ELSE NoFault) /\ Ok(c)
    /\ UNCHANGED <<nsVars, clusterVars, secretVars, masters, poolVars, made>>

DeleteNamespace(c) ==
    /\ At(c, "deletens")
    /\ \/ NoFault /\ ns = "active" /\ ns' = "terminating" /\ Ok(c)
       \/ /\ IF ns = "active" THEN Fault ELSE NoFault
          /\ Refuse(c, "Internal") /\ UNCHANGED ns
    /\ UNCHANGED <<vns, clusterVars, secretVars, masters, poolVars, made>>

(***************************************************************************)
(* UpgradeCluster, and the node pool calls                                 *)
(***************************************************************************)
UpdateCluster(c) ==
    /\ At(c, "update")
    /\ LET accepted == c \in ccur /\ cluster.live
       IN \/ NoFault /\ accepted /\ ccur' = {} /\ Ok(c)
          \/ /\ IF accepted THEN Fault ELSE NoFault
             /\ Refuse(c, "Internal") /\ ccur' = ccur \ {c}
    /\ UNCHANGED <<nsVars, cluster, vcluster, secretVars, masters, poolVars, made>>

GetSet(c) ==
    /\ At(c, "getset") /\ call[c].left # {}
    /\ \/ /\ NoFault
          /\ \E p \in call[c].left :
                IF p \in vpool
                THEN /\ call' = [call EXCEPT ![c].step = "writeset", ![c].pool = {p},
                                            ![c].left = @ \ {p}]
                     /\ pcur' = [pcur EXCEPT ![p] = CopiedBy(c, @)]
                     /\ UNCHANGED answer
                ELSE Refuse(c, "NotFound") /\ UNCHANGED pcur
       \/ Fault /\ Refuse(c, "Internal") /\ UNCHANGED pcur
    /\ UNCHANGED <<nsVars, clusterVars, secretVars, masters, pool, vpool, made>>

\* DeleteNodePool deletes whatever has the name, ScaleNodePool updates the
\* copy it has got.
WriteSet(c) ==
    /\ At(c, "writeset")
    /\ \E p \in call[c].pool :
          LET scale == call[c].op = "ScaleNodePool"
              accepted == p \in pool /\ (scale => c \in pcur[p])
          IN \/ /\ NoFault /\ accepted
                /\ pool' = IF scale THEN pool ELSE pool \ {p}
                /\ pcur' = [pcur EXCEPT ![p] = {}]
                /\ call' = [call EXCEPT ![c].step = "getset", ![c].pool = {}]
                /\ UNCHANGED answer
             \/ /\ IF accepted THEN Fault ELSE NoFault
                /\ pcur' = [pcur EXCEPT ![p] = @ \ {c}]
                /\ Refuse(c, "Internal") /\ UNCHANGED pool
    /\ UNCHANGED <<nsVars, clusterVars, secretVars, masters, vpool, made>>

SetsWritten(c) ==
    /\ At(c, "getset") /\ call[c].left = {} /\ Ok(c)
    /\ UNCHANGED <<nsVars, clusterVars, secretVars, masters, poolVars, made, faults>>

\* A client calls; only requests about pools name any.
FirstStep(op) == CASE op = "CreateCluster" -> "namespace"
                   [] op = "GetCluster" -> "secret"
                   [] OTHER -> "get"

Request(c) ==
    /\ At(c, "idle") /\ made < MaxCalls /\ made' = made + 1
    /\ \E op \in Ops, S \in SUBSET Pools :
          /\ op \in {"GetCluster", "DeleteCluster", "UpgradeCluster"} => S = {}
          /\ call' = [call EXCEPT ![c] =
                [Idle EXCEPT !.op = op, !.step = FirstStep(op), !.left = S]]
    /\ answer' = [answer EXCEPT ![c] = NoAnswer]
    /\ UNCHANGED <<nsVars, clusterVars, secretVars, masters, poolVars, faults>>

Handle(c) ==
    \/ CreateNamespace(c) \/ CreateClusterObject(c) \/ CreateControlPlane(c)
    \/ CreateSet(c) \/ SetsCreated(c) \/ GetKubeConfig(c) \/ GetClusterObject(c)
    \/ DeleteClusterObject(c) \/ GetNamespace(c) \/ DeleteNamespace(c)
    \/ UpdateCluster(c) \/ GetSet(c) \/ WriteSet(c) \/ SetsWritten(c)

(***************************************************************************)
(* Informers, the namespace controller, the operator's controllers.        *)
(***************************************************************************)
RefreshNamespace ==
    /\ vns # (ns # "none") /\ vns' = (ns # "none")
    /\ UNCHANGED <<ns, clusterVars, secretVars, masters, poolVars, call, answer, made, faults>>

RefreshCluster ==
    /\ "cache" \notin ccur
    /\ vcluster' = cluster /\ ccur' = ccur \cup {"cache"}
    /\ UNCHANGED <<nsVars, cluster, secretVars, masters, poolVars, call, answer, made, faults>>

RefreshSecret ==
    /\ vkube # kube /\ vkube' = kube
    /\ UNCHANGED <<nsVars, clusterVars, kube, masters, poolVars, call, answer, made, faults>>

RefreshPool(p) ==
    /\ "cache" \notin pcur[p]
    /\ vpool' = IF p \in pool THEN vpool \cup {p} ELSE vpool \ {p}
    /\ pcur' = [pcur EXCEPT ![p] = @ \cup {"cache"}]
    /\ UNCHANGED <<nsVars, clusterVars, secretVars, masters, pool, call, answer, made, faults>>

\* A terminating namespace goes with everything in it.
NamespaceGoes ==
    /\ ns = "terminating" /\ ns' = "none"
    /\ cluster' = NoCluster /\ ccur' = IF cluster.live THEN {} ELSE ccur
    /\ kube' = FALSE /\ masters' = 0
    /\ pool' = {} /\ pcur' = [p \in Pools |-> IF p \in pool THEN {} ELSE pcur[p]]
    /\ UNCHANGED <<vns, vcluster, vkube, vpool, call, answer, made, faults>>

\* The cluster controller writes the phases, Running after the machine
\* controller has stored the kubeconfig.
ClusterAdvances ==
    /\ cluster.live /\ ns = "active"
    /\ \/ cluster.phase = "" /\ cluster' = [cluster EXCEPT !.phase = "Reconciling"]
       \/ cluster.phase = "Reconciling" /\ kube /\ cluster' = [cluster EXCEPT !.phase = "Running"]
    /\ ccur' = {}
    /\ UNCHANGED <<nsVars, vcluster, secretVars, masters, poolVars, call, answer, made, faults>>

KubeconfigStored ==
    /\ cluster.phase = "Reconciling" /\ masters > 0 /\ ns = "active" /\ ~kube /\ kube' = TRUE
    /\ UNCHANGED <<nsVars, clusterVars, vkube, masters, poolVars, call, answer, made, faults>>

\* The machine set controller writes a status.
StatusWritten(p) ==
    /\ p \in pool /\ pcur[p] # {} /\ pcur' = [pcur EXCEPT ![p] = {}]
    /\ UNCHANGED <<nsVars, clusterVars, secretVars, masters, pool, vpool, call, answer, made, faults>>

Others ==
    \/ RefreshNamespace \/ RefreshCluster \/ RefreshSecret \/ NamespaceGoes
    \/ ClusterAdvances \/ KubeconfigStored
    \/ \E p \in Pools : RefreshPool(p) \/ StatusWritten(p)

Next == Others \/ \E c \in Calls : Request(c) \/ Handle(c)

Spec == Init /\ [][Next]_vars

(***************************************************************************)
(* Properties                                                              *)
(***************************************************************************)

\* A handler is at a step of its call: a call that is no CreateCluster has no
\* way into the namespace, and only a DeleteCluster out of it.
StepsOf == [CreateCluster |-> {"namespace", "cluster", "master", "sets"},
            GetCluster |-> {"secret", "get"},
            DeleteCluster |-> {"get", "delete", "getns", "deletens"},
            UpgradeCluster |-> {"get", "update"}, AddNodePool |-> {"get", "sets"},
            DeleteNodePool |-> {"get", "getset", "writeset"},
            ScaleNodePool |-> {"get", "getset", "writeset"}]

HandlerInv == \A c \in Calls : At(c, "idle") \/ call[c].step \in StepsOf[call[c].op]

\* Each CreateCluster makes one control plane machine at most.
Creating == {c \in Calls : call[c].step \in {"namespace", "cluster", "master"}}
MastersCounted == masters + Cardinality(Creating) <= made

\* "currently only creates 1 machine": concurrent CreateClusters make one
\* control plane machine, since the namespace, created first, admits one of
\* them.  A DeleteCluster between the steps of a CreateCluster breaks it.
SingleControlPlane == masters <= 1

\* A call is in the middle of making or removing a cluster.
Tended == \E c \in Calls : call[c].step \in {"cluster", "getns", "deletens"}

Abandoned == ns = "active" /\ ~cluster.live /\ ~Tended

\* DeleteCluster overlooks the namespace: the cache does not show it.
Overlooked == \E c \in Calls : At(c, "getns") /\ ~vns

\* A namespace is left without its cluster and without a call that would make
\* or remove it, whatever the calls that race for its name, only where one of
\* the two writes of CreateCluster and DeleteCluster fails or DeleteCluster
\* overlooks the namespace.  Once left, no call can do anything about it:
\* DeleteCluster looks for the cluster and CreateCluster for a free name.
NoLeftovers ==
    [][~Abandoned /\ Abandoned' => faults' # faults \/ Overlooked]_vars

Answered(c, op, code) ==
    answer[c] = NoAnswer /\ answer'[c].op = op /\ answer'[c].code = code

\* "Could the cluster be destroyed": a DeleteCluster that answers Ok has begun
\* to delete the namespace, unless its read of it has failed or overlooked it.
DeletedMeansGone ==
    [][\A c \in Calls : Answered(c, "DeleteCluster", "OK") =>
          ns' # "active" \/ faults' # faults \/ Overlooked]_vars

=============================================================================
